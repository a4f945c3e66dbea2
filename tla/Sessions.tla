------------------------------- MODULE Sessions -------------------------------
(***************************************************************************)
(* Sign-in sessions: the refresh_tokens table behind auth_service.py and   *)
(* refresh_token_repository.py, the cookie all tabs of one browser share,  *)
(* and the fetch wrapper of frontend/src/api/client.ts in each tab, which  *)
(* answers a 401 with one refresh and one retry.                           *)
(*                                                                         *)
(* A refresh token is a row number.  A refresh consumes the row of the     *)
(* cookie and inserts its successor in one transaction; the consuming      *)
(* UPDATE locks the row until the commit.  The browser takes the new       *)
(* cookie from the answer, so an answer that is lost leaves it with a      *)
(* spent one.  A sign-out revokes the row its request named; the answer    *)
(* deletes the cookie, whatever it names by then, and the tab forgets its  *)
(* access token whether it gets that answer or not.                        *)
(***************************************************************************)
EXTENDS Naturals, Sequences, FiniteSets

CONSTANTS
  Tabs,          \* tabs of one browser
  Callers,       \* what may have an API call under way, one call each
  TabOf,         \* the tab of each caller
  OpenTabs,      \* the tabs that have their access token; the others just open
  MaxEvents,     \* bound: expired access tokens, failed calls, sign-ins and the like
  MaxSignOuts    \* bound: sign-outs under way at once

ASSUME SessionsAssumption ==
  /\ TabOf \in [Callers -> Tabs]
  /\ OpenTabs \subseteq Tabs /\ MaxEvents \in Nat /\ MaxSignOuts \in Nat

VARIABLES
  tokens,    \* the rows: their sign-in and their state
  cookie,    \* the row the browser's cookie names, 0 without a cookie
  access,    \* per tab: its access token, kept in memory
  refresh,   \* per tab: the refresh it has under way, with the cookie it sent
  stray,     \* cookies of refreshes their tab gave up on before they were served
  signOuts,  \* sign-outs not yet answered, with the cookie each sent
  orphaned,  \* history: rows whose successor or whose end no browser was told of
  call,      \* per caller: how far its API call is
  events

tokenVars == <<tokens, cookie, access, refresh, stray, signOuts, orphaned>>
sessionVars == <<tokenVars, call, events>>

NoRefresh == [at |-> "idle", token |-> 0, next |-> 0]

SessionsTypeOK ==
  /\ tokens \in Seq([signIn : 1..MaxEvents + 1, state : {"live", "used", "revoked"}])
  /\ cookie \in 0..Len(tokens)
  /\ access \in [Tabs -> {"new", "good", "stale", "none"}]
  /\ refresh \in [Tabs -> [at : {"idle", "sent", "consumed", "granted", "refused"},
                           token : 0..Len(tokens), next : 0..Len(tokens)]]
  /\ stray \subseteq 1..Len(tokens) /\ orphaned \subseteq 1..Len(tokens)
  /\ signOuts \subseteq
       [tab : Tabs, token : 0..Len(tokens), at : {"sent", "served", "forsaken"}]
  /\ call \in [Callers -> {"idle", "denied", "waiting", "asked", "served", "failed"}]
  /\ events \in 0..MaxEvents
  \* a waiting caller has a refresh to wait for
  /\ \A c \in Callers : call[c] = "waiting" => refresh[TabOf[c]].at # "idle"

\* One sign-in; a tab that has just opened has no access token yet.
SessionsInit ==
  /\ tokens = <<[signIn |-> 1, state |-> "live"]>>
  /\ cookie = 1
  /\ access = [t \in Tabs |-> IF t \in OpenTabs THEN "good" ELSE "new"]
  /\ refresh = [t \in Tabs |-> NoRefresh]
  /\ stray = {} /\ signOuts = {} /\ orphaned = {}
  /\ call = [c \in Callers |-> "idle"]
  /\ events = 0

\* The predicate of the consuming UPDATE.
IsLive(k) == k # 0 /\ tokens[k].state = "live"

\* An open transaction holds the row: other updates of it wait.
RowLocked(k) == \E t \in Tabs : refresh[t].at = "consumed" /\ refresh[t].token = k

SignIns == {tokens[k].signIn : k \in DOMAIN tokens}
LiveOf(s) == {k \in DOMAIN tokens : tokens[k].signIn = s /\ IsLive(k)}

(***************************************************************************)
(* The client.                                                             *)
(***************************************************************************)

\* apiFetch sends the request, with whatever access token the tab has.
Ask(c) ==
  call' = [call EXCEPT ![c] =
             IF access[TabOf[c]] = "good" THEN "asked" ELSE "denied"]

\* A 401: the caller waits for the tab's refresh, and starts it if need be.
JoinRefresh(c) ==
  LET t == TabOf[c] IN
  /\ call[c] = "denied"
  /\ call' = [call EXCEPT ![c] = "waiting"]
  /\ refresh' = IF refresh[t].at = "idle"
                THEN [refresh EXCEPT ![t] = [NoRefresh EXCEPT !.at = "sent", !.token = cookie]]
                ELSE refresh
  /\ UNCHANGED <<tokens, cookie, access, stray, signOuts, orphaned, events>>

\* Broken variant: the refresh ends without waking its callers.
Resolve_Silent(t, ok) ==
  /\ refresh' = [refresh EXCEPT ![t] = NoRefresh]
  /\ access' = [access EXCEPT ![t] = IF ok THEN "good" ELSE "none"]
  /\ UNCHANGED call

\* The refresh of tab t ends: its callers retry their request, or fail.
Resolve(t, ok) ==
  /\ refresh' = [refresh EXCEPT ![t] = NoRefresh]
  /\ access' = [access EXCEPT ![t] = IF ok THEN "good" ELSE "none"]
  /\ call' = [c \in Callers |->
                IF TabOf[c] = t /\ call[c] = "waiting"
                THEN IF ok THEN "asked" ELSE "failed"
                ELSE call[c]]

\* The answer of the server: the browser stores the cookie it sets, if any.
Answered(t) ==
  \/ /\ refresh[t].at = "granted"
     /\ cookie' = refresh[t].next
     /\ Resolve(t, TRUE)
     /\ UNCHANGED <<tokens, stray, signOuts, orphaned, events>>
  \/ /\ refresh[t].at = "refused"
     /\ Resolve(t, FALSE)
     /\ UNCHANGED <<tokens, cookie, stray, signOuts, orphaned, events>>

\* Eight seconds pass, or the connection breaks.  What the server has not begun
\* it may still serve; what it has granted nobody learns.
GiveUp(t) ==
  /\ events < MaxEvents /\ events' = events + 1
  /\ refresh[t].at \in {"sent", "granted"}
  /\ stray' = stray \cup (IF refresh[t].at = "sent" THEN {refresh[t].token} \ {0} ELSE {})
  /\ orphaned' = orphaned \cup (IF refresh[t].at = "granted" THEN {refresh[t].token} ELSE {})
  /\ Resolve(t, FALSE)
  /\ UNCHANGED <<tokens, cookie, signOuts>>

\* The access token of a tab passes its exp.
Expire(t) ==
  /\ events < MaxEvents /\ events' = events + 1
  /\ access[t] = "good"
  /\ access' = [access EXCEPT ![t] = "stale"]
  /\ UNCHANGED <<tokens, cookie, refresh, stray, signOuts, orphaned, call>>

(***************************************************************************)
(* The server.                                                             *)
(***************************************************************************)

\* The rows once row k is used, with the row of its successor.
Rotated(k) ==
  Append([tokens EXCEPT ![k].state = "used"],
         [signIn |-> tokens[k].signIn, state |-> "live"])

\* Broken variant: the live row is looked up, and used later, without a lock.
Consume_NoLock(t) ==
  /\ refresh[t].at = "sent"
  /\ refresh' = [refresh EXCEPT ![t].at = IF IsLive(refresh[t].token)
                                          THEN "consumed" ELSE "refused"]
  /\ UNCHANGED <<tokens, cookie, access, stray, signOuts, orphaned, call, events>>

\* UPDATE ... WHERE live RETURNING: waits for the row, then finds it live or not.
Consume(t) ==
  /\ refresh[t].at = "sent" /\ ~RowLocked(refresh[t].token)
  /\ refresh' = [refresh EXCEPT ![t].at = IF IsLive(refresh[t].token)
                                          THEN "consumed" ELSE "refused"]
  /\ UNCHANGED <<tokens, cookie, access, stray, signOuts, orphaned, call, events>>

\* issue_tokens inserts the successor and commits both.
Issue(t) ==
  /\ refresh[t].at = "consumed"
  /\ tokens' = Rotated(refresh[t].token)
  /\ refresh' = [refresh EXCEPT ![t].at = "granted", ![t].next = Len(tokens')]
  /\ UNCHANGED <<cookie, access, stray, signOuts, orphaned, call, events>>

\* Broken variant: the consumption is committed before the successor is issued.
RollBack_Spends(t) ==
  /\ refresh[t].at = "consumed" /\ events < MaxEvents
  /\ tokens' = [tokens EXCEPT ![refresh[t].token].state = "used"]
  /\ refresh' = [refresh EXCEPT ![t].at = "refused"]
  /\ events' = events + 1
  /\ UNCHANGED <<cookie, access, stray, signOuts, orphaned, call>>

\* The issuance fails: the consumption is rolled back with it.
RollBack(t) ==
  /\ refresh[t].at = "consumed" /\ events < MaxEvents
  /\ refresh' = [refresh EXCEPT ![t].at = "refused"]
  /\ events' = events + 1
  /\ UNCHANGED <<tokens, cookie, access, stray, signOuts, orphaned, call>>

\* A refresh nobody waits for is served after all.
ServeStray(k) ==
  /\ k \in stray /\ ~RowLocked(k)
  /\ stray' = stray \ {k}
  /\ IF IsLive(k)
     THEN tokens' = Rotated(k) /\ orphaned' = orphaned \cup {k}
     ELSE UNCHANGED <<tokens, orphaned>>
  /\ UNCHANGED <<cookie, access, refresh, signOuts, call, events>>

\* signOut sends its request, or sends it again after a refresh, with the cookie
\* as it is now.
SignOut(c) ==
  /\ call[c] = "asked" \/ (call[c] = "idle" /\ access[TabOf[c]] = "good")
  /\ Cardinality(signOuts) < MaxSignOuts
  /\ signOuts' = signOuts \cup {[tab |-> TabOf[c], token |-> cookie, at |-> "sent"]}
  /\ call' = [call EXCEPT ![c] = "idle"]
  /\ UNCHANGED <<tokens, cookie, access, refresh, stray, orphaned, events>>

\* logout revokes the row the request named, whoever still waits for the answer;
\* a row that is used stays so, and its successor as it is.
ServeSignOut(o) ==
  /\ o \in signOuts /\ o.at # "served" /\ ~RowLocked(o.token)
  /\ tokens' = IF IsLive(o.token)
               THEN [tokens EXCEPT ![o.token].state = "revoked"] ELSE tokens
  /\ IF o.at = "sent"
     THEN /\ signOuts' = (signOuts \ {o}) \cup {[o EXCEPT !.at = "served"]}
          /\ UNCHANGED orphaned
     ELSE /\ signOuts' = signOuts \ {o}
          /\ orphaned' = orphaned \cup ({o.token} \ {0})
  /\ UNCHANGED <<cookie, access, refresh, stray, call, events>>

\* The answer: the browser deletes the cookie it has, finally forgets the token.
SignedOut(o) ==
  /\ o \in signOuts /\ o.at = "served"
  /\ signOuts' = signOuts \ {o}
  /\ cookie' = 0 /\ access' = [access EXCEPT ![o.tab] = "none"]
  /\ UNCHANGED <<tokens, refresh, stray, orphaned, call, events>>

\* The connection of a sign-out breaks: finally forgets the access token, the
\* cookie stays, and the server may serve the request after all.
LoseSignOut(o) ==
  /\ events < MaxEvents /\ events' = events + 1
  /\ o \in signOuts /\ o.at # "forsaken"
  /\ signOuts' = (signOuts \ {o}) \cup
       (IF o.at = "sent" THEN {[o EXCEPT !.at = "forsaken"]} ELSE {})
  /\ orphaned' = orphaned \cup (IF o.at = "served" THEN {o.token} \ {0} ELSE {})
  /\ access' = [access EXCEPT ![o.tab] = "none"]
  /\ UNCHANGED <<tokens, cookie, refresh, stray, call>>

\* A sign-in in a tab that was turned away: a row, a cookie, a reloaded page.
SignIn(t) ==
  /\ events < MaxEvents /\ events' = events + 1
  /\ access[t] = "none" /\ refresh[t].at = "idle"
  /\ \A c \in Callers : TabOf[c] = t => call[c] = "idle"
  /\ \A o \in signOuts : o.tab = t => o.at = "forsaken"
  /\ tokens' = Append(tokens, [signIn |-> events'+ 1,
                               state |-> "live"])
  /\ cookie' = Len(tokens')
  /\ UNCHANGED <<access, refresh, stray, signOuts, orphaned, call>>

\* What happens by itself: refreshes are joined, served and answered.
RefreshStep ==
  \/ \E c \in Callers : JoinRefresh(c)
  \/ \E t \in Tabs : Consume(t) \/ Issue(t) \/ Answered(t)

\* The sign-outs under way.
SignOutStep == \E o \in signOuts : ServeSignOut(o) \/ SignedOut(o)

\* What need not happen.
SessionFault ==
  \/ \E t \in Tabs : GiveUp(t) \/ RollBack(t) \/ Expire(t)
  \/ \E k \in stray : ServeStray(k)
  \/ \E o \in signOuts : LoseSignOut(o)

(***************************************************************************)
(* Properties.                                                             *)
(***************************************************************************)

\* refresh_token_repository.py:44-46: only one transaction can obtain a live
\* token.  However many tabs refresh, retry and give up, a sign-in has at most
\* one live row: every session descends from its sign-in in a single line.
OneLiveTokenPerSignIn ==
  \A s \in SignIns : Cardinality(LiveOf(s)) <= 1

\* The cookie of a browser opens its session, however issuances fail and tabs race
\* for it (auth_service.py:95-122), with these exceptions only: the answer that
\* replaces it by its successor, or deletes it after a sign-out, is on its way; or
\* that answer was lost, so that nobody was told what the server did to the row.
CookieOpensTheSession ==
  cookie # 0 =>
    \/ IsLive(cookie)
    \/ cookie \in orphaned
    \/ \E t \in Tabs : refresh[t].at = "granted" /\ refresh[t].token = cookie
    \/ \E o \in signOuts : o.at = "served" /\ o.token = cookie
===============================================================================
