----------------------------- MODULE SessionsProofs -----------------------------
(***************************************************************************)
(* Refresh tokens are single-use, for any number of tabs, calls and faults *)
(* and whatever the picks page does with them: the rows of a sign-in form  *)
(* a single line whose last row alone may be live.                         *)
(***************************************************************************)
EXTENDS PicksPage, FiniteSetTheorems, TLAPS

Rows == [signIn : Nat \ {0}, state : {"live", "used", "revoked"}]

Shape ==
  /\ tokens \in Seq(Rows)
  /\ events \in Nat
  /\ DOMAIN refresh = Tabs
  /\ stray \subseteq Nat

\* Sign-ins are numbered in the order in which they happen.
SignInsAreOld == \A k \in DOMAIN tokens : tokens[k].signIn <= events + 1

\* Two live rows are not of one sign-in.
LiveRowsDiffer ==
  \A j, k \in DOMAIN tokens :
    tokens[j].state = "live" /\ tokens[k].state = "live"
      /\ tokens[j].signIn = tokens[k].signIn => j = k

\* A row that is being consumed is live until its successor is inserted.
ConsumedIsLive ==
  \A t \in Tabs : refresh[t].at = "consumed" =>
    /\ refresh[t].token \in DOMAIN tokens
    /\ tokens[refresh[t].token].state = "live"
    /\ \A u \in Tabs : refresh[u].at = "consumed" /\ refresh[u].token = refresh[t].token
                         => u = t

SignOutsNaming(n) == [tab : Tabs, token : 0..n, at : {"sent", "served", "forsaken"}]

\* What the browser and the calls under way name are rows.
NamesAreRows ==
  /\ cookie \in 0..Len(tokens)
  /\ \A t \in Tabs : refresh[t].token \in 0..Len(tokens)
  /\ stray \subseteq 1..Len(tokens)
  /\ signOuts \subseteq SignOutsNaming(Len(tokens))
  /\ \A t \in Tabs : refresh[t].at = "granted" =>
       refresh[t].next \in 1..Len(tokens) /\ refresh[t].token \in 1..Len(tokens)

IInv == Shape /\ SignInsAreOld /\ LiveRowsDiffer /\ ConsumedIsLive /\ NamesAreRows

LEMMA RowTypes ==
  ASSUME IInv, NEW k \in DOMAIN tokens
  PROVE  tokens[k] \in Rows /\ tokens[k].signIn \in Nat
<1>1. tokens \in Seq(Rows)
  BY DEF IInv, Shape
<1>2. tokens[k] \in Rows
  BY <1>1
<1> QED BY <1>2 DEF Rows

LEMMA LiveRowsAreFew == IInv => OneLiveTokenPerSignIn
<1> SUFFICES ASSUME IInv, NEW s \in SignIns PROVE Cardinality(LiveOf(s)) <= 1
  BY DEF OneLiveTokenPerSignIn
<1>1. CASE LiveOf(s) = {}
  BY <1>1, FS_EmptySet
<1>2. CASE LiveOf(s) # {}
  <2>1. PICK k \in LiveOf(s) : TRUE
    BY <1>2
  <2>2. LiveOf(s) = {k}
    BY <2>1 DEF LiveOf, IsLive, IInv, LiveRowsDiffer
  <2> QED BY <2>2, FS_Singleton
<1> QED BY <1>1, <1>2

LEMMA InitHolds == PageInit => IInv
<1> SUFFICES ASSUME PageInit PROVE IInv
  OBVIOUS
<1>1. /\ tokens = <<[signIn |-> 1, state |-> "live"]>> /\ cookie = 1 /\ events = 0
      /\ refresh = [t \in Tabs |-> NoRefresh] /\ stray = {} /\ signOuts = {}
  BY DEF PageInit, SessionsInit
<1>2. tokens \in Seq(Rows) /\ Len(tokens) = 1 /\ DOMAIN tokens = {1}
  BY <1>1 DEF Rows
<1> QED BY <1>1, <1>2
    DEF IInv, Shape, SignInsAreOld, LiveRowsDiffer, ConsumedIsLive, NamesAreRows, NoRefresh

(***************************************************************************)
(* What a step may do to the rows.                                         *)
(***************************************************************************)

\* A row that is consumed and locked by nobody else is followed by one row.
LEMMA RotationKeepsTheLine ==
  ASSUME IInv, NEW k \in DOMAIN tokens, tokens[k].state = "live",
         tokens' = Rotated(k), events' = events
  PROVE  /\ tokens' \in Seq(Rows) /\ Len(tokens') = Len(tokens) + 1
         /\ SignInsAreOld' /\ LiveRowsDiffer'
         /\ \A j \in DOMAIN tokens \ {k} : tokens'[j] = tokens[j]
<1> DEFINE used == [tokens EXCEPT ![k].state = "used"]
           next == [signIn |-> tokens[k].signIn, state |-> "live"]
<1>1. tokens \in Seq(Rows) /\ k \in 1..Len(tokens) /\ tokens[k] \in Rows
  BY DEF IInv, Shape
<1>2. used \in Seq(Rows) /\ Len(used) = Len(tokens) /\ next \in Rows
  BY <1>1 DEF Rows
<1>3. tokens' = Append(used, next)
  BY DEF Rotated
<1> HIDE DEF next
<1>4. tokens' \in Seq(Rows) /\ Len(tokens') = Len(tokens) + 1
  BY <1>2, <1>3
<1>5. /\ \A j \in 1..Len(tokens) : tokens'[j] = used[j]
      /\ tokens'[Len(tokens) + 1] = next
  BY <1>2, <1>3
<1>6. /\ \A j \in 1..Len(tokens) \ {k} : tokens'[j] = tokens[j]
      /\ tokens'[k].signIn = tokens[k].signIn /\ tokens'[k].state = "used"
      /\ next.signIn = tokens[k].signIn /\ next.state = "live"
  BY <1>1, <1>5 DEF next, Rows
<1>7. DOMAIN tokens = 1..Len(tokens) /\ DOMAIN tokens' = 1..(Len(tokens) + 1)
      /\ Len(tokens) \in Nat
  BY <1>1, <1>4
<1>8. SignInsAreOld'
  BY <1>1, <1>5, <1>6, <1>7 DEF IInv, SignInsAreOld
<1>9. LiveRowsDiffer'
  <2> SUFFICES ASSUME NEW i \in 1..(Len(tokens) + 1), NEW j \in 1..(Len(tokens) + 1),
                      tokens'[i].state = "live", tokens'[j].state = "live",
                      tokens'[i].signIn = tokens'[j].signIn, i # j
               PROVE  FALSE
    BY <1>7 DEF LiveRowsDiffer
  <2>1. i # k /\ j # k
    BY <1>6
  <2>2. CASE i \in 1..Len(tokens) /\ j \in 1..Len(tokens)
    BY <2>1, <2>2, <1>6, <1>7 DEF IInv, LiveRowsDiffer
  <2>3. CASE i = Len(tokens) + 1 /\ j \in 1..Len(tokens)
    BY <2>1, <2>3, <1>5, <1>6, <1>7 DEF IInv, LiveRowsDiffer
  <2>4. CASE j = Len(tokens) + 1 /\ i \in 1..Len(tokens)
    BY <2>1, <2>4, <1>5, <1>6, <1>7 DEF IInv, LiveRowsDiffer
  <2> QED BY <2>2, <2>3, <2>4, <1>7
<1> QED BY <1>4, <1>6, <1>7, <1>8, <1>9

LEMMA NewRowIsLive ==
  ASSUME IInv, NEW k \in DOMAIN tokens, tokens' = Rotated(k)
  PROVE  tokens'[Len(tokens) + 1].state = "live"
<1> DEFINE used == [tokens EXCEPT ![k].state = "used"]
           next == [signIn |-> tokens[k].signIn, state |-> "live"]
<1>1. tokens \in Seq(Rows) /\ tokens[k] \in Rows
  BY DEF IInv, Shape
<1>2. used \in Seq(Rows) /\ Len(used) = Len(tokens) /\ next \in Rows /\ next.state = "live"
  BY <1>1 DEF Rows
<1>3. tokens' = Append(used, next)
  BY DEF Rotated
<1> HIDE DEF used, next
<1>4. tokens'[Len(tokens) + 1] = next
  BY <1>2, <1>3
<1> QED BY <1>2, <1>4

\* Steps that leave the rows alone, and the refreshes that hold one.
LEMMA RowsUntouched ==
  ASSUME IInv, UNCHANGED tokens, events' \in {events, events + 1},
         DOMAIN refresh' = Tabs,
         \A t \in Tabs : refresh'[t].at = "consumed" => refresh'[t] = refresh[t],
         \A t \in Tabs : refresh'[t].token \in 0..Len(tokens),
         \A t \in Tabs : refresh'[t].at = "granted" => refresh'[t] = refresh[t],
         cookie' \in 0..Len(tokens), stray' \subseteq 1..Len(tokens),
         signOuts' \subseteq SignOutsNaming(Len(tokens))
  PROVE  IInv'
<1>1. Shape'
  <2>1. Len(tokens) \in Nat
    BY DEF IInv, Shape
  <2> QED BY <2>1 DEF IInv, Shape
<1>2. SignInsAreOld'
  <2>1. \A k \in DOMAIN tokens : tokens[k].signIn \in Nat
    BY RowTypes
  <2>2. events \in Nat
    BY DEF IInv, Shape
  <2> QED BY <2>1, <2>2 DEF IInv, SignInsAreOld
<1>3. LiveRowsDiffer' /\ ConsumedIsLive'
  BY DEF IInv, LiveRowsDiffer, ConsumedIsLive
<1>4. NamesAreRows'
  BY DEF IInv, NamesAreRows
<1> QED BY <1>1, <1>2, <1>3, <1>4 DEF IInv

(***************************************************************************)
(* The steps.                                                              *)
(***************************************************************************)

LEMMA JoinPreserves ==
  ASSUME IInv, NEW c \in Callers, JoinRefresh(c)
  PROVE  IInv'
<1> DEFINE t == TabOf[c]
<1>1. t \in Tabs
  BY SessionsAssumption
<1>2. UNCHANGED <<tokens, cookie, stray, signOuts, events>>
  BY DEF JoinRefresh
<1>3. CASE refresh' = refresh
  BY <1>2, <1>3, RowsUntouched DEF IInv, Shape, NamesAreRows
<1>4. CASE refresh' = [refresh EXCEPT ![t] = [NoRefresh EXCEPT !.at = "sent", !.token = cookie]]
  <2>1. refresh'[t].at = "sent" /\ refresh'[t].token = cookie
    BY <1>1, <1>4 DEF IInv, Shape, NoRefresh
  <2>2. \A u \in Tabs \ {t} : refresh'[u] = refresh[u]
    BY <1>4 DEF IInv, Shape
  <2>3. DOMAIN refresh' = Tabs
    BY <1>4 DEF IInv, Shape
  <2> QED BY <1>2, <2>1, <2>2, <2>3, RowsUntouched DEF IInv, NamesAreRows
<1> QED BY <1>3, <1>4 DEF JoinRefresh

\* The end of a refresh, and the loss of one, touch no row.
LEMMA EndPreserves ==
  ASSUME IInv, NEW t \in Tabs, Answered(t) \/ GiveUp(t)
  PROVE  IInv'
<1>1. refresh' = [refresh EXCEPT ![t] = NoRefresh]
  BY DEF Answered, GiveUp, Resolve
<1>2. /\ DOMAIN refresh' = Tabs /\ refresh'[t].at = "idle" /\ refresh'[t].token = 0
      /\ \A u \in Tabs \ {t} : refresh'[u] = refresh[u]
  BY <1>1 DEF IInv, Shape, NoRefresh
<1>3. UNCHANGED <<tokens, signOuts>> /\ events' \in {events, events + 1}
  BY DEF Answered, GiveUp
<1>4. Len(tokens) \in Nat
  BY DEF IInv, Shape
<1>5. cookie' \in 0..Len(tokens) /\ stray' \subseteq 1..Len(tokens)
  <2>1. CASE Answered(t)
    <3>1. cookie' = cookie \/ (refresh[t].at = "granted" /\ cookie' = refresh[t].next)
      BY <2>1 DEF Answered
    <3>2. stray' = stray
      BY <2>1 DEF Answered
    <3> QED BY <1>4, <3>1, <3>2 DEF IInv, NamesAreRows
  <2>2. CASE GiveUp(t)
    <3>1. cookie' = cookie
      BY <2>2 DEF GiveUp
    <3>2. stray' \subseteq stray \cup ({refresh[t].token} \ {0})
      BY <2>2 DEF GiveUp
    <3>3. refresh[t].token \in 0..Len(tokens) /\ stray \subseteq 1..Len(tokens)
          /\ cookie \in 0..Len(tokens)
      BY DEF IInv, NamesAreRows
    <3>4. {refresh[t].token} \ {0} \subseteq 1..Len(tokens)
      BY <1>4, <3>3
    <3> QED BY <3>1, <3>2, <3>3, <3>4
  <2> QED BY <2>1, <2>2
<1>6. \A u \in Tabs : refresh'[u].token \in 0..Len(tokens)
  BY <1>2, <1>4 DEF IInv, NamesAreRows
<1>7. signOuts' \subseteq SignOutsNaming(Len(tokens))
  BY <1>3 DEF IInv, NamesAreRows
<1> QED BY <1>2, <1>3, <1>5, <1>6, <1>7, RowsUntouched

\* Only a live row that no open transaction holds is consumed.
LEMMA ConsumePreserves ==
  ASSUME IInv, NEW t \in Tabs, Consume(t)
  PROVE  IInv'
<1> DEFINE k == refresh[t].token
<1>1. /\ UNCHANGED <<tokens, cookie, stray, signOuts, events>> /\ ~RowLocked(k)
      /\ refresh' = [refresh EXCEPT ![t].at = IF IsLive(k) THEN "consumed" ELSE "refused"]
  BY DEF Consume
<1>2. /\ DOMAIN refresh' = Tabs /\ refresh'[t].token = k
      /\ refresh'[t].at = IF IsLive(k) THEN "consumed" ELSE "refused"
      /\ \A u \in Tabs \ {t} : refresh'[u] = refresh[u]
  BY <1>1 DEF IInv, Shape
<1>3. k \in 0..Len(tokens) /\ Len(tokens) \in Nat /\ DOMAIN tokens = 1..Len(tokens)
  BY DEF IInv, Shape, NamesAreRows
<1>4. CASE IsLive(k)
  <2>1. k \in DOMAIN tokens /\ tokens[k].state = "live"
    BY <1>3, <1>4 DEF IsLive
  <2>2. \A u \in Tabs : refresh[u].at = "consumed" => refresh[u].token # k
    BY <1>1 DEF RowLocked
  <2>3. ConsumedIsLive'
    BY <1>1, <1>2, <1>4, <2>1, <2>2 DEF IInv, ConsumedIsLive
  <2>4. NamesAreRows'
    BY <1>1, <1>2, <1>4 DEF IInv, NamesAreRows
  <2>5. Shape' /\ SignInsAreOld' /\ LiveRowsDiffer'
    BY <1>1, <1>2 DEF IInv, Shape, SignInsAreOld, LiveRowsDiffer
  <2> QED BY <2>3, <2>4, <2>5 DEF IInv
<1>5. CASE ~IsLive(k)
  BY <1>1, <1>2, <1>5, RowsUntouched DEF IInv, NamesAreRows
<1> QED BY <1>4, <1>5

\* A row more leaves what the sign-outs name.
LEMMA SignOutsStillName ==
  ASSUME IInv, UNCHANGED signOuts, Len(tokens') = Len(tokens) + 1
  PROVE  signOuts' \subseteq SignOutsNaming(Len(tokens'))
<1>1. Len(tokens) \in Nat
  BY DEF IInv, Shape
<1>2. 0..Len(tokens) \subseteq 0..Len(tokens')
  BY <1>1
<1> QED BY <1>2 DEF IInv, NamesAreRows, SignOutsNaming

LEMMA IssuePreserves ==
  ASSUME IInv, NEW t \in Tabs, Issue(t)
  PROVE  IInv'
<1> DEFINE k == refresh[t].token
<1>1. /\ refresh[t].at = "consumed" /\ tokens' = Rotated(k)
      /\ refresh' = [refresh EXCEPT ![t].at = "granted", ![t].next = Len(tokens')]
      /\ UNCHANGED <<cookie, stray, signOuts, events>>
  BY DEF Issue
<1>2. /\ k \in DOMAIN tokens /\ tokens[k].state = "live"
      /\ \A u \in Tabs : refresh[u].at = "consumed" /\ refresh[u].token = k => u = t
  BY <1>1 DEF IInv, ConsumedIsLive
<1>3. /\ tokens' \in Seq(Rows) /\ Len(tokens') = Len(tokens) + 1
      /\ SignInsAreOld' /\ LiveRowsDiffer'
      /\ \A j \in DOMAIN tokens \ {k} : tokens'[j] = tokens[j]
  BY <1>1, <1>2, RotationKeepsTheLine
<1>4. Len(tokens) \in Nat /\ DOMAIN tokens = 1..Len(tokens) /\ DOMAIN tokens' = 1..Len(tokens')
  BY <1>3 DEF IInv, Shape
<1>5. /\ DOMAIN refresh' = Tabs /\ refresh'[t].token = k /\ refresh'[t].at = "granted"
      /\ refresh'[t].next = Len(tokens')
      /\ \A u \in Tabs \ {t} : refresh'[u] = refresh[u]
  BY <1>1 DEF IInv, Shape
<1>6. Shape'
  BY <1>1, <1>3, <1>5 DEF IInv, Shape
<1>7. ConsumedIsLive'
  BY <1>2, <1>3, <1>4, <1>5 DEF IInv, ConsumedIsLive
<1>8. NamesAreRows'
  BY <1>1, <1>2, <1>3, <1>4, <1>5, SignOutsStillName DEF IInv, NamesAreRows
<1> QED BY <1>3, <1>6, <1>7, <1>8 DEF IInv

LEMMA StrayPreserves ==
  ASSUME IInv, NEW k \in stray, ServeStray(k)
  PROVE  IInv'
<1>1. ~RowLocked(k) /\ stray' = stray \ {k} /\ UNCHANGED <<cookie, refresh, signOuts, events>>
  BY DEF ServeStray
<1>2. k \in 1..Len(tokens) /\ Len(tokens) \in Nat /\ DOMAIN tokens = 1..Len(tokens)
  BY DEF IInv, Shape, NamesAreRows
<1>3. CASE ~IsLive(k)
  <2>1. UNCHANGED tokens
    BY <1>3 DEF ServeStray
  <2> QED BY <1>1, <2>1, RowsUntouched DEF IInv, Shape, NamesAreRows
<1>4. CASE IsLive(k)
  <2>1. tokens' = Rotated(k) /\ tokens[k].state = "live"
    BY <1>4 DEF ServeStray, IsLive
  <2>2. /\ tokens' \in Seq(Rows) /\ Len(tokens') = Len(tokens) + 1
        /\ SignInsAreOld' /\ LiveRowsDiffer'
        /\ \A j \in DOMAIN tokens \ {k} : tokens'[j] = tokens[j]
    BY <1>1, <1>2, <2>1, RotationKeepsTheLine
  <2>3. DOMAIN tokens' = 1..Len(tokens')
    BY <2>2
  <2>4. \A u \in Tabs : refresh[u].at = "consumed" => refresh[u].token # k
    BY <1>1 DEF RowLocked
  <2>5. ConsumedIsLive'
    BY <1>1, <1>2, <2>2, <2>3, <2>4 DEF IInv, ConsumedIsLive
  <2>6. NamesAreRows'
    BY <1>1, <1>2, <2>2, SignOutsStillName DEF IInv, NamesAreRows
  <2>7. Shape'
    BY <1>1, <2>2 DEF IInv, Shape
  <2> QED BY <2>2, <2>5, <2>6, <2>7 DEF IInv
<1> QED BY <1>3, <1>4

\* Sending a sign-out, its answer and the loss of it touch no row.
LEMMA SignOutPreserves ==
  ASSUME IInv, NEW c \in Callers, SignOut(c)
  PROVE  IInv'
<1> DEFINE new == [tab |-> TabOf[c], token |-> cookie, at |-> "sent"]
<1>1. UNCHANGED <<tokens, cookie, refresh, stray, events>> /\ signOuts' = signOuts \cup {new}
  BY DEF SignOut
<1>2. new \in SignOutsNaming(Len(tokens))
  BY SessionsAssumption DEF IInv, NamesAreRows, SignOutsNaming
<1>3. signOuts' \subseteq SignOutsNaming(Len(tokens))
  BY <1>1, <1>2 DEF IInv, NamesAreRows
<1> QED BY <1>1, <1>3, RowsUntouched DEF IInv, Shape, NamesAreRows

\* How far a sign-out is does not change what it names.
LEMMA MovedSignOut ==
  ASSUME IInv, NEW o \in signOuts, NEW at \in {"sent", "served", "forsaken"}
  PROVE  LET moved == [o EXCEPT !.at = at] IN
         /\ moved \in SignOutsNaming(Len(tokens)) /\ o.token \in 0..Len(tokens)
         /\ moved.at = at /\ moved.token = o.token
<1>1. o \in SignOutsNaming(Len(tokens))
  BY DEF IInv, NamesAreRows
<1> QED BY <1>1 DEF SignOutsNaming

LEMMA SignOutEndPreserves ==
  ASSUME IInv, NEW o \in signOuts, SignedOut(o) \/ LoseSignOut(o)
  PROVE  IInv'
<1>1. /\ UNCHANGED <<tokens, refresh, stray>> /\ events' \in {events, events + 1}
      /\ cookie' \in {cookie, 0}
      /\ signOuts' \subseteq signOuts \cup {[o EXCEPT !.at = "forsaken"]}
  BY DEF SignedOut, LoseSignOut
<1>2. Len(tokens) \in Nat
  BY DEF IInv, Shape
<1>3. signOuts' \subseteq SignOutsNaming(Len(tokens))
  BY <1>1, MovedSignOut DEF IInv, NamesAreRows
<1> QED BY <1>1, <1>2, <1>3, RowsUntouched DEF IInv, Shape, NamesAreRows

\* Revoking a row that no open transaction holds.
LEMMA ServeSignOutPreserves ==
  ASSUME IInv, NEW o \in signOuts, ServeSignOut(o)
  PROVE  IInv'
<1> DEFINE k == o.token
<1>1. /\ ~RowLocked(k) /\ UNCHANGED <<cookie, refresh, stray, events>>
      /\ tokens' = IF IsLive(k) THEN [tokens EXCEPT ![k].state = "revoked"] ELSE tokens
      /\ signOuts' \subseteq signOuts \cup {[o EXCEPT !.at = "served"]}
  BY DEF ServeSignOut
<1>2. k \in 0..Len(tokens) /\ Len(tokens) \in Nat /\ DOMAIN tokens = 1..Len(tokens)
  BY DEF IInv, Shape, NamesAreRows, SignOutsNaming
<1>3. signOuts' \subseteq SignOutsNaming(Len(tokens))
  BY <1>1, MovedSignOut DEF IInv, NamesAreRows
<1>4. CASE ~IsLive(k)
  BY <1>1, <1>3, <1>4, RowsUntouched DEF IInv, Shape, NamesAreRows
<1>5. CASE IsLive(k)
  <2>1. k \in DOMAIN tokens /\ tokens' = [tokens EXCEPT ![k].state = "revoked"]
    BY <1>1, <1>2, <1>5 DEF IsLive
  <2>2. tokens[k] \in Rows /\ tokens \in Seq(Rows)
    BY <2>1 DEF IInv, Shape
  <2>3. /\ tokens' \in Seq(Rows) /\ Len(tokens') = Len(tokens) /\ DOMAIN tokens' = DOMAIN tokens
        /\ \A j \in DOMAIN tokens \ {k} : tokens'[j] = tokens[j]
        /\ tokens'[k].state = "revoked" /\ tokens'[k].signIn = tokens[k].signIn
    BY <2>1, <2>2 DEF Rows
  <2>4. \A t \in Tabs : refresh[t].at = "consumed" => refresh[t].token # k
    BY <1>1 DEF RowLocked
  <2>5. SignInsAreOld' /\ LiveRowsDiffer'
    BY <1>1, <2>1, <2>3 DEF IInv, SignInsAreOld, LiveRowsDiffer
  <2>6. ConsumedIsLive'
    BY <1>1, <2>3, <2>4 DEF IInv, ConsumedIsLive
  <2>7. NamesAreRows' /\ Shape'
    BY <1>1, <1>2, <1>3, <2>3 DEF IInv, NamesAreRows, Shape
  <2> QED BY <2>5, <2>6, <2>7 DEF IInv
<1> QED BY <1>4, <1>5

\* A sign-in begins a line of its own.
LEMMA SignInPreserves ==
  ASSUME IInv, NEW t \in Tabs, SignIn(t)
  PROVE  IInv'
<1> DEFINE next == [signIn |-> events' + 1, state |-> "live"]
<1>1. /\ events' = events + 1 /\ tokens' = Append(tokens, next) /\ cookie' = Len(tokens')
      /\ UNCHANGED <<refresh, stray, signOuts>>
  BY DEF SignIn
<1>2. tokens \in Seq(Rows) /\ events \in Nat /\ next \in Rows
  BY <1>1 DEF IInv, Shape, Rows
<1>3. /\ tokens' \in Seq(Rows) /\ Len(tokens') = Len(tokens) + 1 /\ Len(tokens) \in Nat
      /\ DOMAIN tokens = 1..Len(tokens) /\ DOMAIN tokens' = 1..(Len(tokens) + 1)
      /\ \A j \in 1..Len(tokens) : tokens'[j] = tokens[j]
      /\ tokens'[Len(tokens) + 1] = next
  BY <1>1, <1>2
<1>4. next.signIn = events + 2
  BY <1>1, <1>2
<1> HIDE DEF next
<1>5. \A j \in 1..Len(tokens) : tokens[j].signIn \in Nat /\ tokens[j].signIn <= events + 1
  BY <1>3, RowTypes DEF IInv, SignInsAreOld
<1>6. SignInsAreOld'
  BY <1>1, <1>2, <1>3, <1>4, <1>5 DEF SignInsAreOld
<1>7. LiveRowsDiffer'
  <2> SUFFICES ASSUME NEW i \in 1..(Len(tokens) + 1), NEW j \in 1..(Len(tokens) + 1),
                      tokens'[i].state = "live", tokens'[j].state = "live",
                      tokens'[i].signIn = tokens'[j].signIn
               PROVE  i = j
    BY <1>3 DEF LiveRowsDiffer
  <2>1. CASE i \in 1..Len(tokens) /\ j \in 1..Len(tokens)
    BY <2>1, <1>3 DEF IInv, LiveRowsDiffer
  <2>2. CASE i = Len(tokens) + 1 \/ j = Len(tokens) + 1
    <3>1. \A n \in 1..Len(tokens) : tokens'[n].signIn # events + 2
      BY <1>2, <1>3, <1>5
    <3>2. tokens'[Len(tokens) + 1].signIn = events + 2
      BY <1>3, <1>4
    <3>3. i = Len(tokens) + 1 /\ j = Len(tokens) + 1
      BY <2>2, <3>1, <3>2, <1>3
    <3> QED BY <3>3
  <2> QED BY <2>1, <2>2, <1>3
<1>8. ConsumedIsLive'
  BY <1>1, <1>3 DEF IInv, ConsumedIsLive
<1>9. Shape'
  BY <1>1, <1>2, <1>3 DEF IInv, Shape
<1>10. cookie' \in 0..Len(tokens')
  BY <1>1, <1>3
<1>11. NamesAreRows'
  <2>1. 0..Len(tokens) \subseteq 0..Len(tokens') /\ 1..Len(tokens) \subseteq 1..Len(tokens')
    BY <1>3
  <2> QED BY <1>1, <1>3, <1>10, <2>1, SignOutsStillName DEF IInv, NamesAreRows
<1> QED BY <1>6, <1>7, <1>8, <1>9, <1>11 DEF IInv

\* The issuance fails: the row is as it was.
LEMMA RollBackPreserves ==
  ASSUME IInv, NEW t \in Tabs, RollBack(t)
  PROVE  IInv'
<1>1. /\ refresh' = [refresh EXCEPT ![t].at = "refused"] /\ events' = events + 1
      /\ UNCHANGED <<tokens, cookie, stray, signOuts>>
  BY DEF RollBack
<1>2. /\ DOMAIN refresh' = Tabs /\ refresh'[t].at = "refused"
      /\ refresh'[t].token = refresh[t].token
      /\ \A u \in Tabs \ {t} : refresh'[u] = refresh[u]
  BY <1>1 DEF IInv, Shape
<1> QED BY <1>1, <1>2, RowsUntouched DEF IInv, NamesAreRows

\* All other steps leave rows and refreshes alone.
LEMMA IdlePreserves ==
  ASSUME IInv, UNCHANGED <<tokens, cookie, refresh, stray, signOuts>>, events' \in {events, events + 1}
  PROVE  IInv'
BY RowsUntouched DEF IInv, Shape, NamesAreRows

LEMMA FormStepsAreIdle ==
  FormStep \/ MemberStep \/ (\E c \in Slots \cup {Loader, Submitter} : LoseCall(c))
    \/ (\E d \in dropped : ServeDropped(d)) \/ (\E c \in Others : OtherCall(c))
    => UNCHANGED <<tokens, cookie, refresh, stray, signOuts>> /\ events' \in {events, events + 1}
<1>1. FormStep => UNCHANGED <<tokens, cookie, refresh, stray, signOuts>> /\ events' = events
  BY DEF FormStep, Fire, Saved, Settle, SaveFailed, ServeSave, ServeCard, CardArrives, Render,
         ServeSubmit, SubmitAnswered, tokenVars, sessionVars
<1>2. MemberStep => UNCHANGED <<tokens, cookie, refresh, stray, signOuts>> /\ events' \in {events, events + 1}
  BY DEF MemberStep, Edit, Retry, Submit, Refetch, Lock, tokenVars, sessionVars
<1>3. ASSUME \/ \E c \in Slots \cup {Loader, Submitter} : LoseCall(c)
             \/ \E d \in dropped : ServeDropped(d)
             \/ \E c \in Others : OtherCall(c)
      PROVE  UNCHANGED <<tokens, cookie, refresh, stray, signOuts>> /\ events' \in {events, events + 1}
  BY <1>3 DEF LoseCall, ServeDropped, OtherCall, tokenVars, sessionVars
<1> QED BY <1>1, <1>2, <1>3

LEMMA StepPreservesIInv == IInv /\ [PageNext]_allPageVars => IInv'
<1> SUFFICES ASSUME IInv, [PageNext]_allPageVars PROVE IInv'
  OBVIOUS
<1>1. CASE FormStep \/ MemberStep \/ (\E c \in Slots \cup {Loader, Submitter} : LoseCall(c))
             \/ (\E d \in dropped : ServeDropped(d)) \/ (\E c \in Others : OtherCall(c))
  BY <1>1, FormStepsAreIdle, IdlePreserves
<1>2. CASE RefreshStep
  BY <1>2, JoinPreserves, ConsumePreserves, IssuePreserves, EndPreserves DEF RefreshStep
<1>3. CASE SessionFault
  <2>1. ASSUME NEW t \in Tabs, Expire(t)
        PROVE  UNCHANGED <<tokens, cookie, refresh, stray, signOuts>> /\ events' \in {events, events + 1}
    BY <2>1 DEF Expire
  <2> QED BY <1>3, <2>1, EndPreserves, RollBackPreserves, StrayPreserves, SignOutEndPreserves,
             IdlePreserves DEF SessionFault
<1>4. CASE \E c \in Others : SignOut(c) \/ SignIn(TabOf[c])
  <2>1. \A c \in Others : c \in Callers /\ TabOf[c] \in Tabs
    BY SessionsAssumption DEF Others
  <2> QED BY <1>4, <2>1, SignOutPreserves, SignInPreserves
<1>5. CASE SignOutStep
  BY <1>5, ServeSignOutPreserves, SignOutEndPreserves DEF SignOutStep
<1>6. CASE UNCHANGED allPageVars
  BY <1>6, IdlePreserves DEF allPageVars, sessionVars, tokenVars
<1> QED BY <1>1, <1>2, <1>3, <1>4, <1>5, <1>6 DEF PageNext

(***************************************************************************)
(* The theorem.                                                            *)
(***************************************************************************)

\* However many tabs refresh, retry, give up, sign out and in, a sign-in has at
\* most one live token.
THEOREM TokensAreSingleUse == PageSpec => []OneLiveTokenPerSignIn
<1> QED BY InitHolds, StepPreservesIInv, LiveRowsAreFew, PTL DEF PageSpec

(***************************************************************************)
(* The cookie.  A successor that is on its way to the browser is live and  *)
(* nobody else names it: whoever could use it up or revoke it would have   *)
(* to have got it from the browser.                                        *)
(***************************************************************************)
Named == stray \cup {refresh[t].token : t \in Tabs} \cup {o.token : o \in signOuts}

GrantedIsUntouched ==
  \A t \in Tabs : refresh[t].at = "granted" =>
    /\ tokens[refresh[t].next].state = "live"
    /\ refresh[t].next # cookie /\ refresh[t].next \notin Named
    /\ \A u \in Tabs : refresh[u].at = "granted" /\ refresh[u].next = refresh[t].next => u = t

\* The exceptions of CookieOpensTheSession, for any row.
Excused(k) ==
  \/ k \in orphaned
  \/ \E t \in Tabs : refresh[t].at = "granted" /\ refresh[t].token = k
  \/ \E o \in signOuts : o.at = "served" /\ o.token = k

CookieInv == IInv /\ GrantedIsUntouched /\ CookieOpensTheSession

LEMMA CookieStart == PageInit => CookieInv
<1> SUFFICES ASSUME PageInit PROVE CookieInv
  OBVIOUS
<1>1. /\ tokens = <<[signIn |-> 1, state |-> "live"]>> /\ cookie = 1
      /\ refresh = [t \in Tabs |-> NoRefresh]
  BY DEF PageInit, SessionsInit
<1>2. tokens[1].state = "live"
  BY <1>1
<1> QED BY <1>1, <1>2, InitHolds
    DEF CookieInv, GrantedIsUntouched, CookieOpensTheSession, IsLive, NoRefresh

\* What a step may do that leaves the cookie in place: a row that was live stays
\* so unless somebody named it and it is excused now, excuses stay, successors
\* that are granted are new rows, and who names a row got it from the cookie.
LEMMA CookieKept ==
  ASSUME CookieInv, cookie' = cookie, Named' \subseteq Named \cup {cookie, 0},
         \A k \in 1..Len(tokens) : tokens[k].state = "live" =>
           tokens'[k].state = "live" \/ (k \in Named /\ Excused(k)'),
         \A k \in 1..Len(tokens) : Excused(k) => Excused(k)',
         \A t \in Tabs : refresh'[t].at = "granted" =>
           \/ refresh'[t] = refresh[t]
           \/ /\ tokens'[refresh'[t].next].state = "live" /\ refresh'[t].next \notin 0..Len(tokens)
              /\ \A u \in Tabs \ {t} : refresh'[u] = refresh[u]
  PROVE  GrantedIsUntouched' /\ CookieOpensTheSession'
<1>1. /\ cookie \in 0..Len(tokens) /\ Len(tokens) \in Nat
      /\ \A t \in Tabs : refresh[t].at = "granted" => refresh[t].next \in 1..Len(tokens)
  BY DEF CookieInv, IInv, NamesAreRows, Shape
<1>2. Named \subseteq 0..Len(tokens)
  <2>1. stray \subseteq 1..Len(tokens)
    BY DEF CookieInv, IInv, NamesAreRows
  <2>2. \A t \in Tabs : refresh[t].token \in 0..Len(tokens)
    BY DEF CookieInv, IInv, NamesAreRows
  <2>3. \A o \in signOuts : o.token \in 0..Len(tokens)
    BY DEF CookieInv, IInv, NamesAreRows, SignOutsNaming
  <2>4. 1..Len(tokens) \subseteq 0..Len(tokens)
    BY <1>1
  <2> SUFFICES ASSUME NEW k \in Named PROVE k \in 0..Len(tokens)
    OBVIOUS
  <2> QED BY <2>1, <2>2, <2>3, <2>4 DEF Named
<1>3. GrantedIsUntouched'
  <2> SUFFICES ASSUME NEW t \in Tabs, refresh'[t].at = "granted"
               PROVE  /\ tokens'[refresh'[t].next].state = "live"
                      /\ refresh'[t].next # cookie' /\ refresh'[t].next \notin Named'
                      /\ \A u \in Tabs :
                           refresh'[u].at = "granted" /\ refresh'[u].next = refresh'[t].next => u = t
    BY DEF GrantedIsUntouched
  <2>1. CASE refresh'[t] = refresh[t]
    <3>1. /\ tokens[refresh[t].next].state = "live" /\ refresh[t].next \in 1..Len(tokens)
          /\ refresh[t].next # cookie /\ refresh[t].next \notin Named
          /\ \A u \in Tabs : refresh[u].at = "granted" /\ refresh[u].next = refresh[t].next => u = t
      BY <1>1, <2>1 DEF CookieInv, GrantedIsUntouched
    <3>2. tokens'[refresh'[t].next].state = "live"
      BY <2>1, <3>1
    <3>3. refresh'[t].next \notin Named' /\ refresh'[t].next # cookie'
      <4>1. refresh[t].next # 0
        BY <1>1, <3>1
      <4> QED BY <2>1, <3>1, <4>1
    <3>4. ASSUME NEW u \in Tabs, refresh'[u].at = "granted", refresh'[u].next = refresh'[t].next
          PROVE  u = t
      <4>1. CASE refresh'[u] = refresh[u]
        BY <2>1, <3>1, <3>4, <4>1
      <4>2. CASE refresh'[u].next \notin 0..Len(tokens)
        <5>1. refresh'[u].next \in 0..Len(tokens)
          BY <1>1, <2>1, <3>1, <3>4
        <5> QED BY <4>2, <5>1
      <4> QED BY <3>4, <4>1, <4>2
    <3> QED BY <3>2, <3>3, <3>4
  <2>2. CASE /\ tokens'[refresh'[t].next].state = "live" /\ refresh'[t].next \notin 0..Len(tokens)
             /\ \A u \in Tabs \ {t} : refresh'[u] = refresh[u]
    <3>1. refresh'[t].next # cookie' /\ refresh'[t].next \notin Named'
      <4>1. 0 \in 0..Len(tokens)
        BY <1>1
      <4> QED BY <1>1, <1>2, <2>2, <4>1
    <3>2. ASSUME NEW u \in Tabs \ {t}, refresh'[u].at = "granted"
          PROVE  refresh'[u].next # refresh'[t].next
      <4>1. refresh[u].next \in 0..Len(tokens) /\ refresh'[u].next = refresh[u].next
        BY <1>1, <2>2, <3>2
      <4> QED BY <2>2, <4>1
    <3> QED BY <2>2, <3>1, <3>2
  <2> QED BY <2>1, <2>2
<1>4. CookieOpensTheSession'
  <2> SUFFICES ASSUME cookie # 0 PROVE IsLive(cookie)' \/ Excused(cookie)'
    BY DEF CookieOpensTheSession, IsLive, Excused
  <2>1. cookie \in 1..Len(tokens) /\ (tokens[cookie].state = "live" \/ Excused(cookie))
    BY <1>1 DEF CookieInv, CookieOpensTheSession, IsLive, Excused
  <2> QED BY <2>1 DEF IsLive
<1> QED BY <1>3, <1>4

\* Steps that leave rows, strays, sign-outs and history as they are, but for
\* refreshes that begin, or end without a grant.
LEMMA CookieIdle ==
  ASSUME CookieInv, UNCHANGED <<tokens, cookie, stray, signOuts, orphaned>>,
         \A t \in Tabs : refresh'[t].token \in {refresh[t].token, cookie, 0},
         \A t \in Tabs : refresh[t].at = "granted" \/ refresh'[t].at = "granted" =>
           refresh'[t] = refresh[t]
  PROVE  GrantedIsUntouched' /\ CookieOpensTheSession'
<1>1. Named' \subseteq Named \cup {cookie, 0}
  BY DEF Named
<1>2. \A k \in 1..Len(tokens) : Excused(k) => Excused(k)'
  BY DEF Excused
<1> QED BY <1>1, <1>2, CookieKept

LEMMA JoinKeepsCookie ==
  ASSUME CookieInv, NEW c \in Callers, JoinRefresh(c)
  PROVE  GrantedIsUntouched' /\ CookieOpensTheSession'
<1> DEFINE t == TabOf[c]
<1>1. t \in Tabs /\ UNCHANGED <<tokens, cookie, stray, signOuts, orphaned>> /\ DOMAIN refresh = Tabs
  BY SessionsAssumption DEF JoinRefresh, CookieInv, IInv, Shape
<1>2. CASE refresh' = refresh
  BY <1>1, <1>2, CookieIdle
<1>3. CASE /\ refresh[t].at = "idle"
           /\ refresh' = [refresh EXCEPT ![t] = [NoRefresh EXCEPT !.at = "sent", !.token = cookie]]
  <2>1. refresh'[t].at = "sent" /\ refresh'[t].token = cookie
    BY <1>1, <1>3 DEF NoRefresh
  <2>2. \A u \in Tabs \ {t} : refresh'[u] = refresh[u]
    BY <1>1, <1>3
  <2> QED BY <1>1, <1>3, <2>1, <2>2, CookieIdle
<1> QED BY <1>2, <1>3 DEF JoinRefresh

LEMMA ConsumeKeepsCookie ==
  ASSUME CookieInv, NEW t \in Tabs, Consume(t) \/ RollBack(t)
  PROVE  GrantedIsUntouched' /\ CookieOpensTheSession'
<1>1. /\ UNCHANGED <<tokens, cookie, stray, signOuts, orphaned>> /\ DOMAIN refresh = Tabs
      /\ refresh[t].at \in {"sent", "consumed"}
      /\ \E at \in {"consumed", "refused"} : refresh' = [refresh EXCEPT ![t].at = at]
  BY DEF Consume, RollBack, CookieInv, IInv, Shape
<1>2. /\ refresh'[t].at # "granted" /\ refresh'[t].token = refresh[t].token
      /\ \A u \in Tabs \ {t} : refresh'[u] = refresh[u]
  BY <1>1
<1> QED BY <1>1, <1>2, CookieIdle

\* The successor is a new row: nobody has its number yet.
LEMMA IssueKeepsCookie ==
  ASSUME CookieInv, NEW t \in Tabs, Issue(t)
  PROVE  GrantedIsUntouched' /\ CookieOpensTheSession'
<1> DEFINE k == refresh[t].token
<1>1. /\ refresh[t].at = "consumed" /\ tokens' = Rotated(k)
      /\ refresh' = [refresh EXCEPT ![t].at = "granted", ![t].next = Len(tokens')]
      /\ UNCHANGED <<cookie, stray, signOuts, orphaned, events>> /\ DOMAIN refresh = Tabs
  BY DEF Issue, CookieInv, IInv, Shape
<1>2. k \in DOMAIN tokens /\ tokens[k].state = "live"
  BY <1>1 DEF CookieInv, IInv, ConsumedIsLive
<1>3. /\ Len(tokens') = Len(tokens) + 1 /\ tokens' \in Seq(Rows)
      /\ \A j \in DOMAIN tokens \ {k} : tokens'[j] = tokens[j]
  BY <1>1, <1>2, RotationKeepsTheLine DEF CookieInv
<1>4. DOMAIN tokens = 1..Len(tokens) /\ Len(tokens) \in Nat
  BY DEF CookieInv, IInv, Shape
<1>5. tokens'[Len(tokens) + 1].state = "live"
  BY <1>1, <1>2, <1>3, NewRowIsLive DEF CookieInv
<1>6. /\ refresh'[t].token = k /\ refresh'[t].at = "granted" /\ refresh'[t].next = Len(tokens) + 1
      /\ \A u \in Tabs \ {t} : refresh'[u] = refresh[u]
  BY <1>1, <1>3
<1>7. Named' \subseteq Named /\ k \in Named
  BY <1>1, <1>6 DEF Named
<1>8. \A j \in 1..Len(tokens) : Excused(j) => Excused(j)'
  BY <1>1, <1>6 DEF Excused
<1>9. Excused(k)'
  BY <1>6 DEF Excused
<1>10. \A u \in Tabs : refresh'[u].at = "granted" =>
        \/ refresh'[u] = refresh[u]
        \/ /\ tokens'[refresh'[u].next].state = "live" /\ refresh'[u].next \notin 0..Len(tokens)
           /\ \A v \in Tabs \ {u} : refresh'[v] = refresh[v]
  BY <1>4, <1>5, <1>6
<1>11. \A j \in 1..Len(tokens) : tokens[j].state = "live" =>
         tokens'[j].state = "live" \/ (j \in Named /\ Excused(j)')
  <2> SUFFICES ASSUME NEW j \in 1..Len(tokens), tokens[j].state = "live"
               PROVE  tokens'[j].state = "live" \/ (j \in Named /\ Excused(j)')
    OBVIOUS
  <2>1. CASE j = k
    BY <1>6, <1>7, <2>1 DEF Excused
  <2>2. CASE j # k
    BY <1>3, <1>4, <2>2
  <2> QED BY <2>1, <2>2
<1> QED BY <1>1, <1>7, <1>8, <1>10, <1>11, CookieKept

LEMMA StrayKeepsCookie ==
  ASSUME CookieInv, NEW k \in stray, ServeStray(k)
  PROVE  GrantedIsUntouched' /\ CookieOpensTheSession'
<1>1. stray' = stray \ {k} /\ UNCHANGED <<cookie, refresh, signOuts>> /\ orphaned \subseteq orphaned'
  BY DEF ServeStray
<1>2. Named' \subseteq Named /\ \A j \in 1..Len(tokens) : Excused(j) => Excused(j)'
  BY <1>1 DEF Named, Excused
<1>3. CASE ~IsLive(k)
  BY <1>1, <1>2, <1>3, CookieKept DEF ServeStray
<1>4. CASE IsLive(k)
  <2>1. tokens' = Rotated(k) /\ orphaned' = orphaned \cup {k} /\ events' = events
    BY <1>4 DEF ServeStray
  <2>2. /\ k \in DOMAIN tokens /\ tokens[k].state = "live"
        /\ DOMAIN tokens = 1..Len(tokens)
    BY <1>4 DEF IsLive, CookieInv, IInv, NamesAreRows, Shape
  <2>3. \A j \in DOMAIN tokens \ {k} : tokens'[j] = tokens[j]
    BY <2>1, <2>2, RotationKeepsTheLine DEF CookieInv
  <2>4. k \in Named /\ Excused(k)'
    BY <2>1 DEF Named, Excused
  <2> QED BY <1>1, <1>2, <2>2, <2>3, <2>4, CookieKept
<1> QED BY <1>3, <1>4

\* A refresh ends: with the successor as the cookie, or with the cookie as it was.
LEMMA EndKeepsCookie ==
  ASSUME CookieInv, NEW t \in Tabs, Answered(t) \/ GiveUp(t)
  PROVE  GrantedIsUntouched' /\ CookieOpensTheSession'
<1>1. /\ refresh' = [refresh EXCEPT ![t] = NoRefresh] /\ UNCHANGED <<tokens, signOuts>>
      /\ DOMAIN refresh = Tabs
  BY DEF Answered, GiveUp, Resolve, CookieInv, IInv, Shape
<1>2. /\ refresh'[t].at = "idle" /\ refresh'[t].token = 0
      /\ \A u \in Tabs \ {t} : refresh'[u] = refresh[u]
  BY <1>1 DEF NoRefresh
<1>3. stray' \subseteq stray \cup {refresh[t].token} /\ orphaned \subseteq orphaned'
  BY DEF Answered, GiveUp
<1>4. Named' \subseteq Named \cup {0}
  BY <1>1, <1>2, <1>3 DEF Named
<1>5. CASE cookie' = cookie
  <2>1. refresh[t].at = "granted" => refresh[t].token \in orphaned' \/ cookie' = refresh[t].next
    BY DEF Answered, GiveUp
  <2>2. refresh[t].at = "granted" => refresh[t].next # cookie
    BY DEF CookieInv, GrantedIsUntouched
  <2>3. \A k \in 1..Len(tokens) : Excused(k) => Excused(k)'
    BY <1>1, <1>2, <1>3, <1>5, <2>1, <2>2 DEF Excused
  <2> QED BY <1>1, <1>2, <1>4, <1>5, <2>3, CookieKept
<1>6. CASE cookie' # cookie
  <2>1. refresh[t].at = "granted" /\ cookie' = refresh[t].next
    BY <1>6 DEF Answered, GiveUp
  <2>2. tokens[cookie'].state = "live" /\ cookie' \in 1..Len(tokens)
    BY <2>1 DEF CookieInv, GrantedIsUntouched, IInv, NamesAreRows
  <2>3. CookieOpensTheSession'
    BY <1>1, <2>2 DEF CookieOpensTheSession, IsLive
  <2>4. GrantedIsUntouched'
    <3> SUFFICES ASSUME NEW u \in Tabs, refresh'[u].at = "granted"
                 PROVE  /\ tokens[refresh'[u].next].state = "live"
                        /\ refresh'[u].next # cookie' /\ refresh'[u].next \notin Named'
                        /\ \A v \in Tabs :
                             refresh'[v].at = "granted" /\ refresh'[v].next = refresh'[u].next => v = u
      BY <1>1 DEF GrantedIsUntouched
    <3>1. u # t /\ refresh'[u] = refresh[u]
      BY <1>2
    <3>2. refresh[u].next \in 1..Len(tokens) /\ Len(tokens) \in Nat
      BY <3>1 DEF CookieInv, IInv, NamesAreRows, Shape
    <3>3. /\ tokens[refresh[u].next].state = "live" /\ refresh[u].next \notin Named
          /\ \A v \in Tabs : refresh[v].at = "granted" /\ refresh[v].next = refresh[u].next => v = u
      BY <3>1 DEF CookieInv, GrantedIsUntouched
    <3>4. refresh[u].next # 0
      BY <3>2
    <3>5. refresh'[u].next # cookie' /\ refresh'[u].next \notin Named'
      BY <1>4, <2>1, <3>1, <3>3, <3>4
    <3> QED BY <1>2, <3>1, <3>3, <3>5
  <2> QED BY <2>3, <2>4
<1> QED BY <1>5, <1>6

\* A sign-out names the row of the cookie, which is not on its way.
LEMMA SignOutKeepsCookie ==
  ASSUME CookieInv, NEW c \in Callers, SignOut(c)
  PROVE  GrantedIsUntouched' /\ CookieOpensTheSession'
<1>1. /\ UNCHANGED <<tokens, refresh, cookie, stray, orphaned>> /\ signOuts \subseteq signOuts'
      /\ \A o \in signOuts' : o \in signOuts \/ o.token = cookie
  BY DEF SignOut
<1>2. Named' \subseteq Named \cup {cookie}
  BY <1>1 DEF Named
<1>3. \A k \in 1..Len(tokens) : Excused(k) => Excused(k)'
  BY <1>1 DEF Excused
<1> QED BY <1>1, <1>2, <1>3, CookieKept

\* The row that is revoked is excused: the answer is to come, or nobody waits.
LEMMA ServeSignOutKeepsCookie ==
  ASSUME CookieInv, NEW o \in signOuts, ServeSignOut(o)
  PROVE  GrantedIsUntouched' /\ CookieOpensTheSession'
<1> DEFINE k == o.token
           served == [o EXCEPT !.at = "served"]
<1>1. /\ UNCHANGED <<cookie, refresh, stray>> /\ orphaned \subseteq orphaned' /\ o.at # "served"
      /\ tokens' = IF IsLive(k) THEN [tokens EXCEPT ![k].state = "revoked"] ELSE tokens
      /\ IF o.at = "sent" THEN signOuts' = (signOuts \ {o}) \cup {served}
         ELSE signOuts' = signOuts \ {o} /\ orphaned' = orphaned \cup ({k} \ {0})
  BY DEF ServeSignOut
<1>2. served.at = "served" /\ served.token = k
  BY MovedSignOut DEF CookieInv
<1>3. Named' \subseteq Named
  BY <1>1, <1>2 DEF Named
<1>4. \A j \in 1..Len(tokens) : Excused(j) => Excused(j)'
  BY <1>1 DEF Excused
<1>5. k \in Named /\ (k # 0 => Excused(k)')
  <2>1. k \in Named
    BY DEF Named
  <2>2. CASE o.at = "sent"
    <3>1. served \in signOuts'
      BY <1>1, <2>2
    <3>2. \E q \in signOuts' : q.at = "served" /\ q.token = k
      BY <1>2, <3>1
    <3> QED BY <2>1, <3>2 DEF Excused
  <2>3. CASE o.at # "sent"
    <3>1. k # 0 => k \in orphaned'
      BY <1>1, <2>3
    <3> QED BY <2>1, <3>1 DEF Excused
  <2> QED BY <2>2, <2>3
<1>6. Len(tokens) \in Nat /\ DOMAIN tokens = 1..Len(tokens)
  BY DEF CookieInv, IInv, Shape
<1>7. \A j \in 1..Len(tokens) : tokens[j].state = "live" =>
        tokens'[j].state = "live" \/ (j \in Named /\ Excused(j)')
  BY <1>1, <1>5, <1>6
<1>8. \A t \in Tabs : refresh[t].at = "granted" => tokens'[refresh[t].next] = tokens[refresh[t].next]
  <2>1. \A t \in Tabs : refresh[t].at = "granted" => refresh[t].next # k
    BY <1>5 DEF CookieInv, GrantedIsUntouched
  <2> QED BY <1>1, <1>6, <2>1 DEF CookieInv, IInv, NamesAreRows
<1> QED BY <1>1, <1>3, <1>4, <1>7, CookieKept

\* The end of a sign-out deletes the cookie, or was not told to the browser.
LEMMA SignOutEndKeepsCookie ==
  ASSUME CookieInv, NEW o \in signOuts, SignedOut(o) \/ LoseSignOut(o)
  PROVE  GrantedIsUntouched' /\ CookieOpensTheSession'
<1>1. UNCHANGED <<tokens, refresh, stray>> /\ orphaned \subseteq orphaned'
  BY DEF SignedOut, LoseSignOut
<1>2. CASE SignedOut(o)
  <2>1. cookie' = 0 /\ signOuts' \subseteq signOuts
    BY <1>2 DEF SignedOut
  <2>2. Named' \subseteq Named
    BY <1>1, <2>1 DEF Named
  <2>3. \A t \in Tabs : refresh[t].at = "granted" => refresh[t].next # 0
    BY DEF CookieInv, IInv, NamesAreRows, Shape
  <2>4. GrantedIsUntouched'
    BY <1>1, <2>1, <2>2, <2>3 DEF CookieInv, GrantedIsUntouched
  <2> QED BY <2>1, <2>4 DEF CookieOpensTheSession
<1>3. CASE LoseSignOut(o)
  <2> DEFINE forsaken == [o EXCEPT !.at = "forsaken"]
  <2>1. /\ cookie' = cookie /\ signOuts' \subseteq signOuts \cup {forsaken}
        /\ \A q \in signOuts \ {o} : q \in signOuts'
        /\ o.at = "served" => {o.token} \ {0} \subseteq orphaned'
    BY <1>3 DEF LoseSignOut
  <2>2. forsaken.token = o.token
    BY MovedSignOut DEF CookieInv
  <2>3. Named' \subseteq Named
    BY <1>1, <2>1, <2>2 DEF Named
  <2>4. \A k \in 1..Len(tokens) : Excused(k) => Excused(k)'
    BY <1>1, <2>1 DEF Excused
  <2> QED BY <1>1, <2>1, <2>3, <2>4, CookieKept
<1> QED BY <1>2, <1>3

\* A sign-in makes the cookie a row that nobody else has.
LEMMA SignInKeepsCookie ==
  ASSUME CookieInv, NEW t \in Tabs, SignIn(t)
  PROVE  GrantedIsUntouched' /\ CookieOpensTheSession'
<1> DEFINE next == [signIn |-> events' + 1, state |-> "live"]
<1>1. /\ tokens' = Append(tokens, next) /\ cookie' = Len(tokens')
      /\ UNCHANGED <<refresh, stray, signOuts>> /\ events' = events + 1
  BY DEF SignIn
<1>2. tokens \in Seq(Rows) /\ next \in Rows /\ Len(tokens) \in Nat /\ next.state = "live"
  BY <1>1 DEF CookieInv, IInv, Shape, Rows
<1> HIDE DEF next
<1>3. /\ Len(tokens') = Len(tokens) + 1 /\ cookie' = Len(tokens) + 1
      /\ \A j \in 1..Len(tokens) : tokens'[j] = tokens[j]
      /\ tokens'[Len(tokens) + 1].state = "live"
  BY <1>1, <1>2
<1>4. \A u \in Tabs : refresh[u].at = "granted" => refresh[u].next \in 1..Len(tokens)
  BY DEF CookieInv, IInv, NamesAreRows
<1>5. GrantedIsUntouched'
  BY <1>1, <1>2, <1>3, <1>4 DEF CookieInv, GrantedIsUntouched, Named
<1>6. CookieOpensTheSession'
  BY <1>2, <1>3 DEF CookieOpensTheSession, IsLive
<1> QED BY <1>5, <1>6

\* Steps of the form, the member and the server's card touch neither names nor
\* history.
LEMMA FormStepsKeepOrphans ==
  FormStep \/ MemberStep \/ (\E c \in Slots \cup {Loader, Submitter} : LoseCall(c))
    \/ (\E d \in dropped : ServeDropped(d)) \/ (\E c \in Others : OtherCall(c))
    => UNCHANGED orphaned
<1>1. FormStep => UNCHANGED orphaned
  BY DEF FormStep, Fire, Saved, Settle, SaveFailed, ServeSave, ServeCard, CardArrives, Render,
         ServeSubmit, SubmitAnswered, tokenVars, sessionVars
<1>2. MemberStep => UNCHANGED orphaned
  BY DEF MemberStep, Edit, Retry, Submit, Refetch, Lock, tokenVars, sessionVars
<1>3. ASSUME \/ \E c \in Slots \cup {Loader, Submitter} : LoseCall(c)
             \/ \E d \in dropped : ServeDropped(d)
             \/ \E c \in Others : OtherCall(c)
      PROVE  UNCHANGED orphaned
  BY <1>3 DEF LoseCall, ServeDropped, OtherCall, tokenVars, sessionVars
<1> QED BY <1>1, <1>2, <1>3

LEMMA StepKeepsCookie == CookieInv /\ [PageNext]_allPageVars => CookieInv'
<1> SUFFICES ASSUME CookieInv, [PageNext]_allPageVars
             PROVE  GrantedIsUntouched' /\ CookieOpensTheSession'
  BY StepPreservesIInv DEF CookieInv
<1>1. ASSUME UNCHANGED <<tokens, cookie, refresh, stray, signOuts, orphaned>>
      PROVE  GrantedIsUntouched' /\ CookieOpensTheSession'
  BY <1>1 DEF CookieInv, GrantedIsUntouched, Named, CookieOpensTheSession, IsLive
<1>2. CASE FormStep \/ MemberStep \/ (\E c \in Slots \cup {Loader, Submitter} : LoseCall(c))
             \/ (\E d \in dropped : ServeDropped(d)) \/ (\E c \in Others : OtherCall(c))
  BY <1>1, <1>2, FormStepsAreIdle, FormStepsKeepOrphans
<1>3. CASE RefreshStep
  BY <1>3, JoinKeepsCookie, ConsumeKeepsCookie, IssueKeepsCookie, EndKeepsCookie DEF RefreshStep
<1>4. CASE SessionFault
  <2>1. ASSUME NEW t \in Tabs, Expire(t)
        PROVE  UNCHANGED <<tokens, cookie, refresh, stray, signOuts, orphaned>>
    BY <2>1 DEF Expire
  <2> QED BY <1>1, <1>4, <2>1, EndKeepsCookie, ConsumeKeepsCookie, StrayKeepsCookie,
             SignOutEndKeepsCookie DEF SessionFault
<1>5. CASE \E c \in Others : SignOut(c) \/ SignIn(TabOf[c])
  <2>1. \A c \in Others : c \in Callers /\ TabOf[c] \in Tabs
    BY SessionsAssumption DEF Others
  <2> QED BY <1>5, <2>1, SignOutKeepsCookie, SignInKeepsCookie
<1>6. CASE SignOutStep
  BY <1>6, ServeSignOutKeepsCookie, SignOutEndKeepsCookie DEF SignOutStep
<1>7. CASE UNCHANGED allPageVars
  BY <1>1, <1>7 DEF allPageVars, sessionVars, tokenVars
<1> QED BY <1>2, <1>3, <1>4, <1>5, <1>6, <1>7 DEF PageNext

\* The cookie opens its session but while the answer that replaces or deletes it
\* is on its way, and when that answer is lost: nothing else spends it, however
\* many tabs refresh, fail, give up, sign out and in at once.
THEOREM CookiesStayGood == PageSpec => []CookieOpensTheSession
<1>1. CookieInv => CookieOpensTheSession
  BY DEF CookieInv
<1> QED BY CookieStart, StepKeepsCookie, <1>1, PTL DEF PageSpec
===============================================================================
