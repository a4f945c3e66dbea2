---------------------------- MODULE PicksPageProofs ----------------------------
(***************************************************************************)
(* The autosaving form, for any number of tabs, games, edits, renders and  *)
(* faults: every variable keeps its type, and no edit is left alone.  The  *)
(* argument is about one form at a time (FormOK): which saves it still has *)
(* to make, and how their versions compare with that of its draft.         *)
(***************************************************************************)
EXTENDS SessionsProofs

FormRecord ==
  [mounted : BOOLEAN, key : Draft, draft : Draft, version : Nat,
   timer : BOOLEAN, pending : SUBSET Save, saving : SUBSET Save,
   reloaded : BOOLEAN, clean : BOOLEAN, error : BOOLEAN]

AtMostOne(set) == \A v, w \in set : v = w

\* A form and the call of its save: a save under way is the only one, what is
\* queued is no newer than the draft, and is the draft while the form is mounted.
FormOK(f, c) ==
  /\ f \in FormRecord
  /\ AtMostOne(f.pending) /\ AtMostOne(f.saving)
  /\ c # "idle" => f.saving # {}
  /\ f.reloaded => f.saving # {} /\ c = "idle"
  /\ f.timer => f.pending # {}
  /\ \A v \in f.pending \cup f.saving : v.version <= f.version
  /\ f.mounted => \A v \in f.pending : v.version = f.version
  /\ f.mounted /\ ~f.clean => f.timer \/ f.saving # {} \/ f.error

FormsOK == form \in [Slots -> FormRecord] /\ \A s \in Slots : FormOK(form[s], call[s])

PageIsMounted ==
  /\ page \in Slots \cup {NoPage}
  /\ \A s \in Slots : form[s].mounted <=> s = page

CardsTyped ==
  /\ stored \in Card /\ fetched \in Card /\ snapshot \in Card /\ shown \in {"card", "error"}
  /\ latest \in Draft /\ dropped \subseteq Draft
  /\ kickedOff \in BOOLEAN /\ clockAt \in BOOLEAN /\ disturbed \in BOOLEAN
  /\ displaced \in BOOLEAN /\ edits \in 0..MaxEdits

PageInv == IInv /\ SessionsTypeOK /\ FormsOK /\ PageIsMounted /\ CardsTyped

(***************************************************************************)
(* Drafts and cards.                                                       *)
(***************************************************************************)
LEMMA ConfidenceRange == Cardinality(Games) \in Nat /\ 0 \in 0..Cardinality(Games)
<1>1. Cardinality(Games) \in Nat
  BY FormsAssumption, FS_CardinalityType
<1> QED BY <1>1

LEMMA DraftTypes ==
  ASSUME NEW card \in Card
  PROVE  Key(card) \in Draft /\ InitialDraft(card) \in Draft /\ NoDraft \in Draft
BY ConfidenceRange DEF Card, Draft, Key, InitialDraft, NoDraft

LEMMA StoredTypes ==
  ASSUME NEW d \in Draft, NEW card \in Card
  PROVE  Stored(d, card) \in Card
<1> SUFFICES ASSUME NEW g \in Games
             PROVE  (IF g \in Submissions(d) THEN [conf |-> d[g], voided |-> FALSE]
                     ELSE [card[g] EXCEPT !.voided = card[g].conf # 0])
                      \in [conf : 0..Cardinality(Games), voided : BOOLEAN]
  BY DEF Stored, Card
<1>1. d[g] \in 0..Cardinality(Games)
  BY DEF Draft
<1>2. card[g] \in [conf : 0..Cardinality(Games), voided : BOOLEAN]
  BY DEF Card
<1> QED BY <1>1, <1>2

(***************************************************************************)
(* One form.                                                               *)
(***************************************************************************)
LEMMA NoFormIsOK ==
  /\ NoForm \in FormRecord /\ NoForm.saving = {} /\ ~NoForm.mounted
  /\ FormOK(NoForm, "idle")
<1>1. NoDraft \in Draft
  BY ConfidenceRange DEF NoDraft, Draft
<1>2. NoForm \in FormRecord
  BY <1>1 DEF NoForm, FormRecord
<1> QED BY <1>2 DEF NoForm, FormOK, AtMostOne

LEMMA MountedIsOK ==
  ASSUME NEW card \in Card
  PROVE  FormOK(Mounted(card), "idle") /\ Mounted(card).mounted
<1>1. Key(card) \in Draft /\ InitialDraft(card) \in Draft /\ NoDraft \in Draft
  BY DraftTypes
<1> DEFINE k == Key(card)
           d == InitialDraft(card)
           m == [NoForm EXCEPT !.mounted = TRUE, !.key = k, !.draft = d]
<1> HIDE DEF k, d
<1>2. NoForm \in FormRecord
  BY NoFormIsOK
<1>3. /\ m \in FormRecord /\ m.mounted /\ m.pending = NoForm.pending
      /\ m.saving = NoForm.saving /\ m.timer = NoForm.timer /\ m.clean = NoForm.clean
      /\ m.reloaded = NoForm.reloaded
  BY <1>1, <1>2 DEF FormRecord, k, d
<1>4. m.pending = {} /\ m.saving = {} /\ ~m.timer /\ m.clean /\ ~m.reloaded
  BY <1>3 DEF NoForm
<1>5. Mounted(card) = m
  BY DEF Mounted, k, d
<1> HIDE DEF m
<1> QED BY <1>3, <1>4, <1>5 DEF FormOK, AtMostOne

LEMMA KeptIsOK ==
  ASSUME NEW f, FormOK(f, "idle")
  PROVE  FormOK(Kept(f), "idle") /\ (Kept(f).mounted <=> f.mounted)
BY NoFormIsOK DEF Kept

LEMMA ScheduledIsOK ==
  ASSUME NEW f, NEW c, NEW v \in Save, FormOK(f, c) \/ (c = "idle" /\ f \in FormRecord
           /\ AtMostOne(f.saving) /\ ~f.reloaded /\ \A w \in f.saving : w.version <= f.version),
         v.version <= f.version, f.mounted => v.version = f.version
  PROVE  FormOK(Scheduled(f, v), c) /\ (Scheduled(f, v).mounted <=> f.mounted)
<1> DEFINE g == [f EXCEPT !.pending = {v}, !.timer = TRUE]
<1>1. f \in FormRecord
  BY DEF FormOK
<1>2. /\ g \in FormRecord /\ g.pending = {v} /\ g.timer /\ g.saving = f.saving
      /\ g.reloaded = f.reloaded /\ g.version = f.version /\ g.mounted = f.mounted
  BY <1>1 DEF FormRecord
<1> HIDE DEF g
<1>3. FormOK(g, c)
  BY <1>2 DEF FormOK, AtMostOne
<1> QED BY <1>2, <1>3 DEF Scheduled, g

\* A save that is over: what is newer is saved next, so a form that is not told
\* it is clean, or of an error, has its save ahead.
LEMMA FinallyIsOK ==
  ASSUME NEW f \in FormRecord, NEW save \in f.saving,
         AtMostOne(f.pending), f.timer => f.pending # {},
         \A v \in f.pending \cup f.saving : v.version <= f.version,
         f.mounted => \A v \in f.pending : v.version = f.version,
         f.mounted /\ save.version = f.version => f.clean \/ f.error
  PROVE  FormOK(Finally(f, save), "idle") /\ (Finally(f, save).mounted <=> f.mounted)
<1> DEFINE ended == [f EXCEPT !.saving = {}, !.reloaded = FALSE]
           newer == \E v \in f.pending : v.version > save.version
<1>1. /\ ended \in FormRecord /\ ended.saving = {} /\ ~ended.reloaded
      /\ ended.pending = f.pending /\ ended.timer = f.timer /\ ended.version = f.version
      /\ ended.mounted = f.mounted /\ ended.clean = f.clean /\ ended.error = f.error
  BY DEF FormRecord
<1>2. save \in Save /\ save.version \in Nat /\ f.version \in Nat /\ save.version <= f.version
  BY DEF FormRecord, Save
<1> HIDE DEF ended
<1>3. CASE newer
  <2> DEFINE v == CHOOSE w \in f.pending : w.version > save.version
  <2>1. v \in f.pending /\ v.version > save.version
    BY <1>3
  <2>2. v \in Save /\ v.version <= f.version /\ (f.mounted => v.version = f.version)
    BY <2>1 DEF FormRecord
  <2>3. Finally(f, save) = Scheduled(ended, v)
    BY <1>3 DEF Finally, ended
  <2> HIDE DEF v
  <2> QED BY <1>1, <2>2, <2>3, ScheduledIsOK DEF AtMostOne
<1>4. CASE f.version > save.version /\ ~newer
  <2>1. Current(f) \in Save /\ Current(f).version = f.version
    BY <1>2 DEF Current, Save, FormRecord
  <2>2. Finally(f, save) = Scheduled(ended, Current(f))
    BY <1>4 DEF Finally, ended
  <2> QED BY <1>1, <1>2, <2>1, <2>2, ScheduledIsOK DEF AtMostOne
<1>5. CASE ~(f.version > save.version) /\ ~newer
  <2>1. Finally(f, save) = Kept(ended)
    BY <1>5 DEF Finally, ended
  <2>2. save.version = f.version
    BY <1>2, <1>5
  <2>3. FormOK(ended, "idle")
    BY <1>1, <2>2 DEF FormOK, AtMostOne
  <2> QED BY <1>1, <2>1, <2>3, KeptIsOK
<1> QED BY <1>3, <1>4, <1>5

(***************************************************************************)
(* The sessions under the page keep their types.                           *)
(***************************************************************************)
CallStates == {"idle", "denied", "waiting", "asked", "served", "failed"}
TokenRecord == [signIn : 1..MaxEvents + 1, state : {"live", "used", "revoked"}]
RefreshStates == {"idle", "sent", "consumed", "granted", "refused"}

\* The rows only grow, and who waits has a refresh to wait for.
LEMMA SessionTypesKept ==
  ASSUME SessionsTypeOK, tokens' \in Seq(TokenRecord), Len(tokens) <= Len(tokens'),
         cookie' \in 0..Len(tokens'),
         access' \in [Tabs -> {"new", "good", "stale", "none"}],
         refresh' \in [Tabs -> [at : RefreshStates, token : 0..Len(tokens'),
                                next : 0..Len(tokens')]],
         stray' \subseteq 1..Len(tokens'), orphaned' \subseteq 1..Len(tokens'),
         signOuts' \subseteq signOuts \cup SignOutsNaming(Len(tokens)),
         call' \in [Callers -> CallStates], events' \in 0..MaxEvents,
         \A c \in Callers : call'[c] = "waiting" => refresh'[TabOf[c]].at # "idle"
  PROVE  SessionsTypeOK'
<1>1. Len(tokens) \in Nat /\ Len(tokens') \in Nat
  BY DEF SessionsTypeOK
<1>2. signOuts' \subseteq SignOutsNaming(Len(tokens'))
  <2>1. signOuts' \subseteq SignOutsNaming(Len(tokens))
    BY DEF SessionsTypeOK, SignOutsNaming
  <2>2. 0..Len(tokens) \subseteq 0..Len(tokens')
    BY <1>1
  <2> QED BY <2>1, <2>2 DEF SignOutsNaming
<1> QED BY <1>2 DEF SessionsTypeOK, SignOutsNaming, CallStates, TokenRecord, RefreshStates

\* Steps that leave the rows as they are.
LEMMA SameRows ==
  ASSUME SessionsTypeOK, UNCHANGED tokens,
         cookie' \in {0, cookie} \cup {refresh[t].next : t \in Tabs},
         access' \in [Tabs -> {"new", "good", "stale", "none"}],
         refresh' \in [Tabs -> [at : RefreshStates, token : 0..Len(tokens),
                                next : 0..Len(tokens)]],
         stray' \subseteq 1..Len(tokens), orphaned' \subseteq 1..Len(tokens),
         signOuts' \subseteq signOuts \cup SignOutsNaming(Len(tokens)),
         call' \in [Callers -> CallStates], events' \in 0..MaxEvents,
         \A c \in Callers : call'[c] = "waiting" => refresh'[TabOf[c]].at # "idle"
  PROVE  SessionsTypeOK'
<1>1. Len(tokens) \in Nat /\ tokens' \in Seq(TokenRecord) /\ Len(tokens) <= Len(tokens')
  BY DEF SessionsTypeOK, TokenRecord
<1>2. cookie' \in 0..Len(tokens)
  BY <1>1 DEF SessionsTypeOK
<1> QED BY <1>1, <1>2, SessionTypesKept

LEMMA CallMoves ==
  ASSUME SessionsTypeOK, UNCHANGED tokenVars, events' \in 0..MaxEvents,
         call' \in [Callers -> CallStates],
         \A c \in Callers : call'[c] = "waiting" => call[c] = "waiting"
  PROVE  SessionsTypeOK'
<1>1. \A c \in Callers : call'[c] = "waiting" => refresh'[TabOf[c]].at # "idle"
  BY DEF SessionsTypeOK, tokenVars
<1> QED BY <1>1, SameRows DEF SessionsTypeOK, tokenVars, CallStates, RefreshStates

LEMMA RotationTypes ==
  ASSUME SessionsTypeOK, NEW k \in DOMAIN tokens, tokens' = Rotated(k)
  PROVE  tokens' \in Seq(TokenRecord) /\ Len(tokens') = Len(tokens) + 1
<1> DEFINE used == [tokens EXCEPT ![k].state = "used"]
           next == [signIn |-> tokens[k].signIn, state |-> "live"]
<1>1. tokens \in Seq(TokenRecord) /\ k \in 1..Len(tokens) /\ tokens[k] \in TokenRecord
  <2>1. tokens \in Seq(TokenRecord)
    BY DEF SessionsTypeOK, TokenRecord
  <2> QED BY <2>1
<1>2. next \in TokenRecord /\ [tokens[k] EXCEPT !.state = "used"] \in TokenRecord
  BY <1>1 DEF TokenRecord
<1> HIDE DEF next
<1>4. used \in Seq(TokenRecord) /\ Len(used) = Len(tokens)
  BY <1>1, <1>2
<1>3. tokens' = Append(used, next)
  BY DEF Rotated, next
<1> HIDE DEF used
<1> QED BY <1>2, <1>3, <1>4

LEMMA JoinTypes ==
  ASSUME SessionsTypeOK, NEW c \in Callers, JoinRefresh(c)
  PROVE  SessionsTypeOK'
<1> DEFINE t == TabOf[c]
<1>1. t \in Tabs /\ UNCHANGED <<tokens, cookie, access, stray, signOuts, orphaned, events>>
      /\ call' = [call EXCEPT ![c] = "waiting"]
  BY SessionsAssumption DEF JoinRefresh
<1>2. /\ refresh' \in [Tabs -> [at : RefreshStates, token : 0..Len(tokens), next : 0..Len(tokens)]]
      /\ refresh'[t].at # "idle"
      /\ \A u \in Tabs : refresh[u].at # "idle" => refresh'[u].at # "idle"
  <2>1. Len(tokens) \in Nat /\ cookie \in 0..Len(tokens) /\ 0 \in 0..Len(tokens)
    BY DEF SessionsTypeOK
  <2>2. refresh \in [Tabs -> [at : RefreshStates, token : 0..Len(tokens), next : 0..Len(tokens)]]
    BY DEF SessionsTypeOK, RefreshStates
  <2> DEFINE sent == [NoRefresh EXCEPT !.at = "sent", !.token = cookie]
  <2>3. /\ sent \in [at : RefreshStates, token : 0..Len(tokens), next : 0..Len(tokens)]
        /\ sent.at = "sent"
    BY <2>1 DEF NoRefresh, RefreshStates
  <2>4. CASE refresh[t].at = "idle"
    <3>1. refresh' = [refresh EXCEPT ![t] = sent]
      BY <2>4 DEF JoinRefresh
    <3> HIDE DEF sent
    <3> QED BY <1>1, <2>2, <2>3, <3>1
  <2>5. CASE refresh[t].at # "idle"
    BY <2>2, <2>5 DEF JoinRefresh
  <2> QED BY <2>4, <2>5
<1>3. call' \in [Callers -> CallStates]
  BY <1>1 DEF SessionsTypeOK, CallStates
<1>4. \A b \in Callers : call'[b] = "waiting" => refresh'[TabOf[b]].at # "idle"
  <2> SUFFICES ASSUME NEW b \in Callers, call'[b] = "waiting" PROVE refresh'[TabOf[b]].at # "idle"
    OBVIOUS
  <2>1. CASE b = c
    BY <1>2, <2>1
  <2>2. CASE b # c
    <3>1. call[b] = "waiting" /\ TabOf[b] \in Tabs
      BY <1>1, <2>2, SessionsAssumption DEF SessionsTypeOK
    <3> QED BY <1>2, <3>1 DEF SessionsTypeOK
  <2> QED BY <2>1, <2>2
<1> QED BY <1>1, <1>2, <1>3, <1>4, SameRows DEF SessionsTypeOK

\* The end of a refresh wakes all who wait for it.
LEMMA ResolveTypes ==
  ASSUME SessionsTypeOK, NEW t \in Tabs, NEW ok \in BOOLEAN, Resolve(t, ok)
  PROVE  /\ refresh' \in [Tabs -> [at : RefreshStates, token : 0..Len(tokens), next : 0..Len(tokens)]]
         /\ access' \in [Tabs -> {"new", "good", "stale", "none"}]
         /\ call' \in [Callers -> CallStates]
         /\ \A c \in Callers : call'[c] = "waiting" => refresh'[TabOf[c]].at # "idle"
         /\ \A c \in Callers : call'[c] = "idle" <=> call[c] = "idle"
<1>1. Len(tokens) \in Nat /\ 0 \in 0..Len(tokens)
  BY DEF SessionsTypeOK
<1>2. NoRefresh \in [at : RefreshStates, token : 0..Len(tokens), next : 0..Len(tokens)]
  BY <1>1 DEF NoRefresh, RefreshStates
<1>3. refresh' = [refresh EXCEPT ![t] = NoRefresh]
  BY DEF Resolve
<1>4. refresh' \in [Tabs -> [at : RefreshStates, token : 0..Len(tokens), next : 0..Len(tokens)]]
  BY <1>2, <1>3 DEF SessionsTypeOK, RefreshStates
<1>5. access' \in [Tabs -> {"new", "good", "stale", "none"}]
  BY DEF Resolve, SessionsTypeOK
<1>6. ASSUME NEW c \in Callers
      PROVE  /\ call'[c] \in CallStates
             /\ call'[c] = "waiting" => TabOf[c] # t /\ call[c] = "waiting"
             /\ call'[c] = "idle" <=> call[c] = "idle"
  BY DEF Resolve, SessionsTypeOK, CallStates
<1>7. call' \in [Callers -> CallStates]
  BY <1>6 DEF Resolve
<1>8. \A c \in Callers : call'[c] = "waiting" => refresh'[TabOf[c]].at # "idle"
  <2> SUFFICES ASSUME NEW c \in Callers, call'[c] = "waiting" PROVE refresh'[TabOf[c]].at # "idle"
    OBVIOUS
  <2>1. TabOf[c] # t /\ call[c] = "waiting" /\ TabOf[c] \in Tabs
    BY <1>6, SessionsAssumption
  <2> QED BY <1>3, <2>1 DEF SessionsTypeOK
<1> QED BY <1>4, <1>5, <1>6, <1>7, <1>8

LEMMA EndTypes ==
  ASSUME IInv, SessionsTypeOK, NEW t \in Tabs, Answered(t) \/ GiveUp(t)
  PROVE  SessionsTypeOK' /\ \A c \in Callers : call'[c] = "idle" <=> call[c] = "idle"
<1>1. PICK ok \in BOOLEAN : Resolve(t, ok)
  BY DEF Answered, GiveUp
<1>2. UNCHANGED <<tokens, signOuts>> /\ cookie' \in {0, cookie} \cup {refresh[u].next : u \in Tabs}
  BY DEF Answered, GiveUp
<1>3. events' \in 0..MaxEvents
  <2>1. events' = events \/ (events < MaxEvents /\ events' = events + 1)
    BY DEF Answered, GiveUp
  <2>2. events \in 0..MaxEvents /\ MaxEvents \in Nat
    BY SessionsAssumption DEF SessionsTypeOK
  <2> QED BY <2>1, <2>2
<1>4. stray' \subseteq 1..Len(tokens) /\ orphaned' \subseteq 1..Len(tokens)
  <2>1. CASE Answered(t)
    BY <2>1 DEF Answered, SessionsTypeOK
  <2>2. CASE GiveUp(t)
    <3>1. refresh[t].token \in 0..Len(tokens) /\ Len(tokens) \in Nat
      BY DEF SessionsTypeOK
    <3>2. {refresh[t].token} \ {0} \subseteq 1..Len(tokens)
      BY <3>1
    <3>3. refresh[t].at = "granted" => refresh[t].token \in 1..Len(tokens)
      BY DEF IInv, NamesAreRows
    <3>4. stray \subseteq 1..Len(tokens) /\ orphaned \subseteq 1..Len(tokens)
      BY DEF SessionsTypeOK
    <3> QED BY <2>2, <3>2, <3>3, <3>4 DEF GiveUp
  <2> QED BY <2>1, <2>2
<1> QED BY <1>1, <1>2, <1>3, <1>4, ResolveTypes, SameRows

LEMMA ServerTypes ==
  ASSUME IInv, SessionsTypeOK, NEW t \in Tabs, Consume(t) \/ RollBack(t) \/ Issue(t)
  PROVE  SessionsTypeOK' /\ call' = call
<1>1. /\ UNCHANGED <<cookie, access, stray, signOuts, orphaned, call>>
      /\ refresh[t].at \in {"sent", "consumed"}
  BY DEF Consume, RollBack, Issue
<1>2. /\ Len(tokens) \in Nat /\ tokens \in Seq(TokenRecord)
      /\ refresh \in [Tabs -> [at : RefreshStates, token : 0..Len(tokens), next : 0..Len(tokens)]]
  BY DEF SessionsTypeOK, RefreshStates, TokenRecord
<1>3. ASSUME refresh'[t].at # "idle", \A u \in Tabs \ {t} : refresh'[u] = refresh[u]
      PROVE  \A c \in Callers : call'[c] = "waiting" => refresh'[TabOf[c]].at # "idle"
  <2> SUFFICES ASSUME NEW c \in Callers, call[c] = "waiting" PROVE refresh'[TabOf[c]].at # "idle"
    BY <1>1
  <2>1. TabOf[c] \in Tabs /\ refresh[TabOf[c]].at # "idle"
    BY SessionsAssumption DEF SessionsTypeOK
  <2> QED BY <1>3, <2>1
<1>4. CASE Consume(t) \/ RollBack(t)
  <2>1. PICK at \in {"consumed", "refused"} : refresh' = [refresh EXCEPT ![t].at = at]
    BY <1>4 DEF Consume, RollBack
  <2>2. /\ refresh' \in [Tabs -> [at : RefreshStates, token : 0..Len(tokens), next : 0..Len(tokens)]]
        /\ refresh'[t].at # "idle" /\ \A u \in Tabs \ {t} : refresh'[u] = refresh[u]
    BY <1>2, <2>1 DEF RefreshStates
  <2>3. UNCHANGED tokens /\ events' \in 0..MaxEvents
    <3>1. UNCHANGED tokens /\ (events' = events \/ (events < MaxEvents /\ events' = events + 1))
      BY <1>4 DEF Consume, RollBack
    <3>2. events \in 0..MaxEvents /\ MaxEvents \in Nat
      BY SessionsAssumption DEF SessionsTypeOK
    <3> QED BY <3>1, <3>2
  <2> QED BY <1>1, <1>3, <2>2, <2>3, SameRows DEF SessionsTypeOK, CallStates
<1>5. CASE Issue(t)
  <2>1. /\ tokens' = Rotated(refresh[t].token) /\ events' = events
        /\ refresh' = [refresh EXCEPT ![t].at = "granted", ![t].next = Len(tokens')]
    BY <1>5 DEF Issue
  <2>2. refresh[t].token \in DOMAIN tokens
    BY <1>5 DEF Issue, IInv, ConsumedIsLive
  <2>3. tokens' \in Seq(TokenRecord) /\ Len(tokens') = Len(tokens) + 1
    BY <2>1, <2>2, RotationTypes
  <2>4. 0..Len(tokens) \subseteq 0..Len(tokens') /\ 1..Len(tokens) \subseteq 1..Len(tokens')
        /\ Len(tokens') \in 0..Len(tokens')
    BY <1>2, <2>3
  <2>5. refresh \in [Tabs -> [at : RefreshStates, token : 0..Len(tokens'), next : 0..Len(tokens')]]
    BY <1>2, <2>4
  <2>6. /\ refresh' \in [Tabs -> [at : RefreshStates, token : 0..Len(tokens'), next : 0..Len(tokens')]]
        /\ refresh'[t].at # "idle" /\ \A u \in Tabs \ {t} : refresh'[u] = refresh[u]
    <3> DEFINE now == [refresh[t] EXCEPT !.at = "granted", !.next = Len(tokens')]
    <3>1. refresh[t] \in [at : RefreshStates, token : 0..Len(tokens'), next : 0..Len(tokens')]
      BY <2>5
    <3>2. /\ now \in [at : RefreshStates, token : 0..Len(tokens'), next : 0..Len(tokens')]
          /\ now.at = "granted"
      BY <2>4, <3>1 DEF RefreshStates
    <3>3. refresh' = [refresh EXCEPT ![t] = now]
      BY <2>1
    <3> HIDE DEF now
    <3> QED BY <2>5, <3>2, <3>3
  <2>7. /\ cookie' \in 0..Len(tokens') /\ stray' \subseteq 1..Len(tokens')
        /\ orphaned' \subseteq 1..Len(tokens') /\ Len(tokens) <= Len(tokens')
        /\ access' \in [Tabs -> {"new", "good", "stale", "none"}]
    BY <1>1, <1>2, <2>3, <2>4 DEF SessionsTypeOK
  <2>8. call' \in [Callers -> CallStates] /\ events' \in 0..MaxEvents
    BY <1>1, <2>1 DEF SessionsTypeOK, CallStates
  <2>9. \A c \in Callers : call'[c] = "waiting" => refresh'[TabOf[c]].at # "idle"
    BY <1>3, <2>6
  <2> QED BY <1>1, <2>3, <2>6, <2>7, <2>8, <2>9, SessionTypesKept
<1> QED BY <1>1, <1>4, <1>5

LEMMA StrayTypes ==
  ASSUME IInv, SessionsTypeOK, NEW k \in stray, ServeStray(k)
  PROVE  SessionsTypeOK' /\ call' = call
<1>1. /\ UNCHANGED <<cookie, access, refresh, signOuts, call, events>> /\ stray' = stray \ {k}
      /\ k \in 1..Len(tokens)
  BY DEF ServeStray, SessionsTypeOK
<1>2. /\ Len(tokens) \in Nat /\ tokens \in Seq(TokenRecord) /\ DOMAIN tokens = 1..Len(tokens)
      /\ refresh \in [Tabs -> [at : RefreshStates, token : 0..Len(tokens), next : 0..Len(tokens)]]
  BY DEF SessionsTypeOK, RefreshStates, TokenRecord
<1>3. /\ tokens' \in Seq(TokenRecord) /\ Len(tokens') \in Nat /\ Len(tokens) <= Len(tokens')
      /\ orphaned' \subseteq orphaned \cup {k}
  <2>1. CASE IsLive(k)
    BY <1>1, <1>2, <2>1, RotationTypes DEF ServeStray
  <2>2. CASE ~IsLive(k)
    BY <1>2, <2>2 DEF ServeStray
  <2> QED BY <2>1, <2>2
<1>4. 0..Len(tokens) \subseteq 0..Len(tokens') /\ 1..Len(tokens) \subseteq 1..Len(tokens')
  BY <1>2, <1>3
<1>5. refresh' \in [Tabs -> [at : RefreshStates, token : 0..Len(tokens'), next : 0..Len(tokens')]]
  BY <1>1, <1>2, <1>4
<1>6. /\ cookie' \in 0..Len(tokens') /\ stray' \subseteq 1..Len(tokens')
      /\ orphaned' \subseteq 1..Len(tokens')
  BY <1>1, <1>3, <1>4 DEF SessionsTypeOK
<1> QED BY <1>1, <1>3, <1>5, <1>6, SessionTypesKept DEF SessionsTypeOK, CallStates

LEMMA SignTypes ==
  ASSUME SessionsTypeOK, NEW c \in Callers, SignOut(c) \/ SignIn(TabOf[c])
  PROVE  SessionsTypeOK' /\ \A b \in Callers \ {c} : call'[b] = call[b]
<1>1. /\ Len(tokens) \in Nat /\ tokens \in Seq(TokenRecord)
      /\ cookie \in 0..Len(tokens) /\ events \in 0..MaxEvents /\ MaxEvents \in Nat
      /\ refresh \in [Tabs -> [at : RefreshStates, token : 0..Len(tokens), next : 0..Len(tokens)]]
  BY SessionsAssumption DEF SessionsTypeOK, RefreshStates, TokenRecord
<1>2. /\ UNCHANGED <<access, refresh, stray, orphaned>>
      /\ \A b \in Callers \ {c} : call'[b] = call[b]
      /\ call' \in [Callers -> CallStates]
      /\ \A b \in Callers : call'[b] = "waiting" => call[b] = "waiting"
  BY DEF SignOut, SignIn, SessionsTypeOK, CallStates
<1>3. \A b \in Callers : call'[b] = "waiting" => refresh'[TabOf[b]].at # "idle"
  BY <1>2 DEF SessionsTypeOK
<1>4. CASE SignOut(c)
  <2> DEFINE new == [tab |-> TabOf[c], token |-> cookie, at |-> "sent"]
  <2>1. UNCHANGED <<tokens, cookie, events>> /\ signOuts' = signOuts \cup {new}
    BY <1>4 DEF SignOut
  <2>2. new \in SignOutsNaming(Len(tokens))
    BY <1>1, SessionsAssumption DEF SignOutsNaming
  <2>3. signOuts' \subseteq signOuts \cup SignOutsNaming(Len(tokens))
    BY <2>1, <2>2
  <2> QED BY <1>1, <1>2, <1>3, <2>1, <2>3, SameRows DEF SessionsTypeOK
<1>5. CASE SignIn(TabOf[c])
  <2>1. /\ events < MaxEvents /\ events' = events + 1 /\ cookie' = Len(tokens')
        /\ tokens' = Append(tokens, [signIn |-> events' + 1, state |-> "live"])
        /\ UNCHANGED signOuts
    BY <1>5 DEF SignIn
  <2>2. [signIn |-> events' + 1, state |-> "live"] \in TokenRecord
    BY <1>1, <2>1 DEF TokenRecord
  <2>3. tokens' \in Seq(TokenRecord) /\ Len(tokens') = Len(tokens) + 1
    BY <1>1, <2>1, <2>2
  <2>4. 0..Len(tokens) \subseteq 0..Len(tokens') /\ 1..Len(tokens) \subseteq 1..Len(tokens')
        /\ events' \in 0..MaxEvents /\ cookie' \in 0..Len(tokens')
    BY <1>1, <2>1, <2>3
  <2>5. refresh' \in [Tabs -> [at : RefreshStates, token : 0..Len(tokens'),
                               next : 0..Len(tokens')]]
    BY <1>1, <1>2, <2>4
  <2>6. stray' \subseteq 1..Len(tokens') /\ orphaned' \subseteq 1..Len(tokens')
        /\ access' \in [Tabs -> {"new", "good", "stale", "none"}]
    BY <1>2, <2>4 DEF SessionsTypeOK
  <2>7. Len(tokens) <= Len(tokens')
    BY <1>1, <2>3
  <2> QED BY <1>2, <1>3, <2>1, <2>3, <2>4, <2>5, <2>6, <2>7, SessionTypesKept
<1> QED BY <1>2, <1>4, <1>5

LEMMA SignOutTypes ==
  ASSUME SessionsTypeOK, NEW o \in signOuts, ServeSignOut(o) \/ SignedOut(o) \/ LoseSignOut(o)
  PROVE  SessionsTypeOK' /\ call' = call
<1>1. /\ Len(tokens) \in Nat /\ tokens \in Seq(TokenRecord) /\ DOMAIN tokens = 1..Len(tokens)
      /\ refresh \in [Tabs -> [at : RefreshStates, token : 0..Len(tokens), next : 0..Len(tokens)]]
      /\ o \in SignOutsNaming(Len(tokens)) /\ cookie \in 0..Len(tokens)
  BY DEF SessionsTypeOK, RefreshStates, TokenRecord, SignOutsNaming
<1>2. o.tab \in Tabs /\ o.token \in 0..Len(tokens) /\ {o.token} \ {0} \subseteq 1..Len(tokens)
  <2>1. o.tab \in Tabs /\ o.token \in 0..Len(tokens)
    BY <1>1 DEF SignOutsNaming
  <2> QED BY <1>1, <2>1
<1>3. /\ UNCHANGED <<refresh, stray, call>> /\ cookie' \in {0, cookie}
      /\ orphaned' \subseteq orphaned \cup ({o.token} \ {0})
      /\ access' = access \/ access' = [access EXCEPT ![o.tab] = "none"]
      /\ \E at \in {"served", "forsaken"} : signOuts' \subseteq signOuts \cup {[o EXCEPT !.at = at]}
      /\ events' = events \/ (events < MaxEvents /\ events' = events + 1)
  BY DEF ServeSignOut, SignedOut, LoseSignOut
<1>4. tokens' \in Seq(TokenRecord) /\ Len(tokens') = Len(tokens)
  <2>1. CASE UNCHANGED tokens
    BY <1>1, <2>1
  <2>2. CASE IsLive(o.token) /\ tokens' = [tokens EXCEPT ![o.token].state = "revoked"]
    <3>1. o.token \in DOMAIN tokens /\ tokens[o.token] \in TokenRecord
      BY <1>1, <1>2, <2>2 DEF IsLive
    <3>2. [tokens[o.token] EXCEPT !.state = "revoked"] \in TokenRecord
      BY <3>1 DEF TokenRecord
    <3> QED BY <1>1, <2>2, <3>1, <3>2
  <2> QED BY <2>1, <2>2 DEF ServeSignOut, SignedOut, LoseSignOut
<1>5. signOuts' \subseteq signOuts \cup SignOutsNaming(Len(tokens))
  BY <1>1, <1>3 DEF SignOutsNaming
<1>6. access' \in [Tabs -> {"new", "good", "stale", "none"}]
  BY <1>3 DEF SessionsTypeOK
<1>7. events' \in 0..MaxEvents
  <2>1. events \in 0..MaxEvents /\ MaxEvents \in Nat
    BY SessionsAssumption DEF SessionsTypeOK
  <2> QED BY <1>3, <2>1
<1>8. /\ stray' \subseteq 1..Len(tokens') /\ orphaned' \subseteq 1..Len(tokens')
      /\ cookie' \in 0..Len(tokens')
  BY <1>1, <1>2, <1>3, <1>4 DEF SessionsTypeOK
<1>9. /\ refresh' \in [Tabs -> [at : RefreshStates, token : 0..Len(tokens'),
                                next : 0..Len(tokens')]]
      /\ call' \in [Callers -> CallStates]
      /\ \A c \in Callers : call'[c] = "waiting" => refresh'[TabOf[c]].at # "idle"
  BY <1>1, <1>3, <1>4 DEF SessionsTypeOK, CallStates
<1>10. Len(tokens) <= Len(tokens')
  BY <1>1, <1>4
<1> QED BY <1>3, <1>4, <1>5, <1>6, <1>7, <1>8, <1>9, <1>10, SessionTypesKept

(***************************************************************************)
(* The steps of the page.                                                  *)
(***************************************************************************)

\* What a page step may do to the calls: nobody begins to wait.
QuietCalls ==
  /\ call' \in [Callers -> CallStates]
  /\ \A c \in Callers : call'[c] = "waiting" => call[c] = "waiting"

SameSession == UNCHANGED tokenVars /\ events' \in 0..MaxEvents /\ events' \in {events, events + 1}

PageKept == FormsOK' /\ PageIsMounted' /\ CardsTyped'

LEMMA PageStepKeepsPage ==
  ASSUME PageInv, SameSession, QuietCalls, PageKept
  PROVE  PageInv'
<1>1. SessionsTypeOK'
  BY CallMoves DEF PageInv, SameSession, QuietCalls
<1>2. IInv'
  BY IdlePreserves DEF PageInv, SameSession, tokenVars
<1> QED BY <1>1, <1>2 DEF PageInv, PageKept

LEMMA EventsOfAStep ==
  ASSUME SessionsTypeOK
  PROVE  /\ events \in 0..MaxEvents
         /\ events < MaxEvents /\ events' = events + 1 => events' \in 0..MaxEvents
<1>1. events \in 0..MaxEvents /\ MaxEvents \in Nat
  BY SessionsAssumption DEF SessionsTypeOK
<1> QED BY <1>1

LEMMA SlotFacts ==
  /\ \A s \in Slots : s \in Callers /\ s # Loader /\ s # Submitter
  /\ Loader \in Callers /\ Submitter \in Callers /\ Loader # Submitter
BY PicksPageAssumption

LEMMA SaveIsUnderWay == ASSUME NEW s, form[s].saving # {} PROVE SaveOf(s) \in form[s].saving
BY DEF SaveOf

\* One form moves.
LEMMA OneFormMoves ==
  ASSUME PageInv, NEW s \in Slots, NEW f, form' = [form EXCEPT ![s] = f], FormOK(f, call'[s]),
         f.mounted <=> form[s].mounted, page' = page,
         \A z \in Slots \ {s} : call'[z] = call[z]
  PROVE  FormsOK' /\ PageIsMounted'
<1>1. DOMAIN form = Slots /\ form'[s] = f /\ \A z \in Slots \ {s} : form'[z] = form[z]
  BY DEF PageInv, FormsOK
<1>2. form' \in [Slots -> FormRecord]
  BY DEF PageInv, FormsOK, FormOK
<1>3. \A z \in Slots : form'[z].mounted <=> form[z].mounted
  BY <1>1
<1>4. \A z \in Slots : FormOK(form'[z], call'[z])
  BY <1>1 DEF PageInv, FormsOK
<1> QED BY <1>2, <1>3, <1>4 DEF PageInv, FormsOK, PageIsMounted

\* No form moves, and no form's call comes or goes.
LEMMA FormsStay ==
  ASSUME PageInv, UNCHANGED <<form, page>>,
         \A s \in Slots : call'[s] = "idle" <=> call[s] = "idle"
  PROVE  FormsOK' /\ PageIsMounted'
BY DEF PageInv, FormsOK, PageIsMounted, FormOK

LEMMA ReloadedIsOK ==
  ASSUME NEW f, FormOK(f, "idle"), f.saving # {}
  PROVE  LET g == [f EXCEPT !.reloaded = TRUE] IN
         FormOK(g, "idle") /\ (g.mounted <=> f.mounted)
<1> DEFINE g == [f EXCEPT !.reloaded = TRUE]
<1>1. f \in FormRecord
  BY DEF FormOK
<1>2. /\ g \in FormRecord /\ g.pending = f.pending /\ g.timer = f.timer /\ g.saving = f.saving
      /\ g.version = f.version /\ g.mounted = f.mounted /\ g.clean = f.clean
      /\ g.error = f.error
  BY <1>1 DEF FormRecord
<1> HIDE DEF g
<1>3. FormOK(g, "idle")
  BY <1>2 DEF FormOK
<1> QED BY <1>2, <1>3 DEF g

LEMMA AskIsQuiet ==
  ASSUME SessionsTypeOK, NEW c \in Callers, Ask(c)
  PROVE  QuietCalls /\ call'[c] # "idle" /\ \A b \in Callers \ {c} : call'[b] = call[b]
BY DEF Ask, QuietCalls, SessionsTypeOK, CallStates

LEMMA EditKeepsPage ==
  ASSUME PageInv, NEW ch \in Choices, Edit(ch[1], ch[2])
  PROVE  SameSession /\ QuietCalls /\ PageKept
<1> DEFINE g == ch[1]
           conf == ch[2]
           f == form[page]
           d == [f.draft EXCEPT ![g] = conf]
           e == [f EXCEPT !.draft = d, !.version = @ + 1, !.clean = FALSE, !.error = FALSE]
           v == [version |-> f.version + 1, draft |-> d]
<1>1. /\ page # NoPage /\ edits < MaxEdits /\ latest' = d /\ edits' = edits + 1
      /\ form' = [form EXCEPT ![page] = Scheduled(e, v)]
      /\ UNCHANGED <<page, displaced, cardVars, lockVars, sessionVars>>
  BY DEF Edit
<1>2. page \in Slots /\ FormOK(f, call[page]) /\ f \in FormRecord
  BY <1>1 DEF PageInv, FormsOK, PageIsMounted, FormOK
<1>3. g \in Games /\ conf \in 0..Cardinality(Games)
  BY PicksPageAssumption
<1>4. f.draft \in Draft /\ f.version \in Nat
  BY <1>2 DEF FormRecord
<1>5. d \in Draft
  BY <1>3, <1>4 DEF Draft
<1> HIDE DEF d, f
<1>6. /\ e \in FormRecord /\ e.version = f.version + 1 /\ e.saving = f.saving
      /\ e.mounted = f.mounted /\ e.reloaded = f.reloaded /\ e.pending = f.pending
  <2>1. f.version + 1 \in Nat
    BY <1>4
  <2> QED BY <1>2, <1>5, <2>1 DEF FormRecord
<1>7. v \in Save /\ v.version = f.version + 1
  BY <1>4, <1>5 DEF Save
<1> HIDE DEF e, v
<1>8. FormOK(Scheduled(e, v), call[page]) /\ (Scheduled(e, v).mounted <=> f.mounted)
  <2> DEFINE h == [e EXCEPT !.pending = {v}, !.timer = TRUE]
  <2>1. /\ h \in FormRecord /\ h.pending = {v} /\ h.timer /\ h.saving = f.saving
        /\ h.reloaded = f.reloaded /\ h.version = f.version + 1 /\ h.mounted = f.mounted
    BY <1>6, <1>7 DEF FormRecord
  <2>2. \A w \in f.saving : w.version \in Nat /\ w.version <= f.version
    BY <1>2 DEF FormOK, FormRecord, Save
  <2> HIDE DEF h
  <2>3. FormOK(h, call[page])
    BY <1>2, <1>4, <1>7, <2>1, <2>2 DEF FormOK, AtMostOne
  <2> QED BY <2>1, <2>3 DEF Scheduled, h
<1>9. FormsOK' /\ PageIsMounted'
  BY <1>1, <1>2, <1>8, OneFormMoves DEF sessionVars, f
<1>10. CardsTyped'
  <2>1. edits' \in 0..MaxEdits
    BY <1>1, PicksPageAssumption DEF PageInv, CardsTyped
  <2> QED BY <1>1, <1>5, <2>1 DEF PageInv, CardsTyped, cardVars, lockVars
<1>11. SameSession /\ QuietCalls
  BY <1>1, EventsOfAStep
     DEF SameSession, QuietCalls, sessionVars, PageInv, SessionsTypeOK, CallStates
<1> QED BY <1>9, <1>10, <1>11 DEF PageKept

LEMMA RetryKeepsPage ==
  ASSUME PageInv, Retry
  PROVE  SameSession /\ QuietCalls /\ PageKept
<1> DEFINE f == form[page]
<1>1. /\ page # NoPage /\ form' = [form EXCEPT ![page] = Scheduled(f, Current(f))]
      /\ UNCHANGED <<page, latest, displaced, edits, cardVars, lockVars, sessionVars>>
  BY DEF Retry
<1>2. page \in Slots /\ FormOK(f, call[page]) /\ f \in FormRecord
  BY <1>1 DEF PageInv, FormsOK, PageIsMounted, FormOK
<1>3. Current(f) \in Save /\ Current(f).version = f.version /\ f.version \in Nat
  BY <1>2 DEF Current, Save, FormRecord
<1>4. FormOK(Scheduled(f, Current(f)), call[page]) /\ (Scheduled(f, Current(f)).mounted <=> f.mounted)
  BY <1>2, <1>3, ScheduledIsOK
<1>5. FormsOK' /\ PageIsMounted'
  BY <1>1, <1>2, <1>4, OneFormMoves DEF sessionVars
<1>6. CardsTyped'
  BY <1>1 DEF PageInv, CardsTyped, cardVars, lockVars
<1>7. SameSession /\ QuietCalls
  BY <1>1, EventsOfAStep
     DEF SameSession, QuietCalls, sessionVars, PageInv, SessionsTypeOK, CallStates
<1> QED BY <1>5, <1>6, <1>7 DEF PageKept

LEMMA FireKeepsPage ==
  ASSUME PageInv, NEW s \in Slots, Fire(s)
  PROVE  SameSession /\ QuietCalls /\ PageKept
<1> DEFINE o == form[s]
           f == [o EXCEPT !.timer = FALSE, !.pending = {}]
           isLatest == \E v \in o.pending : v.version = o.version
<1>1. /\ o.timer /\ UNCHANGED <<page, latest, displaced, edits, cardVars, lockVars, tokenVars, events>>
  BY DEF Fire
<1>2. FormOK(o, call[s]) /\ o \in FormRecord /\ s \in Callers
  BY SlotFacts DEF PageInv, FormsOK, FormOK
<1>3. \/ Working(s) /\ form' = [form EXCEPT ![s] = [o EXCEPT !.timer = FALSE]] /\ UNCHANGED call
      \/ /\ ~Working(s) /\ UNCHANGED call
         /\ form' = [form EXCEPT ![s] = Kept([f EXCEPT !.error = @ \/ isLatest])]
      \/ ~Working(s) /\ form' = [form EXCEPT ![s] = [f EXCEPT !.saving = o.pending]] /\ Ask(s)
  BY DEF Fire
<1>4. /\ f \in FormRecord /\ f.pending = {} /\ ~f.timer /\ f.saving = o.saving
      /\ f.version = o.version /\ f.mounted = o.mounted /\ f.clean = o.clean
      /\ f.error = o.error /\ f.reloaded = o.reloaded
  BY <1>2 DEF FormRecord
<1> HIDE DEF f
<1>8. CardsTyped' /\ SameSession
  BY <1>1, EventsOfAStep DEF PageInv, CardsTyped, cardVars, lockVars, SameSession
<1>5. CASE Working(s) /\ form' = [form EXCEPT ![s] = [o EXCEPT !.timer = FALSE]] /\ UNCHANGED call
  <2> DEFINE h == [o EXCEPT !.timer = FALSE]
  <2>1. /\ h \in FormRecord /\ ~h.timer /\ h.pending = o.pending /\ h.saving = o.saving
        /\ h.version = o.version /\ h.mounted = o.mounted /\ h.clean = o.clean
        /\ h.error = o.error /\ h.reloaded = o.reloaded
    BY <1>2 DEF FormRecord
  <2> HIDE DEF h
  <2>2. FormOK(h, call'[s]) /\ (h.mounted <=> o.mounted)
    BY <1>2, <1>5, <2>1 DEF FormOK, Working
  <2>3. FormsOK' /\ PageIsMounted'
    BY <1>1, <1>5, <2>2, OneFormMoves DEF h
  <2>4. QuietCalls
    BY <1>5 DEF QuietCalls, PageInv, SessionsTypeOK, CallStates
  <2> QED BY <1>8, <2>3, <2>4 DEF PageKept
<1>6. CASE /\ ~Working(s) /\ UNCHANGED call
           /\ form' = [form EXCEPT ![s] = Kept([f EXCEPT !.error = @ \/ isLatest])]
  <2> DEFINE h == [f EXCEPT !.error = @ \/ isLatest]
  <2>1. /\ h \in FormRecord /\ ~h.timer /\ h.pending = {} /\ h.saving = {}
        /\ h.version = o.version /\ h.mounted = o.mounted /\ h.clean = o.clean
        /\ h.error = (o.error \/ isLatest) /\ h.reloaded = o.reloaded
    BY <1>4, <1>6 DEF FormRecord, Working
  <2> HIDE DEF h
  <2>2. call[s] = "idle"
    BY <1>2, <1>6 DEF FormOK, Working
  <2>3. o.mounted => isLatest
    BY <1>1, <1>2 DEF FormOK
  <2>4. FormOK(h, "idle")
    BY <1>2, <1>6, <2>1, <2>3 DEF FormOK, AtMostOne, Working
  <2>5. FormOK(Kept(h), call'[s]) /\ (Kept(h).mounted <=> o.mounted)
    BY <1>6, <2>1, <2>2, <2>4, KeptIsOK
  <2>6. FormsOK' /\ PageIsMounted'
    BY <1>1, <1>6, <2>5, OneFormMoves DEF h
  <2>7. QuietCalls
    BY <1>6 DEF QuietCalls, PageInv, SessionsTypeOK, CallStates
  <2> QED BY <1>8, <2>6, <2>7 DEF PageKept
<1>7. CASE ~Working(s) /\ form' = [form EXCEPT ![s] = [f EXCEPT !.saving = o.pending]] /\ Ask(s)
  <2> DEFINE h == [f EXCEPT !.saving = o.pending]
  <2>1. /\ h \in FormRecord /\ ~h.timer /\ h.pending = {} /\ h.saving = o.pending
        /\ h.version = o.version /\ h.mounted = o.mounted /\ h.reloaded = o.reloaded
    BY <1>2, <1>4 DEF FormRecord
  <2> HIDE DEF h
  <2>2. o.pending # {} /\ ~o.reloaded
    BY <1>1, <1>2, <1>7 DEF FormOK, Working
  <2>3. FormOK(h, call'[s]) /\ (h.mounted <=> o.mounted)
    BY <1>2, <2>1, <2>2 DEF FormOK, AtMostOne
  <2>4. QuietCalls /\ \A z \in Slots \ {s} : call'[z] = call[z]
    BY <1>2, <1>7, AskIsQuiet, SlotFacts DEF PageInv
  <2>5. FormsOK' /\ PageIsMounted'
    BY <1>1, <1>7, <2>3, <2>4, OneFormMoves DEF h
  <2> QED BY <1>8, <2>4, <2>5 DEF PageKept
<1> QED BY <1>3, <1>5, <1>6, <1>7

LEMMA ReloadingKeepsForms ==
  ASSUME PageInv, NEW awaits, awaits \subseteq {z \in Slots : Reloading(z)}, page' = page,
         form' = [z \in Slots |->
                    IF z \in awaits THEN [form[z] EXCEPT !.reloaded = TRUE] ELSE form[z]],
         \A z \in Slots : call'[z] = call[z] \/ (call'[z] = "idle" /\ z \notin awaits)
  PROVE  FormsOK' /\ PageIsMounted'
<1>1. ASSUME NEW z \in Slots
      PROVE  FormOK(form'[z], call'[z]) /\ (form'[z].mounted <=> form[z].mounted)
  <2>1. FormOK(form[z], call[z])
    BY DEF PageInv, FormsOK
  <2>2. CASE z \in awaits
    <3>1. form[z].saving # {} /\ call[z] = "idle" /\ call'[z] = "idle"
      BY <2>2 DEF Reloading, Working
    <3>2. form'[z] = [form[z] EXCEPT !.reloaded = TRUE]
      BY <2>2
    <3> QED BY <2>1, <3>1, <3>2, ReloadedIsOK
  <2>3. CASE z \notin awaits
    <3>1. form'[z] = form[z] /\ call'[z] \in {call[z], "idle"}
      BY <2>3
    <3> QED BY <2>1, <3>1 DEF FormOK
  <2> QED BY <2>2, <2>3
<1>2. form' \in [Slots -> FormRecord]
  BY <1>1 DEF FormOK
<1> QED BY <1>1, <1>2 DEF FormsOK, PageIsMounted, PageInv

LEMMA InvalidateKeepsForms ==
  ASSUME PageInv, NEW s \in Slots \cup {Submitter}, page' = page, Invalidate(s)
  PROVE  QuietCalls /\ FormsOK' /\ PageIsMounted'
<1> DEFINE awaits == {z \in Slots \ {s} : Reloading(z)}
<1>1. form' = [z \in Slots |->
                 IF z \in awaits THEN [form[z] EXCEPT !.reloaded = TRUE] ELSE form[z]]
  BY DEF Invalidate
<1>2. call' = [call EXCEPT ![s] = "idle",
                 ![Loader] = IF access[TabOf[Loader]] = "good" THEN "asked" ELSE "denied"]
  BY DEF Invalidate
<1>3. \A z \in Slots : call'[z] = call[z] \/ (call'[z] = "idle" /\ z \notin awaits)
  BY <1>2, SlotFacts DEF PageInv, SessionsTypeOK
<1>4. QuietCalls
  BY <1>2, SlotFacts DEF PageInv, SessionsTypeOK, QuietCalls, CallStates
<1>5. awaits \subseteq {z \in Slots : Reloading(z)}
  OBVIOUS
<1> HIDE DEF awaits
<1> QED BY <1>1, <1>3, <1>4, <1>5, ReloadingKeepsForms

\* A save is over, and the form is told of it if its draft is still the one.
LEMMA FinallyKeepsForms ==
  ASSUME PageInv, NEW s \in Slots, NEW told \in FormRecord, page' = page,
         form[s].saving # {},
         form' = [form EXCEPT ![s] = Finally(told, SaveOf(s))],
         told.mounted = form[s].mounted, told.version = form[s].version,
         told.pending = form[s].pending, told.saving = form[s].saving,
         told.timer = form[s].timer,
         told.mounted /\ SaveOf(s).version = told.version => told.clean \/ told.error,
         call'[s] = "idle", \A z \in Slots \ {s} : call'[z] = call[z]
  PROVE  FormsOK' /\ PageIsMounted'
<1>1. FormOK(form[s], call[s])
  BY DEF PageInv, FormsOK
<1>2. SaveOf(s) \in told.saving
  BY SaveIsUnderWay
<1>3. FormOK(Finally(told, SaveOf(s)), "idle")
      /\ (Finally(told, SaveOf(s)).mounted <=> form[s].mounted)
  BY <1>1, <1>2, FinallyIsOK DEF FormOK
<1> QED BY <1>3, OneFormMoves

LEMMA SavedKeepsPage ==
  ASSUME PageInv, NEW s \in Slots, Saved(s)
  PROVE  SameSession /\ QuietCalls /\ PageKept
<1> DEFINE save == SaveOf(s)
<1>1. /\ call[s] = "served"
      /\ UNCHANGED <<page, latest, displaced, edits, cardVars, lockVars, tokenVars, events>>
      /\ IF save.version = form[s].version
         THEN Invalidate(s)
         ELSE /\ form' = [form EXCEPT ![s] = Finally(form[s], save)]
              /\ call' = [call EXCEPT ![s] = "idle"]
  BY DEF Saved
<1>2. CardsTyped' /\ SameSession
  BY <1>1, EventsOfAStep DEF PageInv, CardsTyped, cardVars, lockVars, SameSession
<1>3. CASE save.version = form[s].version
  BY <1>1, <1>2, <1>3, InvalidateKeepsForms DEF PageKept
<1>4. CASE save.version # form[s].version
  <2>1. form[s] \in FormRecord /\ form[s].saving # {}
    BY <1>1 DEF PageInv, FormsOK, FormOK
  <2>2. call' = [call EXCEPT ![s] = "idle"] /\ call \in [Callers -> CallStates]
    BY <1>1, <1>4 DEF PageInv, SessionsTypeOK, CallStates
  <2>3. QuietCalls /\ call'[s] = "idle" /\ \A z \in Slots \ {s} : call'[z] = call[z]
    BY <2>2, SlotFacts DEF QuietCalls, CallStates
  <2>4. FormsOK' /\ PageIsMounted'
    BY <1>1, <1>4, <2>1, <2>3, FinallyKeepsForms
  <2> QED BY <1>2, <2>3, <2>4 DEF PageKept
<1> QED BY <1>3, <1>4

LEMMA SettleKeepsPage ==
  ASSUME PageInv, NEW s \in Slots, Settle(s)
  PROVE  SameSession /\ QuietCalls /\ PageKept
<1> DEFINE o == form[s]
           fresh == SaveOf(s).version = o.version /\ o.mounted
           told == IF fresh THEN [o EXCEPT !.clean = TRUE, !.error = FALSE] ELSE o
<1>1. /\ o.saving # {} /\ o.reloaded /\ form' = [form EXCEPT ![s] = Finally(told, SaveOf(s))]
      /\ UNCHANGED <<page, latest, displaced, edits, cardVars, lockVars, sessionVars>>
  BY DEF Settle, Working
<1>2. o \in FormRecord /\ call[s] = "idle"
  BY <1>1 DEF PageInv, FormsOK, FormOK
<1>3. /\ told \in FormRecord /\ told.mounted = o.mounted /\ told.version = o.version
      /\ told.pending = o.pending /\ told.saving = o.saving /\ told.timer = o.timer
      /\ fresh => told.clean
  BY <1>2 DEF FormRecord
<1> HIDE DEF told
<1>4. FormsOK' /\ PageIsMounted'
  BY <1>1, <1>2, <1>3, FinallyKeepsForms DEF sessionVars
<1>5. CardsTyped'
  BY <1>1 DEF PageInv, CardsTyped, cardVars, lockVars
<1>6. SameSession /\ QuietCalls
  BY <1>1, EventsOfAStep
     DEF SameSession, QuietCalls, sessionVars, PageInv, SessionsTypeOK, CallStates
<1> QED BY <1>4, <1>5, <1>6 DEF PageKept

LEMMA SaveFailedKeepsPage ==
  ASSUME PageInv, NEW s \in Slots, SaveFailed(s)
  PROVE  SameSession /\ QuietCalls /\ PageKept
<1> DEFINE o == form[s]
           fresh == SaveOf(s).version = o.version /\ o.mounted
           told == IF fresh THEN [o EXCEPT !.error = TRUE] ELSE o
<1>1. /\ call[s] = "failed" /\ form' = [form EXCEPT ![s] = Finally(told, SaveOf(s))]
      /\ call' = [call EXCEPT ![s] = "idle"]
      /\ UNCHANGED <<page, latest, displaced, edits, cardVars, lockVars, tokenVars, events>>
  BY DEF SaveFailed
<1>2. o \in FormRecord /\ o.saving # {}
  BY <1>1 DEF PageInv, FormsOK, FormOK
<1>3. /\ told \in FormRecord /\ told.mounted = o.mounted /\ told.version = o.version
      /\ told.pending = o.pending /\ told.saving = o.saving /\ told.timer = o.timer
      /\ fresh => told.error
  BY <1>2 DEF FormRecord
<1> HIDE DEF told
<1>4. call \in [Callers -> CallStates]
  BY DEF PageInv, SessionsTypeOK, CallStates
<1>5. QuietCalls /\ call'[s] = "idle" /\ \A z \in Slots \ {s} : call'[z] = call[z]
  BY <1>1, <1>4, SlotFacts DEF QuietCalls, CallStates
<1>6. FormsOK' /\ PageIsMounted'
  BY <1>1, <1>2, <1>3, <1>5, FinallyKeepsForms
<1>7. CardsTyped' /\ SameSession
  BY <1>1, EventsOfAStep DEF PageInv, CardsTyped, cardVars, lockVars, SameSession
<1> QED BY <1>5, <1>6, <1>7 DEF PageKept

\* The draft of a save under way is a draft.
LEMMA SaveTypes ==
  ASSUME PageInv, NEW s \in Slots, call[s] # "idle"
  PROVE  SaveOf(s).draft \in Draft
<1>1. SaveOf(s) \in form[s].saving /\ form[s] \in FormRecord
  BY SaveIsUnderWay DEF PageInv, FormsOK, FormOK
<1> QED BY <1>1 DEF FormRecord, Save

LEMMA ServerKeepsPage ==
  ASSUME PageInv, \/ \E s \in Slots : ServeSave(s)
                  \/ ServeSubmit \/ ServeCard
                  \/ \E d \in dropped : ServeDropped(d)
  PROVE  SameSession /\ QuietCalls /\ PageKept
<1>1. UNCHANGED <<page, form, latest, displaced, edits, lockVars, tokenVars, events>>
  BY DEF ServeSave, ServeSubmit, ServeCard, ServeDropped, formVars, pageVars, sessionVars
<1>2. /\ call \in [Callers -> CallStates] /\ stored \in Card /\ dropped \subseteq Draft
      /\ fetched \in Card /\ snapshot \in Card
  BY DEF PageInv, SessionsTypeOK, CallStates, CardsTyped
<1>3. /\ QuietCalls /\ \A z \in Slots : call'[z] = "idle" <=> call[z] = "idle"
      /\ stored' \in Card /\ snapshot' \in Card /\ dropped' \subseteq Draft
      /\ UNCHANGED <<fetched, shown, disturbed>>
  <2>1. ASSUME NEW s \in Slots, ServeSave(s)
        PROVE  /\ QuietCalls /\ \A z \in Slots : call'[z] = "idle" <=> call[z] = "idle"
               /\ stored' \in Card /\ UNCHANGED <<snapshot, dropped, fetched, shown, disturbed>>
    <3>1. stored' \in {stored, Stored(SaveOf(s).draft, stored)} /\ call[s] = "asked"
          /\ UNCHANGED <<snapshot, dropped, fetched, shown, disturbed>>
      BY <2>1 DEF ServeSave
    <3>2. stored' \in Card
      BY <1>2, <3>1, SaveTypes, StoredTypes
    <3>3. \/ call' = [call EXCEPT ![s] = "failed"]
          \/ call' = [call EXCEPT ![s] = "served"]
      BY <2>1 DEF ServeSave
    <3> QED BY <1>2, <3>1, <3>2, <3>3, SlotFacts DEF QuietCalls, CallStates
  <2>2. CASE ServeSubmit
    BY <1>2, <2>2, SlotFacts DEF ServeSubmit, QuietCalls, CallStates, pageVars, cardVars
  <2>3. CASE ServeCard
    BY <1>2, <2>3, SlotFacts DEF ServeCard, QuietCalls, CallStates
  <2>4. ASSUME NEW d \in dropped, ServeDropped(d)
        PROVE  /\ stored' \in Card /\ dropped' \subseteq Draft
               /\ UNCHANGED <<call, snapshot, fetched, shown, disturbed>>
    <3>1. stored' \in {stored, Stored(d, stored)} /\ dropped' = dropped \ {d}
          /\ UNCHANGED <<call, snapshot, fetched, shown, disturbed>>
      BY <2>4 DEF ServeDropped, sessionVars
    <3>2. d \in Draft
      BY <1>2
    <3> QED BY <1>2, <3>1, <3>2, StoredTypes
  <2>5. ASSUME UNCHANGED call
        PROVE  QuietCalls /\ \A z \in Slots : call'[z] = "idle" <=> call[z] = "idle"
    BY <1>2, <2>5 DEF QuietCalls
  <2> QED BY <1>2, <2>1, <2>2, <2>3, <2>4, <2>5
<1>4. FormsOK' /\ PageIsMounted'
  BY <1>1, <1>3, FormsStay
<1>5. CardsTyped' /\ SameSession
  BY <1>1, <1>3, EventsOfAStep DEF PageInv, CardsTyped, lockVars, SameSession
<1> QED BY <1>3, <1>4, <1>5 DEF PageKept

LEMMA CardArrivesKeepsPage ==
  ASSUME PageInv, CardArrives
  PROVE  SameSession /\ QuietCalls /\ PageKept
<1> DEFINE awaits == {z \in Slots : Reloading(z)}
<1>1. /\ call' = [call EXCEPT ![Loader] = "idle"] /\ fetched' \in {fetched, snapshot}
      /\ shown' \in {"card", "error"} /\ disturbed' \in {disturbed, TRUE}
      /\ UNCHANGED <<page, latest, displaced, edits, stored, snapshot, dropped, lockVars,
                     tokenVars, events>>
      /\ form' = [z \in Slots |->
                    IF z \in awaits THEN [form[z] EXCEPT !.reloaded = TRUE] ELSE form[z]]
  BY DEF CardArrives
<1>2. QuietCalls /\ \A z \in Slots : call'[z] = call[z]
  BY <1>1, SlotFacts DEF PageInv, SessionsTypeOK, QuietCalls, CallStates
<1>3. FormsOK' /\ PageIsMounted'
  BY <1>1, <1>2, ReloadingKeepsForms
<1>4. CardsTyped' /\ SameSession
  BY <1>1, EventsOfAStep DEF PageInv, CardsTyped, lockVars, SameSession
<1> QED BY <1>2, <1>3, <1>4 DEF PageKept

\* The form that leaves keeps what it has under way, and the one that comes is
\* clean.
LEMMA RenderKeepsPage ==
  ASSUME PageInv, Render
  PROVE  SameSession /\ QuietCalls /\ PageKept
<1> DEFINE left == [s \in Slots |->
                      IF form[s].mounted
                      THEN Kept([form[s] EXCEPT !.mounted = FALSE, !.timer = FALSE])
                      ELSE form[s]]
           free == {s \in Slots : left[s] = NoForm}
<1>1. /\ displaced' \in BOOLEAN /\ UNCHANGED <<latest, edits, cardVars, lockVars, sessionVars>>
      /\ IF shown = "error"
         THEN page' = NoPage /\ form' = left
         ELSE /\ free # {} /\ page' = (CHOOSE s \in free : TRUE)
              /\ form' = [left EXCEPT ![page'] = Mounted(fetched)]
  BY DEF Render, PageInv, CardsTyped
<1>3. ASSUME NEW s \in Slots PROVE FormOK(left[s], call[s]) /\ ~left[s].mounted
  <2> DEFINE o == form[s]
             h == [o EXCEPT !.mounted = FALSE, !.timer = FALSE]
  <2>1. FormOK(o, call[s]) /\ o \in FormRecord
    BY DEF PageInv, FormsOK, FormOK
  <2>2. /\ h \in FormRecord /\ ~h.mounted /\ ~h.timer /\ h.pending = o.pending
        /\ h.saving = o.saving /\ h.version = o.version /\ h.reloaded = o.reloaded
    BY <2>1 DEF FormRecord
  <2>3. left[s] = IF o.mounted THEN Kept(h) ELSE o
    OBVIOUS
  <2> HIDE DEF h
  <2>4. FormOK(h, call[s])
    BY <2>1, <2>2 DEF FormOK
  <2>5. CASE Kept(h) = h
    BY <2>1, <2>2, <2>3, <2>4, <2>5
  <2>6. CASE Kept(h) # h
    <3>1. Kept(h) = NoForm /\ h.saving = {}
      BY <2>6 DEF Kept
    <3>2. call[s] = "idle"
      BY <2>4, <3>1 DEF FormOK
    <3> QED BY <2>1, <2>3, <3>1, <3>2, NoFormIsOK
  <2> QED BY <2>5, <2>6
<1>7. left \in [Slots -> FormRecord]
  BY <1>3 DEF FormOK
<1> HIDE DEF left
<1>4. FormsOK' /\ PageIsMounted'
  <2>1. CASE shown = "error"
    <3>1. page' = NoPage /\ form' = left /\ call' = call
      BY <1>1, <2>1 DEF sessionVars
    <3> QED BY <1>3, <1>7, <3>1, FormsAssumption DEF FormsOK, PageIsMounted
  <2>2. CASE shown # "error"
    <3>1. page' \in Slots /\ left[page'] = NoForm /\ call' = call
          /\ form' = [left EXCEPT ![page'] = Mounted(fetched)]
      BY <1>1, <2>2 DEF sessionVars
    <3>2. call[page'] = "idle"
      BY <1>3, <3>1, NoFormIsOK DEF FormOK
    <3>3. FormOK(Mounted(fetched), "idle") /\ Mounted(fetched).mounted
      BY MountedIsOK DEF PageInv, CardsTyped
    <3>4. /\ form' \in [Slots -> FormRecord] /\ form'[page'] = Mounted(fetched)
          /\ \A s \in Slots \ {page'} : form'[s] = left[s]
      BY <1>7, <3>1, <3>3 DEF FormOK
    <3> QED BY <1>3, <3>1, <3>2, <3>3, <3>4 DEF FormsOK, PageIsMounted
  <2> QED BY <2>1, <2>2
<1>5. CardsTyped'
  BY <1>1 DEF PageInv, CardsTyped, cardVars, lockVars
<1>6. SameSession /\ QuietCalls
  BY <1>1, EventsOfAStep
     DEF SameSession, QuietCalls, sessionVars, PageInv, SessionsTypeOK, CallStates
<1> QED BY <1>4, <1>5, <1>6 DEF PageKept

\* The calls of the page that are no saves, the lock, and lost calls.
LEMMA OtherPageStepsKeepPage ==
  ASSUME PageInv, \/ Submit \/ SubmitAnswered \/ Refetch \/ Lock
                  \/ \E c \in Slots \cup {Loader, Submitter} : LoseCall(c)
  PROVE  SameSession /\ QuietCalls /\ PageKept
<1>1. call \in [Callers -> CallStates] /\ dropped \subseteq Draft /\ SessionsTypeOK
  BY DEF PageInv, SessionsTypeOK, CallStates, CardsTyped
<1>2. CASE Submit \/ Refetch
  <2>1. PICK c \in {Loader, Submitter} : Ask(c)
    BY <1>2 DEF Submit, Refetch
  <2>2. /\ UNCHANGED <<form, page, latest, displaced, edits, cardVars, lockVars, tokenVars>>
        /\ events < MaxEvents /\ events' = events + 1
    BY <1>2 DEF Submit, Refetch, pageVars, formVars, cardVars, lockVars
  <2>3. QuietCalls /\ \A z \in Slots : call'[z] = call[z]
    BY <1>1, <2>1, AskIsQuiet, SlotFacts
  <2>4. FormsOK' /\ PageIsMounted'
    BY <2>2, <2>3, FormsStay
  <2> QED BY <1>1, <2>2, <2>3, <2>4, EventsOfAStep
          DEF PageKept, PageInv, CardsTyped, cardVars, lockVars, SameSession
<1>3. CASE SubmitAnswered
  <2>1. UNCHANGED <<page, latest, displaced, edits, cardVars, lockVars, tokenVars, events>>
    BY <1>3 DEF SubmitAnswered
  <2>2. CASE Invalidate(Submitter)
    BY <1>1, <2>1, <2>2, InvalidateKeepsForms, EventsOfAStep
       DEF PageKept, PageInv, CardsTyped, cardVars, lockVars, SameSession
  <2>3. CASE call' = [call EXCEPT ![Submitter] = "idle"] /\ UNCHANGED form
    <3>1. QuietCalls /\ \A z \in Slots : call'[z] = call[z]
      BY <1>1, <2>3, SlotFacts DEF QuietCalls, CallStates
    <3>2. FormsOK' /\ PageIsMounted'
      BY <2>1, <2>3, <3>1, FormsStay
    <3> QED BY <1>1, <2>1, <3>1, <3>2, EventsOfAStep
            DEF PageKept, PageInv, CardsTyped, cardVars, lockVars, SameSession
  <2> QED BY <1>3, <2>2, <2>3 DEF SubmitAnswered
<1>4. CASE Lock
  <2>1. /\ UNCHANGED <<form, page, latest, displaced, edits, cardVars, tokenVars, call, events>>
        /\ kickedOff' \in {kickedOff, TRUE} /\ clockAt' \in {clockAt, TRUE}
    BY <1>4 DEF Lock, formVars, sessionVars
  <2>2. FormsOK' /\ PageIsMounted'
    BY <2>1, FormsStay
  <2> QED BY <1>1, <2>1, <2>2, EventsOfAStep
          DEF PageKept, PageInv, CardsTyped, cardVars, SameSession, QuietCalls
<1>5. ASSUME NEW c \in Slots \cup {Loader, Submitter}, LoseCall(c)
      PROVE  SameSession /\ QuietCalls /\ PageKept
  <2>1. /\ events < MaxEvents /\ events' = events + 1 /\ call[c] \in {"asked", "served"}
        /\ call' = [call EXCEPT ![c] = "failed"]
        /\ dropped' \subseteq dropped \cup (IF c \in Slots THEN {SaveOf(c).draft} ELSE {})
        /\ disturbed' \in BOOLEAN
        /\ UNCHANGED <<formVars, stored, fetched, shown, snapshot, lockVars, tokenVars>>
    BY <1>5 DEF LoseCall, PageInv, CardsTyped
  <2>2. dropped' \subseteq Draft
    BY <1>1, <2>1, SaveTypes
  <2>3. QuietCalls /\ \A z \in Slots : call'[z] = "idle" <=> call[z] = "idle"
    BY <1>1, <2>1, SlotFacts DEF QuietCalls, CallStates
  <2>4. FormsOK' /\ PageIsMounted'
    BY <2>1, <2>3, FormsStay DEF formVars
  <2> QED BY <1>1, <2>1, <2>2, <2>3, <2>4, EventsOfAStep
          DEF PageKept, PageInv, CardsTyped, formVars, lockVars, SameSession
<1> QED BY <1>2, <1>3, <1>4, <1>5

\* The sessions move, and the page stays.
LEMMA SessionsKeepPage ==
  ASSUME PageInv, UNCHANGED pageVars,
         \/ RefreshStep \/ SignOutStep \/ SessionFault
         \/ \E c \in Others : OtherCall(c) \/ SignOut(c) \/ SignIn(TabOf[c])
  PROVE  PageInv'
<1>1. IInv /\ SessionsTypeOK /\ IInv'
  <2>1. PageNext
    BY DEF PageNext
  <2> QED BY <2>1, StepPreservesIInv DEF PageInv
<1>2. ASSUME SessionsTypeOK', \A z \in Slots : call'[z] = "idle" <=> call[z] = "idle"
      PROVE  PageInv'
  <2>1. UNCHANGED <<form, page>> /\ CardsTyped'
    BY DEF pageVars, formVars, cardVars, lockVars, PageInv, CardsTyped
  <2> QED BY <1>1, <1>2, <2>1, FormsStay DEF PageInv
<1>3. \A t \in Tabs : Consume(t) \/ RollBack(t) \/ Issue(t) => PageInv'
  BY <1>1, <1>2, ServerTypes
<1>4. \A t \in Tabs : Answered(t) \/ GiveUp(t) => PageInv'
  BY <1>1, <1>2, EndTypes, SlotFacts
<1>5. \A k \in stray : ServeStray(k) => PageInv'
  BY <1>1, <1>2, StrayTypes
<1>6. ASSUME NEW c \in Callers, JoinRefresh(c) PROVE PageInv'
  <2>1. call[c] = "denied" /\ call' = [call EXCEPT ![c] = "waiting"]
    BY <1>6 DEF JoinRefresh
  <2>2. \A z \in Slots : call'[z] = "idle" <=> call[z] = "idle"
    BY <1>1, <2>1, SlotFacts DEF SessionsTypeOK
  <2> QED BY <1>1, <1>2, <1>6, <2>2, JoinTypes
<1>7. ASSUME NEW t \in Tabs, Expire(t) PROVE PageInv'
  <2>1. /\ access' = [access EXCEPT ![t] = "stale"] /\ events' \in 0..MaxEvents
        /\ UNCHANGED <<tokens, cookie, refresh, stray, signOuts, orphaned, call>>
    BY <1>1, <1>7, EventsOfAStep DEF Expire
  <2>2. SessionsTypeOK'
    BY <1>1, <2>1, SameRows DEF SessionsTypeOK, CallStates, RefreshStates
  <2> QED BY <1>2, <2>1, <2>2
<1>8. ASSUME NEW c \in Others, OtherCall(c) \/ SignOut(c) \/ SignIn(TabOf[c]) PROVE PageInv'
  <2>1. c \in Callers /\ c \notin Slots
    BY DEF Others
  <2>2. CASE OtherCall(c)
    <3>1. /\ UNCHANGED <<tokenVars, events>>
          /\ QuietCalls /\ \A b \in Callers \ {c} : call'[b] = call[b]
      <4>1. CASE Ask(c)
        BY <1>1, <2>1, <2>2, <4>1, AskIsQuiet DEF OtherCall
      <4>2. CASE call' = [call EXCEPT ![c] = "idle"]
        BY <1>1, <2>2, <4>2 DEF OtherCall, QuietCalls, SessionsTypeOK, CallStates
      <4> QED BY <2>2, <4>1, <4>2 DEF OtherCall
    <3>2. SessionsTypeOK'
      BY <1>1, <3>1, CallMoves, EventsOfAStep DEF QuietCalls
    <3> QED BY <1>2, <2>1, <3>1, <3>2, SlotFacts
  <2>3. CASE SignOut(c) \/ SignIn(TabOf[c])
    BY <1>1, <1>2, <2>1, <2>3, SignTypes, SlotFacts
  <2> QED BY <1>8, <2>2, <2>3
<1>9. \A o \in signOuts : ServeSignOut(o) \/ SignedOut(o) \/ LoseSignOut(o) => PageInv'
  BY <1>1, <1>2, SignOutTypes
<1> QED BY <1>3, <1>4, <1>5, <1>6, <1>7, <1>8, <1>9 DEF RefreshStep, SignOutStep, SessionFault

LEMMA PageStart == PageInit => PageInv
<1> SUFFICES ASSUME PageInit PROVE PageInv
  OBVIOUS
<1>1. /\ SessionsInit /\ stored \in Card /\ page \in Slots
      /\ fetched = stored /\ snapshot = stored /\ shown = "card" /\ dropped = {}
      /\ form = [s \in Slots |-> IF s = page THEN Mounted(stored) ELSE NoForm]
      /\ latest = InitialDraft(stored) /\ edits = 0
      /\ kickedOff = FALSE /\ clockAt = FALSE /\ disturbed = FALSE /\ displaced = FALSE
  BY FormsAssumption DEF PageInit
<1>2. \A s \in Slots : call[s] = "idle"
  BY <1>1, SlotFacts DEF SessionsInit
<1>3. FormsOK /\ PageIsMounted
  <2>1. FormOK(Mounted(stored), "idle") /\ Mounted(stored).mounted
    BY <1>1, MountedIsOK
  <2>2. ASSUME NEW s \in Slots
        PROVE  FormOK(form[s], call[s]) /\ (form[s].mounted <=> s = page)
    BY <1>1, <1>2, <2>1, NoFormIsOK
  <2>3. form \in [Slots -> FormRecord]
    BY <1>1, <2>2 DEF FormOK
  <2> QED BY <1>1, <2>2, <2>3 DEF FormsOK, PageIsMounted
<1>4. CardsTyped
  <2>1. edits \in 0..MaxEdits
    BY <1>1, PicksPageAssumption
  <2>2. latest \in Draft /\ fetched \in Card /\ snapshot \in Card
    BY <1>1, DraftTypes
  <2> QED BY <1>1, <2>1, <2>2 DEF CardsTyped
<1>5. SessionsTypeOK
  <2>1. /\ tokens = <<[signIn |-> 1, state |-> "live"]>> /\ cookie = 1 /\ events = 0
        /\ access = [t \in Tabs |-> IF t \in OpenTabs THEN "good" ELSE "new"]
        /\ refresh = [t \in Tabs |-> NoRefresh] /\ stray = {} /\ orphaned = {}
        /\ signOuts = {}
        /\ call = [c \in Callers |-> "idle"]
    BY <1>1 DEF SessionsInit
  <2>2. 1 \in 1..MaxEvents + 1 /\ 0 \in 0..MaxEvents
    BY SessionsAssumption
  <2>3. tokens \in Seq([signIn : 1..MaxEvents + 1, state : {"live", "used", "revoked"}])
        /\ Len(tokens) = 1
    BY <2>1, <2>2
  <2>4. NoRefresh \in [at : {"idle", "sent", "consumed", "granted", "refused"},
                       token : 0..Len(tokens), next : 0..Len(tokens)]
    BY <2>3 DEF NoRefresh
  <2> QED BY <2>1, <2>2, <2>3, <2>4 DEF SessionsTypeOK
<1> QED BY <1>3, <1>4, <1>5, InitHolds DEF PageInv

LEMMA PageStep == PageInv /\ [PageNext]_allPageVars => PageInv'
<1> SUFFICES ASSUME PageInv, [PageNext]_allPageVars PROVE PageInv'
  OBVIOUS
<1>1. CASE FormStep
  BY <1>1, FireKeepsPage, SavedKeepsPage, SettleKeepsPage, SaveFailedKeepsPage, ServerKeepsPage,
     CardArrivesKeepsPage, RenderKeepsPage, OtherPageStepsKeepPage, PageStepKeepsPage
     DEF FormStep
<1>2. CASE MemberStep
  BY <1>2, EditKeepsPage, RetryKeepsPage, OtherPageStepsKeepPage, PageStepKeepsPage
     DEF MemberStep
<1>3. CASE \/ RefreshStep /\ UNCHANGED pageVars
           \/ SignOutStep /\ UNCHANGED pageVars
           \/ SessionFault /\ UNCHANGED pageVars
           \/ \E c \in Others :
                (OtherCall(c) \/ SignOut(c) \/ SignIn(TabOf[c])) /\ UNCHANGED pageVars
  BY <1>3, SessionsKeepPage
<1>4. CASE \/ \E c \in Slots \cup {Loader, Submitter} : LoseCall(c)
           \/ \E d \in dropped : ServeDropped(d)
  BY <1>4, OtherPageStepsKeepPage, ServerKeepsPage, PageStepKeepsPage
<1>5. CASE UNCHANGED allPageVars
  <2>1. UNCHANGED <<tokenVars, call, events, form, page>> /\ CardsTyped'
    BY <1>5 DEF allPageVars, pageVars, formVars, cardVars, lockVars, sessionVars, PageInv, CardsTyped
  <2>2. FormsOK' /\ PageIsMounted'
    BY <2>1, FormsStay
  <2>3. SameSession /\ QuietCalls
    BY <2>1, EventsOfAStep DEF SameSession, QuietCalls, PageInv, SessionsTypeOK, CallStates
  <2> QED BY <2>1, <2>2, <2>3, PageStepKeepsPage DEF PageKept
<1> QED BY <1>1, <1>2, <1>3, <1>4, <1>5 DEF PageNext

LEMMA PageInvHolds == PageSpec => []PageInv
BY PageStart, PageStep, PTL DEF PageSpec

(***************************************************************************)
(* The theorems.                                                           *)
(***************************************************************************)

LEMMA AtMostOneIsCounted ==
  ASSUME NEW set, AtMostOne(set) PROVE Cardinality(set) <= 1
<1>1. CASE set = {}
  BY <1>1, FS_EmptySet
<1>2. CASE set # {}
  <2>1. PICK v \in set : set = {v}
    BY <1>2 DEF AtMostOne
  <2>2. Cardinality({v}) = 1
    BY FS_Singleton
  <2> QED BY <2>1, <2>2
<1> QED BY <1>1, <1>2

\* Every variable of the page keeps its type: one save is under way and one queued
\* at most, and the mounted form is the page's.
THEOREM PageTypeCorrect == PageSpec => []PageTypeOK
<1>1. PageInv => PageTypeOK
  <2> SUFFICES ASSUME PageInv PROVE PageTypeOK
    OBVIOUS
  <2>1. form \in [Slots -> FormRecord]
    BY DEF PageInv, FormsOK, FormOK
  <2>2. page \in Slots \cup {NoPage} /\ {s \in Slots : form[s].mounted} = {page} \ {NoPage}
    <3>1. page \in Slots \cup {NoPage} /\ \A s \in Slots : form[s].mounted <=> s = page
      BY DEF PageInv, PageIsMounted
    <3>2. {s \in Slots : form[s].mounted} = {s \in Slots : s = page}
      BY <3>1
    <3>3. {s \in Slots : s = page} = {page} \ {NoPage}
      BY <3>1, FormsAssumption
    <3> QED BY <3>1, <3>2, <3>3
  <2>3. \A s \in Slots :
          Cardinality(form[s].pending) <= 1 /\ Cardinality(form[s].saving) <= 1
    BY AtMostOneIsCounted DEF PageInv, FormsOK, FormOK
  <2>4. \A s \in Slots : call[s] # "idle" => Working(s)
    BY DEF PageInv, FormsOK, FormOK, Working
  <2> QED BY <2>1, <2>2, <2>3, <2>4 DEF PageInv, CardsTyped, PageTypeOK, FormRecord
<1> QED BY <1>1, PageInvHolds, PTL

\* Whatever fetches, renders, failures and clocks do meanwhile, the mounted form
\* still has a save ahead for an edit it has not stored, or says that it failed.
THEOREM EditsAreNeverForgotten == PageSpec => []NoEditForgotten
<1>1. PageInv => NoEditForgotten
  BY DEF PageInv, FormsOK, PageIsMounted, FormOK, NoEditForgotten, Working
<1> QED BY <1>1, PageInvHolds, PTL

(***************************************************************************)
(* What a form that calls itself saved knows of the server's card.         *)
(***************************************************************************)

\* The payload of a payload is itself: its confidences are distinct.
LEMMA PayloadOnce ==
  ASSUME NEW d \in Draft
  PROVE  Payload(d) \in Draft /\ Payload(Payload(d)) = Payload(d)
<1> DEFINE p == Payload(d)
<1>1. \A g \in Games : p[g] = IF g \in Submissions(d) THEN d[g] ELSE 0
  BY DEF Payload
<1>2. p \in Draft
  BY ConfidenceRange DEF Payload, Draft
<1>3. 0 \notin Confidences /\ \A g \in Submissions(d) : d[g] \in Confidences
  BY ConfidenceRange DEF Confidences, Submissions
<1>4. p = [g \in Games |-> p[g]]
  BY <1>2 DEF Draft
<1> HIDE DEF p
<1>5. \A g \in Submissions(d) : \A h \in Games \ {g} : d[h] # d[g]
  BY DEF Submissions
<1>6. ASSUME NEW g \in Games
      PROVE  (IF g \in Submissions(p) THEN p[g] ELSE 0) = p[g]
  <2>1. CASE g \in Submissions(d)
    <3>1. p[g] = d[g] /\ d[g] \in Confidences
      BY <1>1, <1>3, <2>1
    <3>2. \A h \in Games \ {g} : p[h] # p[g]
      BY <1>1, <1>3, <1>5, <2>1, <3>1
    <3> QED BY <3>1, <3>2 DEF Submissions
  <2>2. CASE g \notin Submissions(d)
    BY <1>1, <2>2
  <2> QED BY <2>1, <2>2
<1>7. Payload(p) = p
  BY <1>4, <1>6 DEF Payload
<1> QED BY <1>2, <1>7 DEF p

\* A card that stored a draft shows its payload.
LEMMA StoredShows ==
  ASSUME NEW d \in Draft, NEW card \in Card
  PROVE  InitialDraft(Stored(d, card)) = Payload(d)
<1> DEFINE c == Stored(d, card)
<1> SUFFICES ASSUME NEW g \in Games
             PROVE  (IF c[g].voided THEN 0 ELSE c[g].conf)
                      = (IF g \in Submissions(d) THEN d[g] ELSE 0)
  BY DEF InitialDraft, Payload
<1>1. c[g] = IF g \in Submissions(d) THEN [conf |-> d[g], voided |-> FALSE]
             ELSE [card[g] EXCEPT !.voided = card[g].conf # 0]
  BY DEF Stored
<1>2. card[g] \in [conf : 0..Cardinality(Games), voided : BOOLEAN]
  BY DEF Card
<1> HIDE DEF c
<1>3. CASE g \in Submissions(d)
  BY <1>1, <1>3
<1>4. CASE g \notin Submissions(d)
  <2>1. c[g].conf = card[g].conf /\ c[g].voided = (card[g].conf # 0)
    BY <1>1, <1>2, <1>4
  <2> QED BY <1>4, <2>1
<1> QED BY <1>3, <1>4

\* A version names one draft, among those a form has to save.
Tagged(f) == \A v \in f.pending \cup f.saving : v.version = f.version => v.draft = f.draft

\* What a form, its call being c, knows of the server's card, whose draft is d:
\* a saved form shows it; the save under way of a saved form, or of one that is
\* gone, is of its last version; a form that is gone asks for nothing more; and a
\* save that was answered is what the card shows.
AsStored(f, c, d) ==
  /\ f.mounted /\ f.clean => d = Payload(f.draft)
  /\ f.clean \/ ~f.mounted => \A w \in f.saving : w.version = f.version
  /\ ~f.mounted => c = "idle" /\ ~f.timer
  /\ f.mounted /\ c \in {"served", "idle"} => \A w \in f.saving : d = Payload(w.draft)

Undisturbed == ~disturbed /\ ~displaced

SavedInv ==
  /\ Payload(InitialDraft(stored)) = InitialDraft(stored)
  /\ \A s \in Slots : Tagged(form[s])
  /\ ~disturbed => shown = "card" /\ dropped = {}
  /\ Undisturbed => \A s \in Slots : AsStored(form[s], call[s], InitialDraft(stored))

LEMMA NoFormIsAsStored ==
  ASSUME NEW d PROVE Tagged(NoForm) /\ AsStored(NoForm, "idle", d)
BY DEF NoForm, Tagged, AsStored

LEMMA MountedIsAsStored ==
  ASSUME NEW card \in Card
  PROVE  /\ Tagged(Mounted(card))
         /\ Payload(InitialDraft(card)) = InitialDraft(card)
              => AsStored(Mounted(card), "idle", InitialDraft(card))
<1> DEFINE k == Key(card)
           d == InitialDraft(card)
           m == [NoForm EXCEPT !.mounted = TRUE, !.key = k, !.draft = d]
<1>1. k \in Draft /\ d \in Draft /\ NoForm \in FormRecord
  BY DraftTypes, NoFormIsOK
<1> HIDE DEF k, d
<1>2. /\ m.mounted /\ m.draft = d /\ m.pending = NoForm.pending
      /\ m.saving = NoForm.saving
  BY <1>1 DEF FormRecord
<1>3. m.pending = {} /\ m.saving = {}
  BY <1>2 DEF NoForm
<1>4. Mounted(card) = m
  BY DEF Mounted, k, d
<1> HIDE DEF m
<1> QED BY <1>2, <1>3, <1>4 DEF Tagged, AsStored, d

\* What is left of a form whose save is over.
LEMMA FinallyLeaves ==
  ASSUME NEW f \in FormRecord, NEW save \in f.saving, Tagged(f), save.version <= f.version,
         \A v \in f.pending : v.version <= f.version
  PROVE  LET g == Finally(f, save) IN
         /\ Tagged(g)
         /\ \/ g = NoForm /\ ~f.mounted
            \/ /\ g.saving = {} /\ g.mounted = f.mounted
               /\ g.draft = f.draft /\ g.clean = f.clean
         /\ ~f.mounted /\ ~f.timer /\ save.version = f.version => g = NoForm
<1> DEFINE ended == [f EXCEPT !.saving = {}, !.reloaded = FALSE]
           newer == \E v \in f.pending : v.version > save.version
           g == Finally(f, save)
<1>1. /\ ended \in FormRecord /\ ended.saving = {} /\ ended.pending = f.pending
      /\ ended.timer = f.timer /\ ended.version = f.version /\ ended.draft = f.draft
      /\ ended.mounted = f.mounted /\ ended.clean = f.clean
  BY DEF FormRecord
<1>2. save.version \in Nat /\ f.version \in Nat /\ \A v \in f.pending : v.version \in Nat
  BY DEF FormRecord, Save
<1> HIDE DEF ended
<1>3. ASSUME NEW v \in Save, v.version = f.version => v.draft = f.draft,
             g = Scheduled(ended, v)
      PROVE  /\ Tagged(g) /\ g.saving = {} /\ g.mounted = f.mounted
             /\ g.draft = f.draft /\ g.clean = f.clean
  <2> DEFINE h == [ended EXCEPT !.pending = {v}, !.timer = TRUE]
  <2>1. /\ h.pending = {v} /\ h.saving = {} /\ h.version = f.version /\ h.draft = f.draft
        /\ h.mounted = f.mounted /\ h.clean = f.clean
    BY <1>1 DEF FormRecord
  <2>2. g = h
    BY <1>3 DEF Scheduled
  <2> HIDE DEF h, g
  <2> QED BY <1>3, <2>1, <2>2 DEF Tagged
<1>4. CASE newer
  <2> DEFINE v == CHOOSE w \in f.pending : w.version > save.version
  <2>1. v \in f.pending /\ v.version > save.version
    BY <1>4
  <2>2. v \in Save /\ (v.version = f.version => v.draft = f.draft) /\ v.version <= f.version
    BY <2>1 DEF FormRecord, Tagged
  <2>3. g = Scheduled(ended, v)
    BY <1>4 DEF Finally, ended
  <2>4. save.version # f.version
    BY <1>2, <2>1, <2>2
  <2> HIDE DEF v, g
  <2> QED BY <1>3, <2>2, <2>3, <2>4 DEF g
<1>5. CASE f.version > save.version /\ ~newer
  <2>1. Current(f) \in Save /\ Current(f).draft = f.draft
    BY DEF Current, Save, FormRecord
  <2>2. g = Scheduled(ended, Current(f))
    BY <1>5 DEF Finally, ended
  <2>3. save.version # f.version
    BY <1>2, <1>5
  <2> HIDE DEF g
  <2> QED BY <1>3, <2>1, <2>2, <2>3 DEF g
<1>6. CASE ~(f.version > save.version) /\ ~newer
  <2>1. g = Kept(ended)
    BY <1>6 DEF Finally, ended
  <2>2. Tagged(ended)
    BY <1>1 DEF Tagged
  <2>3. CASE ~f.mounted /\ ~f.timer
    BY <1>1, <2>1, <2>3, NoFormIsAsStored DEF Kept
  <2>4. CASE f.mounted \/ f.timer
    BY <1>1, <2>1, <2>2, <2>4 DEF Kept
  <2> QED BY <2>3, <2>4
<1> QED BY <1>4, <1>5, <1>6

\* The rest of the state stays as it was, or the page is disturbed.
QuietRest ==
  /\ disturbed => disturbed'
  /\ displaced => displaced'
  /\ ~disturbed' => shown' = "card" /\ dropped' = {}

LEMMA SameRest ==
  ASSUME SavedInv, UNCHANGED <<shown, dropped, disturbed, displaced>> PROVE QuietRest
BY DEF SavedInv, QuietRest

\* No form moves, and no call is answered.
LEMMA SavedStays ==
  ASSUME PageInv, SavedInv, QuietRest, UNCHANGED <<form, stored>>,
         \A s \in Slots : \/ call'[s] = call[s]
                          \/ call'[s] # "served" /\ (call'[s] = "idle" <=> call[s] = "idle")
  PROVE  SavedInv'
<1>1. ASSUME NEW s \in Slots, NEW d, AsStored(form[s], call[s], d)
      PROVE  AsStored(form[s], call'[s], d)
  BY <1>1 DEF AsStored
<1> QED BY <1>1 DEF SavedInv, QuietRest, Undisturbed

\* One form moves.
LEMMA OneFormSaved ==
  ASSUME PageInv, SavedInv, NEW s \in Slots, NEW f, form' = [form EXCEPT ![s] = f], Tagged(f),
         Undisturbed => AsStored(f, call'[s], InitialDraft(stored)),
         \A z \in Slots \ {s} : call'[z] = call[z],
         UNCHANGED <<stored, shown, dropped, disturbed, displaced>>
  PROVE  SavedInv'
<1>1. form'[s] = f /\ \A z \in Slots \ {s} : form'[z] = form[z]
  BY DEF PageInv, FormsOK
<1> QED BY <1>1 DEF SavedInv, Undisturbed

\* Forms that wait for a fetch wait no more.
LEMMA ReloadingSaved ==
  ASSUME PageInv, SavedInv, QuietRest, UNCHANGED stored, NEW awaits,
         form' = [z \in Slots |->
                    IF z \in awaits THEN [form[z] EXCEPT !.reloaded = TRUE] ELSE form[z]],
         \A z \in Slots : \/ call'[z] = call[z]
                          \/ call'[z] = "idle" /\ call[z] = "served"
  PROVE  SavedInv'
<1>1. ASSUME NEW z \in Slots
      PROVE  /\ Tagged(form'[z])
             /\ \A d : AsStored(form[z], call[z], d) => AsStored(form'[z], call'[z], d)
  <2>1. form[z] \in FormRecord
    BY DEF PageInv, FormsOK
  <2>2. /\ form'[z].pending = form[z].pending /\ form'[z].saving = form[z].saving
        /\ form'[z].version = form[z].version /\ form'[z].draft = form[z].draft
        /\ form'[z].mounted = form[z].mounted /\ form'[z].clean = form[z].clean
        /\ form'[z].timer = form[z].timer
    BY <2>1 DEF FormRecord
  <2>3. Tagged(form[z])
    BY DEF SavedInv
  <2> QED BY <2>2, <2>3 DEF Tagged, AsStored
<1> QED BY <1>1 DEF SavedInv, QuietRest, Undisturbed

LEMMA EditKeepsSaved ==
  ASSUME PageInv, SavedInv, NEW ch \in Choices, Edit(ch[1], ch[2])
  PROVE  SavedInv'
<1> DEFINE f == form[page]
           d == [f.draft EXCEPT ![ch[1]] = ch[2]]
           v == [version |-> f.version + 1, draft |-> d]
           h == [[f EXCEPT !.draft = d, !.version = @ + 1, !.clean = FALSE, !.error = FALSE]
                   EXCEPT !.pending = {v}, !.timer = TRUE]
<1>1. /\ page # NoPage /\ form' = [form EXCEPT ![page] = h]
      /\ UNCHANGED <<displaced, cardVars, sessionVars>>
  BY DEF Edit, Scheduled
<1>2. page \in Slots /\ f.mounted /\ FormOK(f, call[page]) /\ f \in FormRecord
  BY <1>1 DEF PageInv, FormsOK, PageIsMounted, FormOK
<1> HIDE DEF f, d
<1>3. /\ h.pending = {v} /\ h.saving = f.saving /\ h.version = f.version + 1 /\ h.draft = d
      /\ h.mounted /\ ~h.clean
  BY <1>2 DEF FormRecord
<1>4. v.version = f.version + 1 /\ v.draft = d
  OBVIOUS
<1>5. \A w \in f.saving : w.version \in Nat /\ f.version \in Nat /\ w.version <= f.version
  BY <1>2 DEF FormOK, FormRecord, Save
<1> HIDE DEF v, h
<1>6. Tagged(h)
  BY <1>3, <1>4, <1>5 DEF Tagged
<1>7. Undisturbed => AsStored(h, call'[page], InitialDraft(stored))
  <2>1. UNCHANGED call
    BY <1>1 DEF sessionVars
  <2>2. Undisturbed => AsStored(f, call[page], InitialDraft(stored))
    BY <1>2 DEF SavedInv, f
  <2> QED BY <1>2, <1>3, <2>1, <2>2 DEF AsStored
<1> QED BY <1>1, <1>2, <1>6, <1>7, OneFormSaved DEF cardVars, sessionVars

LEMMA RetryKeepsSaved ==
  ASSUME PageInv, SavedInv, Retry
  PROVE  SavedInv'
<1> DEFINE f == form[page]
           v == Current(f)
           h == [f EXCEPT !.pending = {v}, !.timer = TRUE]
<1>1. /\ page # NoPage /\ form' = [form EXCEPT ![page] = h]
      /\ UNCHANGED <<displaced, cardVars, sessionVars>>
  BY DEF Retry, Scheduled
<1>2. page \in Slots /\ f.mounted /\ f \in FormRecord
  BY <1>1 DEF PageInv, FormsOK, PageIsMounted, FormOK
<1>3. v.version = f.version /\ v.draft = f.draft
  BY DEF Current
<1> HIDE DEF f, v
<1>4. /\ h.pending = {v} /\ h.saving = f.saving /\ h.version = f.version
      /\ h.draft = f.draft /\ h.mounted /\ h.clean = f.clean
  BY <1>2 DEF FormRecord
<1> HIDE DEF h
<1>5. Tagged(f) /\ (Undisturbed => AsStored(f, call[page], InitialDraft(stored)))
  BY <1>2 DEF SavedInv, f
<1>6. Tagged(h)
  BY <1>3, <1>4, <1>5 DEF Tagged
<1>7. Undisturbed => AsStored(h, call'[page], InitialDraft(stored))
  <2>1. UNCHANGED call
    BY <1>1 DEF sessionVars
  <2> QED BY <1>2, <1>4, <1>5, <2>1 DEF AsStored
<1> QED BY <1>1, <1>2, <1>6, <1>7, OneFormSaved DEF cardVars, sessionVars

LEMMA FireKeepsSaved ==
  ASSUME PageInv, SavedInv, NEW s \in Slots, Fire(s)
  PROVE  SavedInv'
<1> DEFINE o == form[s]
           f == [o EXCEPT !.timer = FALSE, !.pending = {}]
           isLatest == \E v \in o.pending : v.version = o.version
<1>1. o.timer /\ UNCHANGED <<displaced, cardVars>>
  BY DEF Fire
<1>2. FormOK(o, call[s]) /\ o \in FormRecord /\ s \in Callers
  BY SlotFacts DEF PageInv, FormsOK, FormOK
<1>3. \/ Working(s) /\ form' = [form EXCEPT ![s] = [o EXCEPT !.timer = FALSE]] /\ UNCHANGED call
      \/ /\ ~Working(s) /\ UNCHANGED call
         /\ form' = [form EXCEPT ![s] = Kept([f EXCEPT !.error = @ \/ isLatest])]
      \/ ~Working(s) /\ form' = [form EXCEPT ![s] = [f EXCEPT !.saving = o.pending]] /\ Ask(s)
  BY DEF Fire
<1>4. /\ f \in FormRecord /\ f.pending = {} /\ f.saving = o.saving /\ f.draft = o.draft
      /\ f.version = o.version /\ f.mounted = o.mounted /\ f.clean = o.clean
  BY <1>2 DEF FormRecord
<1>5. /\ Tagged(o)
      /\ Undisturbed => AsStored(o, call[s], InitialDraft(stored)) /\ o.mounted
  BY <1>1 DEF SavedInv, AsStored
<1> HIDE DEF f
<1>6. CASE Working(s) /\ form' = [form EXCEPT ![s] = [o EXCEPT !.timer = FALSE]] /\ UNCHANGED call
  <2> DEFINE h == [o EXCEPT !.timer = FALSE]
  <2>1. /\ h.pending = o.pending /\ h.saving = o.saving /\ h.draft = o.draft
        /\ h.version = o.version /\ h.mounted = o.mounted /\ h.clean = o.clean
    BY <1>2 DEF FormRecord
  <2> HIDE DEF h
  <2>2. Tagged(h) /\ (Undisturbed => AsStored(h, call'[s], InitialDraft(stored)))
    BY <1>5, <1>6, <2>1 DEF Tagged, AsStored
  <2> QED BY <1>1, <1>6, <2>2, OneFormSaved DEF cardVars, h
<1>7. CASE /\ ~Working(s) /\ UNCHANGED call
           /\ form' = [form EXCEPT ![s] = Kept([f EXCEPT !.error = @ \/ isLatest])]
  <2> DEFINE h == [f EXCEPT !.error = @ \/ isLatest]
  <2>1. /\ h.pending = {} /\ h.saving = {} /\ h.draft = o.draft
        /\ h.version = o.version /\ h.mounted = o.mounted /\ h.clean = o.clean
    BY <1>4, <1>7 DEF FormRecord, Working
  <2> HIDE DEF h
  <2>2. Kept(h) \in {h, NoForm} /\ (o.mounted => Kept(h) = h)
    BY <2>1 DEF Kept
  <2>3. Tagged(Kept(h)) /\ (Undisturbed => AsStored(Kept(h), call'[s], InitialDraft(stored)))
    BY <1>5, <1>7, <2>1, <2>2, NoFormIsAsStored DEF Tagged, AsStored
  <2> QED BY <1>1, <1>7, <2>3, OneFormSaved DEF cardVars, h
<1>8. CASE ~Working(s) /\ form' = [form EXCEPT ![s] = [f EXCEPT !.saving = o.pending]] /\ Ask(s)
  <2> DEFINE h == [f EXCEPT !.saving = o.pending]
  <2>1. /\ h.pending = {} /\ h.saving = o.pending /\ h.draft = o.draft
        /\ h.version = o.version /\ h.mounted = o.mounted /\ h.clean = o.clean
    BY <1>4 DEF FormRecord
  <2> HIDE DEF h
  <2>2. call'[s] \in {"asked", "denied"} /\ \A z \in Slots \ {s} : call'[z] = call[z]
    BY <1>2, <1>8, SlotFacts DEF Ask, PageInv, SessionsTypeOK
  <2>3. o.mounted => \A w \in o.pending : w.version = o.version
    BY <1>2 DEF FormOK
  <2>4. Tagged(h) /\ (Undisturbed => AsStored(h, call'[s], InitialDraft(stored)))
    BY <1>5, <2>1, <2>2, <2>3 DEF Tagged, AsStored
  <2> QED BY <1>1, <1>8, <2>2, <2>4, OneFormSaved DEF cardVars, h
<1> QED BY <1>3, <1>6, <1>7, <1>8

\* A save is over: a saved form has nothing left to save, and one that is gone
\* leaves nothing.
LEMMA SaveEnds ==
  ASSUME PageInv, SavedInv, NEW s \in Slots, NEW told \in FormRecord, form[s].saving # {},
         form' = [form EXCEPT ![s] = Finally(told, SaveOf(s))],
         told.mounted = form[s].mounted, told.version = form[s].version,
         told.draft = form[s].draft, told.pending = form[s].pending,
         told.saving = form[s].saving, told.timer = form[s].timer,
         Undisturbed /\ told.mounted /\ told.clean => InitialDraft(stored) = Payload(told.draft),
         call'[s] = "idle", \A z \in Slots \ {s} : call'[z] = call[z],
         UNCHANGED <<stored, shown, dropped, disturbed, displaced>>
  PROVE  SavedInv'
<1> DEFINE save == SaveOf(s)
           left == Finally(told, save)
<1>1. save \in told.saving
  BY SaveIsUnderWay
<1>2. save.version <= told.version /\ \A v \in told.pending : v.version <= told.version
  BY <1>1 DEF PageInv, FormsOK, FormOK
<1>3. Tagged(told)
  BY DEF SavedInv, Tagged
<1> HIDE DEF save, left
<1>4. /\ Tagged(left)
      /\ \/ left = NoForm /\ ~told.mounted
         \/ /\ left.saving = {} /\ left.mounted = told.mounted
            /\ left.draft = told.draft /\ left.clean = told.clean
      /\ ~told.mounted /\ ~told.timer /\ save.version = told.version => left = NoForm
  BY <1>1, <1>2, <1>3, FinallyLeaves DEF left
<1>5. Undisturbed => AsStored(left, "idle", InitialDraft(stored))
  <2> SUFFICES ASSUME Undisturbed PROVE AsStored(left, "idle", InitialDraft(stored))
    OBVIOUS
  <2>1. AsStored(form[s], call[s], InitialDraft(stored))
    BY DEF SavedInv
  <2>2. CASE ~told.mounted
    BY <1>1, <1>4, <2>1, <2>2, NoFormIsAsStored DEF AsStored
  <2>3. CASE told.mounted
    BY <1>4, <2>3 DEF AsStored
  <2> QED BY <2>2, <2>3
<1> QED BY <1>4, <1>5, OneFormSaved DEF left, save

LEMMA SavedKeepsSaved ==
  ASSUME PageInv, SavedInv, NEW s \in Slots, Saved(s)
  PROVE  SavedInv'
<1>1. /\ call[s] = "served" /\ UNCHANGED <<displaced, cardVars>>
      /\ IF SaveOf(s).version = form[s].version
         THEN Invalidate(s)
         ELSE /\ form' = [form EXCEPT ![s] = Finally(form[s], SaveOf(s))]
              /\ call' = [call EXCEPT ![s] = "idle"]
  BY DEF Saved
<1>2. /\ form[s] \in FormRecord /\ form[s].saving # {} /\ call \in [Callers -> CallStates]
      /\ QuietRest
  BY <1>1, SameRest DEF PageInv, FormsOK, FormOK, SessionsTypeOK, CallStates, cardVars
<1>3. CASE SaveOf(s).version = form[s].version
  <2> DEFINE awaits == {z \in Slots \ {s} : Reloading(z)}
  <2>1. /\ form' = [z \in Slots |->
                      IF z \in awaits THEN [form[z] EXCEPT !.reloaded = TRUE] ELSE form[z]]
        /\ call' = [call EXCEPT ![s] = "idle",
                     ![Loader] = IF access[TabOf[Loader]] = "good" THEN "asked" ELSE "denied"]
    BY <1>1, <1>3 DEF Invalidate
  <2>2. \A z \in Slots : \/ call'[z] = call[z]
                         \/ call'[z] = "idle" /\ call[z] = "served"
    BY <1>1, <1>2, <2>1, SlotFacts
  <2> HIDE DEF awaits
  <2> QED BY <1>1, <1>2, <2>1, <2>2, ReloadingSaved DEF cardVars
<1>4. CASE SaveOf(s).version # form[s].version
  <2>1. call'[s] = "idle" /\ \A z \in Slots \ {s} : call'[z] = call[z]
    BY <1>1, <1>2, <1>4, SlotFacts
  <2>2. Undisturbed /\ form[s].mounted /\ form[s].clean
          => InitialDraft(stored) = Payload(form[s].draft)
    BY DEF SavedInv, AsStored
  <2> QED BY <1>1, <1>2, <1>4, <2>1, <2>2, SaveEnds DEF cardVars
<1> QED BY <1>3, <1>4

LEMMA SettleKeepsSaved ==
  ASSUME PageInv, SavedInv, NEW s \in Slots, Settle(s)
  PROVE  SavedInv'
<1> DEFINE o == form[s]
           fresh == SaveOf(s).version = o.version /\ o.mounted
           told == IF fresh THEN [o EXCEPT !.clean = TRUE, !.error = FALSE] ELSE o
<1>1. /\ o.saving # {} /\ o.reloaded /\ form' = [form EXCEPT ![s] = Finally(told, SaveOf(s))]
      /\ UNCHANGED <<displaced, cardVars, sessionVars>>
  BY DEF Settle, Working
<1>2. o \in FormRecord /\ call[s] = "idle" /\ SaveOf(s) \in o.saving
  BY <1>1, SaveIsUnderWay DEF PageInv, FormsOK, FormOK
<1>3. /\ told \in FormRecord /\ told.mounted = o.mounted /\ told.version = o.version
      /\ told.pending = o.pending /\ told.saving = o.saving /\ told.timer = o.timer
      /\ told.draft = o.draft /\ (fresh \/ told = o)
  BY <1>2 DEF FormRecord
<1>4. Undisturbed /\ told.mounted /\ told.clean => InitialDraft(stored) = Payload(told.draft)
  <2> SUFFICES ASSUME Undisturbed, told.mounted, told.clean
               PROVE  InitialDraft(stored) = Payload(told.draft)
    OBVIOUS
  <2>1. AsStored(o, call[s], InitialDraft(stored)) /\ Tagged(o)
    BY DEF SavedInv
  <2>2. CASE fresh
    <3>1. InitialDraft(stored) = Payload(SaveOf(s).draft)
      BY <1>2, <2>1, <2>2 DEF AsStored
    <3>2. SaveOf(s).draft = o.draft
      BY <1>2, <2>1, <2>2 DEF Tagged
    <3> QED BY <1>3, <3>1, <3>2
  <2>3. CASE ~fresh
    <3>1. told = o
      BY <2>3
    <3> QED BY <2>1, <3>1 DEF AsStored
  <2> QED BY <2>2, <2>3
<1> HIDE DEF told, fresh
<1>5. UNCHANGED call
  BY <1>1 DEF sessionVars
<1> QED BY <1>1, <1>2, <1>3, <1>4, <1>5, SaveEnds DEF cardVars

LEMMA SaveFailedKeepsSaved ==
  ASSUME PageInv, SavedInv, NEW s \in Slots, SaveFailed(s)
  PROVE  SavedInv'
<1> DEFINE o == form[s]
           fresh == SaveOf(s).version = o.version /\ o.mounted
           told == IF fresh THEN [o EXCEPT !.error = TRUE] ELSE o
<1>1. /\ call[s] = "failed" /\ form' = [form EXCEPT ![s] = Finally(told, SaveOf(s))]
      /\ call' = [call EXCEPT ![s] = "idle"] /\ UNCHANGED <<displaced, cardVars>>
  BY DEF SaveFailed
<1>2. o \in FormRecord /\ o.saving # {} /\ call \in [Callers -> CallStates]
  BY <1>1 DEF PageInv, FormsOK, FormOK, SessionsTypeOK, CallStates
<1>3. /\ told \in FormRecord /\ told.mounted = o.mounted /\ told.version = o.version
      /\ told.pending = o.pending /\ told.saving = o.saving /\ told.timer = o.timer
      /\ told.draft = o.draft /\ told.clean = o.clean
  BY <1>2 DEF FormRecord
<1> HIDE DEF told, fresh
<1>4. Undisturbed /\ told.mounted /\ told.clean => InitialDraft(stored) = Payload(told.draft)
  BY <1>3 DEF SavedInv, AsStored
<1>5. call'[s] = "idle" /\ \A z \in Slots \ {s} : call'[z] = call[z]
  BY <1>1, <1>2, SlotFacts
<1> QED BY <1>1, <1>2, <1>3, <1>4, <1>5, SaveEnds DEF cardVars

\* The server writes the card: the save it serves is that of the mounted form,
\* while nothing was lost.
LEMMA ServerKeepsSaved ==
  ASSUME PageInv, SavedInv, \/ \E s \in Slots : ServeSave(s)
                            \/ ServeSubmit \/ ServeCard
                            \/ \E d \in dropped : ServeDropped(d)
  PROVE  SavedInv'
<1>1. UNCHANGED <<form, displaced>>
  BY DEF ServeSave, ServeSubmit, ServeCard, ServeDropped, formVars, pageVars
<1>2. call \in [Callers -> CallStates] /\ stored \in Card /\ dropped \subseteq Draft
  BY DEF PageInv, SessionsTypeOK, CallStates, CardsTyped
<1>3. ASSUME NEW s \in Slots, ServeSave(s) PROVE SavedInv'
  <2> DEFINE w == SaveOf(s)
  <2>1. /\ call[s] = "asked" /\ UNCHANGED <<shown, dropped, disturbed>>
        /\ \/ call' = [call EXCEPT ![s] = "failed"] /\ UNCHANGED stored
           \/ call' = [call EXCEPT ![s] = "served"] /\ stored' = Stored(w.draft, stored)
    BY <1>3 DEF ServeSave
  <2>2. \A z \in Slots \ {s} : call'[z] = call[z]
    BY <1>2, <2>1, SlotFacts
  <2>3. w \in form[s].saving /\ \A v \in form[s].saving : v = w
    <3>1. FormOK(form[s], call[s])
      BY DEF PageInv, FormsOK
    <3> QED BY <2>1, <3>1, SaveIsUnderWay DEF FormOK, AtMostOne
  <2>4. w.draft \in Draft
    BY <2>1, SaveTypes
  <2> HIDE DEF w
  <2>5. CASE call' = [call EXCEPT ![s] = "failed"] /\ UNCHANGED stored
    <3>1. call'[s] = "failed"
      BY <1>2, <2>5, SlotFacts
    <3> QED BY <1>1, <2>1, <2>2, <2>5, <3>1, SavedStays, SameRest
  <2>6. CASE call' = [call EXCEPT ![s] = "served"] /\ stored' = Stored(w.draft, stored)
    <3>1. InitialDraft(stored') = Payload(w.draft) /\ call'[s] = "served"
      BY <1>2, <2>4, <2>6, StoredShows, SlotFacts
    <3>2. Payload(InitialDraft(stored')) = InitialDraft(stored')
      BY <2>4, <3>1, PayloadOnce
    <3>3. ASSUME Undisturbed, NEW z \in Slots
          PROVE  AsStored(form[z], call'[z], InitialDraft(stored'))
      <4>1. AsStored(form[z], call[z], InitialDraft(stored)) /\ Tagged(form[z])
            /\ AsStored(form[s], call[s], InitialDraft(stored))
        BY <3>3 DEF SavedInv
      <4>2. form[s].mounted
        BY <2>1, <4>1 DEF AsStored
      <4>3. CASE z = s
        <5>1. form[s].clean => w.draft = form[s].draft
          BY <2>3, <4>1, <4>3 DEF AsStored, Tagged
        <5> QED BY <2>3, <3>1, <4>1, <4>2, <4>3, <5>1 DEF AsStored
      <4>4. CASE z # s
        <5>1. ~form[z].mounted /\ call'[z] = call[z]
          BY <2>2, <4>2, <4>4 DEF PageInv, PageIsMounted
        <5> QED BY <4>1, <5>1 DEF AsStored
      <4> QED BY <4>3, <4>4
    <3> QED BY <1>1, <2>1, <3>2, <3>3 DEF SavedInv, Undisturbed
  <2> QED BY <2>1, <2>5, <2>6
<1>4. CASE ServeSubmit
  <2>1. UNCHANGED <<stored, shown, dropped, disturbed, displaced>>
        /\ \A z \in Slots : call'[z] = call[z]
    BY <1>2, <1>4, SlotFacts DEF ServeSubmit, pageVars, formVars, cardVars
  <2> QED BY <1>1, <2>1, SavedStays, SameRest
<1>5. CASE ServeCard
  <2>1. UNCHANGED <<stored, shown, dropped, disturbed, displaced>>
        /\ \A z \in Slots : call'[z] = call[z]
    BY <1>2, <1>5, SlotFacts DEF ServeCard, formVars
  <2> QED BY <1>1, <2>1, SavedStays, SameRest
<1>6. ASSUME NEW d \in dropped, ServeDropped(d) PROVE SavedInv'
  <2>1. stored' \in {stored, Stored(d, stored)} /\ UNCHANGED disturbed
    BY <1>6 DEF ServeDropped
  <2>2. disturbed
    BY DEF SavedInv
  <2>3. Payload(InitialDraft(stored')) = InitialDraft(stored')
    BY <1>2, <2>1, StoredShows, PayloadOnce DEF SavedInv
  <2> QED BY <1>1, <2>1, <2>2, <2>3 DEF SavedInv, Undisturbed
<1> QED BY <1>3, <1>4, <1>5, <1>6

LEMMA CardArrivesKeepsSaved ==
  ASSUME PageInv, SavedInv, CardArrives
  PROVE  SavedInv'
<1> DEFINE awaits == {z \in Slots : Reloading(z)}
<1>1. /\ call' = [call EXCEPT ![Loader] = "idle"] /\ UNCHANGED <<stored, dropped, displaced>>
      /\ \/ shown' = "card" /\ UNCHANGED disturbed
         \/ disturbed' = TRUE
      /\ form' = [z \in Slots |->
                    IF z \in awaits THEN [form[z] EXCEPT !.reloaded = TRUE] ELSE form[z]]
  BY DEF CardArrives
<1>2. QuietRest
  BY <1>1 DEF QuietRest, SavedInv
<1>3. \A z \in Slots : call'[z] = call[z]
  BY <1>1, SlotFacts DEF PageInv, SessionsTypeOK
<1>4. /\ UNCHANGED stored
      /\ form' = [z \in Slots |->
                    IF z \in awaits THEN [form[z] EXCEPT !.reloaded = TRUE] ELSE form[z]]
  BY <1>1
<1>5. \A z \in Slots : \/ call'[z] = call[z]
                       \/ call'[z] = "idle" /\ call[z] = "served"
  BY <1>3
<1> HIDE DEF awaits
<1> QED BY <1>2, <1>4, <1>5, ReloadingSaved

\* The form that leaves was saved, unless the page is displaced, and the one that
\* comes shows the card.
LEMMA RenderKeepsSaved ==
  ASSUME PageInv, SavedInv, Render
  PROVE  SavedInv'
<1> DEFINE left == [s \in Slots |->
                      IF form[s].mounted
                      THEN Kept([form[s] EXCEPT !.mounted = FALSE, !.timer = FALSE])
                      ELSE form[s]]
           free == {s \in Slots : left[s] = NoForm}
<1>1. /\ displaced' = \/ displaced
                      \/ shown = "card" /\ fetched # stored
                      \/ \E s \in Slots : form[s].mounted /\ Unfinished(s)
      /\ UNCHANGED <<stored, shown, dropped, disturbed, call>>
      /\ IF shown = "error"
         THEN form' = left
         ELSE /\ free # {} /\ page' = (CHOOSE s \in free : TRUE)
              /\ form' = [left EXCEPT ![page'] = Mounted(fetched)]
  BY DEF Render, cardVars, sessionVars
<1>2. ASSUME NEW s \in Slots
      PROVE  /\ Tagged(left[s])
             /\ Undisturbed' => AsStored(left[s], call[s], InitialDraft(stored))
  <2> DEFINE o == form[s]
             h == [o EXCEPT !.mounted = FALSE, !.timer = FALSE]
  <2>1. o \in FormRecord /\ Tagged(o) /\ FormOK(o, call[s])
    BY DEF PageInv, FormsOK, SavedInv
  <2>2. /\ ~h.mounted /\ ~h.timer /\ h.pending = o.pending /\ h.clean = o.clean
        /\ h.saving = o.saving /\ h.version = o.version /\ h.draft = o.draft
    BY <2>1 DEF FormRecord
  <2>3. left[s] = IF o.mounted THEN Kept(h) ELSE o
    OBVIOUS
  <2>4. Kept(h) = IF h.saving = {} THEN NoForm ELSE h
    BY <2>2 DEF Kept
  <2>5. Undisturbed' => AsStored(o, call[s], InitialDraft(stored))
                        /\ (o.mounted => o.clean /\ call[s] = "idle")
    BY <1>1 DEF Undisturbed, SavedInv, Unfinished
  <2> HIDE DEF h, left
  <2>6. Tagged(left[s])
    BY <2>1, <2>2, <2>3, <2>4, NoFormIsAsStored DEF Tagged
  <2>7. ASSUME Undisturbed' PROVE AsStored(left[s], call[s], InitialDraft(stored))
    <3>1. CASE ~o.mounted
      BY <2>3, <2>5, <2>7, <3>1
    <3>2. CASE o.mounted
      <4>1. call[s] = "idle" /\ o.clean /\ \A w \in o.saving : w.version = o.version
        BY <2>5, <2>7, <3>2 DEF AsStored
      <4>2. AsStored(h, "idle", InitialDraft(stored))
        BY <2>2, <4>1 DEF AsStored
      <4> QED BY <2>3, <2>4, <3>2, <4>1, <4>2, NoFormIsAsStored
    <3> QED BY <3>1, <3>2
  <2> QED BY <2>6, <2>7
<1>3. DOMAIN left = Slots
  OBVIOUS
<1>4. ~Undisturbed => ~Undisturbed'
  BY <1>1 DEF Undisturbed
<1> HIDE DEF left
<1>5. CASE shown = "error"
  BY <1>1, <1>2, <1>5 DEF SavedInv
<1>6. CASE shown # "error"
  <2>1. page' \in Slots /\ left[page'] = NoForm /\ form' = [left EXCEPT ![page'] = Mounted(fetched)]
    BY <1>1, <1>6
  <2>2. form'[page'] = Mounted(fetched) /\ \A z \in Slots \ {page'} : form'[z] = left[z]
    BY <1>3, <2>1
  <2>3. Tagged(Mounted(fetched))
    <3>1. fetched \in Card
      BY DEF PageInv, CardsTyped
    <3> QED BY <3>1, MountedIsAsStored
  <2>4. ASSUME Undisturbed' PROVE AsStored(Mounted(fetched), call[page'], InitialDraft(stored))
    <3>1. fetched = stored /\ fetched \in Card
      BY <1>1, <1>6, <2>4 DEF Undisturbed, PageInv, CardsTyped
    <3>2. call[page'] = "idle"
      BY <1>2, <2>1, <2>4, NoFormIsOK DEF AsStored
    <3> QED BY <3>1, <3>2, MountedIsAsStored DEF SavedInv
  <2>5. \A z \in Slots : Tagged(form'[z])
    BY <1>2, <2>2, <2>3
  <2>6. Undisturbed' => \A z \in Slots : AsStored(form'[z], call'[z], InitialDraft(stored'))
    BY <1>1, <1>2, <2>2, <2>4
  <2> QED BY <1>1, <2>5, <2>6 DEF SavedInv
<1> QED BY <1>5, <1>6

LEMMA OtherPageStepsKeepSaved ==
  ASSUME PageInv, SavedInv,
         \/ Submit \/ SubmitAnswered \/ Refetch \/ Lock
         \/ \E c \in Slots \cup {Loader, Submitter} : LoseCall(c)
  PROVE  SavedInv'
<1>1. call \in [Callers -> CallStates]
  BY DEF PageInv, SessionsTypeOK, CallStates
<1>2. ASSUME UNCHANGED <<form, stored, shown, dropped, disturbed, displaced>>,
             \A z \in Slots : call'[z] = call[z]
      PROVE  SavedInv'
  BY <1>2, SavedStays, SameRest
<1>3. CASE Submit \/ Refetch
  <2>1. PICK c \in {Loader, Submitter} : Ask(c)
    BY <1>3 DEF Submit, Refetch
  <2>2. \A z \in Slots : call'[z] = call[z]
    BY <1>1, <2>1, SlotFacts DEF Ask
  <2> QED BY <1>2, <1>3, <2>2 DEF Submit, Refetch, pageVars, formVars, cardVars
<1>4. CASE SubmitAnswered
  <2>1. UNCHANGED <<stored, shown, dropped, disturbed, displaced>>
    BY <1>4 DEF SubmitAnswered, cardVars
  <2>2. CASE Invalidate(Submitter)
    <3> DEFINE awaits == {z \in Slots \ {Submitter} : Reloading(z)}
    <3>1. /\ form' = [z \in Slots |->
                        IF z \in awaits THEN [form[z] EXCEPT !.reloaded = TRUE] ELSE form[z]]
          /\ call' = [call EXCEPT ![Submitter] = "idle",
                       ![Loader] = IF access[TabOf[Loader]] = "good" THEN "asked" ELSE "denied"]
      BY <2>2, SlotFacts DEF Invalidate
    <3>2. \A z \in Slots : \/ call'[z] = call[z]
                           \/ call'[z] = "idle" /\ call[z] = "served"
      BY <1>1, <3>1, SlotFacts
    <3>3. QuietRest /\ UNCHANGED stored
      BY <2>1, SameRest
    <3> HIDE DEF awaits
    <3> QED BY <3>1, <3>2, <3>3, ReloadingSaved
  <2>3. CASE call' = [call EXCEPT ![Submitter] = "idle"] /\ UNCHANGED form
    <3>1. \A z \in Slots : call'[z] = call[z]
      BY <1>1, <2>3, SlotFacts
    <3> QED BY <1>2, <2>1, <2>3, <3>1
  <2> QED BY <1>4, <2>2, <2>3 DEF SubmitAnswered
<1>5. CASE Lock
  BY <1>2, <1>5 DEF Lock, formVars, cardVars, sessionVars
<1>6. ASSUME NEW c \in Slots \cup {Loader, Submitter}, LoseCall(c) PROVE SavedInv'
  <2>1. /\ call[c] \in {"asked", "served"} /\ call' = [call EXCEPT ![c] = "failed"]
        /\ dropped' = dropped \cup
             (IF c \in Slots /\ call[c] = "asked" THEN {SaveOf(c).draft} ELSE {})
        /\ disturbed' = (disturbed \/ c # Submitter)
        /\ UNCHANGED <<form, stored, shown, displaced>>
    BY <1>6 DEF LoseCall, formVars
  <2>2. ~disturbed' => c \notin Slots
    BY <2>1, SlotFacts
  <2>3. QuietRest
    BY <2>1, <2>2 DEF QuietRest, SavedInv
  <2>4. \A z \in Slots : \/ call'[z] = call[z]
                         \/ call'[z] # "served" /\ (call'[z] = "idle" <=> call[z] = "idle")
    BY <1>1, <2>1, SlotFacts
  <2> QED BY <2>1, <2>3, <2>4, SavedStays
<1> QED BY <1>3, <1>4, <1>5, <1>6

\* The sessions answer no save: they send it on, or fail it.
LEMMA SessionsKeepSaved ==
  ASSUME PageInv, SavedInv, UNCHANGED pageVars,
         \/ RefreshStep \/ SignOutStep \/ SessionFault
         \/ \E c \in Others : OtherCall(c) \/ SignOut(c) \/ SignIn(TabOf[c])
  PROVE  SavedInv'
<1>1. ASSUME \A z \in Slots : \/ call'[z] = call[z]
                              \/ call'[z] # "served" /\ (call'[z] = "idle" <=> call[z] = "idle")
      PROVE  SavedInv'
  <2>1. UNCHANGED <<form, stored, shown, dropped, disturbed, displaced>>
    BY DEF pageVars, formVars, cardVars
  <2> QED BY <1>1, <2>1, SavedStays, SameRest
<1>2. call \in [Callers -> CallStates]
  BY DEF PageInv, SessionsTypeOK, CallStates
<1>3. ASSUME UNCHANGED call PROVE SavedInv'
  BY <1>1, <1>3
<1>4. ASSUME NEW t \in Tabs, NEW ok \in BOOLEAN, Resolve(t, ok) PROVE SavedInv'
  BY <1>1, <1>4, SlotFacts DEF Resolve
<1>5. ASSUME NEW c \in Callers, JoinRefresh(c) PROVE SavedInv'
  <2>1. call[c] = "denied" /\ call' = [call EXCEPT ![c] = "waiting"]
    BY <1>5 DEF JoinRefresh
  <2> QED BY <1>1, <1>2, <2>1, SlotFacts
<1>6. ASSUME NEW c \in Others, OtherCall(c) \/ SignOut(c) \/ SignIn(TabOf[c]) PROVE SavedInv'
  <2>1. c \in Callers /\ c \notin Slots
    BY DEF Others
  <2>2. SessionsTypeOK
    BY DEF PageInv
  <2>3. CASE OtherCall(c)
    <3>1. Ask(c) \/ call' = [call EXCEPT ![c] = "idle"]
      BY <2>3 DEF OtherCall
    <3>2. \A z \in Slots : call'[z] = call[z]
      BY <1>2, <2>1, <3>1, SlotFacts DEF Ask
    <3> QED BY <1>1, <3>2
  <2>4. CASE SignOut(c) \/ SignIn(TabOf[c])
    <3>1. \A z \in Slots : call'[z] = call[z]
      BY <2>1, <2>2, <2>4, SignTypes, SlotFacts
    <3> QED BY <1>1, <3>1
  <2> QED BY <1>6, <2>3, <2>4
<1>7. ASSUME NEW t \in Tabs, \/ Consume(t) \/ RollBack(t) \/ Issue(t) \/ Answered(t)
                             \/ GiveUp(t) \/ Expire(t)
      PROVE  SavedInv'
  BY <1>3, <1>4, <1>7 DEF Consume, RollBack, Issue, Answered, GiveUp, Expire
<1>8. ASSUME NEW k \in stray, ServeStray(k) PROVE SavedInv'
  BY <1>3, <1>8 DEF ServeStray
<1>9. ASSUME NEW o \in signOuts, ServeSignOut(o) \/ SignedOut(o) \/ LoseSignOut(o)
      PROVE  SavedInv'
  BY <1>3, <1>9 DEF ServeSignOut, SignedOut, LoseSignOut
<1> QED BY <1>5, <1>6, <1>7, <1>8, <1>9 DEF RefreshStep, SignOutStep, SessionFault

LEMMA SavedStart == PageInit => SavedInv
<1> SUFFICES ASSUME PageInit PROVE SavedInv
  OBVIOUS
<1>1. /\ SessionsInit /\ stored \in FirstCards /\ stored \in Card
      /\ shown = "card" /\ dropped = {}
      /\ form = [s \in Slots |-> IF s = page THEN Mounted(stored) ELSE NoForm]
  BY FormsAssumption DEF PageInit
<1>2. Payload(InitialDraft(stored)) = InitialDraft(stored)
  BY <1>1, CardsAssumption
<1>3. ASSUME NEW s \in Slots
      PROVE  Tagged(form[s]) /\ AsStored(form[s], call[s], InitialDraft(stored))
  <2>1. call[s] = "idle"
    BY <1>1, SlotFacts DEF SessionsInit
  <2> QED BY <1>1, <1>2, <2>1, NoFormIsAsStored, MountedIsAsStored
<1> QED BY <1>1, <1>2, <1>3 DEF SavedInv

LEMMA SavedStep == PageInv /\ SavedInv /\ [PageNext]_allPageVars => SavedInv'
<1> SUFFICES ASSUME PageInv, SavedInv, [PageNext]_allPageVars PROVE SavedInv'
  OBVIOUS
<1>1. CASE FormStep
  BY <1>1, FireKeepsSaved, SavedKeepsSaved, SettleKeepsSaved, SaveFailedKeepsSaved,
     ServerKeepsSaved, CardArrivesKeepsSaved, RenderKeepsSaved, OtherPageStepsKeepSaved
     DEF FormStep
<1>2. CASE MemberStep
  BY <1>2, EditKeepsSaved, RetryKeepsSaved, OtherPageStepsKeepSaved DEF MemberStep
<1>3. CASE \/ RefreshStep /\ UNCHANGED pageVars
           \/ SignOutStep /\ UNCHANGED pageVars
           \/ SessionFault /\ UNCHANGED pageVars
           \/ \E c \in Others :
                (OtherCall(c) \/ SignOut(c) \/ SignIn(TabOf[c])) /\ UNCHANGED pageVars
  BY <1>3, SessionsKeepSaved
<1>4. CASE \/ \E c \in Slots \cup {Loader, Submitter} : LoseCall(c)
           \/ \E d \in dropped : ServeDropped(d)
  BY <1>4, OtherPageStepsKeepSaved, ServerKeepsSaved
<1>5. CASE UNCHANGED allPageVars
  <2>1. UNCHANGED <<call, form, stored, shown, dropped, disturbed, displaced>>
    BY <1>5 DEF allPageVars, pageVars, formVars, cardVars, sessionVars
  <2> QED BY <2>1, SavedStays, SameRest
<1> QED BY <1>1, <1>2, <1>3, <1>4, <1>5 DEF PageNext

\* A form that calls itself saved shows the server's card, whatever saves and
\* fetches it, or a form it replaced, has under way, unless a call was lost or a
\* form was replaced with a save to come or by older picks.
THEOREM SavedIsStored == PageSpec => []SavedMeansStored
<1>1. PageInv /\ SavedInv => SavedMeansStored
  <2> SUFFICES ASSUME PageInv, SavedInv, page # NoPage, form[page].clean, Undisturbed
               PROVE  InitialDraft(stored) = Payload(form[page].draft)
    BY DEF SavedMeansStored, Undisturbed
  <2>1. page \in Slots /\ form[page].mounted
    BY DEF PageInv, PageIsMounted
  <2> QED BY <2>1 DEF SavedInv, AsStored
<1>2. PageSpec => []SavedInv
  BY PageInvHolds, SavedStart, SavedStep, PTL DEF PageSpec
<1> QED BY <1>1, <1>2, PageInvHolds, PTL
===============================================================================
