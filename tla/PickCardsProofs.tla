---------------------------- MODULE PickCardsProofs ----------------------------
(***************************************************************************)
(* Cards under overlapping saves, submits, voids and imports, for any      *)
(* number of members, games, weeks, requests and save bodies.              *)
(*                                                                         *)
(* Two things protect a card: the lock a save holds on its user's row from *)
(* its admission to its commit, and the fact that what the admission has   *)
(* checked against the calendar stays true meanwhile.  The first needs no  *)
(* assumption; the second needs that a re-import does not move games.      *)
(***************************************************************************)
EXTENDS PickViews, FiniteSetTheorems, WellFoundedInduction, TLAPS

\* No answer of ESPN moves a game to another week.
GamesKeepTheirWeek ==
  \A f, h \in Feeds : DOMAIN f.at \cap DOMAIN h.at # {} => f.week = h.week

Admitted == {"save_read", "save_write"}

\* What a request carries in each phase.
RequestShape ==
  \A r \in Requests :
    /\ phase[r] \in {"save"} \cup Admitted =>
         who[r] \in Users /\ body[r] \in Payloads /\ aim[r] = body[r].week
    /\ phase[r] \in {"submit", "submit_read", "submit_write"} =>
         who[r] \in Users /\ aim[r] \in Weeks

\* A save holds its user's row from its admission on.
SavesHoldTheirLock ==
  \A r \in Requests : phase[r] \in Admitted => userLock[who[r]] = r

LockInv == TypeOK /\ RequestShape /\ SavesHoldTheirLock

\* The week of a game is the one some answer gave it.
WeeksComeFromFeeds ==
  \A g \in Games : weekOf[g] # NoWeek =>
    \E f \in Feeds : g \in DOMAIN f.at /\ f.week = weekOf[g]

\* There are picks for imported games only.
PicksAreImported == \A u \in Users, g \in Games : conf[u][g] # 0 => weekOf[g] # NoWeek

\* What the admission checked of the games still holds.
AdmittedFitTheWeek ==
  \A r \in Requests : phase[r] \in Admitted =>
    /\ DOMAIN body[r].conf \cap body[r].void = {}
    /\ DOMAIN body[r].conf \cup body[r].void \subseteq GamesOf(aim[r])

\* What a save has read of the card is still all there is, and the card it is
\* about to write has no conflict.
ReadsStayCurrent ==
  \A r \in Requests : phase[r] = "save_write" =>
    /\ \A g \in GamesOf(aim[r]) : conf[who[r]][g] # 0 => g \in rows[r]
    /\ IsInjective(FinalCard(r))

CardInv ==
  /\ LockInv /\ WeeksComeFromFeeds /\ PicksAreImported /\ AdmittedFitTheWeek
  /\ ReadsStayCurrent /\ ConfidencesAreUnique

\* A week that has ever locked is locked, and the saves admitted to it came before.
LockedStayLocked == \A w \in locked : KickedOff(w)
LateMeansLocked == \A r \in Requests : late[r] => aim[r] \in locked
AdmittedInTime == \A r \in Requests : phase[r] \in Admitted => ~late[r]

FrozenInv ==
  /\ LockInv /\ WeeksComeFromFeeds /\ LockedStayLocked /\ LateMeansLocked /\ AdmittedInTime

(***************************************************************************)
(* Least and greatest elements.                                            *)
(***************************************************************************)

\* A finite set without a greatest element would have a least subset like it.
LEMMA HasMax ==
  ASSUME NEW S \in SUBSET Nat, IsFiniteSet(S), S # {}
  PROVE  Max(S) \in S /\ \A y \in S : Max(S) >= y
<1> DEFINE Topped(T) == \E x \in T : \A y \in T : x >= y
           Bad == {T \in FiniteSubsetsOf(S) : T # {} /\ ~Topped(T)}
<1>1. Bad = {}
  <2> SUFFICES ASSUME Bad # {} PROVE FALSE
    OBVIOUS
  <2>1. PICK U \in Bad : \A V \in Bad : <<V, U>> \notin StrictSubsetOrdering(S)
    BY FS_StrictSubsetOrderingWellFounded, WFMin
  <2>2. U \subseteq S /\ U # {} /\ IsFiniteSet(U) /\ ~Topped(U)
    BY DEF FiniteSubsetsOf
  <2>3. PICK u \in U : TRUE
    BY <2>2
  <2> DEFINE V == U \ {u}
  <2>4. V \in FiniteSubsetsOf(S)
    BY <2>2, FS_Subset DEF FiniteSubsetsOf
  <2>5. <<V, U>> \in StrictSubsetOrdering(S)
    BY <2>2, <2>3 DEF StrictSubsetOrdering
  <2>6. V = {} \/ Topped(V)
    BY <2>1, <2>4, <2>5
  <2>7. CASE V = {}
    BY <2>2, <2>3, <2>7
  <2>8. CASE Topped(V)
    <3>1. PICK m \in V : \A y \in V : m >= y
      BY <2>8
    <3>2. m \in Nat /\ u \in Nat /\ U \subseteq Nat
      BY <2>2, <2>3, <3>1
    <3>3. CASE m >= u
      BY <2>2, <3>1, <3>2, <3>3
    <3>4. CASE u > m
      BY <2>2, <3>1, <3>2, <3>4
    <3> QED BY <3>2, <3>3, <3>4
  <2> QED BY <2>6, <2>7, <2>8
<1>2. S \in FiniteSubsetsOf(S)
  BY DEF FiniteSubsetsOf
<1>3. Topped(S)
  BY <1>1, <1>2
<1> QED BY <1>3 DEF Max

\* The least element is the one farthest below any other.
LEMMA HasMin ==
  ASSUME NEW S \in SUBSET Nat, S # {}
  PROVE  Min(S) \in S /\ \A y \in S : Min(S) <= y
<1>1. PICK n \in S : TRUE
  OBVIOUS
<1> DEFINE D == {n - y : y \in {z \in S : z <= n}}
<1>2. D \in SUBSET Nat /\ D # {} /\ \A d \in D : d <= n
  BY <1>1
<1>3. IsFiniteSet(D)
  BY <1>1, <1>2, FS_BoundedSetOfNaturals
<1>4. D \in SUBSET Nat
  BY <1>2
<1> HIDE DEF D
<1>5. Max(D) \in D /\ \A d \in D : Max(D) >= d
  BY <1>2, <1>3, <1>4, HasMax
<1>6. PICK x \in S : x <= n /\ Max(D) = n - x
  BY <1>5 DEF D
<1>7. \A y \in S : x <= y
  <2> SUFFICES ASSUME NEW y \in S, ~(x <= y) PROVE FALSE
    OBVIOUS
  <2>1. y < x /\ y <= n /\ x \in Nat /\ y \in Nat /\ n \in Nat
    BY <1>1, <1>6
  <2>2. n - y \in D
    BY <2>1 DEF D
  <2>3. Max(D) >= n - y
    BY <1>5, <2>2
  <2> QED BY <1>6, <2>1, <2>3
<1>8. \E z \in S : \A y \in S : z <= y
  BY <1>7
<1> QED BY <1>8 DEF Min

(***************************************************************************)
(* Types and locks.                                                        *)
(***************************************************************************)

LEMMA FeedFacts ==
  ASSUME NEW f \in Feeds
  PROVE  /\ f.week \in Weeks /\ DOMAIN f.at \subseteq Games
         /\ Range(f.at) \in SUBSET Nat /\ Range(f.at) # {} /\ IsFiniteSet(Range(f.at))
         /\ \A g \in DOMAIN f.at : f.at[g] \in Nat
<1>1. /\ f.week \in Weeks /\ DOMAIN f.at \in (SUBSET Games) \ {{}}
      /\ f.at \in [DOMAIN f.at -> Nat] /\ IsFiniteSet(Games)
  BY CalendarAssumption
<1>2. IsFiniteSet(DOMAIN f.at)
  BY <1>1, FS_Subset
<1>3. f.at \in Surjection(DOMAIN f.at, Range(f.at))
  BY <1>1 DEF Surjection, Range
<1>4. IsFiniteSet(Range(f.at))
  BY <1>2, <1>3, FS_Surjection
<1> QED BY <1>1, <1>4 DEF Range

LEMMA ImportTypes ==
  ASSUME CalendarTypeOK, NEW f \in Feeds, ImportGames(f)
  PROVE  CalendarTypeOK' /\ clock' = clock
<1> DEFINE first == Min(Range(f.at))
           isNew == f.week \notin weeks
           end == Max(Range(f.at)) + Buffer
           open == IF isNew THEN clock ELSE startDate[f.week]
<1>1. /\ weeks' = weeks \cup {f.week}
      /\ startDate' = [startDate EXCEPT ![f.week] = Min({first, open})]
      /\ endDate' = [endDate EXCEPT ![f.week] = IF isNew THEN end ELSE Max({end, endDate[f.week]})]
      /\ weekOf' = [g \in Games |-> IF g \in DOMAIN f.at THEN f.week ELSE weekOf[g]]
      /\ kickoff' = [g \in Games |-> IF g \in DOMAIN f.at THEN f.at[g] ELSE kickoff[g]]
      /\ UNCHANGED <<clock, complete>>
  BY DEF ImportGames
<1>2. /\ clock \in Nat /\ Buffer \in Nat /\ startDate \in [Weeks -> Nat]
      /\ endDate \in [Weeks -> Nat] /\ f.week \in Weeks
  BY CalendarAssumption, FeedFacts DEF CalendarTypeOK
<1>3. first \in Nat /\ end \in Nat
  BY <1>2, FeedFacts, HasMin, HasMax
<1>4. open \in Nat
  BY <1>2
<1> HIDE DEF first, end, open
<1>5. Min({first, open}) \in Nat
  <2>1. {first, open} \in SUBSET Nat /\ {first, open} # {}
    BY <1>3, <1>4
  <2> QED BY <2>1, HasMin
<1>6. Max({end, endDate[f.week]}) \in Nat
  <2>1. {end, endDate[f.week]} \in SUBSET Nat /\ {end, endDate[f.week]} # {}
    BY <1>2, <1>3
  <2>2. IsFiniteSet({end} \cup {endDate[f.week]})
    BY FS_Singleton, FS_AddElement
  <2>3. {end} \cup {endDate[f.week]} = {end, endDate[f.week]}
    OBVIOUS
  <2> QED BY <2>1, <2>2, <2>3, HasMax
<1>7. startDate' \in [Weeks -> Nat] /\ endDate' \in [Weeks -> Nat]
  BY <1>1, <1>2, <1>3, <1>5, <1>6
<1>8. weekOf' \in [Games -> weeks' \cup {NoWeek}] /\ kickoff' \in [Games -> Nat]
  BY <1>1, FeedFacts DEF CalendarTypeOK
<1> QED BY <1>1, <1>2, <1>7, <1>8 DEF CalendarTypeOK

LEMMA CalendarTypes ==
  ASSUME CalendarTypeOK, CalendarNext
  PROVE  CalendarTypeOK'
<1>1. CASE AdvanceClock
  BY <1>1, CalendarAssumption DEF AdvanceClock, CalendarTypeOK
<1>2. CASE \E f \in Feeds : ImportGames(f)
  BY <1>2, ImportTypes
<1>3. CASE \E w \in Weeks : CompleteWeek(w)
  BY <1>3 DEF CompleteWeek, Incomplete, CalendarTypeOK
<1> QED BY <1>1, <1>2, <1>3 DEF CalendarNext

LEMMA CalendarStartTypes == CalendarInit => CalendarTypeOK
BY CalendarAssumption DEF CalendarInit, CalendarTypeOK

LEMMA LockStart == Init => LockInv
BY CalendarStartTypes, NobodyAssumption
DEF Init, LockInv, TypeOK, RequestShape, SavesHoldTheirLock, Admitted, Phases

\* The calendar changes under the requests.
LEMMA CalendarKeepsLocks ==
  ASSUME LockInv, CalendarStep
  PROVE  LockInv'
<1>1. CalendarTypeOK'
  BY CalendarTypes DEF LockInv, TypeOK, CalendarStep
<1>2. locked' \subseteq Weeks
  BY DEF LockInv, TypeOK, CalendarStep
<1>3. UNCHANGED <<conf, voided, submitted, phase, who, aim, body, rows, sawVoid, voiding,
                  late, userLock>>
  BY DEF CalendarStep, cardVars, requestVars
<1> QED BY <1>1, <1>2, <1>3 DEF LockInv, TypeOK, RequestShape, SavesHoldTheirLock

LEMMA BeginKeepsLocks ==
  ASSUME LockInv, NEW r \in Requests, Arrive(r)
  PROVE  LockInv'
<1>1. ASSUME NEW first \in {"save", "submit", "void_write"}, NEW u \in Users \cup {Nobody},
             NEW w \in Weeks, NEW b \in Payloads \cup {NoBody},
             Begin(r, first, u, w, b), voiding' \in [Requests -> SUBSET (Users \X Games)],
             first = "save" => u \in Users /\ b \in Payloads /\ w = b.week,
             first = "submit" => u \in Users
      PROVE  LockInv'
  <2>1. /\ phase[r] = "idle" /\ phase' = [phase EXCEPT ![r] = first]
        /\ who' = [who EXCEPT ![r] = u] /\ aim' = [aim EXCEPT ![r] = w]
        /\ body' = [body EXCEPT ![r] = b] /\ late' = [late EXCEPT ![r] = w \in locked]
        /\ UNCHANGED <<clock, weeks, weekOf, kickoff, startDate, endDate, complete,
                       conf, voided, submitted, userLock, locked, rows, sawVoid>>
    BY <1>1 DEF Begin, calendarVars, cardVars
  <2>2. TypeOK'
    BY <1>1, <2>1 DEF LockInv, TypeOK, CalendarTypeOK, Phases
  <2>3. RequestShape'
    BY <1>1, <2>1 DEF LockInv, TypeOK, RequestShape, Admitted
  <2>4. SavesHoldTheirLock'
    BY <1>1, <2>1 DEF LockInv, TypeOK, SavesHoldTheirLock, Admitted
  <2> QED BY <2>2, <2>3, <2>4 DEF LockInv
<1>2. ASSUME NEW u \in Users, NEW p \in Payloads, BeginSave(r, u, p) PROVE LockInv'
  <2>1. p.week \in Weeks
    BY PayloadAssumption
  <2> QED BY <1>1, <1>2, <2>1 DEF BeginSave, LockInv, TypeOK
<1>3. ASSUME NEW u \in Users, NEW w \in Weeks, BeginSubmit(r, u, w) PROVE LockInv'
  BY <1>1, <1>3 DEF BeginSubmit, LockInv, TypeOK
<1>4. ASSUME NEW w \in Weeks, NEW unpaid \in SUBSET Users, VoidRead(r, w, unpaid)
      PROVE  LockInv'
  <2>1. voiding' \in [Requests -> SUBSET (Users \X Games)]
    BY <1>4 DEF VoidRead, LockInv, TypeOK
  <2> QED BY <1>1, <1>4, <2>1 DEF VoidRead
<1> QED BY <1>2, <1>3, <1>4 DEF Arrive

\* A transaction that ends takes its lock with it and leaves the others theirs.
LEMMA EndKeepsLocks ==
  ASSUME LockInv, NEW r \in Requests, End(r),
         conf' \in [Users -> [Games -> Nat]], voided' \in [Users -> SUBSET Games],
         submitted' \in [Users -> SUBSET Weeks]
  PROVE  LockInv'
<1>1. /\ phase' = [phase EXCEPT ![r] = "idle"] /\ who' = [who EXCEPT ![r] = Nobody]
      /\ aim' = [aim EXCEPT ![r] = NoWeek] /\ body' = [body EXCEPT ![r] = NoBody]
      /\ rows' = [rows EXCEPT ![r] = {}] /\ sawVoid' = [sawVoid EXCEPT ![r] = {}]
      /\ voiding' = [voiding EXCEPT ![r] = {}] /\ late' = [late EXCEPT ![r] = FALSE]
      /\ userLock' = [u \in Users |-> IF userLock[u] = r THEN Nobody ELSE userLock[u]]
      /\ UNCHANGED <<clock, weeks, weekOf, kickoff, startDate, endDate, complete, locked>>
  BY DEF End, calendarVars
<1>2. r # Nobody
  BY NobodyAssumption
<1>3. TypeOK'
  BY <1>1, <1>2, NobodyAssumption DEF LockInv, TypeOK, CalendarTypeOK, Phases
<1>4. RequestShape'
  BY <1>1 DEF LockInv, TypeOK, RequestShape, Admitted
<1>5. SavesHoldTheirLock'
  <2> SUFFICES ASSUME NEW t \in Requests, phase'[t] \in Admitted
               PROVE  userLock'[who'[t]] = t
    BY DEF SavesHoldTheirLock
  <2>1. t # r
    BY <1>1 DEF LockInv, TypeOK, Admitted
  <2>2. phase[t] \in Admitted /\ who'[t] = who[t]
    BY <1>1, <2>1 DEF LockInv, TypeOK
  <2>3. who[t] \in Users /\ userLock[who[t]] = t
    BY <2>2 DEF LockInv, SavesHoldTheirLock, RequestShape
  <2> QED BY <1>1, <2>1, <2>2, <2>3
<1> QED BY <1>3, <1>4, <1>5 DEF LockInv

LEMMA RejectKeepsLocks ==
  ASSUME LockInv, NEW r \in Requests, Reject(r)
  PROVE  LockInv'
BY EndKeepsLocks DEF Reject, cardVars, LockInv, TypeOK

LEMMA AdmitKeepsLocks ==
  ASSUME LockInv, NEW r \in Requests, SaveAdmit(r)
  PROVE  LockInv'
<1>1. /\ phase[r] = "save" /\ userLock[who[r]] = Nobody
      /\ userLock' = [userLock EXCEPT ![who[r]] = r]
      /\ phase' = [phase EXCEPT ![r] = "save_read"]
      /\ UNCHANGED <<clock, weeks, weekOf, kickoff, startDate, endDate, complete, conf, voided,
                     submitted, locked, who, aim, body, rows, sawVoid, voiding, late>>
  BY DEF SaveAdmit, calendarVars, cardVars
<1>2. who[r] \in Users /\ r # Nobody
  BY <1>1, NobodyAssumption DEF LockInv, RequestShape
<1>3. TypeOK'
  BY <1>1, <1>2 DEF LockInv, TypeOK, CalendarTypeOK, Phases
<1>4. RequestShape'
  BY <1>1 DEF LockInv, TypeOK, RequestShape, Admitted
<1>5. SavesHoldTheirLock'
  <2> SUFFICES ASSUME NEW t \in Requests, phase'[t] \in Admitted
               PROVE  userLock'[who[t]] = t
    BY <1>1 DEF SavesHoldTheirLock
  <2>1. CASE t = r
    BY <1>1, <1>2, <2>1 DEF LockInv, TypeOK
  <2>2. CASE t # r
    <3>1. userLock[who[t]] = t /\ t # Nobody
      BY <1>1, <2>2, NobodyAssumption DEF LockInv, TypeOK, SavesHoldTheirLock
    <3>2. who[t] # who[r]
      BY <1>1, <3>1
    <3> QED BY <1>1, <3>1, <3>2
  <2> QED BY <2>1, <2>2
<1> QED BY <1>3, <1>4, <1>5 DEF LockInv

LEMMA SaveReadKeepsLocks ==
  ASSUME LockInv, NEW r \in Requests, SaveRead(r)
  PROVE  LockInv'
<1>1. /\ phase[r] = "save_read" /\ phase' = [phase EXCEPT ![r] = "save_write"]
      /\ rows' = [rows EXCEPT ![r] = {g \in GamesOf(aim[r]) : conf[who[r]][g] # 0}]
      /\ sawVoid' = [sawVoid EXCEPT ![r] = voided[who[r]] \cap GamesOf(aim[r])]
      /\ UNCHANGED <<clock, weeks, weekOf, kickoff, startDate, endDate, complete, conf, voided,
                     submitted, userLock, locked, who, aim, body, voiding, late>>
  BY DEF SaveRead, calendarVars, cardVars
<1>2. TypeOK'
  BY <1>1 DEF LockInv, TypeOK, CalendarTypeOK, Phases, GamesOf
<1> QED BY <1>1, <1>2 DEF LockInv, TypeOK, RequestShape, SavesHoldTheirLock, Admitted

LEMMA SubmitKeepsLocks ==
  ASSUME LockInv, NEW r \in Requests, SubmitAdmit(r) \/ SubmitRead(r)
  PROVE  LockInv'
<1>1. /\ phase[r] \in {"submit", "submit_read"}
      /\ \E to \in {"submit_read", "submit_write"} : phase' = [phase EXCEPT ![r] = to]
      /\ rows' = rows \/ rows' = [rows EXCEPT ![r] = GamesOf(aim[r])]
      /\ UNCHANGED <<clock, weeks, weekOf, kickoff, startDate, endDate, complete, conf, voided,
                     submitted, userLock, locked, who, aim, body, sawVoid, voiding, late>>
  BY DEF SubmitAdmit, SubmitRead, calendarVars, cardVars
<1>2. rows' \in [Requests -> SUBSET Games] /\ phase' \in [Requests -> Phases]
  BY <1>1 DEF LockInv, TypeOK, Phases, GamesOf
<1>3. TypeOK'
  BY <1>1, <1>2 DEF LockInv, TypeOK, CalendarTypeOK
<1> QED BY <1>1, <1>3 DEF LockInv, TypeOK, RequestShape, SavesHoldTheirLock, Admitted

\* What a commit writes has the shape of the tables.
LEMMA CommitKeepsLocks ==
  ASSUME LockInv, NEW r \in Requests, SaveCommit(r) \/ SubmitCommit(r) \/ VoidCommit(r)
  PROVE  LockInv'
<1>1. CASE SaveCommit(r)
  <2>1. body[r] \in Payloads /\ who[r] \in Users
    BY <1>1 DEF SaveCommit, LockInv, RequestShape, Admitted
  <2>2. DOMAIN body[r].conf \subseteq Games /\ body[r].void \subseteq Games
        /\ \A g \in DOMAIN body[r].conf : body[r].conf[g] \in Nat
    BY <2>1, PayloadAssumption
  <2>3. conf' \in [Users -> [Games -> Nat]]
    BY <1>1, <2>1, <2>2 DEF SaveCommit, LockInv, TypeOK
  <2>4. voided' \in [Users -> SUBSET Games]
    BY <1>1, <2>1, <2>2 DEF SaveCommit, LockInv, TypeOK
  <2> QED BY <1>1, <2>3, <2>4, EndKeepsLocks DEF SaveCommit, LockInv, TypeOK
<1>2. CASE SubmitCommit(r)
  <2>1. aim[r] \in Weeks
    BY <1>2 DEF SubmitCommit, LockInv, RequestShape
  <2>2. submitted' \in [Users -> SUBSET Weeks]
    <3>1. submitted \in [Users -> SUBSET Weeks]
      BY DEF LockInv, TypeOK
    <3>2. submitted' = [submitted EXCEPT ![who[r]] = @ \cup {aim[r]}]
      BY <1>2 DEF SubmitCommit
    <3> QED BY <2>1, <3>1, <3>2
  <2>3. End(r) /\ UNCHANGED <<conf, voided>>
    BY <1>2 DEF SubmitCommit
  <2> QED BY <2>2, <2>3, EndKeepsLocks DEF LockInv, TypeOK
<1>3. CASE VoidCommit(r)
  <2>1. voided' \in [Users -> SUBSET Games]
    BY <1>3 DEF VoidCommit, LockInv, TypeOK
  <2> QED BY <1>3, <2>1, EndKeepsLocks DEF VoidCommit, LockInv, TypeOK
<1> QED BY <1>1, <1>2, <1>3

LEMMA LockStep == LockInv /\ [Next]_vars => LockInv'
<1> SUFFICES ASSUME LockInv, [Next]_vars PROVE LockInv'
  OBVIOUS
<1>1. CASE CalendarStep
  BY <1>1, CalendarKeepsLocks
<1>2. ASSUME NEW r \in Requests, Arrive(r) PROVE LockInv'
  BY <1>2, BeginKeepsLocks
<1>3. ASSUME NEW r \in Requests, Step(r) PROVE LockInv'
  <2>1. Step(r) => \/ SaveAdmit(r) \/ SaveRead(r) \/ SubmitAdmit(r) \/ SubmitRead(r)
                   \/ SaveCommit(r) \/ SubmitCommit(r) \/ VoidCommit(r) \/ Reject(r)
    BY DEF Step, SaveStep, SubmitStep, SaveRefused, SaveConflict, SubmitRefused, SubmitIncomplete
  <2> QED BY <1>3, <2>1, AdmitKeepsLocks, SaveReadKeepsLocks, SubmitKeepsLocks,
             CommitKeepsLocks, RejectKeepsLocks
<1>4. ASSUME NEW r \in Requests, Abort(r) PROVE LockInv'
  BY <1>4, RejectKeepsLocks DEF Abort
<1>5. CASE UNCHANGED vars
  BY <1>5
  DEF vars, calendarVars, cardVars, requestVars, LockInv, TypeOK, CalendarTypeOK,
      RequestShape, SavesHoldTheirLock
<1> QED BY <1>1, <1>2, <1>3, <1>4, <1>5 DEF Next

\* Every reachable state is well typed, and the lock on a user's row belongs to a
\* request of that user which is under way.
THEOREM TypeCorrect == Spec => []TypeOK
<1>1. LockInv => TypeOK
  BY DEF LockInv
<1> QED BY <1>1, LockStart, LockStep, PTL DEF Spec

(***************************************************************************)
(* The two entry rules.                                                    *)
(***************************************************************************)

\* n values from least value 1 to greatest value n are 1..n, and conversely.
LEMMA ValuesFillTheRange ==
  ASSUME NEW V \in SUBSET Nat, IsFiniteSet(V), NEW n \in Nat, n > 0
  PROVE  V # {} /\ Cardinality(V) = n /\ Min(V) = 1 /\ Max(V) = n <=> V = 1..n
<1>1. IsFiniteSet(1..n) /\ Cardinality(1..n) = n
  BY FS_Interval
<1>2. ASSUME V # {}, Cardinality(V) = n, Min(V) = 1, Max(V) = n PROVE V = 1..n
  <2>1. \A v \in V : 1 <= v /\ v <= n
    BY <1>2, HasMin, HasMax
  <2>2. V \in SUBSET (1..n)
    BY <2>1
  <2> QED BY <1>1, <1>2, <2>2, FS_Subset
<1>3. ASSUME V = 1..n PROVE V # {} /\ Cardinality(V) = n /\ Min(V) = 1 /\ Max(V) = n
  <2>1. 1 \in V /\ n \in V
    BY <1>3
  <2>2. Min(V) \in V /\ Min(V) <= 1 /\ Max(V) \in V /\ Max(V) >= n
    BY <2>1, HasMin, HasMax
  <2>3. \A v \in V : v \in Nat /\ 1 <= v /\ v <= n
    BY <1>3
  <2>4. ASSUME NEW least \in V, NEW most \in V, least <= 1, most >= n
        PROVE  least = 1 /\ most = n
    BY <2>3, <2>4
  <2>5. Min(V) = 1 /\ Max(V) = n
    BY <2>2, <2>4
  <2> QED BY <1>1, <1>3, <2>1, <2>5
<1> QED BY <1>2, <1>3

LEMMA RulesAgree == LockInv => EntryRulesAgree
<1> SUFFICES ASSUME LockInv, NEW u \in Users, NEW w \in Weeks
             PROVE  CompleteCard(u, w) <=> GamesOf(w) # {} /\ FullCard(u, w, GamesOf(w))
  BY DEF EntryRulesAgree
<1> DEFINE A == Active(u, w)
           n == Cardinality(GamesOf(w))
           V == {conf[u][g] : g \in A}
<1>1. IsFiniteSet(GamesOf(w)) /\ A \in SUBSET GamesOf(w) /\ A \subseteq Games
  <2>1. GamesOf(w) \in SUBSET Games
    BY DEF GamesOf
  <2>2. IsFiniteSet(GamesOf(w))
    BY <2>1, CalendarAssumption, FS_Subset
  <2> QED BY <2>1, <2>2 DEF Active
<1>2. IsFiniteSet(A) /\ n \in Nat /\ (n > 0 <=> GamesOf(w) # {})
  <2>1. n \in Nat /\ (n = 0 <=> GamesOf(w) = {})
    BY <1>1, FS_CardinalityType, FS_EmptySet
  <2> QED BY <1>1, <2>1, FS_Subset
<1>3. V \in SUBSET Nat /\ IsFiniteSet(V)
  <2>1. V \in SUBSET Nat
    BY <1>1 DEF LockInv, TypeOK
  <2> DEFINE f == [g \in A |-> conf[u][g]]
  <2>2. f \in Surjection(A, V)
    BY DEF Surjection
  <2> QED BY <1>2, <2>1, <2>2, FS_Surjection
<1>4. CompleteCard(u, w) <=> /\ n > 0 /\ V # {} /\ Cardinality(A) = n
                             /\ Cardinality(V) = n /\ Min(V) = 1 /\ Max(V) = n
  BY DEF CompleteCard
<1>5. FullCard(u, w, GamesOf(w)) <=> Cardinality(A) = n /\ V = 1..n
  BY DEF FullCard
<1> HIDE DEF A, n, V
<1>6. n > 0 => (V # {} /\ Cardinality(V) = n /\ Min(V) = 1 /\ Max(V) = n <=> V = 1..n)
  BY <1>2, <1>3, ValuesFillTheRange
<1> QED BY <1>2, <1>4, <1>5, <1>6

\* On every card the system can hold, the rule that accepts a submit and the SQL
\* that counts an autosaved card as an entry say the same.
THEOREM EntryRulesNeverDiffer == Spec => []EntryRulesAgree
BY LockStart, LockStep, RulesAgree, PTL DEF Spec

(***************************************************************************)
(* Voids that a save has not seen.                                         *)
(***************************************************************************)

\* Nothing but the commit of a save of the member changes a confidence or lifts a
\* void, and it lifts only voids it has read.
LEMMA OnlySavesChangeCards ==
  ASSUME LockInv, [Next]_vars, NEW u \in Users, NEW g \in Games,
         conf'[u][g] # conf[u][g] \/ (g \in voided[u] /\ g \notin voided'[u])
  PROVE  \E r \in Requests :
           /\ SaveCommit(r) /\ who[r] = u /\ g \in DOMAIN body[r].conf
           /\ g \in voided[u] /\ g \notin voided'[u] => g \in sawVoid[r]
<1>1. CASE UNCHANGED <<conf, voided>>
  BY <1>1
<1>2. ASSUME NEW r \in Requests, SaveCommit(r)
      PROVE  /\ who[r] = u /\ g \in DOMAIN body[r].conf
             /\ g \in voided[u] /\ g \notin voided'[u] => g \in sawVoid[r]
  <2>1. who[r] \in Users
    BY <1>2 DEF SaveCommit, LockInv, RequestShape, Admitted
  <2> QED BY <1>2, <2>1 DEF SaveCommit, LockInv, TypeOK
<1>3. ASSUME NEW r \in Requests, SubmitCommit(r) PROVE FALSE
  BY <1>3 DEF SubmitCommit
<1>4. ASSUME NEW r \in Requests, VoidCommit(r) PROVE FALSE
  BY <1>4 DEF VoidCommit, LockInv, TypeOK
<1>5. ASSUME NEW r \in Requests, Arrive(r) PROVE UNCHANGED <<conf, voided>>
  BY <1>5 DEF Arrive, BeginSave, BeginSubmit, VoidRead, Begin, cardVars
<1>6. ASSUME NEW r \in Requests, SaveAdmit(r) \/ SaveRead(r) \/ SubmitAdmit(r) \/ SubmitRead(r)
      PROVE  UNCHANGED <<conf, voided>>
  BY <1>6 DEF SaveAdmit, SaveRead, SubmitAdmit, SubmitRead, cardVars
<1>7. ASSUME NEW r \in Requests, Reject(r) PROVE UNCHANGED <<conf, voided>>
  BY <1>7 DEF Reject, cardVars
<1>8. CASE CalendarStep
  BY <1>1, <1>8 DEF CalendarStep, cardVars
<1>9. CASE UNCHANGED vars
  BY <1>1, <1>9 DEF vars, cardVars
<1>10. ASSUME NEW r \in Requests, Step(r) \/ Abort(r)
       PROVE  SaveCommit(r) \/ UNCHANGED <<conf, voided>>
  BY <1>10, <1>3, <1>4, <1>6, <1>7
  DEF Step, SaveStep, SubmitStep, SaveRefused, SaveConflict, SubmitRefused, SubmitIncomplete,
      Abort
<1> QED BY <1>1, <1>2, <1>5, <1>8, <1>9, <1>10 DEF Next

\* A void that the commissioner commits while a save is in progress survives it.
THEOREM UnseenVoidsAreKept == Spec => UnseenVoidsSurvive
<1> DEFINE Lifts == \A u \in Users, g \in Games :
                      g \in voided[u] /\ g \notin voided'[u]
                        => \E r \in Requests : who[r] = u /\ userLock[u] = r /\ g \in sawVoid[r]
<1>1. LockInv /\ [Next]_vars => Lifts
  <2> SUFFICES ASSUME LockInv, [Next]_vars, NEW u \in Users, NEW g \in Games,
                      g \in voided[u], g \notin voided'[u]
               PROVE  \E r \in Requests : who[r] = u /\ userLock[u] = r /\ g \in sawVoid[r]
    OBVIOUS
  <2>1. PICK r \in Requests : SaveCommit(r) /\ who[r] = u /\ g \in sawVoid[r]
    BY OnlySavesChangeCards
  <2>2. userLock[u] = r
    BY <2>1 DEF SaveCommit, LockInv, SavesHoldTheirLock, Admitted
  <2> QED BY <2>1, <2>2
<1> QED BY <1>1, LockStart, LockStep, PTL DEF Spec, UnseenVoidsSurvive

(***************************************************************************)
(* The calendar only grows.                                                *)
(***************************************************************************)

\* An import gives weeks to games that have none, and keeps those of the others.
LEMMA WeeksAreKept ==
  ASSUME CalendarTypeOK, GamesKeepTheirWeek, WeeksComeFromFeeds, CalendarNext
  PROVE  /\ \A g \in Games : weekOf[g] # NoWeek => weekOf'[g] = weekOf[g]
         /\ WeeksComeFromFeeds'
<1>1. CASE UNCHANGED weekOf
  BY <1>1 DEF WeeksComeFromFeeds
<1>2. ASSUME NEW f \in Feeds, ImportGames(f)
      PROVE  /\ \A g \in Games : weekOf[g] # NoWeek => weekOf'[g] = weekOf[g]
             /\ WeeksComeFromFeeds'
  <2>1. weekOf' = [g \in Games |-> IF g \in DOMAIN f.at THEN f.week ELSE weekOf[g]]
    BY <1>2 DEF ImportGames
  <2>2. \A g \in Games : weekOf[g] # NoWeek => weekOf'[g] = weekOf[g]
    BY <2>1 DEF WeeksComeFromFeeds, GamesKeepTheirWeek
  <2>3. WeeksComeFromFeeds'
    BY <2>1 DEF WeeksComeFromFeeds
  <2> QED BY <2>2, <2>3
<1> QED BY <1>1, <1>2 DEF CalendarNext, AdvanceClock, CompleteWeek

LEMMA GamesOfGrow ==
  ASSUME CalendarTypeOK, GamesKeepTheirWeek, WeeksComeFromFeeds, CalendarNext, NEW w \in Weeks
  PROVE  GamesOf(w) \subseteq GamesOf(w)'
<1>1. w # NoWeek
  BY DEF Weeks, NoWeek
<1> QED BY <1>1, WeeksAreKept DEF GamesOf

\* What has kicked off stays kicked off, unless games may be postponed.
LEMMA KickoffsStayPast ==
  ASSUME CalendarTypeOK, GamesKeepTheirWeek, ~MayPostpone, WeeksComeFromFeeds, CalendarNext,
         NEW w \in Weeks, KickedOff(w)
  PROVE  KickedOff(w)'
<1>1. PICK g \in GamesOf(w) : kickoff[g] <= clock
  BY DEF KickedOff
<1>2. g \in Games /\ weekOf[g] # NoWeek /\ g \in GamesOf(w)'
  BY <1>1, GamesOfGrow DEF GamesOf, Weeks, NoWeek
<1>3. kickoff'[g] <= clock'
  <2>1. CASE AdvanceClock
    BY <1>1, <1>2, <2>1 DEF AdvanceClock, CalendarTypeOK
  <2>2. ASSUME NEW f \in Feeds, ImportGames(f) PROVE kickoff'[g] <= clock'
    BY <1>1, <1>2, <2>2 DEF ImportGames, PlaysOnTime
  <2>3. ASSUME NEW v \in Weeks, CompleteWeek(v) PROVE kickoff'[g] <= clock'
    BY <1>1, <2>3 DEF CompleteWeek
  <2> QED BY <2>1, <2>2, <2>3 DEF CalendarNext
<1> QED BY <1>2, <1>3 DEF KickedOff

(***************************************************************************)
(* Locked cards.                                                           *)
(***************************************************************************)

LEMMA FrozenStart == Init => FrozenInv
<1> SUFFICES ASSUME Init PROVE FrozenInv
  OBVIOUS
<1>1. LockInv
  BY LockStart
<1>2. /\ WeeksComeFromFeeds /\ LockedStayLocked /\ LateMeansLocked /\ AdmittedInTime
  BY DEF Init, CalendarInit, WeeksComeFromFeeds, LockedStayLocked, LateMeansLocked,
         AdmittedInTime, Admitted
<1> QED BY <1>1, <1>2 DEF FrozenInv

LEMMA FrozenStep ==
  ASSUME GamesKeepTheirWeek, ~MayPostpone, FrozenInv, [Next]_vars
  PROVE  FrozenInv'
<1>1. LockInv /\ LockInv'
  BY LockStep DEF FrozenInv
<1>2. ASSUME UNCHANGED <<calendarVars, locked>>, NEW r \in Requests, NEW to \in Phases,
             phase' = [phase EXCEPT ![r] = to],
             \/ UNCHANGED <<aim, late>> /\ (to \in Admitted => phase[r] \in Admitted \/ ~late[r])
             \/ /\ to \notin Admitted
                /\ \E w \in Weeks \cup {NoWeek} :
                     /\ aim' = [aim EXCEPT ![r] = w]
                     /\ late' = [late EXCEPT ![r] = FALSE] \/ late' = [late EXCEPT ![r] = w \in locked]
      PROVE  FrozenInv'
  <2>1. UNCHANGED <<weekOf, kickoff, clock, locked>>
    BY <1>2 DEF calendarVars
  <2>2. WeeksComeFromFeeds' /\ LockedStayLocked'
    BY <2>1 DEF FrozenInv, WeeksComeFromFeeds, LockedStayLocked, KickedOff, GamesOf
  <2>3. LateMeansLocked'
    BY <1>1, <1>2, <2>1 DEF FrozenInv, LateMeansLocked, LockInv, TypeOK
  <2>4. AdmittedInTime'
    BY <1>1, <1>2 DEF FrozenInv, AdmittedInTime, LockInv, TypeOK
  <2> QED BY <1>1, <2>2, <2>3, <2>4 DEF FrozenInv
<1>3. CASE CalendarStep
  <2>1. CalendarTypeOK /\ CalendarNext /\ UNCHANGED <<aim, late, phase>>
    BY <1>1, <1>3 DEF CalendarStep, LockInv, TypeOK, requestVars
  <2>2. WeeksComeFromFeeds'
    BY <2>1, WeeksAreKept DEF FrozenInv
  <2>3. \A w \in locked : w \in Weeks /\ KickedOff(w)'
    BY <1>1, <2>1, KickoffsStayPast DEF FrozenInv, LockedStayLocked, LockInv, TypeOK
  <2>4. locked' = locked \cup {w \in Weeks : KickedOff(w)'}
    BY <1>3 DEF CalendarStep
  <2>5. LockedStayLocked'
    BY <2>3, <2>4 DEF LockedStayLocked
  <2>6. LateMeansLocked' /\ AdmittedInTime'
    BY <2>1, <2>4 DEF FrozenInv, LateMeansLocked, AdmittedInTime
  <2> QED BY <1>1, <2>2, <2>5, <2>6 DEF FrozenInv
<1>4. ASSUME NEW r \in Requests, Arrive(r) PROVE FrozenInv'
  <2>1. ASSUME NEW first \in {"save", "submit", "void_write"}, NEW w \in Weeks, NEW u, NEW b,
               Begin(r, first, u, w, b)
        PROVE  FrozenInv'
    BY <1>2, <2>1 DEF Begin, Phases, Admitted
  <2>2. \A p \in Payloads : p.week \in Weeks
    BY PayloadAssumption
  <2> QED BY <1>4, <2>1, <2>2 DEF Arrive, BeginSave, BeginSubmit, VoidRead
<1>5. ASSUME NEW r \in Requests, SaveAdmit(r) PROVE FrozenInv'
  <2>1. ~late[r]
    BY <1>5 DEF SaveAdmit, ValidSave, FrozenInv, LateMeansLocked, LockedStayLocked
  <2> QED BY <1>2, <1>5, <2>1 DEF SaveAdmit, Phases
<1>6. ASSUME NEW r \in Requests, SaveRead(r) \/ SubmitAdmit(r) \/ SubmitRead(r) PROVE FrozenInv'
  BY <1>2, <1>6 DEF SaveRead, SubmitAdmit, SubmitRead, Phases, Admitted
<1>7. ASSUME NEW r \in Requests, End(r) PROVE FrozenInv'
  BY <1>2, <1>7 DEF End, Phases, Admitted
<1>8. ASSUME NEW r \in Requests, Step(r) \/ Abort(r) PROVE FrozenInv'
  <2>1. SaveAdmit(r) \/ SaveRead(r) \/ SubmitAdmit(r) \/ SubmitRead(r) \/ End(r)
    BY <1>8
    DEF Step, SaveStep, SubmitStep, SaveRefused, SaveConflict, SubmitRefused, SubmitIncomplete,
        Abort, Reject, SaveCommit, SubmitCommit, VoidCommit
  <2> QED BY <1>5, <1>6, <1>7, <2>1
<1>9. CASE UNCHANGED vars
  BY <1>1, <1>9
  DEF vars, calendarVars, requestVars, FrozenInv, WeeksComeFromFeeds, LockedStayLocked,
      LateMeansLocked, AdmittedInTime, KickedOff, GamesOf
<1> QED BY <1>3, <1>4, <1>8, <1>9 DEF Next

\* Where no answer of ESPN moves or postpones a game, members change a card only
\* with saves that arrived before the first kickoff of its week.
THEOREM LockedCardsStayFrozen ==
  ASSUME GamesKeepTheirWeek, ~MayPostpone
  PROVE  Spec => LockedCardsAreFrozen
<1> DEFINE Frozen == \A u \in Users, g \in Games :
                       conf'[u][g] # conf[u][g] \/ (g \in voided[u] /\ g \notin voided'[u])
                         => \E r \in Requests : phase[r] = "save_write" /\ who[r] = u /\ ~late[r]
<1>1. FrozenInv /\ [Next]_vars => Frozen
  <2> SUFFICES ASSUME FrozenInv, [Next]_vars, NEW u \in Users, NEW g \in Games,
                      conf'[u][g] # conf[u][g] \/ (g \in voided[u] /\ g \notin voided'[u])
               PROVE  \E r \in Requests : phase[r] = "save_write" /\ who[r] = u /\ ~late[r]
    OBVIOUS
  <2>1. PICK r \in Requests : SaveCommit(r) /\ who[r] = u
    BY OnlySavesChangeCards DEF FrozenInv
  <2> QED BY <2>1 DEF SaveCommit, FrozenInv, AdmittedInTime, Admitted
<1>2. FrozenInv /\ [Next]_vars => FrozenInv'
  BY FrozenStep
<1> QED BY <1>1, <1>2, FrozenStart, PTL DEF Spec, LockedCardsAreFrozen

(***************************************************************************)
(* What members have seen of each other's cards.                           *)
(***************************************************************************)

\* What is locked covers what has kicked off, what is scored and what was shown.
LockCoversTheWeek ==
  /\ \A w \in Weeks : KickedOff(w) => w \in locked
  /\ complete \subseteq locked
  /\ revealed \subseteq locked

KnowingMeansLate == \A r \in Requests : knew[r] => late[r] /\ phase[r] # "idle"

SeenInv == FrozenInv /\ ViewTypeOK /\ LockCoversTheWeek /\ KnowingMeansLate

\* A page that compares the clock with the first of some games of a week shows
\* nothing before a game of the week has kicked off.
LEMMA StartedMeansKickedOff ==
  ASSUME CalendarTypeOK, NEW w \in Weeks, NEW games \in SUBSET GamesOf(w), HasStarted(games)
  PROVE  KickedOff(w)
<1> DEFINE S == {kickoff[g] : g \in games}
<1>1. S \in SUBSET Nat /\ S # {} /\ Min(S) <= clock
  BY DEF HasStarted, CalendarTypeOK, GamesOf
<1>2. Min(S) \in S
  BY <1>1, HasMin
<1> QED BY <1>1, <1>2 DEF KickedOff

\* No page shows a week that has neither kicked off nor been scored.
VisibleIsStarted == \A w \in Visible : w \in weeks /\ (w \in complete \/ KickedOff(w))

LEMMA PagesKeepTheirPeace == CalendarTypeOK => VisibleIsStarted
<1> SUFFICES ASSUME CalendarTypeOK, NEW w \in Visible
             PROVE  w \in weeks /\ (w \in complete \/ KickedOff(w))
  BY DEF VisibleIsStarted
<1>1. ASSUME WeekRevealed(w) PROVE w \in weeks /\ (w \in complete \/ KickedOff(w))
  BY <1>1 DEF WeekRevealed
<1>2. ASSUME NEW n, w \in OnAllPicks(n) PROVE w \in weeks /\ KickedOff(w)
  BY <1>2, StartedMeansKickedOff DEF OnAllPicks, AllPicks, CalendarTypeOK
<1>3. ASSUME NEW n, w \in OnBoard(n) PROVE w \in weeks /\ KickedOff(w)
  <2>1. w \in Weeks /\ NightGames(w) \subseteq GamesOf(w) /\ HasStarted(NightGames(w))
    BY <1>3 DEF OnBoard, NightGames, CalendarTypeOK
  <2> QED BY <1>3, <2>1, StartedMeansKickedOff DEF OnBoard
<1> QED BY <1>1, <1>2, <1>3 DEF Visible, OnBreakdown, OnGame

LEMMA SeenStart == ViewInit => SeenInv
<1> SUFFICES ASSUME ViewInit PROVE SeenInv
  OBVIOUS
<1>1. FrozenInv /\ TypeOK
  BY FrozenStart DEF ViewInit, FrozenInv, LockInv
<1>2. \A w \in Weeks : ~KickedOff(w)
  BY DEF ViewInit, Init, CalendarInit, KickedOff, GamesOf, Weeks, NoWeek
<1>3. ViewTypeOK /\ LockCoversTheWeek /\ KnowingMeansLate
  BY <1>1, <1>2 DEF ViewInit, Init, CalendarInit, ViewTypeOK, LockCoversTheWeek, KnowingMeansLate
<1> QED BY <1>1, <1>3 DEF SeenInv

LEMMA RequestsLeaveTheCalendar ==
  ASSUME NEW r \in Requests, Arrive(r) \/ Step(r) \/ Abort(r)
  PROVE  UNCHANGED <<calendarVars, locked>>
BY DEF Arrive, BeginSave, BeginSubmit, VoidRead, Begin, Step, SaveStep, SubmitStep, SaveAdmit,
       SaveRefused, SaveRead, SaveConflict, SaveCommit, SubmitAdmit, SubmitRefused,
       SubmitRead, SubmitIncomplete, SubmitCommit, VoidCommit, Abort, Reject, End

LEMMA ViewStepsAreSteps == [ViewNext]_viewVars => [Next]_vars
BY DEF ViewNext, viewVars, Next

\* What is visible after a change of the calendar has started by then.
LEMMA VisibleThenIsStartedThen == CalendarTypeOK' => VisibleIsStarted'
BY PagesKeepTheirPeace, PTL

LEMMA ViewTypes ==
  ASSUME LockInv, ViewTypeOK, [ViewNext]_viewVars
  PROVE  ViewTypeOK'
<1>1. TypeOK'
  BY LockStep, ViewStepsAreSteps DEF LockInv
<1>2. CASE CalendarStep /\ revealed' = revealed \cup Visible' /\ UNCHANGED knew
  <2>1. weeks \subseteq weeks'
    BY <1>2 DEF CalendarStep, CalendarNext, AdvanceClock, ImportGames, CompleteWeek
  <2> QED BY <1>1, <1>2, <2>1, VisibleThenIsStartedThen DEF VisibleIsStarted, ViewTypeOK, TypeOK
<1>3. ASSUME NEW r \in Requests, Arrive(r) \/ Step(r) \/ Abort(r), Remember(r),
             UNCHANGED revealed
      PROVE  ViewTypeOK'
  <2>1. UNCHANGED weeks
    BY <1>3, RequestsLeaveTheCalendar DEF calendarVars
  <2> QED BY <1>1, <1>3, <2>1 DEF Remember, ViewTypeOK
<1>4. CASE UNCHANGED viewVars
  BY <1>1, <1>4 DEF viewVars, vars, calendarVars, ViewTypeOK
<1> QED BY <1>2, <1>3, <1>4 DEF ViewNext

\* The history of what was shown is well typed beside the cards.
THEOREM ViewTypeCorrect == ViewSpec => []ViewTypeOK
<1> DEFINE Inv == LockInv /\ ViewTypeOK
<1>1. ViewInit => Inv
  BY LockStart DEF ViewInit, ViewTypeOK, LockInv
<1>2. Inv /\ [ViewNext]_viewVars => Inv'
  BY ViewTypes, LockStep, ViewStepsAreSteps
<1>3. Inv => ViewTypeOK
  OBVIOUS
<1> QED BY <1>1, <1>2, <1>3, PTL DEF ViewSpec

LEMMA CalendarKeepsSeen ==
  ASSUME SeenInv, FrozenInv', ViewTypeOK', CalendarStep, revealed' = revealed \cup Visible',
         UNCHANGED knew
  PROVE  SeenInv'
<1>1. CalendarTypeOK /\ CalendarTypeOK'
  BY DEF SeenInv, FrozenInv, LockInv, TypeOK
<1>2. \A w \in Visible' : w \in weeks' /\ (w \in complete' \/ KickedOff(w)')
  BY <1>1, VisibleThenIsStartedThen DEF VisibleIsStarted
<1>3. locked' = locked \cup {w \in Weeks : KickedOff(w)'}
  BY DEF CalendarStep
<1>4. complete' \subseteq locked'
  <2>1. CASE complete' = complete
    BY <1>3, <2>1 DEF SeenInv, LockCoversTheWeek
  <2>2. ASSUME NEW w \in Weeks, CompleteWeek(w) PROVE complete' \subseteq locked'
    <3>1. PICK g \in GamesOf(w) : kickoff[g] < clock
      BY <2>2 DEF CompleteWeek
    <3>2. KickedOff(w)
      BY <1>1, <3>1 DEF KickedOff, GamesOf, CalendarTypeOK
    <3>3. w \in locked
      BY <3>2 DEF SeenInv, LockCoversTheWeek
    <3> QED BY <1>3, <2>2, <3>3 DEF CompleteWeek, SeenInv, LockCoversTheWeek
  <2> QED BY <2>1, <2>2 DEF CalendarStep, CalendarNext, AdvanceClock, ImportGames
<1>5. revealed' \subseteq locked'
  BY <1>1, <1>2, <1>3, <1>4 DEF SeenInv, LockCoversTheWeek, CalendarTypeOK
<1>6. LockCoversTheWeek'
  BY <1>3, <1>4, <1>5 DEF LockCoversTheWeek
<1>7. KnowingMeansLate'
  BY DEF CalendarStep, requestVars, SeenInv, KnowingMeansLate
<1> QED BY <1>6, <1>7 DEF SeenInv

LEMMA RequestsKeepSeen ==
  ASSUME SeenInv, FrozenInv', NEW r \in Requests, Arrive(r) \/ Step(r) \/ Abort(r),
         Remember(r), UNCHANGED revealed
  PROVE  SeenInv'
<1>1. TypeOK /\ TypeOK' /\ UNCHANGED <<calendarVars, locked>>
  <2>1. UNCHANGED <<calendarVars, locked>>
    BY RequestsLeaveTheCalendar
  <2> QED BY <2>1 DEF SeenInv, FrozenInv, LockInv
<1>2. LockCoversTheWeek'
  BY <1>1 DEF SeenInv, LockCoversTheWeek, calendarVars, KickedOff, GamesOf
<1>3. /\ knew' \in [Requests -> BOOLEAN]
      /\ \A t \in Requests \ {r} : knew'[t] = knew[t]
      /\ knew'[r] => /\ phase'[r] # "idle"
                     /\ IF phase[r] = "idle"
                          THEN phase'[r] = "save" /\ aim'[r] \in revealed
                          ELSE knew[r]
  BY <1>1 DEF Remember, SeenInv, ViewTypeOK
<1>4. CASE \E first \in {"save", "submit", "void_write"}, w \in Weeks :
             \E u, b : Begin(r, first, u, w, b)
  <2>1. PICK first \in {"save", "submit", "void_write"}, w \in Weeks :
          /\ phase[r] = "idle" /\ phase' = [phase EXCEPT ![r] = first]
          /\ aim' = [aim EXCEPT ![r] = w] /\ late' = [late EXCEPT ![r] = w \in locked]
    BY <1>4 DEF Begin
  <2>2. knew'[r] => late'[r] /\ phase'[r] # "idle"
    BY <1>1, <1>3, <2>1 DEF SeenInv, LockCoversTheWeek, TypeOK
  <2>4. DOMAIN phase = Requests /\ DOMAIN late = Requests
    BY DEF SeenInv, FrozenInv, LockInv, TypeOK
  <2>5. \A t \in Requests \ {r} : phase'[t] = phase[t] /\ late'[t] = late[t]
    BY <2>1, <2>4
  <2>3. \A t \in Requests \ {r} : knew'[t] => late'[t] /\ phase'[t] # "idle"
    BY <1>3, <2>5 DEF SeenInv, KnowingMeansLate
  <2> QED BY <1>1, <1>2, <1>3, <2>2, <2>3 DEF SeenInv, KnowingMeansLate, ViewTypeOK, calendarVars
<1>5. CASE /\ phase[r] # "idle"
           /\ \A t \in Requests \ {r} : phase'[t] = phase[t] /\ late'[t] = late[t]
           /\ phase'[r] # "idle" => late'[r] = late[r]
  <2>1. KnowingMeansLate'
    BY <1>3, <1>5 DEF SeenInv, KnowingMeansLate
  <2> QED BY <1>1, <1>2, <1>3, <2>1 DEF SeenInv, ViewTypeOK, calendarVars
<1>6. ASSUME Arrive(r)
      PROVE  \E first \in {"save", "submit", "void_write"}, w \in Weeks :
               \E u, b : Begin(r, first, u, w, b)
  <2>1. \A p \in Payloads : p.week \in Weeks
    BY PayloadAssumption
  <2> QED BY <1>6, <2>1 DEF Arrive, BeginSave, BeginSubmit, VoidRead
<1>7. ASSUME Step(r) \/ Abort(r)
      PROVE  /\ phase[r] # "idle"
             /\ \A t \in Requests \ {r} : phase'[t] = phase[t] /\ late'[t] = late[t]
             /\ phase'[r] # "idle" => late'[r] = late[r]
  <2>1. ASSUME SaveAdmit(r) \/ SaveRead(r) \/ SubmitAdmit(r) \/ SubmitRead(r)
        PROVE  UNCHANGED late /\ phase[r] # "idle" /\ \E to : phase' = [phase EXCEPT ![r] = to]
    BY <2>1 DEF SaveAdmit, SaveRead, SubmitAdmit, SubmitRead
  <2>2. ASSUME End(r)
        PROVE  /\ phase' = [phase EXCEPT ![r] = "idle"]
               /\ late' = [late EXCEPT ![r] = FALSE]
    BY <2>2 DEF End
  <2>3. \/ SaveAdmit(r) \/ SaveRead(r) \/ SubmitAdmit(r) \/ SubmitRead(r)
        \/ End(r) /\ phase[r] # "idle"
    BY <1>7
    DEF Step, SaveStep, SubmitStep, SaveRefused, SaveConflict, SubmitRefused, SubmitIncomplete,
        Abort, Reject, SaveCommit, SubmitCommit, VoidCommit
  <2> QED BY <1>1, <2>1, <2>2, <2>3 DEF TypeOK
<1> QED BY <1>4, <1>5, <1>6, <1>7

LEMMA SeenStep ==
  ASSUME GamesKeepTheirWeek, ~MayPostpone, SeenInv, [ViewNext]_viewVars
  PROVE  SeenInv'
<1>1. FrozenInv'
  BY FrozenStep, ViewStepsAreSteps DEF SeenInv
<1>2. CASE UNCHANGED viewVars
  BY <1>1, <1>2 DEF viewVars, vars, calendarVars, requestVars, SeenInv, ViewTypeOK,
    LockCoversTheWeek, KnowingMeansLate, KickedOff, GamesOf, FrozenInv, LockInv
<1>3. ViewTypeOK'
  BY ViewTypes DEF SeenInv, FrozenInv
<1> QED BY <1>1, <1>2, <1>3, CalendarKeepsSeen, RequestsKeepSeen DEF ViewNext

\* Where no answer of ESPN moves or postpones a game, no member changes a card
\* with a save sent after some page has shown the others' picks of its week.
THEOREM NobodyActsOnWhatTheySaw ==
  ASSUME GamesKeepTheirWeek, ~MayPostpone
  PROVE  ViewSpec => NoChangeOfMind
<1> DEFINE Unknowing == \A u \in Users, g \in Games :
                          conf'[u][g] # conf[u][g] \/ (g \in voided[u] /\ g \notin voided'[u])
                            => \E r \in Requests : phase[r] = "save_write" /\ who[r] = u /\ ~knew[r]
<1>1. SeenInv /\ [ViewNext]_viewVars => Unknowing
  <2> SUFFICES ASSUME SeenInv, [ViewNext]_viewVars, NEW u \in Users, NEW g \in Games,
                      conf'[u][g] # conf[u][g] \/ (g \in voided[u] /\ g \notin voided'[u])
               PROVE  \E r \in Requests : phase[r] = "save_write" /\ who[r] = u /\ ~knew[r]
    OBVIOUS
  <2>1. PICK r \in Requests : SaveCommit(r) /\ who[r] = u
    BY OnlySavesChangeCards, ViewStepsAreSteps DEF SeenInv, FrozenInv
  <2>2. phase[r] = "save_write" /\ ~late[r]
    BY <2>1 DEF SaveCommit, SeenInv, FrozenInv, AdmittedInTime, Admitted
  <2> QED BY <2>1, <2>2 DEF SeenInv, KnowingMeansLate
<1>2. SeenInv /\ [ViewNext]_viewVars => SeenInv'
  BY SeenStep
<1> QED BY <1>1, <1>2, SeenStart, PTL DEF ViewSpec, NoChangeOfMind

(***************************************************************************)
(* Conflict-free cards.                                                    *)
(***************************************************************************)

LEMMA CardStart == Init => CardInv
<1> SUFFICES ASSUME Init PROVE CardInv
  OBVIOUS
<1>1. LockInv
  BY LockStart
<1>2. /\ WeeksComeFromFeeds /\ PicksAreImported /\ AdmittedFitTheWeek /\ ReadsStayCurrent
      /\ ConfidencesAreUnique
  BY DEF Init, CalendarInit, WeeksComeFromFeeds, PicksAreImported, AdmittedFitTheWeek,
         ReadsStayCurrent, ConfidencesAreUnique, Active, Admitted
<1> QED BY <1>1, <1>2 DEF CardInv

\* What the card of a save is made of.
LEMMA FinalCardIs ==
  ASSUME LockInv, NEW r \in Requests, phase[r] \in Admitted
  PROVE  /\ who[r] \in Users /\ body[r] \in Payloads
         /\ aim[r] \in Weeks /\ aim[r] # NoWeek
         /\ DOMAIN FinalCard(r) = (Active(who[r], aim[r]) \ (DOMAIN body[r].conf \cup body[r].void))
                                    \cup DOMAIN body[r].conf
         /\ \A g \in DOMAIN FinalCard(r) :
              FinalCard(r)[g] = IF g \in DOMAIN body[r].conf THEN body[r].conf[g]
                                ELSE conf[who[r]][g]
<1>1. who[r] \in Users /\ body[r] \in Payloads /\ aim[r] \in Weeks
  BY PayloadAssumption DEF LockInv, RequestShape, Admitted
<1> QED BY <1>1 DEF FinalCard, Weeks, NoWeek

\* New games bring no picks with them: cards are what they were.
LEMMA CalendarKeepsCards ==
  ASSUME GamesKeepTheirWeek, CardInv, CalendarStep
  PROVE  CardInv'
<1>1. CalendarTypeOK /\ CalendarNext /\ WeeksComeFromFeeds
      /\ UNCHANGED <<conf, voided, phase, who, aim, body, rows>>
  BY DEF CalendarStep, CardInv, LockInv, TypeOK, requestVars, cardVars
<1>2. LockInv' /\ WeeksComeFromFeeds'
  BY <1>1, LockStep, WeeksAreKept DEF CardInv, Next
<1>3. PicksAreImported'
  BY <1>1, WeeksAreKept DEF CardInv, PicksAreImported
<1>4. \A w \in Weeks : \A u \in Users, g \in GamesOf(w)' : conf[u][g] # 0 => g \in GamesOf(w)
  BY <1>1, WeeksAreKept DEF CardInv, PicksAreImported, GamesOf
<1>5. \A w \in Weeks : GamesOf(w) \subseteq GamesOf(w)'
  BY <1>1, GamesOfGrow
<1>6. \A u \in Users, w \in Weeks : Active(u, w)' = Active(u, w)
  BY <1>1, <1>4, <1>5 DEF Active
<1>7. ConfidencesAreUnique'
  BY <1>1, <1>6 DEF CardInv, ConfidencesAreUnique
<1>8. ASSUME NEW r \in Requests, phase[r] \in Admitted
      PROVE  aim[r] \in Weeks /\ who[r] \in Users /\ FinalCard(r)' = FinalCard(r)
  <2>1. aim[r] \in Weeks /\ who[r] \in Users
    BY <1>8, FinalCardIs DEF CardInv
  <2> QED BY <1>1, <1>6, <2>1 DEF FinalCard
<1>9. AdmittedFitTheWeek'
  BY <1>1, <1>5, <1>8 DEF CardInv, AdmittedFitTheWeek
<1>10. ReadsStayCurrent'
  BY <1>1, <1>4, <1>8 DEF CardInv, ReadsStayCurrent, Admitted
<1> QED BY <1>2, <1>3, <1>7, <1>9, <1>10 DEF CardInv

\* Steps of request r that leave the cards alone and admit or prepare no save but
\* one that has just been found in order.
LEMMA QuietStepKeepsCards ==
  ASSUME CardInv, LockInv', NEW r \in Requests, UNCHANGED <<weekOf, conf, voided>>,
         \A t \in Requests : phase'[t] \in Admitted =>
           /\ phase[t] = phase'[t] \/ t = r
           /\ who'[t] = who[t] /\ aim'[t] = aim[t] /\ body'[t] = body[t],
         \A t \in Requests \ {r} : rows'[t] = rows[t],
         phase'[r] \in Admitted =>
           /\ DOMAIN body[r].conf \cap body[r].void = {}
           /\ DOMAIN body[r].conf \cup body[r].void \subseteq GamesOf(aim[r]),
         phase'[r] = "save_write" =>
           /\ \A g \in GamesOf(aim[r]) : conf[who[r]][g] # 0 => g \in rows'[r]
           /\ IsInjective(FinalCard(r))
  PROVE  CardInv'
<1>1. \A w : GamesOf(w)' = GamesOf(w)
  BY DEF GamesOf
<1>2. \A u, w : Active(u, w)' = Active(u, w)
  BY <1>1 DEF Active
<1>3. WeeksComeFromFeeds' /\ PicksAreImported' /\ ConfidencesAreUnique'
  BY <1>2 DEF CardInv, WeeksComeFromFeeds, PicksAreImported, ConfidencesAreUnique
<1>4. AdmittedFitTheWeek'
  BY <1>1 DEF CardInv, AdmittedFitTheWeek
<1>5. ReadsStayCurrent'
  <2> SUFFICES ASSUME NEW t \in Requests, phase'[t] = "save_write"
               PROVE  /\ \A g \in GamesOf(aim[t]) : conf[who[t]][g] # 0 => g \in rows'[t]
                      /\ IsInjective(FinalCard(t)')
    BY <1>1 DEF ReadsStayCurrent, Admitted
  <2>1. FinalCard(t)' = FinalCard(t)
    BY <1>2 DEF FinalCard, Admitted
  <2>2. CASE t = r
    BY <2>1, <2>2
  <2>3. CASE t # r
    BY <2>1, <2>3 DEF CardInv, ReadsStayCurrent, Admitted
  <2> QED BY <2>2, <2>3
<1> QED BY <1>3, <1>4, <1>5 DEF CardInv

LEMMA RequestsKeepCards ==
  ASSUME CardInv, LockInv', NEW r \in Requests,
         Arrive(r) \/ SaveAdmit(r) \/ SaveRead(r) \/ SubmitAdmit(r) \/ SubmitRead(r)
           \/ SubmitCommit(r) \/ Reject(r)
  PROVE  CardInv'
<1>1. CASE Arrive(r)
  <2>1. ASSUME NEW first \in {"save", "submit", "void_write"}, NEW u, NEW w, NEW b,
               Begin(r, first, u, w, b)
        PROVE  CardInv'
    <3>1. /\ phase' = [phase EXCEPT ![r] = first] /\ who' = [who EXCEPT ![r] = u]
          /\ aim' = [aim EXCEPT ![r] = w] /\ body' = [body EXCEPT ![r] = b]
          /\ UNCHANGED <<weekOf, conf, voided, rows>>
      BY <2>1 DEF Begin, calendarVars, cardVars
    <3>2. phase'[r] \notin Admitted /\ \A t \in Requests \ {r} :
             phase'[t] = phase[t] /\ who'[t] = who[t] /\ aim'[t] = aim[t] /\ body'[t] = body[t]
      BY <3>1 DEF CardInv, LockInv, TypeOK, Admitted
    <3> QED BY <3>1, <3>2, QuietStepKeepsCards DEF Admitted
  <2> QED BY <1>1, <2>1 DEF Arrive, BeginSave, BeginSubmit, VoidRead
<1>2. CASE SaveAdmit(r)
  <2>1. /\ phase' = [phase EXCEPT ![r] = "save_read"]
        /\ UNCHANGED <<weekOf, conf, voided, who, aim, body, rows>>
        /\ DOMAIN body[r].conf \cap body[r].void = {}
        /\ DOMAIN body[r].conf \cup body[r].void \subseteq GamesOf(aim[r])
    BY <1>2 DEF SaveAdmit, ValidSave, calendarVars, cardVars
  <2>2. phase'[r] = "save_read" /\ \A t \in Requests \ {r} : phase'[t] = phase[t]
    BY <2>1 DEF CardInv, LockInv, TypeOK
  <2> QED BY <2>1, <2>2, QuietStepKeepsCards
<1>3. CASE SaveRead(r)
  <2>1. /\ phase[r] = "save_read" /\ phase' = [phase EXCEPT ![r] = "save_write"]
        /\ rows' = [rows EXCEPT ![r] = {g \in GamesOf(aim[r]) : conf[who[r]][g] # 0}]
        /\ UNCHANGED <<weekOf, conf, voided, who, aim, body>> /\ IsInjective(FinalCard(r))
    BY <1>3 DEF SaveRead, calendarVars, cardVars
  <2>2. /\ \A t \in Requests \ {r} : phase'[t] = phase[t] /\ rows'[t] = rows[t]
        /\ rows'[r] = {g \in GamesOf(aim[r]) : conf[who[r]][g] # 0}
    BY <2>1 DEF CardInv, LockInv, TypeOK
  <2>3. /\ DOMAIN body[r].conf \cap body[r].void = {}
        /\ DOMAIN body[r].conf \cup body[r].void \subseteq GamesOf(aim[r])
    BY <2>1 DEF CardInv, AdmittedFitTheWeek, Admitted
  <2> QED BY <2>1, <2>2, <2>3, QuietStepKeepsCards
<1>4. CASE SubmitAdmit(r) \/ SubmitRead(r)
  <2>1. /\ \E to \in {"submit_read", "submit_write"} : phase' = [phase EXCEPT ![r] = to]
        /\ rows' = rows \/ rows' = [rows EXCEPT ![r] = GamesOf(aim[r])]
        /\ UNCHANGED <<weekOf, conf, voided, who, aim, body>>
    BY <1>4 DEF SubmitAdmit, SubmitRead, calendarVars, cardVars
  <2>2. /\ phase'[r] \notin Admitted
        /\ \A t \in Requests \ {r} : phase'[t] = phase[t] /\ rows'[t] = rows[t]
    BY <2>1 DEF CardInv, LockInv, TypeOK, Admitted
  <2> QED BY <2>1, <2>2, QuietStepKeepsCards DEF Admitted
<1>5. CASE SubmitCommit(r) \/ Reject(r)
  <2>1. /\ phase' = [phase EXCEPT ![r] = "idle"] /\ who' = [who EXCEPT ![r] = Nobody]
        /\ aim' = [aim EXCEPT ![r] = NoWeek] /\ body' = [body EXCEPT ![r] = NoBody]
        /\ rows' = [rows EXCEPT ![r] = {}] /\ UNCHANGED <<weekOf, conf, voided>>
    BY <1>5 DEF SubmitCommit, Reject, End, calendarVars, cardVars
  <2>2. /\ phase'[r] \notin Admitted
        /\ \A t \in Requests \ {r} : /\ phase'[t] = phase[t] /\ rows'[t] = rows[t]
                                     /\ who'[t] = who[t] /\ aim'[t] = aim[t] /\ body'[t] = body[t]
    BY <2>1 DEF CardInv, LockInv, TypeOK, Admitted
  <2> QED BY <2>1, <2>2, QuietStepKeepsCards DEF Admitted
<1> QED BY <1>1, <1>2, <1>3, <1>4, <1>5

\* What is left of a conflict-free card has no conflict.
LEMMA ShrunkCardHasNoConflict ==
  ASSUME NEW t \in Requests, NEW u, NEW w, NEW b,
         who[t] = u, who'[t] = u, aim[t] = w, aim'[t] = w, body[t] = b, body'[t] = b,
         Active(u, w)' \subseteq Active(u, w), \A g \in Games : conf'[u][g] = conf[u][g],
         IsInjective(FinalCard(t))
  PROVE  IsInjective(FinalCard(t)')
<1> DEFINE keep == Active(u, w) \ (DOMAIN b.conf \cup b.void)
           keep2 == Active(u, w)' \ (DOMAIN b.conf \cup b.void)
           old == [g \in keep \cup DOMAIN b.conf |->
                     IF g \in DOMAIN b.conf THEN b.conf[g] ELSE conf[u][g]]
           new == [g \in keep2 \cup DOMAIN b.conf |->
                     IF g \in DOMAIN b.conf THEN b.conf[g] ELSE conf'[u][g]]
<1>1. FinalCard(t) = old /\ FinalCard(t)' = new
  BY DEF FinalCard
<1>2. keep2 \subseteq keep /\ keep \subseteq Games
  BY DEF Active, GamesOf
<1>3. \A g \in DOMAIN new : g \in DOMAIN old /\ new[g] = old[g]
  BY <1>2
<1>4. IsInjective(old)
  BY <1>1
<1>5. IsInjective(new)
  <2> HIDE DEF old, new
  <2> QED BY <1>3, <1>4 DEF IsInjective
<1> QED BY <1>1, <1>5

\* A void takes picks off cards, also off those that saves have read.
LEMMA VoidsKeepCards ==
  ASSUME CardInv, LockInv', NEW r \in Requests, VoidCommit(r)
  PROVE  CardInv'
<1>1. /\ UNCHANGED <<weekOf, conf>> /\ \A u \in Users : voided[u] \subseteq voided'[u]
      /\ phase' = [phase EXCEPT ![r] = "idle"] /\ who' = [who EXCEPT ![r] = Nobody]
      /\ aim' = [aim EXCEPT ![r] = NoWeek] /\ body' = [body EXCEPT ![r] = NoBody]
      /\ rows' = [rows EXCEPT ![r] = {}]
  BY DEF VoidCommit, End, calendarVars
<1>2. /\ phase'[r] \notin Admitted
      /\ \A t \in Requests \ {r} : /\ phase'[t] = phase[t] /\ rows'[t] = rows[t]
                                   /\ who'[t] = who[t] /\ aim'[t] = aim[t] /\ body'[t] = body[t]
  BY <1>1 DEF CardInv, LockInv, TypeOK, Admitted
<1>3. \A w : GamesOf(w)' = GamesOf(w)
  BY <1>1 DEF GamesOf
<1>4. ASSUME NEW u \in Users, NEW w PROVE Active(u, w)' \subseteq Active(u, w)
  BY <1>1, <1>3 DEF Active
<1>5. WeeksComeFromFeeds' /\ PicksAreImported'
  BY <1>1 DEF CardInv, WeeksComeFromFeeds, PicksAreImported
<1>6. ConfidencesAreUnique'
  <2> SUFFICES ASSUME NEW u \in Users, NEW w \in Weeks, NEW g \in Games, NEW h \in Games,
                      {g, h} \subseteq Active(u, w)', conf'[u][g] = conf'[u][h]
               PROVE  g = h
    BY DEF ConfidencesAreUnique
  <2>1. {g, h} \subseteq Active(u, w) /\ conf[u][g] = conf[u][h]
    BY <1>1, <1>4
  <2> QED BY <2>1 DEF CardInv, ConfidencesAreUnique
<1>7. AdmittedFitTheWeek'
  BY <1>2, <1>3 DEF CardInv, AdmittedFitTheWeek
<1>8. ReadsStayCurrent'
  <2> SUFFICES ASSUME NEW t \in Requests, phase'[t] = "save_write"
               PROVE  /\ \A g \in GamesOf(aim[t])' : conf'[who'[t]][g] # 0 => g \in rows'[t]
                      /\ IsInjective(FinalCard(t)')
    BY DEF ReadsStayCurrent
  <2>1. /\ t # r /\ phase[t] = "save_write" /\ rows'[t] = rows[t]
        /\ who'[t] = who[t] /\ aim'[t] = aim[t] /\ body'[t] = body[t]
    BY <1>2 DEF Admitted
  <2>2. /\ \A g \in GamesOf(aim[t]) : conf[who[t]][g] # 0 => g \in rows[t]
        /\ IsInjective(FinalCard(t)) /\ who[t] \in Users
    BY <2>1, FinalCardIs DEF CardInv, ReadsStayCurrent, Admitted
  <2>3. PICK u \in Users : u = who[t]
    BY <2>2
  <2>4. PICK w : w = aim[t]
    OBVIOUS
  <2>5. PICK b : b = body[t]
    OBVIOUS
  <2>6. IsInjective(FinalCard(t)')
    BY <1>1, <1>4, <2>1, <2>2, <2>3, <2>4, <2>5, ShrunkCardHasNoConflict
  <2>7. \A g \in GamesOf(w)' : conf'[u][g] # 0 => g \in rows'[t]
    BY <1>1, <1>3, <2>1, <2>2, <2>3, <2>4
  <2> QED BY <2>1, <2>3, <2>4, <2>6, <2>7
<1> QED BY LockInv', <1>5, <1>6, <1>7, <1>8 DEF CardInv

\* What a save leaves: other members and other weeks as they were, and of its own
\* week no active pick that is not on the card it has checked.
LEMMA CommittedCard ==
  ASSUME CardInv, NEW r \in Requests, SaveCommit(r), NEW u \in Users, NEW w, NEW p \in Payloads,
         u = who[r], w = aim[r], p = body[r]
  PROVE  /\ UNCHANGED weekOf
         /\ \A v \in Users \ {u} : conf'[v] = conf[v] /\ voided'[v] = voided[v]
         /\ \A x : x # w => \A g \in GamesOf(x) :
              conf'[u][g] = conf[u][g] /\ (g \in voided'[u] <=> g \in voided[u])
         /\ \A g \in Active(u, w)' : g \in DOMAIN FinalCard(r) /\ conf'[u][g] = FinalCard(r)[g]
         /\ \A g \in Games : conf'[u][g] # conf[u][g] => g \in GamesOf(w)
         /\ IsInjective(FinalCard(r))
<1>1. /\ conf \in [Users -> [Games -> Nat]] /\ voided \in [Users -> SUBSET Games]
      /\ phase[r] = "save_write" /\ UNCHANGED weekOf
      /\ conf' = [conf EXCEPT ![u] =
                    [g \in Games |-> IF g \in DOMAIN p.conf THEN p.conf[g] ELSE @[g]]]
      /\ voided' = [voided EXCEPT ![u] =
                      (@ \cup (p.void \cap rows[r])) \ (DOMAIN p.conf \cap sawVoid[r])]
  BY DEF SaveCommit, End, calendarVars, CardInv, LockInv, TypeOK
<1>2. /\ \A v \in Users \ {u} : conf'[v] = conf[v] /\ voided'[v] = voided[v]
      /\ \A g \in Games : conf'[u][g] = IF g \in DOMAIN p.conf THEN p.conf[g] ELSE conf[u][g]
      /\ voided'[u] = (voided[u] \cup (p.void \cap rows[r])) \ (DOMAIN p.conf \cap sawVoid[r])
  BY <1>1
<1>3. /\ DOMAIN p.conf \cap p.void = {} /\ DOMAIN p.conf \cup p.void \subseteq GamesOf(w)
      /\ \A g \in GamesOf(w) : conf[u][g] # 0 => g \in rows[r]
      /\ IsInjective(FinalCard(r))
  BY <1>1 DEF CardInv, AdmittedFitTheWeek, ReadsStayCurrent, Admitted
<1>4. /\ DOMAIN FinalCard(r) = (Active(u, w) \ (DOMAIN p.conf \cup p.void)) \cup DOMAIN p.conf
      /\ \A g \in DOMAIN FinalCard(r) :
            FinalCard(r)[g] = IF g \in DOMAIN p.conf THEN p.conf[g] ELSE conf[u][g]
  BY <1>1, FinalCardIs DEF CardInv, Admitted
<1>5. \A x : x # w => \A g \in GamesOf(x) :
        conf'[u][g] = conf[u][g] /\ (g \in voided'[u] <=> g \in voided[u])
  BY <1>2, <1>3 DEF GamesOf
<1>6. ASSUME NEW g \in Active(u, w)'
      PROVE  g \in DOMAIN FinalCard(r) /\ conf'[u][g] = FinalCard(r)[g]
  <2>1. g \in GamesOf(w) /\ g \in Games /\ conf'[u][g] # 0 /\ g \notin voided'[u]
    BY <1>1 DEF Active, GamesOf
  <2>2. CASE g \in DOMAIN p.conf
    BY <1>2, <1>4, <2>1, <2>2
  <2>3. CASE g \notin DOMAIN p.conf
    <3>1. conf'[u][g] = conf[u][g] /\ g \in rows[r]
      BY <1>2, <1>3, <2>1, <2>3
    <3>2. g \notin voided[u] /\ g \notin p.void
      BY <1>2, <2>1, <2>3, <3>1
    <3>3. g \in Active(u, w)
      BY <2>1, <3>1, <3>2 DEF Active
    <3> QED BY <1>4, <2>3, <3>1, <3>2, <3>3
  <2> QED BY <2>2, <2>3
<1>7. \A g \in Games : conf'[u][g] # conf[u][g] => g \in GamesOf(w)
  BY <1>2, <1>3
<1> QED BY <1>1, <1>2, <1>3, <1>5, <1>6, <1>7

\* Saves in progress belong to different members.
LEMMA AdmittedHaveTheirOwnUser ==
  ASSUME LockInv, NEW r \in Requests, NEW t \in Requests, r # t,
         phase[r] \in Admitted, phase[t] \in Admitted
  PROVE  who[r] # who[t]
BY DEF LockInv, SavesHoldTheirLock

\* The save that commits is alone at its member's card, and what it leaves there
\* is a part of the card that it has found free of conflicts.
LEMMA CommitsKeepCards ==
  ASSUME CardInv, LockInv', NEW r \in Requests, SaveCommit(r)
  PROVE  CardInv'
<1>1. /\ phase[r] = "save_write" /\ phase' = [phase EXCEPT ![r] = "idle"]
      /\ who' = [who EXCEPT ![r] = Nobody]
      /\ aim' = [aim EXCEPT ![r] = NoWeek] /\ body' = [body EXCEPT ![r] = NoBody]
      /\ rows' = [rows EXCEPT ![r] = {}]
  BY DEF SaveCommit, End
<1>2. /\ phase'[r] \notin Admitted
      /\ \A t \in Requests \ {r} : /\ phase'[t] = phase[t] /\ rows'[t] = rows[t]
                                   /\ who'[t] = who[t] /\ aim'[t] = aim[t] /\ body'[t] = body[t]
  BY <1>1 DEF CardInv, LockInv, TypeOK, Admitted
<1>3. PICK u \in Users : u = who[r]
  BY <1>1, FinalCardIs DEF CardInv, Admitted
<1>4. PICK w \in Weeks : w = aim[r] /\ w # NoWeek
  BY <1>1, FinalCardIs DEF CardInv, Admitted
<1>5. PICK p \in Payloads : p = body[r]
  BY <1>1, FinalCardIs DEF CardInv, Admitted
<1>6. PICK card : card = FinalCard(r)
  OBVIOUS
<1>7. /\ UNCHANGED weekOf
      /\ \A v \in Users \ {u} : conf'[v] = conf[v] /\ voided'[v] = voided[v]
      /\ \A x : x # w => \A g \in GamesOf(x) :
           conf'[u][g] = conf[u][g] /\ (g \in voided'[u] <=> g \in voided[u])
      /\ \A g \in Active(u, w)' : g \in DOMAIN card /\ conf'[u][g] = card[g]
      /\ \A g \in Games : conf'[u][g] # conf[u][g] => g \in GamesOf(w)
      /\ IsInjective(card)
  BY <1>3, <1>4, <1>5, <1>6, CommittedCard
<1>8. ASSUME NEW x PROVE GamesOf(x)' = GamesOf(x)
  BY <1>7 DEF GamesOf
<1>9. WeeksComeFromFeeds'
  BY <1>7 DEF CardInv, WeeksComeFromFeeds
<1>10. PicksAreImported'
  <2> SUFFICES ASSUME NEW v \in Users, NEW g \in Games, conf'[v][g] # 0
               PROVE  weekOf[g] # NoWeek
    BY <1>7 DEF PicksAreImported
  <2>1. CASE conf'[v][g] = conf[v][g]
    BY <2>1 DEF CardInv, PicksAreImported
  <2>2. CASE conf'[v][g] # conf[v][g]
    BY <1>4, <1>7, <2>2 DEF GamesOf
  <2> QED BY <2>1, <2>2
<1>11. ConfidencesAreUnique'
  <2> SUFFICES ASSUME NEW v \in Users, NEW x \in Weeks, NEW g \in Games, NEW h \in Games,
                      g \in Active(v, x)', h \in Active(v, x)', conf'[v][g] = conf'[v][h]
               PROVE  g = h
    BY DEF ConfidencesAreUnique
  <2>1. CASE v = u /\ x = w
    BY <1>7, <2>1 DEF IsInjective
  <2>2. CASE v # u \/ x # w
    <3>1. \A i \in Active(v, x)' : i \in Games /\ i \in Active(v, x) /\ conf'[v][i] = conf[v][i]
      <4>1. ASSUME NEW i \in Active(v, x)'
            PROVE  i \in GamesOf(x) /\ i \in Games /\ conf'[v][i] # 0 /\ i \notin voided'[v]
        BY <1>8 DEF Active, GamesOf
      <4>2. ASSUME NEW i \in GamesOf(x)
            PROVE  conf'[v][i] = conf[v][i] /\ (i \in voided'[v] <=> i \in voided[v])
        BY <1>7, <2>2
      <4> QED BY <4>1, <4>2 DEF Active
    <3> QED BY <3>1 DEF CardInv, ConfidencesAreUnique
  <2> QED BY <2>1, <2>2
<1>12. AdmittedFitTheWeek'
  BY <1>2, <1>8 DEF CardInv, AdmittedFitTheWeek
<1>13. ReadsStayCurrent'
  <2> SUFFICES ASSUME NEW t \in Requests, phase'[t] = "save_write"
               PROVE  /\ \A g \in GamesOf(aim[t])' : conf'[who'[t]][g] # 0 => g \in rows'[t]
                      /\ IsInjective(FinalCard(t)')
    BY DEF ReadsStayCurrent
  <2>1. /\ t # r /\ phase[t] = "save_write" /\ rows'[t] = rows[t]
        /\ who'[t] = who[t] /\ aim'[t] = aim[t] /\ body'[t] = body[t]
    BY <1>2 DEF Admitted
  <2>2. /\ \A g \in GamesOf(aim[t]) : conf[who[t]][g] # 0 => g \in rows[t]
        /\ IsInjective(FinalCard(t)) /\ who[t] \in Users /\ who[t] # who[r]
    BY <1>1, <2>1, FinalCardIs, AdmittedHaveTheirOwnUser DEF CardInv, ReadsStayCurrent, Admitted
  <2>3. PICK v \in Users : v = who[t]
    BY <2>2
  <2>4. PICK x : x = aim[t]
    OBVIOUS
  <2>5. PICK b : b = body[t]
    OBVIOUS
  <2>6. v # u
    BY <1>3, <2>2, <2>3
  <2>7. conf'[v] = conf[v] /\ voided'[v] = voided[v]
    BY <1>7, <2>6
  <2>8. Active(v, x)' \subseteq Active(v, x)
    BY <1>8, <2>7 DEF Active
  <2>9. IsInjective(FinalCard(t)')
    BY <2>1, <2>2, <2>3, <2>4, <2>5, <2>7, <2>8, ShrunkCardHasNoConflict
  <2>10. \A g \in GamesOf(x)' : conf'[v][g] # 0 => g \in rows'[t]
    BY <1>8, <2>1, <2>2, <2>3, <2>4, <2>7
  <2> QED BY <2>1, <2>3, <2>4, <2>9, <2>10
<1> QED BY <1>9, <1>10, <1>11, <1>12, <1>13 DEF CardInv

LEMMA CardStep ==
  ASSUME GamesKeepTheirWeek, CardInv, [Next]_vars
  PROVE  CardInv'
<1>1. LockInv'
  BY LockStep DEF CardInv
<1>2. CASE CalendarStep
  BY <1>2, CalendarKeepsCards
<1>3. ASSUME NEW r \in Requests, Arrive(r) \/ Step(r) \/ Abort(r) PROVE CardInv'
  <2>1. \/ Arrive(r) \/ SaveAdmit(r) \/ SaveRead(r) \/ SubmitAdmit(r) \/ SubmitRead(r)
        \/ SubmitCommit(r) \/ Reject(r) \/ SaveCommit(r) \/ VoidCommit(r)
    BY <1>3
    DEF Step, SaveStep, SubmitStep, SaveRefused, SaveConflict, SubmitRefused, SubmitIncomplete,
        Abort
  <2> QED BY <1>1, <2>1, RequestsKeepCards, VoidsKeepCards, CommitsKeepCards
<1>4. CASE UNCHANGED vars
  BY <1>1, <1>4
  DEF vars, calendarVars, cardVars, requestVars, CardInv, WeeksComeFromFeeds, PicksAreImported,
      AdmittedFitTheWeek, ReadsStayCurrent, ConfidencesAreUnique, Active, FinalCard, GamesOf
<1> QED BY <1>2, <1>3, <1>4 DEF Next

\* A member never has two active picks of one week with the same confidence, in
\* whatever order saves, voids and imports are interleaved.
THEOREM ConfidencesStayUnique ==
  ASSUME GamesKeepTheirWeek
  PROVE  Spec => []ConfidencesAreUnique
<1>1. CardInv /\ [Next]_vars => CardInv'
  BY CardStep
<1>2. CardInv => ConfidencesAreUnique
  BY DEF CardInv
<1> QED BY <1>1, <1>2, CardStart, PTL DEF Spec

\* The unique constraint on a member's pick of a game never fires: what a save
\* has read of the card is all there is when it writes.
THEOREM InsertsNeverCollide ==
  ASSUME GamesKeepTheirWeek
  PROVE  Spec => []InsertsNeverConflict
<1>1. CardInv /\ [Next]_vars => CardInv'
  BY CardStep
<1>2. CardInv => InsertsNeverConflict
  <2> SUFFICES ASSUME CardInv, NEW r \in Requests, phase[r] = "save_write", InsertConflict(r)
               PROVE  FALSE
    BY DEF InsertsNeverConflict
  <2>1. PICK g \in DOMAIN body[r].conf \ rows[r] : conf[who[r]][g] # 0
    BY DEF InsertConflict
  <2>2. g \in GamesOf(aim[r])
    BY DEF CardInv, AdmittedFitTheWeek, Admitted
  <2> QED BY <2>1, <2>2 DEF CardInv, ReadsStayCurrent
<1> QED BY <1>1, <1>2, CardStart, PTL DEF Spec

(***************************************************************************)
(* The week that is offered for picking.                                   *)
(***************************************************************************)

\* A week's games are over, and its window closed, before a later week begins.
\* The last week may begin earlier: there is none after it to be offered instead.
WeeksAreApart ==
  \A f, h \in Feeds : f.week < h.week /\ h.week < LastWeek =>
    \A g \in DOMAIN f.at, k \in DOMAIN h.at : f.at[g] + Buffer < h.at[k]

\* The weeks are imported in their order, as run_next_week_import does.
NoWeekIsSkipped == \A w \in weeks : 1..w \subseteq weeks

ImportedAsAnswered ==
  \A g \in Games : weekOf[g] # NoWeek =>
    \E f \in Feeds : g \in DOMAIN f.at /\ f.week = weekOf[g] /\ kickoff[g] = f.at[g]
WindowsCover == \A g \in Games : weekOf[g] # NoWeek => kickoff[g] <= endDate[weekOf[g]]
WindowsEndWithAGame ==
  \A w \in weeks : \E f \in Feeds : \E g \in DOMAIN f.at :
    f.week = w /\ endDate[w] = f.at[g] + Buffer
WeeksHaveGames == \A w \in weeks : GamesOf(w) # {}
ReleasedOnImport == \A w \in weeks : startDate[w] <= clock

OfferInv ==
  /\ CalendarTypeOK /\ ImportedAsAnswered /\ WindowsCover /\ WindowsEndWithAGame
  /\ WeeksHaveGames /\ ReleasedOnImport

\* What an import does to the week it is about.
LEMMA ImportedWindow ==
  ASSUME CalendarTypeOK, NEW f \in Feeds, ImportGames(f)
  PROVE  /\ \A w \in Weeks \ {f.week} : startDate'[w] = startDate[w] /\ endDate'[w] = endDate[w]
         /\ startDate'[f.week] <= IF f.week \in weeks THEN startDate[f.week] ELSE clock
         /\ \A g \in DOMAIN f.at : f.at[g] <= endDate'[f.week]
         /\ f.week \in weeks => endDate[f.week] <= endDate'[f.week]
         /\ \/ f.week \in weeks /\ endDate'[f.week] = endDate[f.week]
            \/ \E g \in DOMAIN f.at : endDate'[f.week] = f.at[g] + Buffer
<1> DEFINE first == Min(Range(f.at))
           last == Max(Range(f.at))
           open == IF f.week \in weeks THEN startDate[f.week] ELSE clock
           old == endDate[f.week]
           end == last + Buffer
<1>1. /\ startDate' = [startDate EXCEPT ![f.week] = Min({first, open})]
      /\ endDate' = [endDate EXCEPT ![f.week] = IF f.week \in weeks THEN Max({end, old}) ELSE end]
  BY DEF ImportGames
<1>2. /\ f.week \in Weeks /\ startDate \in [Weeks -> Nat] /\ endDate \in [Weeks -> Nat]
      /\ clock \in Nat /\ Buffer \in Nat
  BY FeedFacts, CalendarAssumption DEF CalendarTypeOK
<1>3. first \in Nat /\ last \in Nat /\ last \in Range(f.at) /\ \A x \in Range(f.at) : x <= last
  <2>1. Range(f.at) \in SUBSET Nat /\ Range(f.at) # {} /\ IsFiniteSet(Range(f.at))
    BY FeedFacts
  <2>2. last \in Range(f.at) /\ \A x \in Range(f.at) : last >= x
    BY <2>1, HasMax
  <2>3. first \in Range(f.at)
    BY <2>1, HasMin
  <2> QED BY <2>1, <2>2, <2>3
<1>4. open \in Nat /\ old \in Nat /\ end \in Nat
  BY <1>2, <1>3
<1>5. (\E g \in DOMAIN f.at : f.at[g] = last) /\ \A g \in DOMAIN f.at : f.at[g] <= end
  <2>1. \A g \in DOMAIN f.at : f.at[g] \in Range(f.at) /\ f.at[g] \in Nat
    BY FeedFacts DEF Range
  <2>2. \E g \in DOMAIN f.at : f.at[g] = last
    BY <1>3 DEF Range
  <2>3. \A g \in DOMAIN f.at : f.at[g] <= last
    BY <1>3, <2>1
  <2> QED BY <1>2, <1>3, <2>1, <2>2, <2>3
<1> HIDE DEF first, last, open, old
<1>6. Min({first, open}) <= open
  <2>1. {first, open} \in SUBSET Nat /\ {first, open} # {}
    BY <1>3, <1>4
  <2> QED BY <2>1, HasMin
<1>7. Max({end, old}) \in {end, old} /\ end <= Max({end, old}) /\ old <= Max({end, old})
  <2> HIDE DEF end
  <2>1. {end, old} \in SUBSET Nat /\ {end, old} # {}
    BY <1>4
  <2>2. IsFiniteSet({end} \cup {old}) /\ {end} \cup {old} = {end, old}
    BY FS_Singleton, FS_Union
  <2>3. Max({end, old}) \in {end, old} /\ \A y \in {end, old} : Max({end, old}) >= y
    BY <2>1, <2>2, HasMax
  <2>4. Max({end, old}) \in Nat
    BY <1>4, <2>3
  <2> QED BY <1>4, <2>3, <2>4
<1>8. /\ startDate'[f.week] = Min({first, open})
      /\ endDate'[f.week] = IF f.week \in weeks THEN Max({end, old}) ELSE end
      /\ \A w \in Weeks \ {f.week} : startDate'[w] = startDate[w] /\ endDate'[w] = endDate[w]
  BY <1>1, <1>2
<1>9. \A g \in DOMAIN f.at : f.at[g] <= endDate'[f.week]
  <2> SUFFICES ASSUME NEW g \in DOMAIN f.at PROVE f.at[g] <= endDate'[f.week]
    OBVIOUS
  <2>1. f.at[g] \in Nat /\ f.at[g] <= end /\ end \in Nat /\ Max({end, old}) \in Nat
    BY <1>4, <1>5, <1>7, FeedFacts
  <2> HIDE DEF end
  <2> QED BY <1>7, <1>8, <2>1
<1>10. \/ f.week \in weeks /\ endDate'[f.week] = old
       \/ \E g \in DOMAIN f.at : endDate'[f.week] = f.at[g] + Buffer
  BY <1>5, <1>7, <1>8
<1>11. /\ startDate'[f.week] <= open
       /\ f.week \in weeks => old <= endDate'[f.week]
  BY <1>6, <1>7, <1>8
<1> QED BY <1>8, <1>9, <1>10, <1>11 DEF open, old

LEMMA OfferStart == Init => OfferInv
BY CalendarStartTypes
DEF Init, CalendarInit, OfferInv, ImportedAsAnswered, WindowsCover, WindowsEndWithAGame,
    WeeksHaveGames, ReleasedOnImport

LEMMA ImportKeepsOffer ==
  ASSUME GamesKeepTheirWeek, OfferInv, NEW f \in Feeds, ImportGames(f)
  PROVE  OfferInv'
<1>1. /\ weeks' = weeks \cup {f.week}
      /\ weekOf' = [g \in Games |-> IF g \in DOMAIN f.at THEN f.week ELSE weekOf[g]]
      /\ kickoff' = [g \in Games |-> IF g \in DOMAIN f.at THEN f.at[g] ELSE kickoff[g]]
      /\ clock' = clock
  BY DEF ImportGames
<1>2. CalendarTypeOK /\ CalendarTypeOK'
  BY ImportTypes DEF OfferInv
<1>3. /\ \A w \in Weeks \ {f.week} : startDate'[w] = startDate[w] /\ endDate'[w] = endDate[w]
      /\ startDate'[f.week] <= IF f.week \in weeks THEN startDate[f.week] ELSE clock
      /\ \A g \in DOMAIN f.at : f.at[g] <= endDate'[f.week]
      /\ f.week \in weeks => endDate[f.week] <= endDate'[f.week]
      /\ \/ f.week \in weeks /\ endDate'[f.week] = endDate[f.week]
         \/ \E g \in DOMAIN f.at : endDate'[f.week] = f.at[g] + Buffer
  BY <1>2, ImportedWindow
<1>4. f.week \in Weeks /\ DOMAIN f.at \subseteq Games /\ DOMAIN f.at # {}
  BY CalendarAssumption, FeedFacts
<1>5. ImportedAsAnswered'
  BY <1>1 DEF OfferInv, ImportedAsAnswered
<1>6. WindowsCover'
  <2> SUFFICES ASSUME NEW g \in Games, weekOf'[g] # NoWeek PROVE kickoff'[g] <= endDate'[weekOf'[g]]
    BY DEF WindowsCover
  <2>1. CASE g \in DOMAIN f.at
    BY <1>1, <1>3, <2>1
  <2>2. CASE g \notin DOMAIN f.at
    <3>1. /\ weekOf'[g] = weekOf[g] /\ weekOf[g] \in weeks /\ weekOf[g] \in Weeks
          /\ kickoff'[g] = kickoff[g] /\ kickoff[g] <= endDate[weekOf[g]]
          /\ kickoff[g] \in Nat /\ endDate[weekOf[g]] \in Nat /\ endDate'[weekOf[g]] \in Nat
      BY <1>1, <1>2, <2>2 DEF OfferInv, WindowsCover, CalendarTypeOK
    <3>2. endDate[weekOf[g]] <= endDate'[weekOf[g]]
      BY <1>3, <3>1
    <3> QED BY <3>1, <3>2
  <2> QED BY <2>1, <2>2
<1>7. WindowsEndWithAGame'
  <2> SUFFICES ASSUME NEW w \in weeks'
               PROVE  \E h \in Feeds : \E g \in DOMAIN h.at :
                        h.week = w /\ endDate'[w] = h.at[g] + Buffer
    BY DEF WindowsEndWithAGame
  <2>1. CASE w \in weeks /\ endDate'[w] = endDate[w]
    BY <2>1 DEF OfferInv, WindowsEndWithAGame
  <2>2. CASE ~(w \in weeks /\ endDate'[w] = endDate[w])
    <3>1. w = f.week
      BY <1>1, <1>2, <1>3, <2>2 DEF CalendarTypeOK
    <3> QED BY <1>3, <2>2, <3>1
  <2> QED BY <2>1, <2>2
<1>8. WeeksHaveGames'
  <2> SUFFICES ASSUME NEW w \in weeks' PROVE \E g \in Games : weekOf'[g] = w
    BY DEF WeeksHaveGames, GamesOf
  <2>1. CASE w = f.week
    BY <1>1, <1>4, <2>1
  <2>2. CASE w # f.week
    <3>1. PICK g \in Games : weekOf[g] = w
      BY <1>1, <2>2 DEF OfferInv, WeeksHaveGames, GamesOf
    <3>2. w # NoWeek
      BY <1>1, <1>2, <2>2 DEF CalendarTypeOK, Weeks, NoWeek
    <3>3. PICK h \in Feeds : g \in DOMAIN h.at /\ h.week = w
      BY <3>1, <3>2 DEF OfferInv, ImportedAsAnswered
    <3>4. g \notin DOMAIN f.at
      BY <2>2, <3>3 DEF GamesKeepTheirWeek
    <3> QED BY <1>1, <3>1, <3>4
  <2> QED BY <2>1, <2>2
<1>9. ReleasedOnImport'
  <2> SUFFICES ASSUME NEW w \in weeks' PROVE startDate'[w] <= clock
    BY <1>1 DEF ReleasedOnImport
  <2>1. w \in Weeks /\ startDate'[w] \in Nat /\ startDate[w] \in Nat /\ clock \in Nat
    BY <1>2 DEF CalendarTypeOK
  <2>2. w \in weeks => startDate[w] <= clock
    BY DEF OfferInv, ReleasedOnImport
  <2> QED BY <1>1, <1>3, <2>1, <2>2
<1> QED BY <1>2, <1>5, <1>6, <1>7, <1>8, <1>9 DEF OfferInv

LEMMA OfferStep ==
  ASSUME GamesKeepTheirWeek, OfferInv, [Next]_vars
  PROVE  OfferInv'
<1>1. CASE UNCHANGED calendarVars
  BY <1>1 DEF calendarVars, OfferInv, CalendarTypeOK, ImportedAsAnswered, WindowsCover,
              WindowsEndWithAGame, WeeksHaveGames, GamesOf, ReleasedOnImport
<1>2. CASE CalendarNext
  <2>1. CalendarTypeOK'
    BY <1>2, CalendarTypes DEF OfferInv
  <2>2. CASE AdvanceClock
    <3>1. /\ UNCHANGED <<weeks, weekOf, kickoff, startDate, endDate>> /\ clock <= clock'
          /\ \A w \in weeks : startDate[w] \in Nat
          /\ clock \in Nat /\ clock' \in Nat
      BY <2>1, <2>2 DEF AdvanceClock, OfferInv, CalendarTypeOK
    <3>2. ReleasedOnImport'
      BY <3>1 DEF OfferInv, ReleasedOnImport
    <3> QED BY <2>1, <3>1, <3>2 DEF OfferInv, ImportedAsAnswered, WindowsCover,
                                    WindowsEndWithAGame, WeeksHaveGames, GamesOf
  <2>3. CASE \E w \in Weeks : CompleteWeek(w)
    BY <2>1, <2>3 DEF CompleteWeek, OfferInv, ImportedAsAnswered, WindowsCover,
                      WindowsEndWithAGame, WeeksHaveGames, GamesOf, ReleasedOnImport
  <2>4. CASE \E f \in Feeds : ImportGames(f)
    BY <2>4, ImportKeepsOffer
  <2> QED BY <1>2, <2>2, <2>3, <2>4 DEF CalendarNext
<1>3. (\E r \in Requests : Arrive(r) \/ Step(r) \/ Abort(r)) => UNCHANGED calendarVars
  BY RequestsLeaveTheCalendar
<1>4. UNCHANGED vars => UNCHANGED calendarVars
  BY DEF vars, calendarVars
<1> QED BY <1>1, <1>2, <1>3, <1>4 DEF Next, CalendarStep

\* Windows that do not overlap leave at most the next week to choose.
LEMMA OfferedWeekIsOpen ==
  ASSUME WeeksAreApart, OfferInv, NoWeekIsSkipped
  PROVE  PickWeekIsOpen
<1> SUFFICES ASSUME NEW w \in Weeks, Pickable(w) PROVE Pickable(PickWeek)
  BY DEF PickWeekIsOpen
<1> DEFINE c == Min(Covering)
<1>1. /\ weeks \subseteq Weeks /\ clock \in Nat /\ LastWeek \in Nat /\ Buffer \in Nat
      /\ endDate \in [Weeks -> Nat] /\ kickoff \in [Games -> Nat]
  BY CalendarAssumption DEF OfferInv, CalendarTypeOK
<1>2. /\ w \in weeks /\ startDate[w] <= clock /\ ~KickedOff(w)
      /\ \A v \in Weeks : v \in Nat /\ v # NoWeek
  <2>1. \A v \in Weeks : v \in Nat /\ v # NoWeek
    BY DEF Weeks, NoWeek
  <2> QED BY <2>1 DEF Pickable
<1>3. w \in Covering
  <2>1. PICK g \in Games : weekOf[g] = w
    BY <1>2 DEF OfferInv, WeeksHaveGames, GamesOf
  <2>2. ~(kickoff[g] <= clock) /\ kickoff[g] \in Nat /\ endDate[w] \in Nat
    BY <1>1, <1>2, <2>1 DEF KickedOff, GamesOf
  <2>3. kickoff[g] <= endDate[w]
    BY <2>1 DEF OfferInv, WindowsCover, Weeks, NoWeek
  <2> QED BY <1>1, <1>2, <2>2, <2>3 DEF Covering
<1>4. c \in Covering /\ c <= w
  <2>1. Covering \in SUBSET Nat /\ Covering # {}
    BY <1>1, <1>2, <1>3 DEF Covering
  <2> QED BY <1>3, <2>1, HasMin
<1>5. /\ CurrentWeek = c /\ c \in weeks /\ c # NoWeek /\ c \in Nat /\ w \in Nat
      /\ startDate[c] <= clock /\ clock <= endDate[c]
  <2>1. CurrentWeek = c
    BY <1>3 DEF CurrentWeek
  <2>2. c \in weeks /\ startDate[c] <= clock /\ clock <= endDate[c]
    BY <1>4 DEF Covering
  <2>3. c \in Weeks
    BY <1>1, <2>2
  <2> QED BY <1>2, <2>1, <2>2, <2>3
<1> HIDE DEF c
<1>6. CASE ~KickedOff(c)
  BY <1>5, <1>6 DEF PickWeek, Pickable
<1>7. CASE KickedOff(c)
  <2>1. c + 1 <= w /\ c + 1 \in 1..w
    BY <1>2, <1>4, <1>5, <1>7
  <2>2. c + 1 \in weeks /\ startDate[c + 1] <= clock
    BY <1>2, <2>1 DEF NoWeekIsSkipped, OfferInv, ReleasedOnImport
  <2>3. ~KickedOff(c + 1)
    <3> SUFFICES ASSUME NEW k \in Games, weekOf[k] = c + 1, kickoff[k] <= clock PROVE FALSE
      BY DEF KickedOff, GamesOf
    <3>1. PICK h \in Feeds : k \in DOMAIN h.at /\ h.week = c + 1 /\ kickoff[k] = h.at[k]
      BY <1>5 DEF OfferInv, ImportedAsAnswered, NoWeek
    <3>2. PICK f \in Feeds : \E g \in DOMAIN f.at : f.week = c /\ endDate[c] = f.at[g] + Buffer
      BY <1>5 DEF OfferInv, WindowsEndWithAGame
    <3>3. PICK g \in DOMAIN f.at : f.week = c /\ endDate[c] = f.at[g] + Buffer
      BY <3>2
    <3>4. c + 1 < LastWeek
      <4>1. KickedOff(c + 1)
        BY DEF KickedOff, GamesOf
      <4>2. w # c + 1
        BY <1>2, <4>1
      <4> QED BY <1>1, <1>5, <2>1, <4>2 DEF Weeks
    <3>5. f.at[g] + Buffer < h.at[k]
      BY <1>5, <3>1, <3>3, <3>4 DEF WeeksAreApart
    <3>6. f.at[g] \in Nat /\ h.at[k] \in Nat
      BY <3>1, <3>3, FeedFacts
    <3> QED BY <1>1, <1>5, <3>1, <3>3, <3>5, <3>6
  <2>4. Pickable(c + 1)
    BY <2>2, <2>3 DEF Pickable
  <2> QED BY <1>5, <1>7, <2>4 DEF PickWeek
<1> QED BY <1>6, <1>7

\* The page where members pick never sticks to a week that is closed while one
\* that was released is open, whatever games are added and kickoffs moved in weeks
\* that stay apart and are imported in order.
THEOREM OpenWeekIsOffered ==
  ASSUME GamesKeepTheirWeek, WeeksAreApart
  PROVE  Spec /\ []NoWeekIsSkipped => []PickWeekIsOpen
<1>1. OfferInv /\ [Next]_vars => OfferInv'
  BY OfferStep
<1>2. OfferInv /\ NoWeekIsSkipped => PickWeekIsOpen
  BY OfferedWeekIsOpen
<1> QED BY <1>1, <1>2, OfferStart, PTL DEF Spec
===============================================================================
