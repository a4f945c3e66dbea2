------------------------------- MODULE PickCards -------------------------------
(***************************************************************************)
(* Confidence cards: backend/app/services/picks_service.py, with the       *)
(* commissioner's void_unpaid_picks of member_payment_service.py, running  *)
(* against the calendar that the importer changes under them.              *)
(*                                                                         *)
(* A request is one READ COMMITTED transaction and reads the tables with   *)
(* several statements, so every statement is a step of its own; what is    *)
(* written becomes visible with the commit.  The session writes only the   *)
(* columns it has changed.  Saves lock their user's row first; submits and *)
(* voids lock nothing.                                                     *)
(***************************************************************************)
EXTENDS WeekCalendar

CONSTANTS
  Users,
  Requests,    \* requests that can be in progress at the same time
  Nobody,      \* "no request holds the lock", "no user"
  Payloads     \* save bodies: [week |-> number, conf |-> [games -> Nat], void |-> games]

ASSUME NobodyAssumption == Nobody \notin Users \cup Requests
ASSUME PayloadAssumption ==
  \A p \in Payloads :
    /\ p.week \in Weeks
    /\ DOMAIN p.conf \subseteq Games /\ p.void \subseteq Games
    /\ p.conf \in [DOMAIN p.conf -> Nat]

VARIABLES
  conf,        \* confidence of each user's pick of each game, 0: no row
  voided,      \* games whose pick is voided, per user
  submitted,   \* weeks with a week_submissions row, per user
  userLock,    \* request that holds the FOR UPDATE lock of each user's row
  phase,       \* statement a request executes next
  who,         \* user of the request
  aim,         \* week number in the request
  body,        \* payload of a save
  rows,        \* a save: games it found a pick for; a submit: the week's games
  sawVoid,     \* a save: games whose pick it found voided
  voiding,     \* a void: the picks it found active
  late,        \* whether the request arrived after its week had locked
  locked       \* weeks whose earliest kickoff has ever passed

requestVars == <<phase, who, aim, body, rows, sawVoid, voiding, late>>
cardVars == <<conf, voided, submitted>>
vars == <<calendarVars, cardVars, requestVars, userLock, locked>>

NoBody == [week |-> NoWeek, conf |-> [g \in {} |-> 0], void |-> {}]
Phases == {"idle", "save", "save_read", "save_write", "submit", "submit_read",
           "submit_write", "void_write"}

TypeOK ==
  /\ CalendarTypeOK
  /\ conf \in [Users -> [Games -> Nat]]
  /\ voided \in [Users -> SUBSET Games]
  /\ submitted \in [Users -> SUBSET Weeks]
  /\ userLock \in [Users -> Requests \cup {Nobody}]
  /\ phase \in [Requests -> Phases]
  /\ who \in [Requests -> Users \cup {Nobody}]
  /\ aim \in [Requests -> Weeks \cup {NoWeek}]
  /\ body \in [Requests -> Payloads \cup {NoBody}]
  /\ {rows, sawVoid} \subseteq [Requests -> SUBSET Games]
  /\ voiding \in [Requests -> SUBSET (Users \X Games)]
  /\ late \in [Requests -> BOOLEAN]
  /\ locked \subseteq Weeks
  /\ \A u \in Users, r \in Requests : userLock[u] = r => phase[r] # "idle" /\ who[r] = u

Init ==
  /\ CalendarInit
  /\ conf = [u \in Users |-> [g \in Games |-> 0]]
  /\ voided = [u \in Users |-> {}]
  /\ submitted = [u \in Users |-> {}]
  /\ userLock = [u \in Users |-> Nobody]
  /\ phase = [r \in Requests |-> "idle"]
  /\ who = [r \in Requests |-> Nobody]
  /\ aim = [r \in Requests |-> NoWeek]
  /\ body = [r \in Requests |-> NoBody]
  /\ rows = [r \in Requests |-> {}]
  /\ sawVoid = [r \in Requests |-> {}]
  /\ voiding = [r \in Requests |-> {}]
  /\ late = [r \in Requests |-> FALSE]
  /\ locked = {}

(***************************************************************************)
(* Cards.                                                                  *)
(***************************************************************************)

\* Games of week w that user u has a pick for that is not voided.
Active(u, w) == {g \in GamesOf(w) : conf[u][g] # 0 /\ g \notin voided[u]}

\* The rule of submit_picks: every game picked, each of 1..N used once.
FullCard(u, w, games) ==
  /\ Cardinality(Active(u, w)) = Cardinality(games)
  /\ {conf[u][g] : g \in Active(u, w)} = 1..Cardinality(games)

\* Broken variant: the counts take voided picks for active ones.
CompleteCard_CountsVoided(u, w) ==
  LET n == Cardinality(GamesOf(w))
      picked == {g \in GamesOf(w) : conf[u][g] # 0}
      values == {conf[u][g] : g \in picked}
  IN  n > 0 /\ picked # {} /\ Cardinality(picked) = n /\ values = 1..n

\* The rule of the SQL that lets an autosaved card count as an entry: counts
\* of distinct games and confidences, least and greatest confidence.
CompleteCard(u, w) ==
  LET n == Cardinality(GamesOf(w))
      values == {conf[u][g] : g \in Active(u, w)}
  IN  /\ n > 0 /\ values # {}
      /\ Cardinality(Active(u, w)) = n
      /\ Cardinality(values) = n
      /\ Min(values) = 1 /\ Max(values) = n

(***************************************************************************)
(* Requests begin and end.                                                 *)
(***************************************************************************)
Begin(r, first, u, w, b) ==
  /\ phase[r] = "idle"
  /\ phase' = [phase EXCEPT ![r] = first]
  /\ who' = [who EXCEPT ![r] = u]
  /\ aim' = [aim EXCEPT ![r] = w]
  /\ body' = [body EXCEPT ![r] = b]
  /\ late' = [late EXCEPT ![r] = w \in locked]
  /\ UNCHANGED <<calendarVars, cardVars, userLock, locked, rows, sawVoid>>

\* Broken variant: the lock outlives its transaction.
End_KeepsLock(r) ==
  /\ phase' = [phase EXCEPT ![r] = "idle"]
  /\ who' = [who EXCEPT ![r] = Nobody]
  /\ aim' = [aim EXCEPT ![r] = NoWeek]
  /\ body' = [body EXCEPT ![r] = NoBody]
  /\ rows' = [rows EXCEPT ![r] = {}]
  /\ sawVoid' = [sawVoid EXCEPT ![r] = {}]
  /\ voiding' = [voiding EXCEPT ![r] = {}]
  /\ late' = [late EXCEPT ![r] = FALSE]
  /\ UNCHANGED <<calendarVars, locked, userLock>>

\* The transaction ends, by commit or rollback: its locals and its lock go.
End(r) ==
  /\ phase' = [phase EXCEPT ![r] = "idle"]
  /\ who' = [who EXCEPT ![r] = Nobody]
  /\ aim' = [aim EXCEPT ![r] = NoWeek]
  /\ body' = [body EXCEPT ![r] = NoBody]
  /\ rows' = [rows EXCEPT ![r] = {}]
  /\ sawVoid' = [sawVoid EXCEPT ![r] = {}]
  /\ voiding' = [voiding EXCEPT ![r] = {}]
  /\ late' = [late EXCEPT ![r] = FALSE]
  /\ userLock' = [u \in Users |-> IF userLock[u] = r THEN Nobody ELSE userLock[u]]
  /\ UNCHANGED <<calendarVars, locked>>

\* Rejected, or the process dies: everything is rolled back.
Reject(r) == End(r) /\ UNCHANGED cardVars

Abort(r) == phase[r] # "idle" /\ Reject(r)

(***************************************************************************)
(* create_picks.                                                           *)
(***************************************************************************)

BeginSave(r, u, p) == Begin(r, "save", u, p.week, p) /\ UNCHANGED voiding

\* Broken variant: the lock time is not checked.
ValidSave_NeverLocks(r) ==
  LET p == body[r]
  IN  /\ PickWeek = aim[r]
      /\ DOMAIN p.conf \cap p.void = {}
      /\ \A g \in DOMAIN p.conf : p.conf[g] \in 1..Cardinality(GamesOf(aim[r]))
      /\ DOMAIN p.conf \cup p.void \subseteq GamesOf(aim[r])

\* What the request must satisfy: the week, the games, the values, the lock.
ValidSave(r) ==
  LET p == body[r]
  IN  /\ PickWeek = aim[r]
      /\ DOMAIN p.conf \cap p.void = {}
      /\ \A g \in DOMAIN p.conf : p.conf[g] \in 1..Cardinality(GamesOf(aim[r]))
      /\ ~KickedOff(aim[r])
      /\ DOMAIN p.conf \cup p.void \subseteq GamesOf(aim[r])

\* Broken variant: the user's row is read without FOR UPDATE.
SaveAdmit_NoLock(r) ==
  /\ phase[r] = "save" /\ ValidSave(r)
  /\ phase' = [phase EXCEPT ![r] = "save_read"]
  /\ UNCHANGED <<calendarVars, cardVars, locked, userLock,
                 who, aim, body, rows, sawVoid, voiding, late>>

\* Waits for the user's row, then validates against week, games and clock.
SaveAdmit(r) ==
  /\ phase[r] = "save" /\ userLock[who[r]] = Nobody
  /\ ValidSave(r)
  /\ userLock' = [userLock EXCEPT ![who[r]] = r]
  /\ phase' = [phase EXCEPT ![r] = "save_read"]
  /\ UNCHANGED <<calendarVars, cardVars, locked, who, aim, body, rows, sawVoid, voiding, late>>

SaveRefused(r) ==
  /\ phase[r] = "save" /\ userLock[who[r]] = Nobody
  /\ ~ValidSave(r)
  /\ Reject(r)

\* The active card as it will be: untouched active picks and the submitted ones.
FinalCard(r) ==
  LET p == body[r]
      kept == Active(who[r], aim[r]) \ (DOMAIN p.conf \cup p.void)
  IN  [g \in kept \cup DOMAIN p.conf |->
         IF g \in DOMAIN p.conf THEN p.conf[g] ELSE conf[who[r]][g]]

\* Reads the user's picks of the week and checks the final card for conflicts.
SaveRead(r) ==
  /\ phase[r] = "save_read"
  /\ IsInjective(FinalCard(r))
  /\ rows' = [rows EXCEPT ![r] = {g \in GamesOf(aim[r]) : conf[who[r]][g] # 0}]
  /\ sawVoid' = [sawVoid EXCEPT ![r] = voided[who[r]] \cap GamesOf(aim[r])]
  /\ phase' = [phase EXCEPT ![r] = "save_write"]
  /\ UNCHANGED <<calendarVars, cardVars, userLock, locked, who, aim, body, voiding, late>>

SaveConflict(r) ==
  /\ phase[r] = "save_read"
  /\ ~IsInjective(FinalCard(r))
  /\ Reject(r)

\* A pick row it wants to insert has appeared since it read the table: the
\* unique constraint on (user, game) would fire and roll the save back (Abort).
InsertConflict(r) ==
  \E g \in DOMAIN body[r].conf \ rows[r] : conf[who[r]][g] # 0

\* Broken variant: voided_at of every submitted game is overwritten.
SaveCommit_LiftsAll(r) ==
  LET u == who[r]
      p == body[r]
  IN  /\ phase[r] = "save_write"
      /\ ~InsertConflict(r)
      /\ conf' = [conf EXCEPT ![u] =
                    [g \in Games |-> IF g \in DOMAIN p.conf THEN p.conf[g] ELSE @[g]]]
      /\ voided' = [voided EXCEPT ![u] = (@ \cup (p.void \cap rows[r])) \ DOMAIN p.conf]
      /\ UNCHANGED submitted
      /\ End(r)

\* Voids first, then creates or updates.  voided_at is written only where the
\* session changes it: an update clears the voids it has read, no others.
SaveCommit(r) ==
  LET u == who[r]
      p == body[r]
  IN  /\ phase[r] = "save_write"
      /\ ~InsertConflict(r)
      /\ conf' = [conf EXCEPT ![u] =
                    [g \in Games |-> IF g \in DOMAIN p.conf THEN p.conf[g] ELSE @[g]]]
      /\ voided' = [voided EXCEPT ![u] =
                      (@ \cup (p.void \cap rows[r])) \ (DOMAIN p.conf \cap sawVoid[r])]
      /\ UNCHANGED submitted
      /\ End(r)

(***************************************************************************)
(* submit_picks.                                                           *)
(***************************************************************************)

BeginSubmit(r, u, w) == Begin(r, "submit", u, w, NoBody) /\ UNCHANGED voiding

ValidSubmit(r) ==
  PickWeek = aim[r] /\ GamesOf(aim[r]) # {} /\ ~KickedOff(aim[r])

SubmitAdmit(r) ==
  /\ phase[r] = "submit" /\ ValidSubmit(r)
  /\ rows' = [rows EXCEPT ![r] = GamesOf(aim[r])]
  /\ phase' = [phase EXCEPT ![r] = "submit_read"]
  /\ UNCHANGED <<calendarVars, cardVars, userLock, locked, who, aim, body, sawVoid, voiding, late>>

SubmitRefused(r) == phase[r] = "submit" /\ ~ValidSubmit(r) /\ Reject(r)

SubmitRead(r) ==
  /\ phase[r] = "submit_read" /\ FullCard(who[r], aim[r], rows[r])
  /\ phase' = [phase EXCEPT ![r] = "submit_write"]
  /\ UNCHANGED <<calendarVars, cardVars, userLock, locked,
                 who, aim, body, rows, sawVoid, voiding, late>>

SubmitIncomplete(r) ==
  phase[r] = "submit_read" /\ ~FullCard(who[r], aim[r], rows[r]) /\ Reject(r)

\* Inserts the submission or refreshes its time.
SubmitCommit(r) ==
  /\ phase[r] = "submit_write"
  /\ submitted' = [submitted EXCEPT ![who[r]] = @ \cup {aim[r]}]
  /\ UNCHANGED <<conf, voided>>
  /\ End(r)

(***************************************************************************)
(* void_unpaid_picks: the commissioner voids the picks of unpaid members.  *)
(* Which members have not paid is up to the commissioner.                  *)
(***************************************************************************)
VoidRead(r, w, unpaid) ==
  /\ Begin(r, "void_write", Nobody, w, NoBody)
  /\ w \in weeks
  /\ voiding' = [voiding EXCEPT ![r] = {p \in unpaid \X Games : p[2] \in Active(p[1], w)}]

VoidCommit(r) ==
  /\ phase[r] = "void_write"
  /\ voided' = [u \in Users |-> voided[u] \cup {g \in Games : <<u, g>> \in voiding[r]}]
  /\ UNCHANGED <<conf, submitted>>
  /\ End(r)

(***************************************************************************)
(* The whole.                                                              *)
(***************************************************************************)
SaveStep(r) ==
  SaveAdmit(r) \/ SaveRefused(r) \/ SaveRead(r) \/ SaveConflict(r) \/ SaveCommit(r)

SubmitStep(r) ==
  SubmitAdmit(r) \/ SubmitRefused(r) \/ SubmitRead(r) \/ SubmitIncomplete(r) \/ SubmitCommit(r)

Step(r) == SaveStep(r) \/ SubmitStep(r) \/ VoidCommit(r)

CalendarStep ==
  /\ CalendarNext
  /\ locked' = locked \cup {w \in Weeks : KickedOff(w)'}
  /\ UNCHANGED <<cardVars, requestVars, userLock>>

Arrive(r) ==
  \/ \E u \in Users, p \in Payloads : BeginSave(r, u, p)
  \/ \E u \in Users, w \in Weeks : BeginSubmit(r, u, w)
  \/ \E w \in Weeks, unpaid \in SUBSET Users : VoidRead(r, w, unpaid)

Next ==
  \/ CalendarStep
  \/ \E r \in Requests : Arrive(r) \/ Step(r) \/ Abort(r)

Spec == Init /\ [][Next]_vars

(***************************************************************************)
(* Properties.                                                             *)
(***************************************************************************)

\* A member never has two active picks of one week with the same confidence,
\* although saves overlap with each other and with the commissioner's voids.
ConfidencesAreUnique ==
  \A u \in Users, w \in Weeks, g, h \in Games :
    {g, h} \subseteq Active(u, w) /\ conf[u][g] = conf[u][h] => g = h

\* The unique constraint on (user, game) never fires: overlapping saves do not
\* create the same pick twice.
InsertsNeverConflict == \A r \in Requests : phase[r] = "save_write" => ~InsertConflict(r)

\* The rule that accepts a submit and the SQL that counts an autosaved card as
\* an entry agree on every card the system can hold.
EntryRulesAgree ==
  \A u \in Users, w \in Weeks :
    CompleteCard(u, w) <=> GamesOf(w) # {} /\ FullCard(u, w, GamesOf(w))

\* Members change a card only with saves that arrived before the week's first
\* kickoff: "the entire weekly card locks at the week's earliest kickoff".
LockedCardsAreFrozen ==
  [][\A u \in Users, g \in Games :
       conf'[u][g] # conf[u][g] \/ (g \in voided[u] /\ g \notin voided'[u])
         => \E r \in Requests : phase[r] = "save_write" /\ who[r] = u /\ ~late[r]]_vars

\* A save lifts only voids that it has seen: a void that the commissioner
\* commits while the save is in progress survives the save.
UnseenVoidsSurvive ==
  [][\A u \in Users, g \in Games :
       g \in voided[u] /\ g \notin voided'[u]
         => \E r \in Requests : who[r] = u /\ userLock[u] = r /\ g \in sawVoid[r]]_vars

\* A formal submission is "a complete, conflict-free card" when it is recorded.
SubmissionIsComplete ==
  [][\A u \in Users, w \in Weeks :
       w \in submitted'[u] /\ w \notin submitted[u] => CompleteCard(u, w)]_vars
===============================================================================
