-------------------------- MODULE DispatcherProofs --------------------------
(***************************************************************************)
(* What the claim statement of tick.py guarantees for any number of        *)
(* requests, slots and retries, as long as a run that is alive is not yet  *)
(* stale (RunsAreShort); what the keys of due_slots make of a tick that    *)
(* comes late; and the mailing jobs run by the dispatcher, for any number  *)
(* of requests, slots, recipients, kills and failing sends.                *)
(***************************************************************************)
EXTENDS WeeklyEmails, ScheduledTicks, TLAPS

InAttempt == {"claim"} \cup Live

\* A request that is working on a slot works on a real one ...
SlotKnown == \A c \in Calls : pc[c] \in InAttempt => slot[c] \in Slots

\* ... and its attempt is at most JobLimit old.
AttemptIsRecent ==
  \A c \in Calls : pc[c] \in InAttempt => at[c] <= clock /\ clock <= at[c] + JobLimit

IInv ==
  /\ TypeOK
  /\ SlotKnown
  /\ AttemptIsRecent
  /\ RowDescribesItsRun
  /\ NoConcurrentRuns

\* A tick that starts takes over a list of slots.
LEMMA DueOfStarts ==
  ASSUME TypeOK PROVE DueAt[clock] \in Seq(Slots)
  BY DueAssumption DEF TypeOK

\* The loop of run_tick, one statement after the other.
LEMMA AttemptsAreTyped ==
  ASSUME TypeOK, NEW c \in Calls, Attempt(c) PROVE TypeOK'
<1> USE NoSlotAssumption, TimeAssumption DEF TypeOK, Status, PC, Live
<1> SUFFICES ASSUME Return(c) \/ NextSlot(c) \/ ClaimSlot(c) \/ SkipSlot(c)
                    \/ (\E o \in {"success", "failed"} : JobEnds(c, o)) \/ Finish(c)
             PROVE  TypeOK'
  BY DEF Attempt
<1>loop. CASE NextSlot(c)
  <2> Head(todo[c]) \in Slots /\ Tail(todo[c]) \in Seq(Slots)
    BY <1>loop DEF NextSlot
  <2> QED BY <1>loop DEF NextSlot
<1>over. CASE Return(c)
  BY <1>over DEF Return, Leave
<1>upsert. CASE ClaimSlot(c) \/ SkipSlot(c)
  BY <1>upsert DEF ClaimSlot, SkipSlot
<1>job. CASE \E o \in {"success", "failed"} : JobEnds(c, o)
  BY <1>job DEF JobEnds
<1>outcome. CASE Finish(c)
  BY <1>outcome DEF Finish
<1> QED BY <1>loop, <1>over, <1>upsert, <1>job, <1>outcome

\* A request that comes, and one that is killed.
LEMMA ArrivalsAndDeathsAreTyped ==
  ASSUME TypeOK, NEW c \in Calls, Call(c) \/ Die(c) PROVE TypeOK'
<1> USE NoSlotAssumption, TimeAssumption DEF TypeOK, Status, PC, Live
<1>call. CASE Call(c)
  BY <1>call, DueOfStarts DEF Call
<1>kill. CASE Die(c)
  <2> deaths' \in 0..MaxDeaths /\ UNCHANGED <<clock, status, startedAt>>
    BY <1>kill DEF Die
  <2> QED BY <1>kill DEF Die, Leave
<1> QED BY <1>call, <1>kill

\* Every value stays in its type, whatever the requests do.
THEOREM TypeCorrect == Spec => []TypeOK
<1>start. Init => TypeOK
  BY NoSlotAssumption, TimeAssumption DEF Init, TypeOK, Status, PC
<1>quiet. TypeOK /\ (AdvanceClock \/ UNCHANGED vars) => TypeOK'
  BY TimeAssumption DEF AdvanceClock, vars, TypeOK
<1>step. TypeOK /\ [Next]_vars => TypeOK'
  BY <1>quiet, AttemptsAreTyped, ArrivalsAndDeathsAreTyped DEF Next
<1> QED BY <1>start, <1>step, PTL DEF Spec

\* A request claims only a slot that no living run holds: a row it may take is
\* terminal or stale, and the row of a living run is neither.
LEMMA ClaimedSlotIsFree ==
  ASSUME IInv, RunsAreShort, NEW c \in Calls, ClaimSlot(c), NEW d \in Calls
  PROVE  ~Holds(d, slot[c])
<1> SUFFICES ASSUME Holds(d, slot[c]) PROVE FALSE
  OBVIOUS
<1> USE TimeAssumption DEF IInv, InAttempt, Live
<1>1. slot[c] \in Slots /\ at[c] <= clock
  BY DEF ClaimSlot, SlotKnown, AttemptIsRecent
<1>2. status[slot[c]] = "running" /\ startedAt[slot[c]] = at[d]
  BY <1>1 DEF RowDescribesItsRun
<1>3. clock <= at[d] + JobLimit
  BY DEF Holds, AttemptIsRecent
<1>4. at[d] + StaleAfter < at[c]
  BY <1>2 DEF ClaimSlot, Claimable
<1>5. at[d] \in Nat /\ at[c] \in Nat /\ clock \in Nat
  BY DEF TypeOK
<1>6. QED BY <1>1, <1>3, <1>4, <1>5 DEF RunsAreShort

LEMMA StepPreservesIInv ==
  ASSUME RunsAreShort, IInv, [Next]_vars, TypeOK'
  PROVE  IInv'
<1> USE NoSlotAssumption, TimeAssumption DEF InAttempt, Live
<1> SUFFICES /\ SlotKnown' /\ AttemptIsRecent'
             /\ RowDescribesItsRun' /\ NoConcurrentRuns'
  BY DEF IInv
<1>0. TypeOK /\ SlotKnown /\ AttemptIsRecent /\ RowDescribesItsRun /\ NoConcurrentRuns
  BY DEF IInv
<1>1. CASE AdvanceClock
  <2>1. AttemptIsRecent'
    BY <1>0, <1>1 DEF AdvanceClock, AttemptIsRecent, InTime, TypeOK
  <2>2. QED
    BY <1>0, <1>1, <2>1
    DEF AdvanceClock, SlotKnown, RowDescribesItsRun, NoConcurrentRuns, Holds
<1>2. ASSUME NEW c \in Calls, Call(c) \/ Return(c) \/ SkipSlot(c) \/ Die(c)
      PROVE  SlotKnown' /\ AttemptIsRecent' /\ RowDescribesItsRun' /\ NoConcurrentRuns'
  <2>1. /\ UNCHANGED <<clock, status, startedAt>>
        /\ pc' \in {[pc EXCEPT ![c] = "loop"], [pc EXCEPT ![c] = "idle"]}
        /\ \A d \in Calls : d # c => slot'[d] = slot[d] /\ at'[d] = at[d]
    BY <1>0, <1>2 DEF Call, Return, SkipSlot, Die, Leave, TypeOK
  <2>2. \A d \in Calls : pc'[d] \in InAttempt =>
          pc'[d] = pc[d] /\ slot'[d] = slot[d] /\ at'[d] = at[d]
    BY <1>0, <2>1 DEF TypeOK
  <2>3. QED
    BY <1>0, <2>1, <2>2
    DEF SlotKnown, AttemptIsRecent, RowDescribesItsRun, NoConcurrentRuns, Holds
<1>3. ASSUME NEW c \in Calls, NextSlot(c)
      PROVE  SlotKnown' /\ AttemptIsRecent' /\ RowDescribesItsRun' /\ NoConcurrentRuns'
  <2>1. Head(todo[c]) \in Slots
    BY <1>0, <1>3 DEF NextSlot, TypeOK
  <2>2. \A d \in Calls : d # c =>
          pc'[d] = pc[d] /\ slot'[d] = slot[d] /\ at'[d] = at[d]
    BY <1>0, <1>3 DEF NextSlot, TypeOK
  <2>3. pc'[c] = "claim" /\ slot'[c] \in Slots /\ at'[c] = clock
    BY <1>0, <1>3, <2>1 DEF NextSlot, TypeOK
  <2>4. UNCHANGED <<clock, status, startedAt>> /\ clock \in Nat
    BY <1>0, <1>3 DEF NextSlot, TypeOK
  <2>5. QED
    BY <1>0, <2>2, <2>3, <2>4
    DEF SlotKnown, AttemptIsRecent, RowDescribesItsRun, NoConcurrentRuns, Holds
<1>4. ASSUME NEW c \in Calls, ClaimSlot(c)
      PROVE  SlotKnown' /\ AttemptIsRecent' /\ RowDescribesItsRun' /\ NoConcurrentRuns'
  <2>1. \A d \in Calls : ~Holds(d, slot[c])
    BY <1>4, ClaimedSlotIsFree
  <2>2. slot[c] \in Slots
    BY <1>0, <1>4 DEF ClaimSlot, SlotKnown
  <2>3. /\ UNCHANGED <<clock, slot, at>>
        /\ pc'[c] = "running" /\ \A d \in Calls : d # c => pc'[d] = pc[d]
        /\ status'[slot[c]] = "running" /\ startedAt'[slot[c]] = at[c]
        /\ \A s \in Slots : s # slot[c] =>
             status'[s] = status[s] /\ startedAt'[s] = startedAt[s]
    BY <1>0, <1>4, <2>2 DEF ClaimSlot, TypeOK
  <2>4. SlotKnown' /\ AttemptIsRecent'
    BY <1>0, <1>4, <2>3 DEF SlotKnown, AttemptIsRecent, ClaimSlot
  <2>5. RowDescribesItsRun'
    BY <1>0, <2>1, <2>2, <2>3 DEF RowDescribesItsRun, Holds
  <2>6. NoConcurrentRuns'
    BY <1>0, <2>1, <2>2, <2>3 DEF NoConcurrentRuns, Holds
  <2>7. QED BY <2>4, <2>5, <2>6
<1>5. ASSUME NEW c \in Calls, JobEnds(c, "success") \/ JobEnds(c, "failed")
      PROVE  SlotKnown' /\ AttemptIsRecent' /\ RowDescribesItsRun' /\ NoConcurrentRuns'
  <2>1. /\ UNCHANGED <<clock, status, startedAt, slot, at>>
        /\ \A d \in Calls : pc'[d] \in Live <=> pc[d] \in Live
        /\ \A d \in Calls : pc'[d] \in InAttempt <=> pc[d] \in InAttempt
    BY <1>0, <1>5 DEF JobEnds, TypeOK
  <2>2. QED
    BY <1>0, <2>1
    DEF SlotKnown, AttemptIsRecent, RowDescribesItsRun, NoConcurrentRuns, Holds
<1>6. ASSUME NEW c \in Calls, Finish(c)
      PROVE  SlotKnown' /\ AttemptIsRecent' /\ RowDescribesItsRun' /\ NoConcurrentRuns'
  <2>1. Holds(c, slot[c]) /\ slot[c] \in Slots
    BY <1>0, <1>6 DEF Finish, Holds, SlotKnown
  <2>2. /\ UNCHANGED <<clock, startedAt, slot, at>>
        /\ pc'[c] = "loop" /\ \A d \in Calls : d # c => pc'[d] = pc[d]
        /\ \A s \in Slots : s # slot[c] => status'[s] = status[s]
    BY <1>0, <1>6, <2>1 DEF Finish, TypeOK
  <2>3. \A d \in Calls : d # c => ~Holds(d, slot[c])
    BY <1>0, <2>1 DEF NoConcurrentRuns
  <2>4. QED
    BY <1>0, <2>2, <2>3
    DEF SlotKnown, AttemptIsRecent, RowDescribesItsRun, NoConcurrentRuns, Holds
<1>7. CASE UNCHANGED vars
  BY <1>0, <1>7
  DEF vars, SlotKnown, AttemptIsRecent, RowDescribesItsRun, NoConcurrentRuns, Holds
<1>8. QED
  BY <1>1, <1>2, <1>3, <1>4, <1>5, <1>6, <1>7 DEF Next, Attempt

LEMMA IInvHolds == ASSUME RunsAreShort PROVE Spec => []IInv
<1>1. Init => IInv
  <2>1. Init => TypeOK
    BY NoSlotAssumption, TimeAssumption DEF Init, TypeOK, Status, PC
  <2>2. QED
    BY <2>1 DEF Init, IInv, SlotKnown, AttemptIsRecent, RowDescribesItsRun,
               NoConcurrentRuns, Holds, InAttempt, Live
<1>2. TypeOK' /\ IInv /\ [Next]_vars => IInv'
  BY StepPreservesIInv
<1>3. QED BY <1>1, <1>2, TypeCorrect, PTL DEF Spec

\* The job of a slot is never run by two requests at the same time, although
\* requests overlap, die and take over each other's rows.
THEOREM MutualExclusion == ASSUME RunsAreShort PROVE Spec => []NoConcurrentRuns
<1>1. IInv => NoConcurrentRuns
  BY DEF IInv
<1>2. QED BY <1>1, IInvHolds, PTL

\* The row of a slot that is being run is the row that run claimed, so the
\* outcome _finish writes without looking is written to its own claim.
THEOREM FinishWritesItsOwnClaim ==
  ASSUME RunsAreShort PROVE Spec => []RowDescribesItsRun
<1>1. IInv => RowDescribesItsRun
  BY DEF IInv
<1>2. QED BY <1>1, IInvHolds, PTL

\* A slot that has succeeded is never run or overwritten again.
THEOREM SuccessIsKept == ASSUME RunsAreShort PROVE Spec => SuccessIsFinal
<1> DEFINE Kept == \A s \in Slots : status[s] = "success" => status'[s] = "success"
<1>1. IInv /\ [Next]_vars => [Kept]_vars
  <2> SUFFICES ASSUME IInv, Next, NEW s \in Slots, status[s] = "success"
               PROVE  status'[s] = "success"
    OBVIOUS
  <2> USE DEF Live
  <2>0. TypeOK
    BY DEF IInv
  <2>1. CASE AdvanceClock
    BY <2>1 DEF AdvanceClock
  <2>2. ASSUME NEW c \in Calls, Call(c) \/ Attempt(c) \/ Die(c)
        PROVE  status'[s] = "success"
    <3>1. CASE ClaimSlot(c)
      <4>1. slot[c] # s
        BY <3>1 DEF ClaimSlot, Claimable
      <4>2. QED BY <2>0, <3>1, <4>1 DEF ClaimSlot, TypeOK
    <3>2. CASE Finish(c)
      <4>1. Holds(c, slot[c]) /\ slot[c] \in Slots
        BY <3>2 DEF Finish, Holds, IInv, SlotKnown, InAttempt
      <4>2. status[slot[c]] = "running"
        BY <4>1 DEF IInv, RowDescribesItsRun
      <4>3. QED BY <2>0, <3>2, <4>2 DEF Finish, TypeOK
    <3>3. QED
      BY <2>2, <3>1, <3>2
      DEF Call, Attempt, NextSlot, Return, SkipSlot, JobEnds, Die
  <2>3. QED BY <2>1, <2>2 DEF Next
<1>2. QED BY <1>1, IInvHolds, PTL DEF Spec, SuccessIsFinal

(***************************************************************************)
(* The refinement: the dispatcher implements SlotOnce.                     *)
(***************************************************************************)
HoldersOf == [s \in Slots |-> {c \in Calls : Holds(c, s)}]
Done == {s \in Slots : status[s] = "success"}

\* A step that changes neither who runs what nor which slots have succeeded.
LEMMA QuietStep ==
  ASSUME UNCHANGED status,
         \A d \in Calls, s \in Slots : Holds(d, s)' <=> Holds(d, s)
  PROVE  UNCHANGED <<HoldersOf, Done>>
  BY DEF HoldersOf, Done

\* When request c stops holding slot s, that slot has no holder left.
LEMMA HolderLeaves ==
  ASSUME IInv, NEW c \in Calls, NEW s \in Slots, Holds(c, s), pc'[c] \notin Live,
         \A d \in Calls : d # c => pc'[d] = pc[d] /\ slot'[d] = slot[d]
  PROVE  HoldersOf[s] = {c} /\ HoldersOf' = [HoldersOf EXCEPT ![s] = {}]
<1>1. \A d \in Calls : Holds(d, s) => d = c
  BY DEF IInv, NoConcurrentRuns
<1>2. HoldersOf[s] = {c}
  BY <1>1 DEF HoldersOf
<1>3. \A d \in Calls : ~Holds(d, s)'
  BY <1>1 DEF Holds
<1>4. \A r \in Slots : r # s => \A d \in Calls : Holds(d, r)' <=> Holds(d, r)
  BY DEF Holds
<1>5. HoldersOf'[s] = {}
  BY <1>3 DEF HoldersOf
<1>6. \A r \in Slots : r # s => HoldersOf'[r] = HoldersOf[r]
  BY <1>4 DEF HoldersOf
<1>7. HoldersOf' = [HoldersOf EXCEPT ![s] = {}]
  BY <1>5, <1>6 DEF HoldersOf
<1>8. QED BY <1>2, <1>7

LEMMA StepIsOnceStep ==
  ASSUME RunsAreShort, IInv, Next
  PROVE  Once!Next \/ UNCHANGED <<HoldersOf, Done>>
<1> USE DEF Live
<1>0. TypeOK
  BY DEF IInv
<1>1. CASE AdvanceClock
  BY <1>1, QuietStep DEF AdvanceClock, Holds
<1>2. ASSUME NEW c \in Calls, Call(c) \/ NextSlot(c) \/ Return(c) \/ SkipSlot(c)
      PROVE  UNCHANGED <<HoldersOf, Done>>
  <2>1. UNCHANGED status /\ pc[c] \notin Live /\ pc'[c] \notin Live
    BY <1>0, <1>2 DEF Call, NextSlot, Return, SkipSlot, Leave, TypeOK
  <2>2. \A d \in Calls : d # c => pc'[d] = pc[d] /\ slot'[d] = slot[d]
    BY <1>0, <1>2 DEF Call, NextSlot, Return, SkipSlot, Leave, TypeOK
  <2>3. QED BY <2>1, <2>2, QuietStep DEF Holds
<1>3. ASSUME NEW c \in Calls, ClaimSlot(c) PROVE Once!Next
  <2>1. slot[c] \in Slots
    BY <1>3 DEF ClaimSlot, IInv, SlotKnown, InAttempt
  <2>2. \A d \in Calls : ~Holds(d, slot[c])
    BY <1>3, ClaimedSlotIsFree
  <2>3. UNCHANGED slot /\ pc'[c] = "running" /\ \A d \in Calls : d # c => pc'[d] = pc[d]
    BY <1>0, <1>3 DEF ClaimSlot, TypeOK
  <2>4. HoldersOf[slot[c]] = {} /\ HoldersOf' = [HoldersOf EXCEPT ![slot[c]] = {c}]
    BY <2>1, <2>2, <2>3, <1>3 DEF HoldersOf, Holds, ClaimSlot
  <2>5. slot[c] \notin Done /\ Done' = Done
    BY <1>0, <1>3, <2>1 DEF ClaimSlot, Claimable, Done, TypeOK
  <2>6. Once!Take(c, slot[c])
    BY <2>4, <2>5 DEF Once!Take, HoldersOf, Done
  <2>7. QED BY <2>1, <2>6 DEF Once!Next
<1>4. ASSUME NEW c \in Calls, JobEnds(c, "success") \/ JobEnds(c, "failed")
      PROVE  UNCHANGED <<HoldersOf, Done>>
  <2>1. UNCHANGED <<status, slot>> /\ \A d \in Calls : pc'[d] \in Live <=> pc[d] \in Live
    BY <1>0, <1>4 DEF JobEnds, TypeOK
  <2>2. QED BY <2>1, QuietStep DEF Holds
<1>5. ASSUME NEW c \in Calls, Finish(c) PROVE Once!Next
  <2>1. /\ pc[c] \in Live /\ pc'[c] \notin Live /\ UNCHANGED slot
        /\ \A d \in Calls : d # c => pc'[d] = pc[d]
    BY <1>0, <1>5 DEF Finish, TypeOK
  <2>2. /\ slot[c] \in Slots
        /\ HoldersOf[slot[c]] = {c}
        /\ HoldersOf' = [HoldersOf EXCEPT ![slot[c]] = {}]
    <3>1. slot[c] \in Slots /\ Holds(c, slot[c])
      BY <2>1 DEF IInv, SlotKnown, InAttempt, Holds
    <3>2. QED BY <2>1, <3>1, HolderLeaves
  <2>3. CASE pc[c] = "success"
    <3>1. Done' = Done \cup {slot[c]}
      BY <1>0, <1>5, <2>2, <2>3 DEF Finish, Done, TypeOK
    <3>2. QED BY <2>2, <3>1 DEF Once!Next, Once!Succeed, HoldersOf, Done
  <2>4. CASE pc[c] = "failed"
    <3>1. status[slot[c]] = "running"
      BY <2>1, <2>2 DEF IInv, RowDescribesItsRun, Holds
    <3>2. Done' = Done
      BY <1>0, <1>5, <2>2, <2>4, <3>1 DEF Finish, Done, TypeOK
    <3>3. QED BY <2>2, <3>2 DEF Once!Next, Once!GiveUp, HoldersOf, Done
  <2>5. QED BY <1>5, <2>3, <2>4 DEF Finish
<1>6. ASSUME NEW c \in Calls, Die(c)
      PROVE  Once!Next \/ UNCHANGED <<HoldersOf, Done>>
  <2>1. /\ UNCHANGED status /\ pc'[c] \notin Live
        /\ \A d \in Calls : d # c => pc'[d] = pc[d] /\ slot'[d] = slot[d]
    BY <1>0, <1>6 DEF Die, Leave, TypeOK
  <2>2. CASE pc[c] \in Live
    <3>1. /\ slot[c] \in Slots
          /\ HoldersOf[slot[c]] = {c}
          /\ HoldersOf' = [HoldersOf EXCEPT ![slot[c]] = {}]
      <4>1. slot[c] \in Slots /\ Holds(c, slot[c])
        BY <2>2 DEF IInv, SlotKnown, InAttempt, Holds
      <4>2. QED BY <2>1, <4>1, HolderLeaves
    <3>2. Done' = Done
      BY <2>1 DEF Done
    <3>3. QED BY <3>1, <3>2 DEF Once!Next, Once!GiveUp, HoldersOf, Done
  <2>3. CASE pc[c] \notin Live
    BY <2>1, <2>3, QuietStep DEF Holds
  <2>4. QED BY <2>2, <2>3
<1>7. QED BY <1>1, <1>2, <1>3, <1>4, <1>5, <1>6 DEF Next, Attempt

\* The dispatcher does what its docstring promises of every slot: one run at a
\* time, repeated only while no run has succeeded.
THEOREM DispatcherImplementsSlotOnce == ASSUME RunsAreShort PROVE Spec => SlotsRunOnce
<1>1. Init => Once!Init
  BY DEF Init, Once!Init, Holds, Live
<1>2. IInv /\ [Next]_vars => [Once!Next]_(Once!vars)
  <2>1. ASSUME IInv, Next PROVE Once!Next \/ UNCHANGED Once!vars
    BY <2>1, StepIsOnceStep DEF Once!vars, HoldersOf, Done
  <2>2. ASSUME UNCHANGED vars PROVE UNCHANGED Once!vars
    BY <2>2 DEF vars, Once!vars, Holds
  <2>3. QED BY <2>1, <2>2
<1>3. QED BY <1>1, <1>2, IInvHolds, PTL DEF Spec, SlotsRunOnce, Once!Spec

(***************************************************************************)
(* Catch-up.                                                               *)
(***************************************************************************)

\* A daily job that is due stays due, under the same key, until midnight: a tick
\* that comes hours late still runs it (schedule.py:10-13).
THEOREM DailyJobsStayDue ==
  ASSUME NEW job, NEW early \in Moments, NEW tick \in Moments,
         early.day = tick.day, early.hour <= tick.hour,
         DailyDue(job, early)
  PROVE  DailyDue(job, tick) /\ SlotAt(job, tick) = SlotAt(job, early)
<1>1. /\ Config.import_hour \in Nat /\ Config.overnight_sync_hour \in Nat
      /\ Config.reminder_hour \in Nat /\ Config.report_hour \in Nat
      /\ early.hour \in Nat /\ tick.hour \in Nat
  BY ConfigAssumption DEF Moments, Hours
<1>2. Weekday(early) = Weekday(tick)
  BY DEF Weekday
<1>3. DailyDue(job, tick)
  BY <1>1, <1>2 DEF DailyDue, From
<1> QED
  BY <1>3 DEF SlotAt

\* A request is at slot s, or has it in its list.
InHand(s) == \E c \in Calls : slot[c] = s \/ \E i \in DOMAIN todo[c] : todo[c][i] = s

\* No tick from now on has slot s due, and no request has it in hand.
Missed(s) ==
  /\ \A t \in clock..MaxTime : \A i \in DOMAIN DueAt[t] : DueAt[t][i] # s
  /\ ~InHand(s)

\* Nobody comes back to a slot that is missed: its row stays as it is.
LEMMA MissedStep ==
  ASSUME TypeOK, [Next]_vars, NEW s \in Slots, Missed(s)
  PROVE  Missed(s)' /\ status'[s] = status[s]
<1>1. CASE AdvanceClock \/ UNCHANGED vars
  <2>1. clock \in Nat /\ (clock' = clock \/ clock' = clock + 1)
    BY <1>1, TimeAssumption DEF AdvanceClock, vars, TypeOK
  <2>2. clock'..MaxTime \subseteq clock..MaxTime
    BY <2>1, TimeAssumption
  <2>3. UNCHANGED <<status, slot, todo>>
    BY <1>1 DEF AdvanceClock, vars
  <2> QED BY <2>2, <2>3 DEF Missed, InHand
<1>2. ASSUME NEW c \in Calls, Call(c) \/ Attempt(c) \/ Die(c)
      PROVE  Missed(s)' /\ status'[s] = status[s]
  <2>1. clock' = clock /\ (status' = status \/ \E r : status' = [status EXCEPT ![slot[c]] = r])
    BY <1>2 DEF Call, Attempt, NextSlot, Return, ClaimSlot, SkipSlot, JobEnds, Finish, Die
  <2>2. slot[c] # s /\ \A i \in DOMAIN todo[c] : todo[c][i] # s
    BY DEF Missed, InHand
  <2>3. \A d \in Calls \ {c} : slot'[d] = slot[d] /\ todo'[d] = todo[d]
    BY <1>2 DEF Call, Attempt, NextSlot, Return, ClaimSlot, SkipSlot, JobEnds, Finish, Die,
                Leave, TypeOK
  <2>4. slot'[c] # s /\ \A i \in DOMAIN todo'[c] : todo'[c][i] # s
    <3>1. CASE Call(c)
      <4>1. todo'[c] = DueAt[clock] /\ slot' = slot /\ clock \in clock..MaxTime
        BY <3>1, TimeAssumption DEF Call, TypeOK
      <4> QED BY <2>2, <4>1 DEF Missed
    <3>2. CASE NextSlot(c)
      <4>1. todo[c] \in Seq(Slots) /\ todo[c] # <<>> /\ todo'[c] = Tail(todo[c])
            /\ slot'[c] = Head(todo[c])
        BY <3>2 DEF NextSlot, TypeOK
      <4> QED BY <2>2, <4>1
    <3>3. CASE Return(c) \/ Die(c)
      <4>1. slot'[c] = NoSlot /\ todo'[c] = <<>>
        BY <3>3 DEF Return, Die, Leave, TypeOK
      <4> QED BY <4>1, NoSlotAssumption
    <3>4. CASE UNCHANGED <<slot, todo>>
      BY <2>2, <3>4
    <3> QED BY <1>2, <3>1, <3>2, <3>3, <3>4
            DEF Attempt, ClaimSlot, SkipSlot, JobEnds, Finish
  <2> QED BY <2>1, <2>2, <2>3, <2>4 DEF Missed, InHand, TypeOK
<1> QED BY <1>1, <1>2 DEF Next

\* Only the ticks of an hour list the slot that names it.
LEMMA HourlySlotNamesItsHour ==
  ASSUME NEW list, NEW u \in Moments, NEW m \in Moments, NEW jobs, NEW job,
         ListsDueSlots(list, u, jobs), NEW i \in DOMAIN list, list[i] = <<job, m.day, m.hour>>
  PROVE  u = m
<1>1. PICK k \in DOMAIN RunOrder : list[i] = SlotAt(RunOrder[k], u)
  BY DEF ListsDueSlots
<1>2. list[i] = <<RunOrder[k], u.day, u.hour>>
  BY <1>1 DEF SlotAt
<1> QED BY <1>2 DEF Moments

HourIsOver(m, moment) == \A t \in clock..MaxTime : moment[t] # m

\* An hourly job is not caught up.  Once no tick falls into its hour any more and
\* no request has its slot in hand, the row keeps the status it has: a run that
\* died stays 'running', one that failed stays failed (schedule.py:107).
THEOREM HourlyRunsAreNotRetried ==
  ASSUME NEW moment \in [0..MaxTime -> Moments], NEW jobs,
         \A t \in 0..MaxTime : ListsDueSlots(DueAt[t], moment[t], jobs),
         NEW job, NEW m \in Moments, NEW s \in Slots, s = <<job, m.day, m.hour>>,
         NEW st \in Status
  PROVE  Spec => [](HourIsOver(m, moment) /\ ~InHand(s) /\ status[s] = st
                      => [](status[s] = st))
<1>1. TypeOK /\ HourIsOver(m, moment) /\ ~InHand(s) => Missed(s)
  <2> SUFFICES ASSUME TypeOK, HourIsOver(m, moment), NEW t \in clock..MaxTime,
                      NEW i \in DOMAIN DueAt[t], DueAt[t][i] = s
               PROVE  FALSE
    BY DEF Missed
  <2>1. t \in 0..MaxTime
    BY TimeAssumption DEF TypeOK
  <2>2. moment[t] = m
    BY <2>1, HourlySlotNamesItsHour
  <2> QED BY <2>2 DEF HourIsOver
<1>2. TypeOK /\ Missed(s) /\ status[s] = st /\ [Next]_vars => (Missed(s) /\ status[s] = st)'
  BY MissedStep
<1> QED BY <1>1, <1>2, TypeCorrect, PTL DEF Spec

(***************************************************************************)
(* The order of slots.                                                     *)
(***************************************************************************)

\* In a list of slots, every b comes after an a.
Leads(a, b, list) == \A j \in DOMAIN list : list[j] = b => \E i \in 1..(j - 1) : list[i] = a

\* While nobody has started a, nobody is at b, and b comes after a wherever it is
\* still to come.
OrderInv(a, b) ==
  status[a] = "none" =>
    /\ status[b] = "none"
    /\ \A c \in Calls :
         /\ pc[c] \in InAttempt => slot[c] # b
         /\ pc[c] \in Live => slot[c] # a
         /\ Leads(a, b, todo[c]) \/ (pc[c] = "claim" /\ slot[c] = a)

LEMMA OrderOfTheRest ==
  ASSUME NEW a, NEW b, NEW list \in Seq(Slots), list # <<>>, Leads(a, b, list)
  PROVE  Head(list) # b /\ (Head(list) # a => Leads(a, b, Tail(list)))
<1>1. list[1] # b
  BY DEF Leads
<1>2. ASSUME list[1] # a, NEW j \in DOMAIN Tail(list), Tail(list)[j] = b
      PROVE  \E i \in 1..(j - 1) : Tail(list)[i] = a
  <2>1. /\ Len(list) \in Nat /\ DOMAIN list = 1..Len(list)
        /\ j \in 1..(Len(list) - 1) /\ j + 1 \in DOMAIN list /\ list[j + 1] = b
    BY <1>2
  <2>2. PICK i \in 1..j : list[i] = a
    BY <2>1 DEF Leads
  <2>3. i - 1 \in 1..(j - 1) /\ Tail(list)[i - 1] = list[i]
    BY <1>2, <2>1, <2>2
  <2> QED BY <2>2, <2>3
<1> QED BY <1>1, <1>2 DEF Leads

LEMMA OrderStep ==
  ASSUME NEW a \in Slots, NEW b \in Slots, a # b,
         \A t \in 0..MaxTime : Leads(a, b, DueAt[t]),
         TypeOK, SlotKnown, OrderInv(a, b), [Next]_vars
  PROVE  OrderInv(a, b)'
<1> USE DEF InAttempt, Live
<1> SUFFICES ASSUME status'[a] = "none" PROVE OrderInv(a, b)'
  BY DEF OrderInv
<1>1. ASSUME NEW c \in Calls, UNCHANGED status, \A d \in Calls \ {c} :
               pc'[d] = pc[d] /\ slot'[d] = slot[d] /\ todo'[d] = todo[d],
             pc'[c] \in InAttempt => slot'[c] # b, pc'[c] \in Live => slot'[c] # a,
             Leads(a, b, todo'[c]) \/ (pc'[c] = "claim" /\ slot'[c] = a)
      PROVE  OrderInv(a, b)'
  <2>1. /\ status[b] = "none"
        /\ \A d \in Calls : /\ pc[d] \in InAttempt => slot[d] # b
                            /\ pc[d] \in Live => slot[d] # a
                            /\ Leads(a, b, todo[d]) \/ (pc[d] = "claim" /\ slot[d] = a)
    BY <1>1 DEF OrderInv
  <2>2. \A d \in Calls : /\ pc'[d] \in InAttempt => slot'[d] # b
                         /\ pc'[d] \in Live => slot'[d] # a
                         /\ Leads(a, b, todo'[d]) \/ (pc'[d] = "claim" /\ slot'[d] = a)
    BY <1>1, <2>1
  <2> QED BY <1>1, <2>1, <2>2 DEF OrderInv, Leads
<1>2. CASE AdvanceClock \/ UNCHANGED vars
  BY <1>2 DEF AdvanceClock, vars, OrderInv, Leads
<1>3. ASSUME NEW c \in Calls, Call(c) PROVE OrderInv(a, b)'
  <2>1. /\ pc' = [pc EXCEPT ![c] = "loop"] /\ todo' = [todo EXCEPT ![c] = DueAt[clock]]
        /\ UNCHANGED <<status, slot>> /\ clock \in 0..MaxTime
    BY <1>3 DEF Call, TypeOK
  <2>2. Leads(a, b, DueAt[clock])
    BY <2>1
  <2>3. pc'[c] = "loop" /\ todo'[c] = DueAt[clock]
    BY <2>1 DEF TypeOK
  <2>4. \A d \in Calls \ {c} : pc'[d] = pc[d] /\ slot'[d] = slot[d] /\ todo'[d] = todo[d]
    BY <2>1 DEF TypeOK
  <2> HIDE DEF Leads
  <2> QED BY <1>1, <2>1, <2>2, <2>3, <2>4
<1>4. ASSUME NEW c \in Calls, NextSlot(c) PROVE OrderInv(a, b)'
  <2>1. /\ pc[c] = "loop" /\ todo[c] # <<>> /\ todo[c] \in Seq(Slots)
        /\ pc'[c] = "claim" /\ slot'[c] = Head(todo[c]) /\ todo'[c] = Tail(todo[c])
        /\ UNCHANGED status
        /\ \A d \in Calls \ {c} : pc'[d] = pc[d] /\ slot'[d] = slot[d] /\ todo'[d] = todo[d]
    BY <1>4 DEF NextSlot, TypeOK
  <2>2. Leads(a, b, todo[c])
    BY <2>1 DEF OrderInv
  <2>3. slot'[c] # b /\ (slot'[c] # a => Leads(a, b, todo'[c]))
    BY <2>1, <2>2, OrderOfTheRest
  <2> QED BY <1>1, <2>1, <2>3
<1>5. ASSUME NEW c \in Calls, Return(c) \/ Die(c) PROVE OrderInv(a, b)'
  <2>1. /\ pc'[c] = "idle" /\ todo'[c] = <<>> /\ UNCHANGED status
        /\ \A d \in Calls \ {c} : pc'[d] = pc[d] /\ slot'[d] = slot[d] /\ todo'[d] = todo[d]
    BY <1>5 DEF Return, Die, Leave, TypeOK
  <2>2. Leads(a, b, todo'[c])
    BY <2>1 DEF Leads
  <2> QED BY <1>1, <2>1, <2>2
<1>6. ASSUME NEW c \in Calls, SkipSlot(c) PROVE OrderInv(a, b)'
  <2>1. /\ pc[c] = "claim" /\ pc'[c] = "loop" /\ slot'[c] = slot[c] /\ todo'[c] = todo[c]
        /\ UNCHANGED status /\ slot[c] # a
        /\ \A d \in Calls \ {c} : pc'[d] = pc[d] /\ slot'[d] = slot[d] /\ todo'[d] = todo[d]
    BY <1>6 DEF SkipSlot, Claimable, TypeOK
  <2>2. Leads(a, b, todo[c])
    BY <2>1 DEF OrderInv
  <2> QED BY <1>1, <2>1, <2>2
<1>7. ASSUME NEW c \in Calls, NEW o \in {"success", "failed"}, JobEnds(c, o) PROVE OrderInv(a, b)'
  <2>1. /\ pc[c] = "running" /\ pc'[c] = o /\ slot'[c] = slot[c] /\ todo'[c] = todo[c]
        /\ UNCHANGED status
        /\ \A d \in Calls \ {c} : pc'[d] = pc[d] /\ slot'[d] = slot[d] /\ todo'[d] = todo[d]
    BY <1>7 DEF JobEnds, TypeOK
  <2>2. slot[c] # a /\ slot[c] # b /\ Leads(a, b, todo[c])
    BY <2>1 DEF OrderInv
  <2> QED BY <1>1, <2>1, <2>2
<1>8. ASSUME NEW c \in Calls, ClaimSlot(c) \/ Finish(c) PROVE OrderInv(a, b)'
  <2>1. /\ pc[c] \in InAttempt /\ slot[c] \in Slots /\ slot'[c] = slot[c] /\ todo'[c] = todo[c]
        /\ status'[slot[c]] # "none" /\ \A s \in Slots \ {slot[c]} : status'[s] = status[s]
        /\ pc'[c] \in {"running", "loop"}
        /\ \A d \in Calls \ {c} : pc'[d] = pc[d] /\ slot'[d] = slot[d] /\ todo'[d] = todo[d]
    BY <1>8 DEF ClaimSlot, Finish, TypeOK, SlotKnown
  <2>2. slot[c] # a /\ status[a] = "none"
    BY <2>1
  <2>3. slot[c] # b /\ status'[b] = "none" /\ Leads(a, b, todo[c])
    BY <2>1, <2>2 DEF OrderInv
  <2>4. \A d \in Calls : /\ pc'[d] \in InAttempt => slot'[d] # b
                         /\ pc'[d] \in Live => slot'[d] # a
                         /\ Leads(a, b, todo'[d]) \/ (pc'[d] = "claim" /\ slot'[d] = a)
    BY <2>1, <2>2, <2>3 DEF OrderInv
  <2> QED BY <2>3, <2>4 DEF OrderInv, Leads
<1> QED BY <1>2, <1>3, <1>4, <1>5, <1>6, <1>7, <1>8 DEF Next, Attempt

\* SlotKnown needs no bound on how long a run lasts.
LEMMA KnownStep == ASSUME TypeOK, SlotKnown, [Next]_vars PROVE SlotKnown'
<1> USE DEF SlotKnown, InAttempt, Live, TypeOK
<1>1. CASE AdvanceClock \/ UNCHANGED vars
  BY <1>1 DEF AdvanceClock, vars
<1>2. ASSUME NEW c \in Calls, NextSlot(c) PROVE SlotKnown'
  <2>1. Head(todo[c]) \in Slots
    BY <1>2 DEF NextSlot
  <2> QED BY <1>2, <2>1 DEF NextSlot
<1>3. ASSUME NEW c \in Calls, Call(c) \/ Return(c) \/ Die(c) PROVE SlotKnown'
  BY <1>3 DEF Call, Return, Die, Leave
<1>4. ASSUME NEW c \in Calls, NEW o \in {"success", "failed"},
             ClaimSlot(c) \/ SkipSlot(c) \/ JobEnds(c, o) \/ Finish(c)
      PROVE  SlotKnown'
  BY <1>4 DEF ClaimSlot, SkipSlot, JobEnds, Finish
<1> QED BY <1>1, <1>2, <1>3, <1>4 DEF Next, Attempt

\* "import -> syncs -> reminder/report": if every tick that has b to run has a to
\* run before it, b is never started before a has been, by whichever request; runs
\* that fail, hang, die or are taken over make no difference.
THEOREM SlotsStartInOrder ==
  ASSUME NEW a \in Slots, NEW b \in Slots, a # b, \A t \in 0..MaxTime : Leads(a, b, DueAt[t])
  PROVE  Spec => [](status[b] # "none" => status[a] # "none")
<1> DEFINE InOrder == status[b] # "none" => status[a] # "none"
<1>1. Init => SlotKnown /\ OrderInv(a, b)
  BY DEF Init, SlotKnown, OrderInv, Leads, InAttempt, Live
<1>2. TypeOK /\ SlotKnown /\ OrderInv(a, b) /\ [Next]_vars => SlotKnown' /\ OrderInv(a, b)'
  BY KnownStep, OrderStep
<1>3. OrderInv(a, b) => InOrder
  BY DEF OrderInv
<1> HIDE DEF InOrder
<1>4. Spec => []InOrder
  BY <1>1, <1>2, <1>3, TypeCorrect, PTL DEF Spec
<1> QED BY <1>4 DEF InOrder

SyncOf(d) == <<"overnight_score_sync", d>>
ReportOf(d) == <<"weekly_report", d>>

LEMMA HoursAreNumbers ==
  ASSUME NEW m \in Moments
  PROVE  Config.overnight_sync_hour \in Nat /\ Config.report_hour \in Nat /\ m.hour \in Nat
BY ConfigAssumption DEF Hours, Moments

\* A list that has a report has the sync of the same day, and before it.
LEMMA SyncLeadsReport ==
  ASSUME Config.overnight_sync_hour <= Config.report_hour,
         NEW jobs, {"overnight_score_sync", "weekly_report"} \subseteq jobs,
         NEW m \in Moments, NEW list \in Seq(Slots), ListsDueSlots(list, m, jobs),
         NEW j \in DOMAIN list, list[j][1] = "weekly_report"
  PROVE  list[j] = ReportOf(m.day) /\ \E i \in 1..(j - 1) : list[i] = SyncOf(m.day)
<1>1. PICK nth \in [DOMAIN list -> DOMAIN RunOrder] :
        /\ \A i, k \in DOMAIN list : i < k => nth[i] < nth[k]
        /\ \A i \in DOMAIN list : list[i] = SlotAt(RunOrder[nth[i]], m)
        /\ \A k \in DOMAIN RunOrder :
             (\E i \in DOMAIN list : nth[i] = k) <=> RunOrder[k] \in jobs /\ IsDue(RunOrder[k], m)
  BY DEF ListsDueSlots
<1>2. /\ DOMAIN RunOrder = 1..7
      /\ RunOrder[4] = "overnight_score_sync" /\ RunOrder[6] = "weekly_report"
      /\ \A k \in 1..7 : RunOrder[k] = "weekly_report" => k = 6
  BY DEF RunOrder
<1>3. nth[j] = 6 /\ DailyDue("weekly_report", m) /\ list[j] = ReportOf(m.day)
  <2>1. nth[j] \in 1..7 /\ list[j] = SlotAt(RunOrder[nth[j]], m) /\ IsDue(RunOrder[nth[j]], m)
    BY <1>1, <1>2
  <2>2. list[j][1] = RunOrder[nth[j]]
    BY <2>1 DEF SlotAt
  <2>3. nth[j] = 6 /\ IsDue("weekly_report", m) /\ ~HourlyDue("weekly_report", m)
    BY <1>2, <2>1, <2>2 DEF HourlyDue
  <2> QED BY <1>2, <2>1, <2>3 DEF IsDue, SlotAt, ReportOf
<1>4. DailyDue("overnight_score_sync", m)
  <2>1. Config.report_hour <= m.hour
    BY <1>3 DEF DailyDue, From
  <2>2. Config.overnight_sync_hour \in Nat /\ Config.report_hour \in Nat /\ m.hour \in Nat
    BY HoursAreNumbers
  <2>3. Config.overnight_sync_hour <= m.hour
    BY <2>1, <2>2
  <2> QED BY <2>3 DEF DailyDue
<1>5. PICK i \in DOMAIN list : nth[i] = 4
  BY <1>1, <1>2, <1>4 DEF IsDue
<1>6. i \in 1..(j - 1)
  <2>1. DOMAIN list = 1..Len(list) /\ Len(list) \in Nat
    OBVIOUS
  <2>2. ~(j < i) /\ i # j
    BY <1>1, <1>3, <1>5
  <2> QED BY <2>1, <2>2
<1>7. list[i] = SyncOf(m.day)
  BY <1>1, <1>2, <1>4, <1>5 DEF SlotAt, SyncOf
<1> QED BY <1>3, <1>6, <1>7

\* "import -> syncs -> reminder/report" under any schedule whose report is not
\* due earlier in the day than the overnight sync, for all jobs or for any that
\* these two are of: no tick starts the report of a day before that day's sync has
\* been started.  The slots are those that some tick finds due.
THEOREM ReportsFollowTheSync ==
  ASSUME Config.overnight_sync_hour <= Config.report_hour,
         NEW jobs, {"overnight_score_sync", "weekly_report"} \subseteq jobs,
         NEW moment \in [0..MaxTime -> Moments],
         \A t \in 0..MaxTime : ListsDueSlots(DueAt[t], moment[t], jobs),
         \A s \in Slots : \E t \in 0..MaxTime : \E j \in DOMAIN DueAt[t] : DueAt[t][j] = s
  PROVE  Spec => []ReportFollowsSync
<1> DEFINE Reported == {d \in Nat : {SyncOf(d), ReportOf(d)} \subseteq Slots}
           Ordered == \A d \in Reported : OrderInv(SyncOf(d), ReportOf(d))
<1>1. ASSUME NEW t \in 0..MaxTime, NEW j \in DOMAIN DueAt[t], DueAt[t][j][1] = "weekly_report"
      PROVE  /\ DueAt[t] \in Seq(Slots) /\ moment[t].day \in Nat
             /\ DueAt[t][j] = ReportOf(moment[t].day)
             /\ \E i \in 1..(j - 1) : DueAt[t][i] = SyncOf(moment[t].day)
  <2>1. moment[t] \in Moments /\ DueAt[t] \in Seq(Slots) /\ ListsDueSlots(DueAt[t], moment[t], jobs)
    BY DueAssumption
  <2>2. /\ DueAt[t][j] = ReportOf(moment[t].day)
        /\ \E i \in 1..(j - 1) : DueAt[t][i] = SyncOf(moment[t].day)
    BY <1>1, <2>1, SyncLeadsReport
  <2>3. moment[t].day \in Nat
    BY <2>1 DEF Moments
  <2> QED BY <2>1, <2>2, <2>3
<1>2. ASSUME NEW d \in Reported, NEW t \in 0..MaxTime
      PROVE  Leads(SyncOf(d), ReportOf(d), DueAt[t])
  <2> SUFFICES ASSUME NEW j \in DOMAIN DueAt[t], DueAt[t][j] = ReportOf(d)
               PROVE  \E i \in 1..(j - 1) : DueAt[t][i] = SyncOf(d)
    BY DEF Leads
  <2>1. DueAt[t][j][1] = "weekly_report"
    BY DEF ReportOf
  <2>2. /\ ReportOf(moment[t].day) = ReportOf(d)
        /\ \E i \in 1..(j - 1) : DueAt[t][i] = SyncOf(moment[t].day)
    BY <1>1, <2>1
  <2>3. moment[t].day = d
    BY <2>2 DEF ReportOf
  <2> QED BY <2>2, <2>3
<1>3. Init => SlotKnown /\ Ordered
  BY DEF Init, SlotKnown, OrderInv, Leads, InAttempt, Live
<1>4. TypeOK /\ SlotKnown /\ Ordered /\ [Next]_vars => SlotKnown' /\ Ordered'
  <2> SUFFICES ASSUME TypeOK, SlotKnown, Ordered, [Next]_vars, NEW d \in Reported
               PROVE  OrderInv(SyncOf(d), ReportOf(d))'
    BY KnownStep
  <2>1. SyncOf(d) \in Slots /\ ReportOf(d) \in Slots /\ SyncOf(d) # ReportOf(d)
    BY DEF SyncOf, ReportOf
  <2> QED BY <1>2, <2>1, OrderStep
<1>5. Ordered => ReportFollowsSync
  <2> SUFFICES ASSUME Ordered, NEW s \in Slots, s[1] = "weekly_report", status[s] # "none"
               PROVE  status[<<"overnight_score_sync", s[2]>>] # "none"
    BY DEF ReportFollowsSync
  <2>1. PICK t \in 0..MaxTime : \E j \in DOMAIN DueAt[t] : DueAt[t][j] = s
    OBVIOUS
  <2>2. PICK j \in DOMAIN DueAt[t] : DueAt[t][j] = s
    BY <2>1
  <2> DEFINE d == moment[t].day
  <2>3. /\ DueAt[t] \in Seq(Slots) /\ d \in Nat /\ s = ReportOf(d)
        /\ \E i \in 1..(j - 1) : DueAt[t][i] = SyncOf(d)
    BY <1>1, <2>2
  <2>4. SyncOf(d) \in Slots
    BY <2>3
  <2> HIDE DEF d
  <2>5. OrderInv(SyncOf(d), ReportOf(d))
    BY <2>3, <2>4
  <2>6. status[SyncOf(d)] # "none"
    BY <2>3, <2>5 DEF OrderInv
  <2> QED BY <2>3, <2>6 DEF SyncOf, ReportOf
<1> HIDE DEF Ordered
<1> QED BY <1>3, <1>4, <1>5, TypeCorrect, PTL DEF Spec

(***************************************************************************)
(* The mailing jobs have no lock of their own: that a run works on the     *)
(* deliveries it has read, and that only its own e-mails are unrecorded,   *)
(* is what the dispatcher's claim gives them (IInv).                       *)
(***************************************************************************)

\* A week has one slot for a mailing: the day of the job's weekday.
OneMailing == \A s, t \in MailSlots : s = t

\* A run that has read the table is still the mailing of its slot.
SendersMail == \A c \in Calls : stage[c] = "send" => Mailing(c)

\* What a run has read is what is recorded; what it has added is recorded nowhere
\* and is behind it.
ReadIsCurrent ==
  \A c \in Calls : stage[c] = "send" =>
    /\ seen[c] = delivered
    /\ added[c] \cap delivered = {}
    /\ added[c] \cap visit[c] = {}

\* E-mails that are neither recorded nor about to be were paid for by a failure.
Accounted(m) == m \in delivered \/ \E c \in Calls : m \in added[c]

Account ==
  \A m \in Recipients :
    emails[m] <= failures + deaths + (IF Accounted(m) THEN 1 ELSE 0)

MailInv == MailTypeOK /\ SendersMail /\ ReadIsCurrent /\ Account

(***************************************************************************)
(* The jobs under the dispatcher.                                          *)
(***************************************************************************)

LEMMA MailStepIsTickStep == [MailNext]_allVars => [Next]_vars
<1>1. ASSUME MailNext PROVE Next \/ UNCHANGED vars
  BY <1>1
  DEF MailNext, DispatchStep, MailStep, MailDie, CompletePicks, ReadDelivered, SkipRecipient,
      SendEmail, SendFails, CommitDeliveries, OtherJobEnds, Next, Attempt
<1>2. ASSUME UNCHANGED allVars PROVE UNCHANGED vars
  BY <1>2 DEF allVars
<1> QED BY <1>1, <1>2

\* With a body for the jobs, the dispatcher is still the dispatcher: what is
\* proved of it holds for the mailing jobs.
LEMMA MailImplementsTick == MailSpec => Spec
<1>1. MailInit => Init
  BY DEF MailInit
<1> QED BY <1>1, MailStepIsTickStep, PTL DEF MailSpec, Spec

LEMMA OneSender ==
  ASSUME OneMailing, IInv, NEW c \in Calls, NEW d \in Calls, Mailing(c), Mailing(d)
  PROVE  c = d
<1>1. slot[c] \in Slots /\ slot[c] = slot[d]
  BY MailAssumption DEF OneMailing, Mailing
<1> QED BY <1>1 DEF Mailing, IInv, NoConcurrentRuns, Holds, Live

LEMMA MailStart ==
  ASSUME MailInit, TypeOK
  PROVE  MailInv
<1>1. /\ delivered = {} /\ complete = {} /\ failures = 0
      /\ emails = [m \in Recipients |-> 0] /\ stage = [c \in Calls |-> "start"]
      /\ seen = [c \in Calls |-> {}] /\ visit = [c \in Calls |-> {}]
      /\ added = [c \in Calls |-> {}] /\ deaths = 0
  BY DEF MailInit, Init
<1>2. MailTypeOK
  BY <1>1, MailAssumption DEF MailTypeOK
<1>3. SendersMail /\ ReadIsCurrent
  BY <1>1 DEF SendersMail, ReadIsCurrent
<1>4. Account
  <2> SUFFICES ASSUME NEW m \in Recipients
               PROVE  emails[m] <= failures + deaths + (IF Accounted(m) THEN 1 ELSE 0)
    BY DEF Account
  <2>1. emails[m] = 0 /\ failures = 0 /\ deaths = 0
    BY <1>1
  <2> QED BY <2>1
<1> QED BY <1>2, <1>3, <1>4 DEF MailInv

(***************************************************************************)
(* The invariant, step by step.                                            *)
(***************************************************************************)

\* Steps that concern no run of a mailing.
LEMMA QuietKeepsMail ==
  ASSUME MailInv, TypeOK', UNCHANGED <<mailVars, deaths>>,
         \A d \in Calls : Mailing(d) => Mailing(d)'
  PROVE  MailInv'
<1>1. MailTypeOK' /\ SendersMail' /\ ReadIsCurrent'
  BY DEF mailVars, MailInv, MailTypeOK, SendersMail, ReadIsCurrent
<1>2. Account'
  BY DEF mailVars, MailInv, Account, Accounted
<1> QED BY <1>1, <1>2 DEF MailInv

\* Steps of the dispatcher are taken outside a job, or end one of another kind.
LEMMA TickKeepsMail ==
  ASSUME MailInv, IInv, TypeOK',
         \/ AdvanceClock /\ UNCHANGED mailVars
         \/ \E c \in Calls : Call(c) /\ UNCHANGED mailVars
         \/ \E c \in Calls : DispatchStep(c) \/ OtherJobEnds(c)
  PROVE  MailInv'
<1>0. TypeOK
  BY DEF IInv
<1>1. CASE AdvanceClock /\ UNCHANGED mailVars
  BY <1>1, QuietKeepsMail DEF AdvanceClock, Mailing
<1>2. ASSUME NEW c \in Calls, Call(c) \/ DispatchStep(c) \/ OtherJobEnds(c), UNCHANGED mailVars
      PROVE  MailInv'
  <2>1. /\ ~Mailing(c) /\ UNCHANGED deaths
        /\ \A d \in Calls \ {c} : pc'[d] = pc[d] /\ slot'[d] = slot[d]
    BY <1>0, <1>2
    DEF Call, DispatchStep, NextSlot, Return, ClaimSlot, SkipSlot, Finish, Leave, OtherJobEnds,
        JobEnds, Mailing, TypeOK
  <2> QED BY <1>2, <2>1, QuietKeepsMail DEF Mailing
<1>3. ASSUME NEW c \in Calls, OtherJobEnds(c) PROVE MailInv'
  BY <1>2, <1>3 DEF OtherJobEnds
<1>4. ASSUME NEW c \in Calls, DispatchStep(c) PROVE MailInv'
  BY <1>2, <1>4 DEF DispatchStep
<1> QED BY <1>1, <1>2, <1>3, <1>4

LEMMA ReadKeepsMail ==
  ASSUME MailInv, NEW c \in Calls, ReadDelivered(c)
  PROVE  MailInv'
<1>1. /\ Mailing(c) /\ stage[c] = "start"
      /\ stage' = [stage EXCEPT ![c] = "send"] /\ seen' = [seen EXCEPT ![c] = delivered]
      /\ visit' = [visit EXCEPT ![c] = Recipients]
      /\ UNCHANGED <<clock, status, startedAt, pc, todo, slot, at, deaths, delivered, emails,
                     complete, added, failures>>
  BY DEF ReadDelivered, vars
<1>2. added[c] = {}
  BY <1>1 DEF MailInv, MailTypeOK
<1>3. MailTypeOK'
  BY <1>1 DEF MailInv, MailTypeOK, TypeOK
<1>4. SendersMail'
  BY <1>1 DEF MailInv, MailTypeOK, SendersMail, Mailing
<1>5. ReadIsCurrent'
  BY <1>1, <1>2 DEF MailInv, MailTypeOK, ReadIsCurrent
<1>6. Account'
  BY <1>1 DEF MailInv, Account, Accounted
<1> QED BY <1>3, <1>4, <1>5, <1>6 DEF MailInv

LEMMA SkipKeepsMail ==
  ASSUME MailInv, NEW c \in Calls, NEW m \in Recipients, SkipRecipient(c, m)
  PROVE  MailInv'
<1>1. /\ Mailing(c) /\ stage[c] = "send" /\ visit' = [visit EXCEPT ![c] = @ \ {m}]
      /\ UNCHANGED <<clock, status, startedAt, pc, todo, slot, at, deaths, delivered, emails,
                     complete, stage, seen, added, failures>>
  BY DEF SkipRecipient, vars
<1>2. MailTypeOK'
  BY <1>1 DEF MailInv, MailTypeOK, TypeOK
<1>3. SendersMail' /\ ReadIsCurrent'
  BY <1>1 DEF MailInv, MailTypeOK, SendersMail, Mailing, ReadIsCurrent
<1>4. Account'
  BY <1>1 DEF MailInv, Account, Accounted
<1> QED BY <1>2, <1>3, <1>4 DEF MailInv

\* Whoever is mailed has no delivery on record and no e-mail of this run yet.
LEMMA MailedAreUnrecorded ==
  ASSUME MailInv, OneMailing, IInv, NEW c \in Calls, NEW m \in Recipients, SendEmail(c, m)
  PROVE  m \notin delivered /\ ~Accounted(m)
<1>1. Mailing(c) /\ stage[c] = "send" /\ m \in visit[c] /\ m \notin seen[c]
  BY DEF SendEmail, Skipped
<1>2. m \notin delivered /\ m \notin added[c]
  BY <1>1 DEF MailInv, ReadIsCurrent
<1>3. \A d \in Calls : d # c => added[d] = {}
  <2> SUFFICES ASSUME NEW d \in Calls, d # c PROVE added[d] = {}
    OBVIOUS
  <2>1. stage[d] = "start"
    BY <1>1, OneSender DEF MailInv, MailTypeOK, SendersMail
  <2> QED BY <2>1 DEF MailInv, MailTypeOK
<1> QED BY <1>2, <1>3 DEF Accounted

LEMMA SendKeepsMail ==
  ASSUME MailInv, OneMailing, IInv, NEW c \in Calls, NEW m \in Recipients, SendEmail(c, m)
  PROVE  MailInv'
<1>1. /\ Mailing(c) /\ stage[c] = "send" /\ m \in visit[c]
      /\ emails' = [emails EXCEPT ![m] = @ + 1] /\ added' = [added EXCEPT ![c] = @ \cup {m}]
      /\ visit' = [visit EXCEPT ![c] = @ \ {m}]
      /\ UNCHANGED <<clock, status, startedAt, pc, todo, slot, at, deaths, delivered, complete,
                     stage, seen, failures>>
  BY DEF SendEmail, vars
<1>2. m \notin delivered /\ ~Accounted(m)
  BY MailedAreUnrecorded
<1>3. MailTypeOK'
  BY <1>1 DEF MailInv, MailTypeOK, TypeOK
<1>4. SendersMail' /\ ReadIsCurrent'
  BY <1>1, <1>2 DEF MailInv, MailTypeOK, SendersMail, Mailing, ReadIsCurrent
<1>5. Account'
  <2> SUFFICES ASSUME NEW n \in Recipients
               PROVE  emails'[n] <= failures + deaths + (IF Accounted(n)' THEN 1 ELSE 0)
    BY <1>1 DEF Account
  <2>1. emails[n] <= failures + deaths + (IF Accounted(n) THEN 1 ELSE 0)
    BY DEF MailInv, Account
  <2>2. emails[n] \in Nat /\ failures \in Nat /\ deaths \in Nat
    BY MailAssumption, TimeAssumption DEF MailInv, MailTypeOK, TypeOK
  <2>3. Accounted(n) => Accounted(n)'
    BY <1>1 DEF Accounted, MailInv, MailTypeOK
  <2>4. CASE n = m
    <3>1. Accounted(m)' /\ emails'[m] = emails[m] + 1
      BY <1>1 DEF Accounted, MailInv, MailTypeOK
    <3> QED BY <1>2, <2>1, <2>2, <2>4, <3>1
  <2>5. CASE n # m
    <3>1. emails'[n] = emails[n]
      BY <1>1, <2>5 DEF MailInv, MailTypeOK
    <3>2. CASE Accounted(n)
      BY <2>1, <2>2, <2>3, <3>1, <3>2
    <3>3. CASE ~Accounted(n)
      BY <2>1, <2>2, <3>1, <3>3
    <3> QED BY <3>2, <3>3
  <2> QED BY <2>4, <2>5
<1> QED BY <1>3, <1>4, <1>5 DEF MailInv

\* A session that closes without a commit loses its rows: a send that raised or
\* a request that was killed answers for them.
LEMMA LossKeepsMail ==
  ASSUME MailInv, TypeOK', NEW c \in Calls, CloseSession(c),
         UNCHANGED <<delivered, emails, complete>>, failures' \in 0..MaxFailures,
         failures' + deaths' = failures + deaths + 1,
         \A d \in Calls \ {c} : pc'[d] = pc[d] /\ slot'[d] = slot[d]
  PROVE  MailInv'
<1>1. /\ stage' = [stage EXCEPT ![c] = "start"] /\ seen' = [seen EXCEPT ![c] = {}]
      /\ visit' = [visit EXCEPT ![c] = {}] /\ added' = [added EXCEPT ![c] = {}]
  BY DEF CloseSession
<1>2. MailTypeOK'
  BY <1>1 DEF MailInv, MailTypeOK
<1>3. SendersMail' /\ ReadIsCurrent'
  BY <1>1 DEF MailInv, MailTypeOK, SendersMail, Mailing, ReadIsCurrent
<1>4. Account'
  <2> SUFFICES ASSUME NEW n \in Recipients
               PROVE  emails[n] <= failures' + deaths' + (IF Accounted(n)' THEN 1 ELSE 0)
    BY DEF Account
  <2>1. emails[n] <= failures + deaths + (IF Accounted(n) THEN 1 ELSE 0)
    BY DEF MailInv, Account
  <2>2. /\ emails[n] \in Nat /\ failures \in Nat /\ deaths \in Nat
        /\ failures' \in Nat /\ deaths' \in Nat
    BY MailAssumption, TimeAssumption DEF MailInv, MailTypeOK, TypeOK
  <2> QED BY <2>1, <2>2
<1> QED BY <1>2, <1>3, <1>4 DEF MailInv

LEMMA FailureKeepsMail ==
  ASSUME MailInv, TypeOK', NEW c \in Calls, NEW m \in Recipients, SendFails(c, m)
  PROVE  MailInv'
<1>1. /\ failures < MaxFailures /\ failures' = failures + 1 /\ CloseSession(c)
      /\ pc' = [pc EXCEPT ![c] = "failed"] /\ UNCHANGED <<delivered, emails, complete, slot, deaths>>
  BY DEF SendFails, JobEnds
<1>2. failures \in Nat /\ MaxFailures \in Nat /\ failures \in 0..MaxFailures /\ deaths \in Nat
  BY MailAssumption, TimeAssumption DEF MailInv, MailTypeOK, TypeOK
<1>3. failures' \in 0..MaxFailures /\ failures' + deaths' = failures + deaths + 1
  BY <1>1, <1>2
<1> QED BY <1>1, <1>3, LossKeepsMail DEF MailInv, MailTypeOK, TypeOK

LEMMA DeathKeepsMail ==
  ASSUME MailInv, TypeOK', NEW c \in Calls, MailDie(c)
  PROVE  MailInv'
<1>1. /\ deaths' = deaths + 1 /\ CloseSession(c)
      /\ pc' = [pc EXCEPT ![c] = "idle"] /\ slot' = [slot EXCEPT ![c] = NoSlot]
      /\ UNCHANGED <<delivered, emails, complete, failures>>
  BY DEF MailDie, Die, Leave
<1>2. failures \in Nat /\ failures \in 0..MaxFailures /\ deaths \in Nat
  BY MailAssumption, TimeAssumption DEF MailInv, MailTypeOK, TypeOK
<1>3. failures' \in 0..MaxFailures /\ failures' + deaths' = failures + deaths + 1
  BY <1>1, <1>2
<1> QED BY <1>1, <1>3, LossKeepsMail DEF MailInv, MailTypeOK, TypeOK

\* The commit succeeds, and what the run has sent is on record.
LEMMA CommitKeepsMail ==
  ASSUME MailInv, OneMailing, IInv, TypeOK', NEW c \in Calls, CommitDeliveries(c)
  PROVE  MailInv'
<1>1. /\ Mailing(c) /\ stage[c] = "send" /\ UNCHANGED <<emails, complete, failures>>
      /\ stage' = [stage EXCEPT ![c] = "start"] /\ seen' = [seen EXCEPT ![c] = {}]
      /\ visit' = [visit EXCEPT ![c] = {}] /\ added' = [added EXCEPT ![c] = {}]
  BY DEF CommitDeliveries, CloseSession
<1>2. added[c] \cap delivered = {} /\ added[c] \subseteq Recipients
  BY <1>1 DEF MailInv, MailTypeOK, ReadIsCurrent
<1>3. /\ delivered' = delivered \cup added[c]
      /\ pc' = [pc EXCEPT ![c] = "success"] /\ UNCHANGED <<slot, deaths>>
  BY <1>2 DEF CommitDeliveries, JobEnds
<1>4. MailTypeOK'
  BY <1>1, <1>2, <1>3 DEF MailInv, MailTypeOK
<1>5. \A d \in Calls : stage'[d] = "start"
  BY <1>1, OneSender DEF MailInv, MailTypeOK, SendersMail
<1>6. SendersMail' /\ ReadIsCurrent'
  BY <1>5 DEF SendersMail, ReadIsCurrent
<1>7. ASSUME NEW n \in Recipients, Accounted(n) PROVE Accounted(n)'
  BY <1>1, <1>3, <1>7 DEF Accounted, MailInv, MailTypeOK
<1>8. Account'
  <2> SUFFICES ASSUME NEW n \in Recipients
               PROVE  emails[n] <= failures + deaths + (IF Accounted(n)' THEN 1 ELSE 0)
    BY <1>1, <1>3 DEF Account
  <2>1. emails[n] <= failures + deaths + (IF Accounted(n) THEN 1 ELSE 0)
    BY DEF MailInv, Account
  <2>2. emails[n] \in Nat /\ failures \in Nat /\ deaths \in Nat
    BY MailAssumption, TimeAssumption DEF MailInv, MailTypeOK, TypeOK
  <2> QED BY <1>7, <2>1, <2>2
<1> QED BY <1>4, <1>6, <1>8 DEF MailInv

LEMMA MailInvStep ==
  ASSUME OneMailing, IInv, TypeOK', MailInv, [MailNext]_allVars
  PROVE  MailInv'
<1>1. CASE UNCHANGED allVars
  <2>1. UNCHANGED <<mailVars, deaths, pc, slot>>
    BY <1>1 DEF allVars, vars
  <2> QED BY <2>1, QuietKeepsMail DEF Mailing
<1>2. ASSUME NEW m \in Recipients, CompletePicks(m) PROVE MailInv'
  <2>1. /\ complete' = complete \cup {m}
        /\ UNCHANGED <<clock, status, startedAt, pc, todo, slot, at, deaths, delivered, emails,
                       stage, seen, visit, added, failures>>
    BY <1>2 DEF CompletePicks, vars
  <2>2. MailTypeOK' /\ SendersMail' /\ ReadIsCurrent'
    BY <2>1 DEF MailInv, MailTypeOK, TypeOK, SendersMail, Mailing, ReadIsCurrent
  <2>3. Account'
    BY <2>1 DEF MailInv, Account, Accounted
  <2> QED BY <2>2, <2>3 DEF MailInv
<1>3. ASSUME NEW c \in Calls, MailStep(c) PROVE MailInv'
  BY <1>3, ReadKeepsMail, SkipKeepsMail, SendKeepsMail, FailureKeepsMail, CommitKeepsMail,
     TickKeepsMail DEF MailStep
<1> QED BY <1>1, <1>2, <1>3, TickKeepsMail, DeathKeepsMail DEF MailNext

LEMMA MailInvHolds ==
  ASSUME RunsAreShort, OneMailing
  PROVE  MailSpec => [](IInv /\ MailInv)
<1>1. MailInit /\ IInv => MailInv
  BY MailStart DEF MailInit, IInv
<1>2. IInv /\ IInv' /\ MailInv /\ [MailNext]_allVars => MailInv'
  BY MailInvStep DEF IInv
<1>3. MailSpec => []IInv
  BY MailImplementsTick, IInvHolds, PTL
<1> QED BY <1>1, <1>2, <1>3, PTL DEF MailSpec

(***************************************************************************)
(* What the jobs promise.                                                  *)
(***************************************************************************)

\* Every value of the mailing jobs stays in its type, and a session that is not
\* sending holds nothing.
THEOREM MailTypeCorrect ==
  ASSUME RunsAreShort, OneMailing
  PROVE  MailSpec => []MailTypeOK
<1>1. MailInv => MailTypeOK
  BY DEF MailInv
<1> QED BY <1>1, MailInvHolds, PTL

\* The unique constraint on notification_deliveries never fires.
THEOREM DeliveriesNeverCollide ==
  ASSUME RunsAreShort, OneMailing
  PROVE  MailSpec => []CommitNeverConflicts
<1>1. MailInv => CommitNeverConflicts
  <2> SUFFICES ASSUME MailInv, NEW c \in Calls PROVE added[c] \cap delivered = {}
    BY DEF CommitNeverConflicts
  <2>1. stage[c] = "start" \/ stage[c] = "send"
    BY DEF MailInv, MailTypeOK
  <2> QED BY <2>1 DEF MailInv, MailTypeOK, ReadIsCurrent
<1> QED BY <1>1, MailInvHolds, PTL

\* Nobody receives more e-mails than one and one for every failure.
THEOREM ExtraEmailsCostFailures ==
  ASSUME RunsAreShort, OneMailing
  PROVE  MailSpec => []ExtraEmailsArePaidFor
<1>1. MailInv => ExtraEmailsArePaidFor
  <2> SUFFICES ASSUME MailInv, NEW m \in Recipients PROVE emails[m] <= 1 + failures + deaths
    BY DEF ExtraEmailsArePaidFor
  <2>1. emails[m] <= failures + deaths + (IF Accounted(m) THEN 1 ELSE 0)
    BY DEF MailInv, Account
  <2>2. emails[m] \in Nat /\ failures \in Nat /\ deaths \in Nat
    BY MailAssumption, TimeAssumption DEF MailInv, MailTypeOK, TypeOK
  <2> QED BY <2>1, <2>2
<1> QED BY <1>1, MailInvHolds, PTL

\* Whoever has a delivery on record is never mailed again.
THEOREM RecordedAreLeftAlone ==
  ASSUME RunsAreShort, OneMailing
  PROVE  MailSpec => RecordedMeansNoMore
<1> DEFINE Quiet == \A m \in Recipients : m \in delivered => emails'[m] = emails[m]
<1>1. IInv /\ MailInv /\ [MailNext]_allVars => [Quiet]_allVars
  <2> SUFFICES ASSUME IInv, MailInv, MailNext, NEW m \in Recipients, m \in delivered
               PROVE  emails'[m] = emails[m]
    OBVIOUS
  <2>1. CASE \E c \in Calls, n \in Recipients : SendEmail(c, n)
    <3>1. PICK c \in Calls, n \in Recipients : SendEmail(c, n)
      BY <2>1
    <3>2. n # m
      BY <3>1, MailedAreUnrecorded
    <3> QED BY <3>1, <3>2 DEF SendEmail, MailInv, MailTypeOK
  <2>2. CASE ~\E c \in Calls, n \in Recipients : SendEmail(c, n)
    <3>1. UNCHANGED emails
      BY <2>2
      DEF MailNext, mailVars, DispatchStep, MailStep, MailDie, CompletePicks, ReadDelivered,
          SkipRecipient, SendFails, CommitDeliveries, OtherJobEnds
    <3> QED BY <3>1
  <2> QED BY <2>1, <2>2
<1> QED BY <1>1, MailInvHolds, PTL DEF MailSpec, RecordedMeansNoMore

=============================================================================
