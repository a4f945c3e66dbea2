------------------------------ MODULE TickSlots ------------------------------
(***************************************************************************)
(* The scheduled-job dispatcher (backend/app/jobs/tick.py) and the table   *)
(* job_executions it synchronises on.                                      *)
(*                                                                         *)
(* An external cron POSTs /internal/tick.  Each request runs run_tick in a *)
(* thread of its own: it computes the due slots once, and for each of them *)
(* claims the slot's row with one INSERT .. ON CONFLICT DO UPDATE .. WHERE *)
(* statement, runs the job, and writes the outcome to the row.  The client *)
(* gives up on a request after 60 s and retries it while the server is     *)
(* still working on it, so several requests run at once, and the machine   *)
(* may be stopped at any step.                                             *)
(*                                                                         *)
(* Time is counted in ticks of a global clock.  What the job itself does   *)
(* is left open here: it returns or raises (WeeklyEmails gives two of   *)
(* the jobs a body).                                                      *)
(***************************************************************************)
EXTENDS Naturals, Sequences

CONSTANTS
  Calls,       \* requests that can be in run_tick at the same time
  Slots,       \* (job_name, slot_key) pairs
  NoSlot,      \* "no slot": the loop variable before the first iteration
  DueAt,       \* DueAt[t] is due_slots(t): the due slots in run order
  StaleAfter,  \* STALE_RUNNING_AFTER
  JobLimit,    \* bound: a run ends or dies within JobLimit of its started_at
  MaxDeaths,   \* bound: how many requests are killed
  MaxTime      \* bound: the last moment modelled

ASSUME NoSlotAssumption == NoSlot \notin Slots
ASSUME TimeAssumption == {StaleAfter, JobLimit, MaxDeaths, MaxTime} \subseteq Nat
ASSUME DueAssumption == DueAt \in [0..MaxTime -> Seq(Slots)]

VARIABLES
  clock,
  status,      \* job_executions.status per slot, "none" when there is no row
  startedAt,   \* job_executions.started_at per slot
  pc,          \* where each request is
  todo,        \* slots its loop has not reached
  slot,        \* slot of the current iteration
  at,          \* started_at it passed to _claim_slot
  deaths       \* requests killed so far

rowVars == <<status, startedAt>>
callVars == <<pc, todo, slot, at>>
vars == <<clock, status, startedAt, pc, todo, slot, at, deaths>>

Status == {"none", "running", "success", "failed"}

\* A request is outside ("idle"), at the head of its loop, about to claim, or
\* holds a claimed slot: its job is running, has returned or has raised.
Live == {"running", "success", "failed"}
PC == {"idle", "loop", "claim"} \cup Live

TypeOK ==
  /\ clock \in 0..MaxTime
  /\ status \in [Slots -> Status]
  /\ startedAt \in [Slots -> 0..MaxTime]
  /\ pc \in [Calls -> PC]
  /\ todo \in [Calls -> Seq(Slots)]
  /\ slot \in [Calls -> Slots \cup {NoSlot}]
  /\ at \in [Calls -> 0..MaxTime]
  /\ deaths \in 0..MaxDeaths

Init ==
  /\ clock = 0
  /\ status = [s \in Slots |-> "none"]
  /\ startedAt = [s \in Slots |-> 0]
  /\ pc = [c \in Calls |-> "idle"]
  /\ todo = [c \in Calls |-> <<>>]
  /\ slot = [c \in Calls |-> NoSlot]
  /\ at = [c \in Calls |-> 0]
  /\ deaths = 0

(***************************************************************************)
(* One request.                                                            *)
(***************************************************************************)

\* run_tick starts: the due slots are computed once, for the time of the call.
Call(c) ==
  /\ pc[c] = "idle"
  /\ pc' = [pc EXCEPT ![c] = "loop"]
  /\ todo' = [todo EXCEPT ![c] = DueAt[clock]]
  /\ UNCHANGED <<clock, status, startedAt, slot, at, deaths>>

\* Next iteration: started_at is read from the clock before the statement runs.
NextSlot(c) ==
  /\ pc[c] = "loop" /\ todo[c] # <<>>
  /\ pc' = [pc EXCEPT ![c] = "claim"]
  /\ slot' = [slot EXCEPT ![c] = Head(todo[c])]
  /\ todo' = [todo EXCEPT ![c] = Tail(todo[c])]
  /\ at' = [at EXCEPT ![c] = clock]
  /\ UNCHANGED <<clock, status, startedAt, deaths>>

\* The request leaves run_tick: no local of it survives.
Leave(c) ==
  /\ pc' = [pc EXCEPT ![c] = "idle"]
  /\ todo' = [todo EXCEPT ![c] = <<>>]
  /\ slot' = [slot EXCEPT ![c] = NoSlot]
  /\ at' = [at EXCEPT ![c] = 0]

Return(c) ==
  /\ pc[c] = "loop" /\ todo[c] = <<>>
  /\ Leave(c)
  /\ UNCHANGED <<clock, status, startedAt, deaths>>

\* Broken variants: any running row is taken over; the age is compared with <=;
\* a successful row is not spared; a stale row is never taken over.
Claimable_AnyRunning(s, t) == status[s] # "success"
Claimable_OffByOne(s, t) ==
  status[s] \in {"none", "failed"} \/ (status[s] = "running" /\ startedAt[s] + StaleAfter <= t)
Claimable_Successful(s, t) == status[s] # "running" \/ startedAt[s] + StaleAfter < t
Claimable_NeverStale(s, t) == status[s] \in {"none", "failed"}

\* The WHERE clause of the upsert; a slot without a row is inserted.
Claimable(s, t) ==
  \/ status[s] \in {"none", "failed"}
  \/ status[s] = "running" /\ startedAt[s] + StaleAfter < t

\* Broken variant: the conflict clause leaves started_at as it was.
ClaimSlot_KeepsStart(c) ==
  /\ pc[c] = "claim" /\ Claimable(slot[c], at[c])
  /\ status' = [status EXCEPT ![slot[c]] = "running"]
  /\ pc' = [pc EXCEPT ![c] = "running"]
  /\ UNCHANGED <<clock, startedAt, todo, slot, at, deaths>>

ClaimSlot(c) ==
  /\ pc[c] = "claim" /\ Claimable(slot[c], at[c])
  /\ status' = [status EXCEPT ![slot[c]] = "running"]
  /\ startedAt' = [startedAt EXCEPT ![slot[c]] = at[c]]
  /\ pc' = [pc EXCEPT ![c] = "running"]
  /\ UNCHANGED <<clock, todo, slot, at, deaths>>

SkipSlot(c) ==
  /\ pc[c] = "claim" /\ ~Claimable(slot[c], at[c])
  /\ pc' = [pc EXCEPT ![c] = "loop"]
  /\ UNCHANGED <<clock, status, startedAt, todo, slot, at, deaths>>

\* The job returns or raises; its row is written by a later transaction.
JobEnds(c, outcome) ==
  /\ pc[c] = "running"
  /\ pc' = [pc EXCEPT ![c] = outcome]
  /\ UNCHANGED <<clock, status, startedAt, todo, slot, at, deaths>>

\* Broken variant: the outcome is looked up after the request has moved on.
Finish_TooLate(c) ==
  /\ pc[c] \in {"success", "failed"}
  /\ pc' = [pc EXCEPT ![c] = "loop"]
  /\ status' = [status EXCEPT ![slot[c]] = pc'[c]]
  /\ UNCHANGED <<clock, startedAt, todo, slot, at, deaths>>

\* _finish loads the row by its id, which a re-claim keeps, and overwrites it.
Finish(c) ==
  /\ pc[c] \in {"success", "failed"}
  /\ status' = [status EXCEPT ![slot[c]] = pc[c]]
  /\ pc' = [pc EXCEPT ![c] = "loop"]
  /\ UNCHANGED <<clock, startedAt, todo, slot, at, deaths>>

\* The machine stops under the request, or an exception escapes run_tick.
Die(c) ==
  /\ pc[c] # "idle" /\ deaths < MaxDeaths
  /\ deaths' = deaths + 1
  /\ Leave(c)
  /\ UNCHANGED <<clock, status, startedAt>>

(***************************************************************************)
(* Time.  A request whose attempt on a slot is JobLimit old has to move    *)
(* before the clock does: JobLimit is how long a run may last.             *)
(***************************************************************************)
InTime(c) == pc[c] \in {"claim"} \cup Live => clock < at[c] + JobLimit

AdvanceClock ==
  /\ clock < MaxTime
  /\ \A c \in Calls : InTime(c)
  /\ clock' = clock + 1
  /\ UNCHANGED <<status, startedAt, pc, todo, slot, at, deaths>>

Attempt(c) ==
  \/ NextSlot(c)
  \/ Return(c)
  \/ ClaimSlot(c)
  \/ SkipSlot(c)
  \/ JobEnds(c, "success")
  \/ JobEnds(c, "failed")
  \/ Finish(c)

Next ==
  \/ AdvanceClock
  \/ \E c \in Calls : Call(c) \/ Attempt(c) \/ Die(c)

Spec == Init /\ [][Next]_vars

\* The cron keeps calling, the thread of a request keeps running, time passes.
Fairness ==
  /\ WF_vars(AdvanceClock)
  /\ \A c \in Calls : WF_vars(Call(c)) /\ WF_vars(Attempt(c))

FairSpec == Spec /\ Fairness

(***************************************************************************)
(* Properties.                                                             *)
(***************************************************************************)

\* What STALE_RUNNING_AFTER takes for granted: a run that is still alive is not
\* yet stale.  Nothing in tick.py limits how long a job runs.
RunsAreShort == JobLimit <= StaleAfter

\* Request c holds slot s: it has claimed it and has not yet written its outcome.
Holds(c, s) == pc[c] \in Live /\ slot[c] = s

\* No two requests run the job of one slot at the same time, although requests
\* overlap and running rows are taken over.
NoConcurrentRuns ==
  \A c, d \in Calls, s \in Slots : Holds(c, s) /\ Holds(d, s) => c = d

\* While a run is alive its row still describes that run: nobody re-stamped,
\* completed or failed it.  So the outcome _finish writes is the row's own.
RowDescribesItsRun ==
  \A c \in Calls, s \in Slots :
    Holds(c, s) => status[s] = "running" /\ startedAt[s] = at[c]

\* A slot that succeeded is never run again: its row stays success for good.
SuccessIsFinal ==
  [][\A s \in Slots : status[s] = "success" => status'[s] = "success"]_vars

\* The table and the claim statement implement the promise of SlotOnce.
Once == INSTANCE SlotOnce WITH
  holders <- [s \in Slots |-> {c \in Calls : Holds(c, s)}],
  done <- {s \in Slots : status[s] = "success"}

\* Every step of the dispatcher is one the docstring's promise allows: a slot is
\* taken only when nobody runs it and it has not succeeded.
SlotsRunOnce == Once!Spec

\* A slot whose run died is due at every later moment and old enough for a
\* request to take it over before the modelled time ends.
Abandoned(s) ==
  /\ status[s] = "running"
  /\ \A c \in Calls : ~Holds(c, s)
  /\ \A t \in clock..MaxTime : \E i \in DOMAIN DueAt[t] : DueAt[t][i] = s
  /\ startedAt[s] + StaleAfter < MaxTime

\* A slot left `running` by a run that died is not lost: while it stays due, a
\* later request claims it again.
AbandonedIsRetaken ==
  \A s \in Slots : Abandoned(s) ~> \E c \in Calls : Holds(c, s)
==============================================================================
