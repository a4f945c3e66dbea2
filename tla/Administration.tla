----------------------------- MODULE Administration -----------------------------
(***************************************************************************)
(* The administrative side of one API process and of the worker: requests  *)
(* of LeagueMembership run in threads of the API process and take their    *)
(* connections from the pool over which JobRunner's triggered runs work.   *)
(* The trigger is for the primary commissioner (api/jobs.py:242-254), the  *)
(* worker runs by its own schedule, whatever the time.                     *)
(***************************************************************************)
EXTENDS LeagueMembership, JobRunner

CONSTANTS
  Api,        \* the process that serves requests
  MaxCalls    \* bound: requests and runs

ASSUME AdministrationAssumption == Api \in Procs /\ MaxCalls \in Nat

VARIABLES
  connOf,     \* per slot: the connection of its request
  calls

adminVars == <<membershipVars, jobVars, connOf, calls>>

AdminTypeOK ==
  /\ MembershipTypeOK /\ JobTypeOK
  /\ connOf \in [Slots -> Conns \cup {NoConn}] /\ calls \in 0..MaxCalls
  \* every request works on a connection of its own
  /\ \A s \in Slots : req[s] # Idle => connOf[s] \in lent
  /\ \A s, t \in Slots : connOf[s] = connOf[t] /\ connOf[s] # NoConn => s = t

AdminInit ==
  /\ MembershipInit /\ JobInit
  /\ connOf = [s \in Slots |-> NoConn] /\ calls = 0

Call == calls < MaxCalls /\ calls' = calls + 1

\* A request passes its checks, on the connection of its first statement.
BeginRequest(s) ==
  /\ Call
  /\ \E u \in Users : Begin(s, u)
  /\ \E c \in Available(Api) : Borrow(Api, c) /\ connOf' = [connOf EXCEPT ![s] = c]

\* A request commits or is rolled back, and its connection goes back.
EndRequest(s) ==
  /\ connOf[s] # NoConn
  /\ Commit(s) \/ Conflict(s)
  /\ GiveBack(Api, connOf[s])
  /\ connOf' = [connOf EXCEPT ![s] = NoConn] /\ UNCHANGED calls

\* A request that only reads, or is refused, or reloads what it has committed.
ReadRequest == UseOne(Api) /\ UNCHANGED <<membershipVars, connOf, calls>>

\* _verify_admin, then run_job over the request's session.
Trigger ==
  /\ Call
  /\ league # NoLeague
  /\ StartRun(Api) /\ UNCHANGED <<membershipVars, connOf>>

\* should_run_job, or a retry of run_job_with_retry.
WorkerRun(p) ==
  /\ Call
  /\ p # Api /\ StartRun(p) /\ UNCHANGED <<membershipVars, connOf>>

\* The requests of a process that dies die with it, uncommitted.
ProcessDies(p) ==
  /\ Die(p)
  /\ IF p = Api
     THEN /\ req' = [s \in Slots |-> Idle]
          /\ connOf' = [s \in Slots |-> NoConn]
     ELSE UNCHANGED <<req, connOf>>
  /\ UNCHANGED <<league, role, row, seasonRows, invite, admitted, calls>>

AdminNext ==
  \/ \E s \in Slots : BeginRequest(s) \/ EndRequest(s)
  \/ ReadRequest
  \/ Trigger
  \/ \E p \in Procs : WorkerRun(p) \/ ProcessDies(p)
  \/ \E p \in Procs : (RunStep(p) \/ JobFault(p)) /\ UNCHANGED <<membershipVars, connOf, calls>>
  \/ \E k \in Tokens : InviteExpires(k) /\ UNCHANGED <<jobVars, connOf, calls>>

AdminSpec == AdminInit /\ [][AdminNext]_adminVars
===============================================================================
