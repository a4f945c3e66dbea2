------------------------------- MODULE JobRunner -------------------------------
(***************************************************************************)
(* One job of backend/app/jobs/job_runner.py, run by the worker and by the *)
(* admin API's trigger in different processes, and the advisory lock that  *)
(* is to keep the runs apart.                                              *)
(*                                                                         *)
(* PostgreSQL gives the lock to a connection, which may take it again and  *)
(* keeps a count.  A session has a connection only from its first          *)
(* statement to its commit: then the connection goes back to the tail of   *)
(* its process's pool, and the next statement takes the one at the head.   *)
(* So the statements of one run, and its unlock, may go over different     *)
(* connections.                                                            *)
(*                                                                         *)
(* Within a process runs follow each other: the worker's loop awaits each, *)
(* and a trigger keeps the event loop busy, as job functions never await.  *)
(* Requests in threads use the pool at the same time.                      *)
(***************************************************************************)
EXTENDS Naturals, Sequences, FiniteSets

CONSTANTS
  Procs,      \* processes that run the job
  ConnsOf,    \* the connections each process's pool may open
  NoConn,
  MaxFaults   \* bound: recycled connections, killed processes, broken transactions

ASSUME JobRunnerAssumption ==
  /\ \A p, q \in Procs : p # q => ConnsOf[p] \cap ConnsOf[q] = {}
  /\ \A p \in Procs : NoConn \notin ConnsOf[p]
  /\ MaxFaults \in Nat

VARIABLES
  pool,      \* per process: its idle connections, first in first out
  lent,      \* connections in use by requests
  held,      \* per connection: how often it holds the lock
  run,       \* per process: how far its run is, and its connection
  jobRow,    \* per process: the status of its last JobRun row
  recycled,  \* history: a connection was replaced while it held the lock
  faults

jobVars == <<pool, lent, held, run, jobRow, recycled, faults>>

Conns == UNION {ConnsOf[p] : p \in Procs}
NoRun == [at |-> "idle", conn |-> NoConn]
InPool(p) == {pool[p][i] : i \in DOMAIN pool[p]}

JobTypeOK ==
  /\ \A p \in Procs : pool[p] \in Seq(ConnsOf[p])
  /\ lent \subseteq Conns
  /\ held \in [Conns -> Nat]
  /\ run \in [Procs -> [at : {"idle", "asking", "locked", "working", "ending"},
                        conn : Conns \cup {NoConn}]]
  /\ jobRow \in [Procs -> {"none", "running", "completed", "failed"}]
  /\ recycled \in BOOLEAN /\ faults \in 0..MaxFaults
  \* a connection is in one place
  /\ \A p \in Procs :
       /\ Cardinality(InPool(p)) = Len(pool[p])
       /\ InPool(p) \cap lent = {} /\ run[p].conn \notin InPool(p) \cup lent
  /\ \A c, d \in Conns : held[c] > 0 /\ held[d] > 0 => c = d
  /\ \A p \in Procs : run[p].at = "working" => jobRow[p] = "running"

JobInit ==
  /\ pool = [p \in Procs |-> <<>>] /\ lent = {}
  /\ held = [c \in Conns |-> 0]
  /\ run = [p \in Procs |-> NoRun]
  /\ jobRow = [p \in Procs |-> "none"]
  /\ recycled = FALSE /\ faults = 0

(***************************************************************************)
(* The pool.                                                               *)
(***************************************************************************)

\* Connections the pool of p has not opened.
Unopened(p) == ConnsOf[p] \ (InPool(p) \cup lent \cup {run[p].conn})

\* The head of the queue, or a new connection if the queue is empty.
Available(p) ==
  IF pool[p] # <<>> THEN {pool[p][1]}
  ELSE IF Unopened(p) = {} THEN {} ELSE {CHOOSE c \in Unopened(p) : TRUE}

Rest(p) == IF pool[p] # <<>> THEN Tail(pool[p]) ELSE <<>>

\* A request takes a connection, uses one for a moment, and gives one back.
Borrow(p, c) ==
  /\ c \in Available(p)
  /\ pool' = [pool EXCEPT ![p] = Rest(p)] /\ lent' = lent \cup {c}
  /\ UNCHANGED <<held, run, jobRow, recycled, faults>>

UseOne(p) ==
  /\ \E c \in Available(p) : pool' = [pool EXCEPT ![p] = Append(Rest(p), c)]
  /\ UNCHANGED <<lent, held, run, jobRow, recycled, faults>>

GiveBack(p, c) ==
  /\ c \in lent \cap ConnsOf[p]
  /\ pool' = [pool EXCEPT ![p] = Append(@, c)] /\ lent' = lent \ {c}
  /\ UNCHANGED <<held, run, jobRow, recycled, faults>>

(***************************************************************************)
(* run_job.                                                                *)
(***************************************************************************)
OtherHolds(c) == \E d \in Conns \ {c} : held[d] > 0

\* The session's first statement.
StartRun(p) ==
  /\ run[p] = NoRun
  /\ \E c \in Available(p) :
       run' = [run EXCEPT ![p] = [at |-> "asking", conn |-> c]]
  /\ pool' = [pool EXCEPT ![p] = Rest(p)]
  /\ UNCHANGED <<lent, held, jobRow, recycled, faults>>

\* Broken variant: pg_try_advisory_lock_shared.
TryLock_Shared(p) ==
  /\ run[p].at = "asking"
  /\ run' = [run EXCEPT ![p].at = "locked"]
  /\ held' = [held EXCEPT ![run[p].conn] = @ + 1]
  /\ UNCHANGED <<pool, lent, jobRow, recycled, faults>>

\* pg_try_advisory_lock: JobLockError if another connection holds the lock.  The
\* unlock in the finally clause then finds nothing to release.
TryLock(p) ==
  LET c == run[p].conn IN
  /\ run[p].at = "asking"
  /\ IF OtherHolds(c)
     THEN /\ run' = [run EXCEPT ![p] = NoRun]
          /\ pool' = [pool EXCEPT ![p] = Append(@, c)]
          /\ UNCHANGED held
     ELSE /\ run' = [run EXCEPT ![p].at = "locked"]
          /\ held' = [held EXCEPT ![c] = @ + 1]
          /\ UNCHANGED pool
  /\ UNCHANGED <<lent, jobRow, recycled, faults>>

\* Broken variant: pg_try_advisory_xact_lock, which ends with the transaction.
InsertRow_XactLock(p) ==
  /\ run[p].at = "locked"
  /\ jobRow' = [jobRow EXCEPT ![p] = "running"]
  /\ held' = [held EXCEPT ![run[p].conn] = 0]
  /\ run' = [run EXCEPT ![p] = [at |-> "working", conn |-> NoConn]]
  /\ pool' = [pool EXCEPT ![p] = Append(@, run[p].conn)]
  /\ UNCHANGED <<lent, recycled, faults>>

\* The RUNNING row is committed, and the connection goes back.
InsertRow(p) ==
  /\ run[p].at = "locked"
  /\ jobRow' = [jobRow EXCEPT ![p] = "running"]
  /\ run' = [run EXCEPT ![p] = [at |-> "working", conn |-> NoConn]]
  /\ pool' = [pool EXCEPT ![p] = Append(@, run[p].conn)]
  /\ UNCHANGED <<lent, held, recycled, faults>>

\* The job function works with a connection from one commit to the next.
JobReads(p) ==
  /\ run[p].at = "working" /\ run[p].conn = NoConn
  /\ \E c \in Available(p) : run' = [run EXCEPT ![p].conn = c]
  /\ pool' = [pool EXCEPT ![p] = Rest(p)]
  /\ UNCHANGED <<lent, held, jobRow, recycled, faults>>

JobCommits(p) ==
  /\ run[p].at = "working" /\ run[p].conn # NoConn
  /\ run' = [run EXCEPT ![p].conn = NoConn]
  /\ pool' = [pool EXCEPT ![p] = Append(@, run[p].conn)]
  /\ UNCHANGED <<lent, held, jobRow, recycled, faults>>

\* The job function returns or raises, and the row's status is committed.
Finish(p) ==
  /\ run[p].at = "working" /\ run[p].conn # NoConn
  /\ \E status \in {"completed", "failed"} : jobRow' = [jobRow EXCEPT ![p] = status]
  /\ run' = [run EXCEPT ![p] = [at |-> "ending", conn |-> NoConn]]
  /\ pool' = [pool EXCEPT ![p] = Append(@, run[p].conn)]
  /\ UNCHANGED <<lent, held, recycled, faults>>

\* The finally clause: the unlock goes over the connection at the head, where it
\* releases one hold or, with a warning, nothing; then the session is closed.
Unlock(p) ==
  /\ run[p].at = "ending"
  /\ \E c \in Available(p) :
       /\ held' = [held EXCEPT ![c] = IF @ > 0 THEN @ - 1 ELSE 0]
       /\ pool' = [pool EXCEPT ![p] = Append(Rest(p), c)]
  /\ run' = [run EXCEPT ![p] = NoRun]
  /\ UNCHANGED <<lent, jobRow, recycled, faults>>

(***************************************************************************)
(* Faults.                                                                 *)
(***************************************************************************)
Fault == faults < MaxFaults /\ faults' = faults + 1

\* A statement of the job fails: its transaction takes neither the FAILED
\* status nor the unlock, and closing the session rolls it back.
TransactionBreaks(p) ==
  /\ Fault
  /\ run[p].at = "working" /\ run[p].conn # NoConn
  /\ run' = [run EXCEPT ![p] = NoRun]
  /\ pool' = [pool EXCEPT ![p] = Append(@, run[p].conn)]
  /\ UNCHANGED <<lent, held, jobRow, recycled>>

\* pool_recycle, pool_pre_ping: a checkout replaces a connection that is an
\* hour old or dead; its locks end with it.
Recycle(p) ==
  /\ Fault
  /\ pool[p] # <<>>
  /\ held' = [held EXCEPT ![pool[p][1]] = 0]
  /\ recycled' = (recycled \/ held[pool[p][1]] > 0)
  /\ UNCHANGED <<pool, lent, run, jobRow>>

\* The process dies: its connections are closed, its row stays as it is.
Die(p) ==
  /\ Fault
  /\ pool' = [pool EXCEPT ![p] = <<>>] /\ lent' = lent \ ConnsOf[p]
  /\ held' = [c \in Conns |-> IF c \in ConnsOf[p] THEN 0 ELSE held[c]]
  /\ run' = [run EXCEPT ![p] = NoRun]
  /\ UNCHANGED <<jobRow, recycled>>

RunStep(p) ==
  TryLock(p) \/ InsertRow(p) \/ JobReads(p) \/ JobCommits(p) \/ Finish(p) \/ Unlock(p)

JobFault(p) == TransactionBreaks(p) \/ Recycle(p)

(***************************************************************************)
(* Properties.                                                             *)
(***************************************************************************)
Locked(p) == run[p].at \in {"locked", "working", "ending"}

\* job_runner.py:46-48: one run at a time across all processes, wherever the
\* pool takes the statements of a run, unless a connection was replaced while
\* it held the lock.
OneRunAtATime ==
  recycled \/ \A p, q \in Procs : Locked(p) /\ Locked(q) => p = q

\* job_runner.py:159: "Always release the lock".
LockIsReleased ==
  (\A p \in Procs : run[p] = NoRun) => \A c \in Conns : held[c] = 0
===============================================================================
