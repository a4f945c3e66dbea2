------------------------------- MODULE SlotOnce -------------------------------
(***************************************************************************)
(* What the docstring of tick.py promises of a job slot, without rows,     *)
(* clocks or staleness: a slot is run by one request at a time, an attempt *)
(* may fail or be abandoned and then be repeated, and once an attempt has  *)
(* succeeded there is never another one.                                   *)
(***************************************************************************)
CONSTANTS Calls, Slots

VARIABLES
  holders,   \* requests running each slot's job
  done       \* slots that have succeeded

vars == <<holders, done>>

Init ==
  /\ holders = [s \in Slots |-> {}]
  /\ done = {}

Take(c, s) ==
  /\ holders[s] = {} /\ s \notin done
  /\ holders' = [holders EXCEPT ![s] = {c}]
  /\ UNCHANGED done

Succeed(c, s) ==
  /\ holders[s] = {c}
  /\ holders' = [holders EXCEPT ![s] = {}]
  /\ done' = done \cup {s}

GiveUp(c, s) ==
  /\ holders[s] = {c}
  /\ holders' = [holders EXCEPT ![s] = {}]
  /\ UNCHANGED done

Next == \E c \in Calls, s \in Slots : Take(c, s) \/ Succeed(c, s) \/ GiveUp(c, s)

Spec == Init /\ [][Next]_vars
==============================================================================
