---------------------------- MODULE MCWeeklyEmails ----------------------------
(* Small instances of WeeklyEmails: a mailing slot, due all the time, and a     *)
(* slot of another job whose hour ends at once.                                 *)
EXTENDS WeeklyEmails

CONSTANTS mail, lock

MCMailSlots == {mail}
MCSlots == {mail, lock}
MCDueAt == [t \in 0..MaxTime |-> IF t = 2 THEN <<mail, lock>> ELSE <<mail>>]
===============================================================================
