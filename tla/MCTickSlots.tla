----------------------------- MODULE MCTickSlots -----------------------------
(* A small instance of the ticks under a real schedule: from 22:55 to 23:15 of *)
(* a Tuesday whose report is due from 23:00, in steps of five minutes.         *)
(* Of the jobs due, the two whose order matters most.                         *)
EXTENDS ScheduledTicks

LateReport ==
  [sunday_sync_start_hour |-> 10, sunday_sync_end_hour |-> 23,
   monthu_sync_start_hour |-> 19, monthu_sync_end_hour |-> 22,
   overnight_sync_hour |-> 2, import_day |-> Tuesday, import_hour |-> 9,
   reminder_day |-> Wednesday, reminder_hour |-> 17,
   report_day |-> Tuesday, report_hour |-> 23]

MomentAt(t) == [day |-> Tuesday, hour |-> IF t < 1 THEN 22 ELSE 23]

WatchedJobs == {"overnight_score_sync", "weekly_report"}
Watched(s) == s[1] \in WatchedJobs
MCDueAt == [t \in 0..MaxTime |-> SelectSeq(DueSlots(MomentAt(t)), Watched)]
MCSlots == UNION {{MCDueAt[t][i] : i \in DOMAIN MCDueAt[t]} : t \in 0..MaxTime}

\* At every hour of a week DueSlots lists the due slots in run order, and so do the
\* lists of this instance: the hypotheses of ReportsFollowTheSync.
ASSUME SlotsAreListed ==
  /\ \A d \in 0..6, h \in Hours :
       LET m == [day |-> d, hour |-> h] IN ListsDueSlots(DueSlots(m), m, Jobs)
  /\ \A t \in 0..MaxTime : ListsDueSlots(MCDueAt[t], MomentAt(t), WatchedJobs)
  /\ Config.overnight_sync_hour <= Config.report_hour
===============================================================================
