----------------------------- MODULE JobSchedule -----------------------------
(***************************************************************************)
(* backend/app/jobs/schedule.py: which job slots are due at a given        *)
(* moment.  A moment is what due_slots takes from the clock: the local     *)
(* date and hour in the league's timezone, days counted from a Monday.     *)
(* A daily job is due from its hour to midnight under one key, so a late   *)
(* tick still runs it; an hourly job is due under the key of its hour.     *)
(***************************************************************************)
EXTENDS Naturals, Sequences

CONSTANT Config  \* ScheduleConfig

Hours == 0..23
Moments == [day : Nat, hour : Hours]

Monday == 0
Tuesday == 1
Wednesday == 2
Thursday == 3
Sunday == 6
Weekday(m) == m.day % 7

ASSUME ConfigAssumption ==
  Config \in [sunday_sync_start_hour : Hours, sunday_sync_end_hour : Hours,
              monthu_sync_start_hour : Hours, monthu_sync_end_hour : Hours,
              overnight_sync_hour : Hours,
              import_day : 0..6, import_hour : Hours,
              reminder_day : 0..6, reminder_hour : Hours,
              report_day : 0..6, report_hour : Hours]

\* Broken variant: the e-mails go out before the scores are synced.
RunOrder_MailFirst ==
  <<"weekly_picks_reminder", "weekly_report", "schedule_import", "sunday_score_sync",
    "monday_thursday_score_sync", "overnight_score_sync", "lock_expired_picks">>

\* The order of the jobs within one tick.
RunOrder ==
  <<"schedule_import", "sunday_score_sync", "monday_thursday_score_sync",
    "overnight_score_sync", "weekly_picks_reminder", "weekly_report", "lock_expired_picks">>

From(m, day, hour) == Weekday(m) = day /\ m.hour >= hour

\* Jobs due until the end of the local day.
DailyDue(job, m) ==
  \/ job = "schedule_import" /\ From(m, Config.import_day, Config.import_hour)
  \/ job = "overnight_score_sync" /\ m.hour >= Config.overnight_sync_hour
  \/ job = "weekly_picks_reminder" /\ From(m, Config.reminder_day, Config.reminder_hour)
  \/ job = "weekly_report" /\ From(m, Config.report_day, Config.report_hour)

\* Jobs due for one local hour; the end hours are inclusive.
HourlyDue(job, m) ==
  \/ /\ job = "sunday_score_sync" /\ Weekday(m) = Sunday
     /\ m.hour \in Config.sunday_sync_start_hour..Config.sunday_sync_end_hour
  \/ /\ job = "monday_thursday_score_sync" /\ Weekday(m) \in {Monday, Thursday}
     /\ m.hour \in Config.monthu_sync_start_hour..Config.monthu_sync_end_hour
  \/ job = "lock_expired_picks"

IsDue(job, m) == DailyDue(job, m) \/ HourlyDue(job, m)

\* The slot of a job: its key names the local day, or the local hour.
SlotAt(job, m) ==
  IF DailyDue(job, m) THEN <<job, m.day>> ELSE <<job, m.day, m.hour>>

\* due_slots: the due slots in run order.
DueSlots(m) ==
  LET Due(job) == IsDue(job, m)
      jobs == SelectSeq(RunOrder, Due)
  IN  [i \in 1..Len(jobs) |-> SlotAt(jobs[i], m)]
===============================================================================
