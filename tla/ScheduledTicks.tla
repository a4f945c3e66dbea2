---------------------------- MODULE ScheduledTicks ----------------------------
(***************************************************************************)
(* The dispatcher under the schedule: ticks whose slots are those that     *)
(* due_slots gives for their moment, and what the order of the jobs is     *)
(* for.                                                                    *)
(***************************************************************************)
EXTENDS TickSlots, JobSchedule

Jobs == {RunOrder[k] : k \in DOMAIN RunOrder}

\* The list has the due slots of the given jobs, in the order of the jobs:
\* what DueSlots returns, for all of them.
ListsDueSlots(list, m, jobs) ==
  \E nth \in [DOMAIN list -> DOMAIN RunOrder] :
    /\ \A i, j \in DOMAIN list : i < j => nth[i] < nth[j]
    /\ \A i \in DOMAIN list : list[i] = SlotAt(RunOrder[nth[i]], m)
    /\ \A k \in DOMAIN RunOrder :
         (\E i \in DOMAIN list : nth[i] = k) <=> RunOrder[k] \in jobs /\ IsDue(RunOrder[k], m)

\* A tick runs "import -> syncs -> reminder/report": no tick starts the report of
\* a day before that day's overnight sync has been started, by it or by another.
ReportFollowsSync ==
  \A s \in Slots : s[1] = "weekly_report" /\ status[s] # "none"
    => status[<<"overnight_score_sync", s[2]>>] # "none"
===============================================================================
