----------------------------- MODULE WeeklyEmails -----------------------------
(***************************************************************************)
(* The two mailing jobs of backend/app/jobs/nfl_schedule.py, run in slots  *)
(* of the dispatcher: the picks reminder to every member with picks left,  *)
(* and the report to every commissioner.  Both read the recorded           *)
(* deliveries once, send one e-mail after the other, add a delivery row to *)
(* the session for each, and commit all rows with one commit at the end.   *)
(* An e-mail cannot be taken back; the uncommitted rows can.               *)
(*                                                                         *)
(* The e-mail service (Resend) is outside src/: a send is delivered, or it *)
(* raises and the job with it.                                             *)
(***************************************************************************)
EXTENDS TickSlots, FiniteSets

CONSTANTS
  Kind,         \* "reminder" or "report"
  MailSlots,    \* slots whose job is this mailing; one week, so one mailing
  Recipients,   \* league members, or commissioners
  Muted,        \* recipients who switched the reminder off
  MaxFailures   \* bound: sends that raise

ASSUME KindAssumption == Kind \in {"reminder", "report"}
ASSUME MailAssumption ==
  /\ MailSlots \subseteq Slots /\ Muted \subseteq Recipients
  /\ IsFiniteSet(Recipients) /\ MaxFailures \in Nat

VARIABLES
  delivered,   \* recipients with a committed notification_deliveries row
  emails,      \* e-mails each recipient has received
  complete,    \* recipients with a pick for every game
  stage,       \* per request: "start", or "send" once it has read the table
  seen,        \* per request: the deliveries it read
  visit,       \* per request: recipients its loop has not reached
  added,       \* per request: recipients whose row it has added, uncommitted
  failures     \* sends that have raised

batchVars == <<stage, seen, visit, added>>
mailVars == <<delivered, emails, complete, stage, seen, visit, added, failures>>
allVars == <<vars, mailVars>>

MailTypeOK ==
  /\ TypeOK
  /\ delivered \subseteq Recipients /\ complete \subseteq Recipients
  /\ emails \in [Recipients -> Nat]
  /\ stage \in [Calls -> {"start", "send"}]
  /\ {seen, visit, added} \subseteq [Calls -> SUBSET Recipients]
  /\ failures \in 0..MaxFailures
  /\ \A c \in Calls : stage[c] = "start" => visit[c] = {} /\ added[c] = {}

MailInit ==
  /\ Init
  /\ delivered = {} /\ complete = {}
  /\ emails = [m \in Recipients |-> 0]
  /\ stage = [c \in Calls |-> "start"]
  /\ seen = [c \in Calls |-> {}]
  /\ visit = [c \in Calls |-> {}]
  /\ added = [c \in Calls |-> {}]
  /\ failures = 0

Mailing(c) == pc[c] = "running" /\ slot[c] \in MailSlots

\* Broken variant: the rows that were not committed stay in the session.
CloseSession_KeepsRows(c) ==
  /\ stage' = [stage EXCEPT ![c] = "start"]
  /\ seen' = [seen EXCEPT ![c] = {}]
  /\ visit' = [visit EXCEPT ![c] = {}]
  /\ UNCHANGED added

\* The session closes: what it holds is gone, added rows are rolled back.
CloseSession(c) ==
  /\ stage' = [stage EXCEPT ![c] = "start"]
  /\ seen' = [seen EXCEPT ![c] = {}]
  /\ visit' = [visit EXCEPT ![c] = {}]
  /\ added' = [added EXCEPT ![c] = {}]

(***************************************************************************)
(* The job.                                                                *)
(***************************************************************************)

\* The recipients and the recorded deliveries are read, before any is sent.
ReadDelivered(c) ==
  /\ Mailing(c) /\ stage[c] = "start"
  /\ stage' = [stage EXCEPT ![c] = "send"]
  /\ seen' = [seen EXCEPT ![c] = delivered]
  /\ visit' = [visit EXCEPT ![c] = Recipients]
  /\ UNCHANGED <<vars, delivered, emails, complete, added, failures>>

\* Broken variant: the recorded deliveries are not looked at.
Skipped_Unchecked(c, m) == Kind = "reminder" /\ m \in Muted \cup complete

\* The `continue`s of the loop.  The report has only the first of them; the
\* reminder looks a member's picks up when it reaches the member.
Skipped(c, m) ==
  \/ m \in seen[c]
  \/ Kind = "reminder" /\ m \in Muted \cup complete

SkipRecipient(c, m) ==
  /\ Mailing(c) /\ stage[c] = "send" /\ m \in visit[c] /\ Skipped(c, m)
  /\ visit' = [visit EXCEPT ![c] = @ \ {m}]
  /\ UNCHANGED <<vars, delivered, emails, complete, stage, seen, added, failures>>

SendEmail(c, m) ==
  /\ Mailing(c) /\ stage[c] = "send" /\ m \in visit[c] /\ ~Skipped(c, m)
  /\ emails' = [emails EXCEPT ![m] = @ + 1]
  /\ added' = [added EXCEPT ![c] = @ \cup {m}]
  /\ visit' = [visit EXCEPT ![c] = @ \ {m}]
  /\ UNCHANGED <<vars, delivered, complete, stage, seen, failures>>

\* Broken variant: the job swallows the exception and reports success.
SendFails_Swallowed(c, m) ==
  /\ Mailing(c) /\ stage[c] = "send" /\ m \in visit[c] /\ ~Skipped(c, m)
  /\ failures < MaxFailures
  /\ failures' = failures + 1
  /\ CloseSession(c)
  /\ JobEnds(c, "success")
  /\ UNCHANGED <<delivered, emails, complete>>

\* The service raises: nothing of this run is recorded.
SendFails(c, m) ==
  /\ Mailing(c) /\ stage[c] = "send" /\ m \in visit[c] /\ ~Skipped(c, m)
  /\ failures < MaxFailures
  /\ failures' = failures + 1
  /\ CloseSession(c)
  /\ JobEnds(c, "failed")
  /\ UNCHANGED <<delivered, emails, complete>>

\* One commit records every delivery of the run.  A row another run has
\* inserted meanwhile breaks the unique constraint, and the commit with it.
CommitDeliveries(c) ==
  /\ Mailing(c) /\ stage[c] = "send" /\ visit[c] = {}
  /\ IF added[c] \cap delivered = {}
       THEN delivered' = delivered \cup added[c] /\ JobEnds(c, "success")
       ELSE UNCHANGED delivered /\ JobEnds(c, "failed")
  /\ CloseSession(c)
  /\ UNCHANGED <<emails, complete, failures>>

\* Any other job: it returns or raises, and sends none of these e-mails.
OtherJobEnds(c) ==
  /\ slot[c] \notin MailSlots
  /\ JobEnds(c, "success") \/ JobEnds(c, "failed")
  /\ UNCHANGED mailVars

MailStep(c) ==
  \/ ReadDelivered(c)
  \/ \E m \in Recipients : SkipRecipient(c, m) \/ SendEmail(c, m)
  \/ \E m \in Recipients : SendFails(c, m)
  \/ CommitDeliveries(c)
  \/ OtherJobEnds(c)

\* The dispatcher's own steps leave the job's variables alone.
DispatchStep(c) ==
  /\ NextSlot(c) \/ Return(c) \/ ClaimSlot(c) \/ SkipSlot(c) \/ Finish(c)
  /\ UNCHANGED mailVars

MailDie(c) ==
  /\ Die(c)
  /\ CloseSession(c)
  /\ UNCHANGED <<delivered, emails, complete, failures>>

\* A member saves the last missing pick.
CompletePicks(m) ==
  /\ m \notin complete
  /\ complete' = complete \cup {m}
  /\ UNCHANGED <<vars, delivered, emails, stage, seen, visit, added, failures>>

MailNext ==
  \/ AdvanceClock /\ UNCHANGED mailVars
  \/ \E c \in Calls : Call(c) /\ UNCHANGED mailVars
  \/ \E c \in Calls : DispatchStep(c) \/ MailStep(c) \/ MailDie(c)
  \/ \E m \in Recipients : CompletePicks(m)

MailSpec == MailInit /\ [][MailNext]_allVars

\* As for the dispatcher: the cron calls, threads run, time passes.
MailFairness ==
  /\ WF_allVars(AdvanceClock /\ UNCHANGED mailVars)
  /\ \A c \in Calls :
       /\ WF_allVars(Call(c) /\ UNCHANGED mailVars)
       /\ WF_allVars(DispatchStep(c) \/ MailStep(c))

FairMailSpec == MailSpec /\ MailFairness

(***************************************************************************)
(* Properties.                                                             *)
(***************************************************************************)

\* Whoever has a delivery on record is never mailed again, whichever requests
\* run, die and take over (NotificationDelivery is what the job checks).
RecordedMeansNoMore ==
  [][\A m \in Recipients : m \in delivered => emails'[m] = emails[m]]_allVars

\* The unique constraint never fires: no run is about to insert a row that
\* another run has committed since it read the table.
CommitNeverConflicts ==
  \A c \in Calls : added[c] \cap delivered = {}

\* The price of the single commit, exactly: each e-mail too many is paid for by
\* one run that raised or was killed after sending it.
ExtraEmailsArePaidFor ==
  \A m \in Recipients : emails[m] <= 1 + failures + deaths

\* A run that died so late that its row does not get stale while it is due.
LostAtTheEnd ==
  \E s \in MailSlots :
    /\ status[s] = "running" /\ startedAt[s] + StaleAfter >= MaxTime
    /\ \A c \in Calls : ~Holds(c, s)

\* Nobody is forgotten: although sends raise and requests die, every recipient
\* who is not muted and does not complete the picks is mailed in the end.
EveryoneIsMailed ==
  \A m \in Recipients \ Muted : <>(emails[m] > 0 \/ m \in complete \/ LostAtTheEnd)
===============================================================================
