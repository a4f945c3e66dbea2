# NFL Confidence in TLA+

Specifications of the NFL Confidence pool (FastAPI, SQLAlchemy and PostgreSQL
behind a React front end), the TLC instances that check them and the TLAPS
proofs about them. Every definition is written from the code; `PROJECT.json`
maps each one to the lines it stands for.

    tlc -workers 2 -config MCTickSlots.cfg MCTickSlots     # any MC module
    tlapm DispatcherProofs.tla                             # any of the proof modules

## 1. The system

Members of a private league rank their picks of a week's NFL games by
confidence 1..N. The backend is one web application on one machine that the
host stops when it is idle. It has no queue and no broker: requests run in
threads, each with a session of its own, and meet only in the database (READ
COMMITTED, `autoflush=False`, a pool of 10+5 connections). An external cron
wakes the machine and asks it to run what is due.

| Component | State | Operations | Talks to |
|---|---|---|---|
| Tick dispatcher (`jobs/tick.py`, `api/internal.py`) | `job_executions` | `run_tick`, `_claim_slot`, `_finish` | cron client, all jobs |
| Job schedule (`jobs/schedule.py`) | none | `due_slots` | dispatcher |
| Cron client (`.github/scripts/tick.sh`) | attempt | three attempts, 60 s each | dispatcher |
| Mailing jobs (`jobs/nfl_schedule.py`) | `notification_deliveries` | reminder, report | Resend, dispatcher |
| Schedule import, week lookup (`nfl_schedule_service`, `weeks_service`) | `nfl_weeks`, `nfl_games` | `import_games`, `get_current_week`, `get_pick_week` | ESPN, picks, scoring |
| Pick cards (`picks_service`) | `picks`, `week_submissions` | `create_picks`, `submit_picks` | calendar, voids |
| Payments (`member_payment_service`) | `member_weekly_payments` | mark, `void_unpaid_picks`, pot | picks, scoring |
| Scoring (`scoring_service`, `score_refresh_service`) | `weekly_results`, `season_results`, `picks.points_earned`, week status | `score_week`, scheduled sync, refresh | ESPN, import |
| Job runner, worker (`jobs/job_runner.py`, `worker.py`) | `job_runs`, advisory locks | `run_job`, retries | all jobs |
| Sessions (`auth_service`, `api/auth.py`, `client.ts`) | `refresh_tokens`, cookie, token in each tab | sign in, rotate, log out | front end |
| League (`league_service`, `api/league.py`) | `leagues`, `league_members`, `invites` | create, invite, join, remove, update | auth |
| Leaderboards (`leaderboard_service`) | none | ranks, points left, elimination, scenarios, pot | scoring, payments |
| Picks page (`PicksPage.tsx`) | drafts, timer, queued save, fetched card | edit, autosave, retry, submit | pick cards, sessions |

What is hard here:

* **Overlap.** The client gives up after 60 s and calls again while the server
  still works; two members of staff (cron and commissioner) start the same sync;
  a member has two tabs. Nothing serialises them except the slot rows and, for
  saves, one row lock.
* **Reads that age.** Under READ COMMITTED every SELECT of a transaction sees
  another state, and a session writes back only the columns it believes changed.
* **Crashes.** The machine is stopped between any two statements. E-mails that
  went out cannot be rolled back, rows can.
* **A calendar that moves.** ESPN adds games, changes kickoffs and results; a
  card's range, lock and completeness all follow the last import.

What has to be true of each component:

* dispatcher: a slot is not run twice at once, nor again after success; a slot
  whose run died is not lost;
* mails: who is recorded is not mailed again, nobody is forgotten, and each duplicate
  has a crash to blame; no report before the day's sync;
* calendar: while some week can be picked the page offers one;
* cards: no confidence twice, no change after the lock, voids are not lost, what
  counts as an entry is a complete card;
* scoring: complete weeks are right for good, season totals count complete weeks
  once each, no week is orphaned;
* boards: who is marked as eliminated cannot place if the open games get winners, and
  stays marked;
* sessions: a token is used once, and a browser is left with a cookie that works, unless an
  answer was lost;
* league: an invite admits one member, the league keeps an owner;
* job runner: a job runs once at a time and gives its lock back;
* page: the last draft is the one saved, what is called saved is stored, and the
  form comes to rest.

`PROJECT.json` lists the hazards line by line with the properties that watch them.

## 2. Modules

| Module | Models | Uses |
|---|---|---|
| `SlotOnce` | what the docstring of `tick.py` promises: a slot is taken when nobody runs it and it has not succeeded | |
| `TickSlots` | `run_tick`, `_claim_slot`, `_finish`; a clock; requests that die | `INSTANCE SlotOnce` |
| `JobSchedule` | `due_slots` and the run order, as operators over local days and hours | |
| `ScheduledTicks` | ticks whose slots are those the schedule gives for their moment | extends `TickSlots`, `JobSchedule` |
| `WeeklyEmails` | the reminder and the report as the body of a job in the dispatcher | extends `TickSlots` |
| `WeekCalendar` | imported weeks and games, the current week and the pick week | |
| `PickCards` | saves, submits and voids as transactions against a calendar that changes | extends `WeekCalendar` |
| `PickViews` | the four pages on which members see each other's picks, and when | extends `PickCards` |
| `ScoringRules` | points, weekly rows and ranks, season rows: what `score_week` computes | |
| `ScoreSync` | `score_week` statement by statement, and the sync, refresh and void that call it | extends `ScoringRules` |
| `Standings` | the weekly board, read in three statements, while results arrive and picks are voided | extends `ScoringRules` |
| `Sessions` | refresh tokens, the cookie that the tabs of a browser share, one refresh per tab | |
| `PicksPage` | the autosaving form, over API calls that need a session | extends `Sessions` |
| `LeagueMembership` | the writing requests of the league API, each as its checks and its commit | |
| `JobRunner` | `run_job` over the connections of a pool, and the advisory lock | |
| `Administration` | league requests and triggered runs over one pool, and the worker's runs | extends `LeagueMembership`, `JobRunner` |
| `DispatcherProofs` | theorems about `TickSlots`, `JobSchedule` and the mailings on top of them | extends `WeeklyEmails`, `ScheduledTicks` |
| `PickCardsProofs` | theorems about cards, the pages that show them and the week that is offered | extends `PickViews` |
| `ScoringProofs` | lemmas: what the sums, the top confidences, the ranks and the rows of `ScoringRules` are | extends `ScoringRules` |
| `ScoreSyncProofs`, `StandingsProofs` | theorems about the module of that name | extend it and `ScoringProofs` |
| `SessionsProofs` | theorems about tokens and the cookie under the steps of the page | extends `PicksPage` |
| `PicksPageProofs` | theorems about the form | extends `SessionsProofs` |
| `AdministrationProofs` | theorems about league requests and runs of a job over one pool | extends `Administration` |
| `MC...` | constants for TLC; `MCTickSlots` takes its due slots from `JobSchedule` | the module of that name |

**TickSlots.** `status` and `startedAt` are the columns of `job_executions`; a
request is `pc`, the slots its loop has left (`todo`), the slot at hand and the
`started_at` it passed to the claim (`at`). `ClaimSlot`/`SkipSlot` are the two
outcomes of one upsert, hence atomic. `JobEnds` and `Finish` are apart because the
outcome is written by another transaction. `Die` takes a request away between any
two steps. `_finish` loads its row by id and a re-claim keeps the id, so `Finish`
has no guard on the row, as in the code. `DueAt` lists the due slots of each moment;
in the instance it is `JobSchedule!DueSlots` of a Tuesday night.

**JobSchedule** takes a moment as the local day and hour. Daily jobs are due from
their hour to midnight under the key of the day, hourly ones under the key of the
hour, and `RunOrder` is the order within a tick.

**WeeklyEmails** adds the deliveries table, an inbox counter and, per request, what
its session holds. `ReadDelivered` is the SELECT at the start of the job,
`SendEmail` one iteration, `CommitDeliveries` the commit at the end; a send that
raises (`SendFails`) closes the session and so loses the rows added. The
dispatcher's steps are reused as they are.

**WeekCalendar** keeps of a game its week and its kickoff. `ImportGames` is one
upsert of one answer of ESPN and one commit. Answers come from the constant
`Feeds`; `MayPostpone` says whether they may move the kickoff of a game that has
begun into the future.

**PickCards.** One step per statement that reads or writes: a save waits for the
`FOR UPDATE` lock and validates (`SaveAdmit`), reads the card (`SaveRead`), and
commits (`SaveCommit`), where `voided_at` is cleared only for picks it has seen
voided, which is what the session's change tracking does. The submit takes no
lock. Any request may abort at any step. `late` and `locked` record, for the
properties, whether the week had ever locked when a request arrived.

**PickViews** adds what others can see. A page that shows members' picks compares the
clock with kickoffs once and changes nothing, so each is the set of the weeks it shows
picks of; `revealed` collects them under the assumption that every member looks at every
page all the time, and `knew` remembers of a save whether its week had been shown when it
arrived.

**ScoreSync.** `actual` is the world as ESPN reports it, `outcome` the imported
copy. A session fetches, imports (own commit), reads games, picks and rows in three
steps, flushes, reads the completed weeks, and commits. `Merge` is the change
tracking of the session: a column is written when its value differs from the one
loaded. `LockedRows` and `LockedPicks` are the row locks a flush holds until the
commit.

The rows of `ScoringRules` leave out the counts that follow from the columns kept.

**Standings.** The sync writes in two transactions: `Import` commits outcomes, `Score`
the points and rows. A board is `ReadResults`, `ReadEntries` (entries and points
left) and `ShowBoard` (games and picks, ranks, flags). `OutOfReach` is the check used
before half the games are over, `OutWhoeverWins` the enumeration used after it.
`fresh` remembers whether scores and outcomes agreed during all three reads. The
reference the flags are compared with, `CanPlace`, scores every completion of the
week from the beginning with the rules of `ScoringRules`.

**Sessions.** A row of `refresh_tokens` is a number. `Consume` is the UPDATE that
locks and uses the row, `Issue` the insertion and commit, `Answered` the browser
taking the new cookie; `GiveUp` is the eight-second limit of `client.ts` or a broken
connection, after which the server may still serve (`ServeStray`). `call` is where
the one API call of each caller is. A sign-out has three steps as well: `SignOut` sends
the cookie of that moment, `ServeSignOut` revokes the row it names and commits, and
`SignedOut` is the answer, which deletes the cookie the browser has by then. Between the
last two, and for good if the answer is lost (`LoseSignOut`), the cookie names a row that
opens nothing. A sign-out that waits for the row lock of another tab's refresh finds the
row used and revokes nothing. `orphaned` holds the rows that a lost answer has left behind.

**PicksPage.** `form[s]` holds the refs and the state of a `GamesForm`. There are
several because React replaces the form when the page's key changes (`Render`),
while what the old one has under way goes on. `Edit`, `Fire` (the timer), `Saved`,
`Settle` (the fetch after the save is over) and `SaveFailed` are the pieces of
`saveDraft` between its awaits, `Finally` its finally clause. `ServeSave`,
`ServeSubmit` and `ServeCard` are the server, whose transactions are `PickCards`.
The page runs in one tab; another tab only calls the API, signs out and in.

**LeagueMembership.** `req[s]` is what a request read before it writes. `row` gives
each membership a row id, because SQLAlchemy updates and deletes by id: a member who
was removed and came back is another row.

**JobRunner.** `held` counts the lock per connection, `pool` is the FIFO of idle
connections and `run[p].conn` the connection of a run between its first statement
and its commit. `Unlock` takes whatever connection is at the head.

**Administration** runs both over the pool of the API process: a request borrows a
connection from its check to its commit, which is how the lock's connection gets out
of a run's reach.

Definitions that carry a suffix after an underscore and the words "broken variant"
are not part of the model. Each is a bug the code could have; with it in place of
the definition of the same name, a property named in `PROJECT.json` fails.

## 3. Runs

| Configuration | Expected | Distinct states | Shows |
|---|---|---|---|
| `MCTickSlots` | pass | 183,000 | mutual exclusion, `_finish` writes its own claim, success is final, refinement of `SlotOnce`, dead runs are retaken, the report follows the sync |
| `MCWeeklyEmails` | pass | 375,000 | recorded means no more, no unique-constraint conflict, duplicates are paid for by crashes, everyone is mailed |
| `MCPickCards` | pass | 468,000 | cards stay conflict-free and frozen after the lock under overlapping saves, voids and imports; both entry rules agree; unseen voids survive; nobody changes a card after seeing the others' |
| `MCPickCardsSubmit` | `SubmissionIsComplete` fails | 9,000 | submit races a save or a void |
| `MCScoreSync` | pass | 51,000 | one session at a time: complete weeks are right, season rows never double-count, no week is orphaned |
| `MCScoreSyncSeason` | `SeasonIsAccurate` fails | 50 | the week just completed is missing from the season rows |
| `MCScoreSyncStale` | `CompleteWeeksAreSettled` fails | 600 | two overlapping syncs leave a complete week wrong |
| `MCStandings` | pass | 26,000 | fresh boards flag nobody who places if the open games have winners, in the end everyone else, and for good; best scores are reachable; scenario tables come true |
| `MCPicksPage` | pass | 317,000 | no edit is forgotten, saved means stored, the form comes to rest; tokens are single-use; the cookie works unless an answer about it is on its way or was lost |
| `MCPicksPageSubmit` | `SubmitWaitsForTheLatestDraft` fails | 800 | a form that replaces an edited one offers to submit the older card |
| `MCAdministration` | pass | 589,000 | the league keeps its owner, an invite admits once, a job runs once at a time |
| `MCAdministrationLeak` | `LockIsReleased` fails | 1,500 | a run ends and leaves its lock with a pooled connection |

### Disagreements

With a run:

1. `picks_service.py:240` requires a complete card for a submission, but reads the
   card without the lock that saves take.
2. `docs/01-product-requirements.md:22` wants season standings always accurate.
   `scoring_service.py:185-194` queries completed weeks before the `COMPLETE` it has
   just set is flushed. The sync of a later week repairs it; nothing repairs the
   last week of the season except a void in a complete week.
3. `score_refresh_service.py:34` calls repeat runs safe. Two that overlap can import
   an old answer into a week that has been completed meanwhile.
4. `docs/plans/2026-10-19-frontend-improvements.md:36` says Submit waits for the
   latest draft. `PicksPage.tsx:745` replaces the form when a fetch brings another
   key, also while an edit waits for its timer or its save: the new form is clean.
5. `job_runner.py:159` always releases the lock. `job_runner.py:161` unlocks over the
   connection at the head of the pool, which need not be the one that holds it.

Without a run of their own, to be seen by changing a constant or a definition:

6. `tick.py:56` says a slot is taken by a success row. It is, until a run that was
   taken for dead finishes: `_finish` (`tick.py:91`) does not ask whose row it is.
   `JobLimit = 3` in `MCTickSlots.cfg` breaks `SuccessIsFinal`.
7. `docs/background-jobs.md:142` says the report is not resent on a restart.
   `nfl_schedule.py:237` records the deliveries only after the last e-mail.
   `ExtraEmailsArePaidFor` counts the copies.
8. `README.md:9` says the whole card locks at the earliest kickoff.
   `picks_service.py:151` derives the lock from kickoffs that an import may move.
   With `MayPostpone = TRUE` and a feed that moves `g1`, `LockedCardsAreFrozen` fails.
9. `docs/plans/2026-10-25-leaderboard-picks-improvements.md:36` says a board never
   marks someone eliminated who can still place, and `leaderboard_service.py:157`
   calls the check conservative. A board read while outcomes are imported and not
   scored may: a game that is over counts neither as points left nor as points won.
   Without the conjunct `reader.fresh` in `ShowsFreshBoard`, `FlagsAreRight` fails.
10. `picksKey` (`PicksPage.tsx:741`) leaves out the void mark: a fetch that only brings
   voids does not replace a form that shows those picks as made, and the form calls
   itself saved. This happens to a form that replaces one whose save is still to come,
   and to one that is put up from a fetch older than the card: the history variable
   `displaced` records both, and `SavedMeansStored` leaves them out. The second takes
   three edits, more than the instance makes; the proof of `SavedIsStored` found it. It
   also would happen if Submit were pressed between a fetch and the render that follows
   it, which the guard of `Submit` excludes.
11. `docs/deployment.md:350` says that a slot stuck `running` for ten minutes is retried by
   the next tick. An hourly one is not: the tick of the next hour has another slot
   (`schedule.py:107`). `HourlyRunsAreNotRetried` proves that its row then stays as it is.
12. `job_runner.py:4` says that one instance of a job runs at a time across all servers.
   `session.py:22` replaces connections that are an hour old, the one with the lock too:
   what counts is the age of the connection, so that a run of a few seconds loses its lock
   if the hour is over between two of its checkouts. Without the disjunct `recycled`,
   `OneRunAtATime` fails.

### Bounds, and why they are enough

* Two requests, sessions or tabs. The code's conflicts are between pairs: one
  statement of one against one of another. A third adds no new kind of step. Forms
  are three: the mounted one and two that still work when they are replaced.
* Times of 2 to 4 ticks: enough for a run to start, go stale and be taken over
  (`StaleAfter` 1 or 2), and for a week to open, be picked and lock.
* One death and one failing send (`MaxDeaths`, `MaxFailures`, `MaxFails`), one fault of a
  connection, transaction or process (`MaxFaults`). Properties that count crashes do
  so with the counters, not with the bound.
* `MCTickSlots`: 22:55 to 23:15 of a Tuesday in steps of five minutes, with the two
  slots of that night whose order matters, the sync and the report due from 23:00.
* `MCWeeklyEmails`: a mailing slot that stays due and a slot of another job that is due
  at one moment only, since the two differ in what happens after a crash.
* `MCPickCards`: a week of one game that grows to two and a second week of one, one
  member (members share no rows), four save bodies: the first card, the full card, a
  swap with a void, and the next week's card (a card with `g2` before its import names a
  game that is not of the week, and a confidence out of its range). The last moment is a
  night. Types are proved and not checked there.
* `MCScoreSync`: a week with two games, so that it can be half over, and a second
  week; two members, one without a pick for a game; games end with a winner or are
  cancelled. The instance uses one session; `MCScoreSyncStale` uses two.
* `MCStandings`: five games, so that "half" falls between games, one of them on Sunday
  night and two on Monday night as the scenario table wants; five members, so that
  three paid places leave two without; a tie and a cancelled game; one partial card
  without a submission, one formal one, one member who may be voided. Games end in
  the order of their kickoffs; the one on Sunday night does not end in a home win, and the
  last has one ending, as it decides nothing after it.
* `MCPicksPage`: two games and two edits, enough for a save to be overtaken, a card to
  conflict and the key to change; one event (`MaxEvents`): an expired token, a call or
  an answer that is lost, a failed issuance, a new sign-in, a refocus or a submit. So
  each of these meets every state of the form, but no two of them meet. One sign-out
  is under way at a time (`MaxSignOuts`); the answer or the request of one that is lost is
  an event too.
* `MCAdministration`: five requests or runs in all (`MaxCalls`), three users, one invite, a
  pool of three connections (a run, and two requests) and one of a single connection.

`CHECK_DEADLOCK FALSE` is used in the two short `MCScoreSync` instances, where the season
ends: the week is complete and nothing is left to do.

### Fairness

* Dispatcher: weak fairness of the clock, of each request's next step (a thread
  that is not killed runs on) and of `Call` (the cron calls every hour, `docs/deployment.md:338`;
  in the game windows and a few times a day besides, `docs/background-jobs.md:16`; each call is
  up to three attempts). No
  fairness for `Die`. `JobLimit` bounds how long a claim may last before the clock
  must wait; it is the assumption the code makes by having `STALE_RUNNING_AFTER`.
* Mails: the same, over the composed steps.
* Scoring: weak fairness of a session's next step, strong fairness of `Start`: the
  syncs are scheduled hourly, while a void or a failed run may get in between.
* Page: weak fairness of the steps of a form, of the answers to the card's fetch, of
  React's render, and of the refresh of each tab. None for the member, for faults or
  for the submit, on which the form's rest does not depend.

## 4. Proofs

`DispatcherProofs` proves, for any finite or infinite set of requests and slots, any
schedule and any bounds:

| Theorem | States |
|---|---|
| `TypeCorrect` | `Spec => []TypeOK` |
| `MutualExclusion` | `Spec => []NoConcurrentRuns` |
| `FinishWritesItsOwnClaim` | `Spec => []RowDescribesItsRun` |
| `SuccessIsKept` | `Spec => SuccessIsFinal` |
| `DispatcherImplementsSlotOnce` | `Spec => SlotsRunOnce` |
| `SlotsStartInOrder` | where every tick has `a` to run before `b`, `b` has no row before `a` has one |
| `ReportsFollowTheSync` | `Spec => []ReportFollowsSync` |

All but the first and the last two assume `RunsAreShort`, that is `JobLimit <= StaleAfter`;
without it they are false (section 3, 6). The inductive invariant
`IInv` is `TypeOK`, `NoConcurrentRuns` and `RowDescribesItsRun` together with
`SlotKnown` (a request in a job has a slot) and the age of a live claim
(`AttemptIsRecent`): a request that holds or is about to claim a slot is at most
`JobLimit` old. `NoConcurrentRuns` is not inductive alone: a claim is
refused to the second request only because the row still says `running` with the
`started_at` of the first (`RowDescribesItsRun`), and because that time is not yet
stale (the age). Lemma `ClaimedSlotIsFree` states exactly that: a claimable slot has
no holder. `StepPreservesIInv` has one case per action. For the refinement,
`StepIsOnceStep` maps `ClaimSlot` to the abstract `Take`, `Finish` to
`Succeed` or `GiveUp`, `Die` to `GiveUp`, and everything else to a stutter
(`QuietStep`, `HolderLeaves`).

`SlotsStartInOrder` needs nothing about how
long runs last: as long as `a` has no row, nobody is at `b`, and every list of slots still
to come that has `b` has `a` before it (`OrderInv`), since a request takes the head of its
list and can pass `a` only by a claim or by finding its row. `ReportsFollowTheSync` is this
with the overnight sync of a day for `a` and its report for `b`. It holds of every schedule
whose report is not due earlier in the day than the sync, which the defaults satisfy
(`schedule.py:41,47`) and nothing in the code checks. Its hypothesis `ListsDueSlots` says what
`DueSlots` returns: the due slots, in run order. `DueSlots` filters with the recursive
`SelectSeq`, out of the prover's reach, so that it does is evaluated by TLC for every hour of
a week and for the lists of the instance (`SlotsAreListed` in `MCTickSlots`).

It also proves about `JobSchedule` that a daily slot that is due stays due under its key
until midnight (`DailyJobsStayDue`, which is what `AbandonedIsRetaken` takes for granted),
and that nobody comes back to the run of an hourly slot (`HourlyRunsAreNotRetried`): once no
tick falls into its hour and no request has it in hand it is `Missed`, and its row stays as it
is, `running` if the request died. The slot of another hour is another one
(`HourlySlotNamesItsHour`).

Of `WeeklyEmails` it proves `MailTypeOK`, `CommitNeverConflicts`, `ExtraEmailsArePaidFor`
and `RecordedMeansNoMore` for any recipients, kills and failing sends. The jobs have no lock
of their own, so the argument stands on the dispatcher's `IInv`, and on `RunsAreShort`: two
mailings are never under way together because a slot has one run and the mailing has one
slot (`OneMailing`, which is a week's one weekday; it is why a second mailing day in the same
week would need the check again). `ReadIsCurrent` then says that what a run has read is still
what is recorded and that what it has added is behind it, and `Account` charges every e-mail
that is neither recorded nor about to be to a failure or a death.

`PickCardsProofs` is about any members, games, requests and save bodies.

| Theorem | States | Assumes |
|---|---|---|
| `TypeCorrect`, `ViewTypeCorrect` | types, with and without the pages | |
| `EntryRulesNeverDiffer` | `[]EntryRulesAgree` | |
| `UnseenVoidsAreKept` | `UnseenVoidsSurvive` | |
| `ConfidencesStayUnique` | `[]ConfidencesAreUnique` | games keep their week |
| `InsertsNeverCollide` | `[]InsertsNeverConflict` | games keep their week |
| `LockedCardsStayFrozen` | `LockedCardsAreFrozen` | the same, and kickoffs are not postponed |
| `NobodyActsOnWhatTheySaw` | `NoChangeOfMind` | the same two |
| `OpenWeekIsOffered` | `[]PickWeekIsOpen` | games keep their week, weeks are apart, none is skipped |

Two things protect a card. One is the row lock that a save holds from its admission to its
commit (`LockInv`), which needs no assumption. The other is that what the admission
has checked against the calendar stays true: `AdmittedFitTheWeek` for the games named, and
`ReadsStayCurrent`, by which the rows a save has read are all there are and the card it is
about to write has no conflict. An import that moves a game to another week breaks it, and is
excluded by `GamesKeepTheirWeek`: the code has no guard against it (a hazard without a
property). An import that moves a kickoff into the future reopens a locked card
(section 3, 8), hence `~MayPostpone` for the last two. `FrozenInv` says that a week that was
ever locked is locked and that a save admitted to it came before; `SeenInv` that a week
is shown by a page only when it is locked.

`get_pick_week` may look one week past the current one and no further, so that an open week
is offered is a fact about calendars. `OpenWeekIsOffered` needs that the games of a week are
over before those of a later week begin (`WeeksAreApart`; the last week may overlap the one
before it, as in `MCPickCards`) and that weeks are imported in
their order (`NoWeekIsSkipped`): `run_next_week_import` does so, an import by week number
need not. `OfferInv` says that the window of a week ends a buffer after one of its games
and covers all of them, that every imported week has a game, and that it is released.

`ScoreSyncProofs` proves `CompleteMeansOver` for any sessions, however they overlap: an
outcome is not imported, nor is a game counted as over, before it has happened (`OverInv`).
`TypeCorrect` proves `TypeOK` for any sessions too: a table is written by `Merge`, which
mixes the columns a session has loaded, has computed and finds, so what needs to be known is
the type of the rows in every session (`SessionsAreTyped`), and that the sums among them
are numbers (`ScoringProofs`).
`CompleteWeeksAreSettled`, `SeasonMissesAtMostOneWeek` and `VoidedPicksEarnNothing` are
proved for one session at a time, `Scorers = {one}`: with two the first is false, and
`MCScoreSyncStale` is the counterexample. `SettledInv` says that points are those of
the imported outcomes (`PointsAreEarned`), that games of complete weeks are imported, and
what a session has loaded is what the tables hold (`LoadedIsCurrent`), so that the
columns its change tracking leaves alone (`Merge`) are right.

`ScoringProofs` has what the last two modules need about finite sets of any size. A sum
over a set is the value of a recursive function on its subsets. `SumIsATable` shows that
such a function exists and is unique, by taking a smallest set for which it fails, in place
of an induction (`LeastSubset`); `SumRemove`, `SumSplit` and `SumSame` follow. In the same
way a finite set of numbers has a greatest one (`GreatestNumber`), of which `TopOfParts` says
what the top of a union is.

`StandingsProofs` proves of every league, week, set of cards and order of results:

| Theorem | States |
|---|---|
| `TypeCorrect` | `Spec => []TypeOK` |
| `ScenariosAreKept` | `Spec => []ScenariosComeTrue` |
| `FlagsStayRight` | `Spec => FlagsAreRight` |
| `EliminationsAreFinal` | `Spec => EliminationIsFinal` |
| `MostIsAlwaysReachable` | `Spec => MostIsReachable` |
| `OutOfReachNeverPlaces` | who `OutOfReach` marks is in no paid place of later rows that are possible |
| `PrizesUseUpThePot` | the prizes add up to the pot, are ordered and not negative |

The board never rescores a week: it adds to the rows it has read what a member would win.
`ProjectionsAreExact` says that for each completion this gives the rows that scoring
everything from the beginning gives, `LeftIsReachable` that the points left are won if every
remaining game ends as picked. Hence the exact check is exact (`ExactCheckIsExact`) and the
early one safe: `OutOfReachNeverPlaces` injects the three rivals ahead into the set that
`RankIn` counts, and `RowsGrow` and `LeftShrinks` give its hypotheses (no row loses points as
results arrive, nobody wins more than was left). A void moves a member's row down, and
`GoneStayGone` shows that a flag stays right through it as well, as the member who is voided
leaves the entries. The inductive invariant `BoardInv` says that points are those due
to the outcomes last scored (`PointsAreDue`), that rows are scored from those points
(`RowsAreScored`), that a reader still fresh has read what the tables hold
(`ReaderIsCurrent`), and that nobody flagged can place (`GoneFor`). All of this is about boards that
stay fresh and about games that end with a winner: `FlagsStayRight` does not cover a torn board, nor
a tie, which may give a flagged member a place. `ScoreAssumption` has
that a pick is of the home or the away team, which `picks_service.py:193` checks.

The modules below prove invariants of composed specifications, so that what one
component does with the state of another is part of what is shown.

`AdministrationProofs` has three parts. The league: `LeagueStaysInHand`
(`LeagueIsNeverOrphaned`) and `InviteAdmitsOnce` (`InvitesAreSingleUse`), assuming that
`NoLeague` is no user. Neither is inductive: a request writes what it checked
before, when others may have written in between. `LeagueInv` therefore says what the checks
of requests under way still guarantee: none is about to remove the primary commissioner
or to take the role from them (`PrimarySpared`), and a join holds its invite, which
is open and which no other join has (`JoinHoldsInvite`). `Admissions` ties the count of
those admitted to the state of the invite, and `NothingBefore` says that only `create` runs
before there is a league.

The job: `OneRunAtATime` (`RunsNeverOverlap`) for any
processes and pools of any size, assuming that processes share no connection
(`JobRunnerAssumption`). A run may lose track of the connection its lock is on, which is
disagreement 5, so `JobInv` cannot say that a run holds its lock. It says that
some connection of its process does (`RunHasLock`), that connections never leave their
process (`OwnConns`), and that one connection holds the lock at a time
(`OneHolder`). Like the property, `RunHasLock` leaves out the states in which the pool
has replaced a connection that held the lock (`recycled`).

The types of both (`AdminTypeCorrect`). That a pool holds each connection once is what
needs the work: a connection is idle in the pool, with a run, or lent to one request, and
never two of these (`Places`, `Loans`).

`SessionsProofs` proves `OneLiveTokenPerSignIn` (`TokensAreSingleUse`) and
`CookieOpensTheSession` (`CookiesStayGood`) under the steps of the page, for any
tabs, callers and number of faults. A row stays live from the step in which
it is consumed to the insertion of its successor, so the invariant says that a
consumed row is live and consumed by one tab (`ConsumedIsLive`, the row lock); then
`LiveRowsDiffer` follows from replacing it in one step (`RotationKeepsTheLine`).
`SignInsAreOld` is why the sign-in after a logout is a new one, `NamesAreRows` why a call
that is served late still names a row. For the cookie, `GrantedIsUntouched` says of an
answer on its way that its row is live and known to nobody else, so that the browser
may take it at any moment. `NamesAreRows` also covers what sign-outs were sent with, and
`ServeSignOutKeepsCookie` shows that the row of the cookie is revoked only by a sign-out
whose answer the browser awaits or has lost. These are the exceptions the property names,
and they are real: after a lost rotation, or a lost answer to a sign-out, the cookie opens
nothing.

`PicksPageProofs` proves `PageTypeOK`, `NoEditForgotten` and `SavedMeansStored` for any
number of forms, edits, renders and faults. The argument is about one form at a time.
`FormOK` relates its timer, its queue and its save under way to the version of its draft:
a save under way is the only one, what is queued by a mounted form is its draft, and a form
that is not clean has one of the three or an error, which is why no edit is forgotten.
`SavedInv` adds what a form knows of the server's card (`AsStored`): a clean form shows it,
a save under way of a clean form is of its last version, and a save that was answered is
what the card shows. It is not inductive without `displaced`, and how it fails is
disagreement 10. `CardsAssumption`, that a card the page starts with repeats no
confidence, is `ConfidencesStayUnique` above.

Model-checked only: the liveness properties (`AbandonedIsRetaken`, `EveryoneIsMailed`,
`WeeksComplete`, `FormComesToRest`), since liveness under fairness is out of the prover's
reach, and that `DueSlots` lists the due slots (`SlotsAreListed`). Every other property of a
passing run is stated by a theorem.

## 5. Plan

All components of the core are modelled. Worth doing next:

1. Proofs for overlapping sessions of `ScoreSync`: which of its properties
   (`VoidedPicksEarnNothing`, `SeasonMissesAtMostOneWeek`) need only that the sessions are of
   different weeks.
2. Properties for the hazards that have none: slots of the hourly job that die, games
   that change their week, saves served out of order after a broken connection, and a
   refresh that is answered after a logout.

## 6. Not modelled

* `lock_expired_picks`: stamps `locked_at`, which no write path reads.
* The season table, the pick history and the contents of the pick breakdown: lists of
  rows that the models check where they are written.
* HTTP adapters, schemas, e-mail texts, ESPN's JSON, OAuth, migrations, scripts and
  the rendering of the front end: no state of their own that the properties see.
* The conversion of UTC to the league's timezone: `JobSchedule` starts from its result.
* Deadlocks between row locks: PostgreSQL aborts one transaction, and the models let
  any transaction abort at any step.
* In `ScoreSync`: the first scoring of a member (insertion of result rows), results
  that ESPN corrects, members who join or leave, the incorrect-pick and placement
  counts.
* In `Standings`: games that end out of order, picks that change after the lock.
* In `PickCards`: the choice of teams, and games that move to another week. When
  ESPN moves a game, cards validated apart become one card and may repeat a
  confidence; the instances leave such answers out.
* In `PicksPage`: the choice of teams, voids by the commissioner and the change of week.
* In `LeagueMembership`: display names and the sending of an invite.
* In `JobRunner`: what a job does with the data (`ScoreSync`); connections beyond the
  pool's size, which a session would wait for.
