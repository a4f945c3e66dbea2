------------------------------ MODULE ScoreSync ------------------------------
(***************************************************************************)
(* Scoring: scoring_service.score_week and the three places that call it,  *)
(* the scheduled sync (run_current_week_sync), the commissioner's refresh  *)
(* (refresh_league_scores) and the voiding of unpaid picks                 *)
(* (void_unpaid_picks).  Each runs in a session of its own, reads the      *)
(* tables in several SELECTs, computes in memory and writes back the       *)
(* columns it changed; the database is READ COMMITTED, so two runs on one  *)
(* week see each other's commits between their reads and queue only on the *)
(* rows both have changed.                                                 *)
(*                                                                         *)
(* Cards do not change here (PickCards: they lock before a game can end).  *)
(* The weeks have been imported and scored once before their first game,   *)
(* so result rows exist.                                                   *)
(***************************************************************************)
EXTENDS ScoringRules, SequencesExt

CONSTANTS
  Scorers,     \* sessions that can be scoring at the same time
  UnpaidSets,  \* the sets of members a commissioner may find unpaid
  Endings,     \* bound: the outcomes the games of this season end with
  MaxFails     \* bound: how many runs end in an error

ASSUME SyncAssumption ==
  /\ MaxFails \in Nat
  /\ UnpaidSets \subseteq SUBSET Members
  /\ Endings \subseteq {"home", "away", "tie", "cancelled"}

VARIABLES
  actual,    \* what has happened, and what ESPN answers
  outcome,   \* nfl_games
  points,    \* picks.points_earned
  voided,    \* picks with a voided_at
  weekly,    \* weekly_results
  season,    \* season_results
  complete,  \* weeks whose status is COMPLETE
  run,       \* the state of each session
  fails      \* runs that ended in an error

tables == <<outcome, points, voided, weekly, season, complete>>
vars == <<actual, outcome, points, voided, weekly, season, complete, run, fails>>

TypeOK ==
  /\ {actual, outcome} \subseteq [Games -> Outcome]
  /\ points \in [Picks -> Nat \cup {NoPoints}]
  /\ voided \subseteq Picks
  /\ weekly \in [Weeks -> [Members -> WeeklyRow]]
  /\ season \in [Members -> SeasonRow]
  /\ complete \subseteq Weeks
  /\ \A s \in Scorers :
       run[s].pc \in {"idle", "fetch", "import", "games", "picks", "rows",
                      "flush", "season", "commit"}
  /\ fails \in 0..MaxFails

\* A flush updates the columns whose value differs from the one loaded.
Merge(current, loaded, mine) ==
  [k \in DOMAIN mine |-> IF mine[k] # loaded[k] THEN mine[k] ELSE current[k]]
MergeRows(current, loaded, mine) ==
  [m \in Members |-> Merge(current[m], loaded[m], mine[m])]

(***************************************************************************)
(* Sessions.  A session keeps the weeks it has left and, while it is on    *)
(* one, what it has loaded (`was...`) and what it has computed.            *)
(***************************************************************************)
Fresh == [pc |-> "idle", todo |-> <<>>]
Pending(pc, todo) == [pc |-> pc, todo |-> todo]

Week(s) == Head(run[s].todo)
Goto(s, r) == run' = [run EXCEPT ![s] = r]

ClearedBy(s) == IF "void" \in DOMAIN run[s] THEN run[s].void ELSE {}

\* The rows a session has updated and not yet committed.
ScoreChanged(s) ==
  {m \in Members :
     [run[s].rows[m] EXCEPT !.rank = 0] # [run[s].wasRows[m] EXCEPT !.rank = 0]}
PicksChanged(s) == {p \in Picks : run[s].pts[p] # run[s].wasPts[p]}

LockedPicks(s) ==
  ClearedBy(s) \cup IF run[s].pc \in {"season", "commit"} THEN PicksChanged(s) ELSE {}
LockedRows(s) ==
  IF run[s].pc \in {"season", "commit"} THEN {<<Week(s), m>> : m \in ScoreChanged(s)} ELSE {}
Unlocked(s, picks, rows) ==
  \A t \in Scorers \ {s} : LockedPicks(t) \cap picks = {} /\ LockedRows(t) \cap rows = {}

\* The rows are those of weeks with nothing over; their insertion is left out.
Init ==
  /\ actual = [g \in Games |-> "open"]
  /\ outcome = actual
  /\ points = [p \in Picks |-> NoPoints]
  /\ voided = {}
  /\ weekly = [w \in Weeks |-> WeeklyRows(w, points)]
  /\ season = SeasonRows({}, weekly)
  /\ complete = {}
  /\ run = [s \in Scorers |-> Fresh]
  /\ fails = 0

GameEnds(g, o) ==
  /\ actual[g] = "open"
  /\ actual' = [actual EXCEPT ![g] = o]
  /\ UNCHANGED <<tables, run, fails>>

\* Broken variant: only the latest incomplete week is synced.
Start_LatestOnly(s) ==
  /\ run[s].pc = "idle" /\ complete # Weeks
  /\ Goto(s, Pending("fetch", <<Max(Weeks \ complete)>>))
  /\ UNCHANGED <<actual, tables, fails>>

\* A sync or a refresh starts: list_incomplete_weeks, in the order of the weeks.
Start(s) ==
  /\ run[s].pc = "idle" /\ complete # Weeks
  /\ Goto(s, Pending("fetch", SetToSortSeq(Weeks \ complete, <)))
  /\ UNCHANGED <<actual, tables, fails>>

Fetch(s) ==
  /\ run[s].pc = "fetch"
  /\ Goto(s, [pc |-> "import", todo |-> run[s].todo,
              feed |-> [g \in GamesOf(Week(s)) |-> actual[g]]])
  /\ UNCHANGED <<actual, tables, fails>>

\* import_games writes what was fetched and commits.
Import(s) ==
  /\ run[s].pc = "import"
  /\ outcome' = [g \in Games |-> IF WeekOf[g] = Week(s) THEN run[s].feed[g] ELSE outcome[g]]
  /\ Goto(s, Pending("games", run[s].todo))
  /\ UNCHANGED <<actual, points, voided, weekly, season, complete, fails>>

\* void_unpaid_picks: voids and flushes in the transaction that scores the week.
VoidUnpaid(s, w, unpaid) ==
  LET picks == {p \in PicksOf(w) : p[1] \in unpaid} \ voided
  IN  /\ run[s].pc = "idle"
      /\ Unlocked(s, picks, {})
      /\ Goto(s, [pc |-> "games", todo |-> <<w>>, void |-> picks])
      /\ UNCHANGED <<actual, tables, fails>>

ReadGames(s) ==
  /\ run[s].pc = "games"
  /\ Goto(s, [pc |-> "picks", todo |-> run[s].todo, void |-> ClearedBy(s),
              seen |-> [g \in GamesOf(Week(s)) |-> outcome[g]]])
  /\ UNCHANGED <<actual, tables, fails>>

\* The picks are read and rescored in memory.
ReadPicks(s) ==
  LET voids == voided \cup run[s].void
      pts == [p \in Picks |->
               IF p \in PicksOf(Week(s)) THEN Rescored(p, points, run[s].seen, voids) ELSE points[p]]
  IN  /\ run[s].pc = "picks"
      /\ Goto(s, [pc |-> "rows", todo |-> run[s].todo, void |-> run[s].void,
                  seen |-> run[s].seen, wasPts |-> points, pts |-> pts])
      /\ UNCHANGED <<actual, tables, fails>>

ReadRows(s) ==
  LET r == run[s]
  IN  /\ r.pc = "rows"
      /\ Goto(s, [pc |-> "flush", todo |-> r.todo, void |-> r.void, seen |-> r.seen,
                  wasPts |-> r.wasPts, pts |-> r.pts,
                  wasRows |-> weekly[Week(s)], rows |-> WeeklyRows(Week(s), r.pts)])
      /\ UNCHANGED <<actual, tables, fails>>

\* The flush of the picks and the rows waits for sessions that changed the same.
Flush(s) ==
  /\ run[s].pc = "flush"
  /\ Unlocked(s, PicksChanged(s), {<<Week(s), m>> : m \in ScoreChanged(s)})
  /\ Goto(s, [run[s] EXCEPT !.pc = "season"])
  /\ UNCHANGED <<actual, tables, fails>>

\* The completed weeks are looked up in the database, which does not have the
\* COMPLETE that this run may just have decided: the session has no autoflush.
ReadSeason(s) ==
  LET r == run[s]
  IN  /\ r.pc = "season"
      /\ Goto(s, [pc |-> "commit", todo |-> r.todo, void |-> r.void, seen |-> r.seen,
                  wasPts |-> r.wasPts, pts |-> r.pts, wasRows |-> r.wasRows, rows |-> r.rows,
                  wasSeason |-> season,
                  season |-> SeasonRows(complete, [weekly EXCEPT ![Week(s)] = r.rows])])
      /\ UNCHANGED <<actual, tables, fails>>

\* Broken variant: one finished game ends the week.
AllOver_Any(w, seen) == \E g \in GamesOf(w) : seen[g] # "open"

AllOver(w, seen) == GamesOf(w) # {} /\ \A g \in GamesOf(w) : seen[g] # "open"

\* Broken variants: a week that is over is closed without its last results; the
\* season totals are increased instead of recomputed.
Commit_ClosesFirst(s) ==
  LET r == run[s]
      w == Week(s)
  IN  /\ r.pc = "commit"
      /\ points' = Merge(points, r.wasPts, r.pts)
      /\ voided' = voided \cup r.void
      /\ weekly' = IF AllOver(w, r.seen) THEN weekly ELSE [weekly EXCEPT ![w] = r.rows]
      /\ season' = MergeRows(season, r.wasSeason, r.season)
      /\ complete' = IF AllOver(w, r.seen) THEN complete \cup {w} ELSE complete
      /\ Goto(s, IF Tail(r.todo) = <<>> THEN Fresh ELSE Pending("fetch", Tail(r.todo)))
      /\ UNCHANGED <<actual, outcome, fails>>
Commit_AddsUp(s) ==
  LET r == run[s]
      w == Week(s)
  IN  /\ r.pc = "commit"
      /\ points' = Merge(points, r.wasPts, r.pts)
      /\ voided' = voided \cup r.void
      /\ weekly' = [weekly EXCEPT ![w] = r.rows]
      /\ season' = [m \in Members |-> [season[m] EXCEPT !.total = @ + r.rows[m].total]]
      /\ complete' = IF AllOver(w, r.seen) THEN complete \cup {w} ELSE complete
      /\ Goto(s, IF Tail(r.todo) = <<>> THEN Fresh ELSE Pending("fetch", Tail(r.todo)))
      /\ UNCHANGED <<actual, outcome, fails>>

Commit(s) ==
  LET r == run[s]
      w == Week(s)
  IN  /\ r.pc = "commit"
      /\ Unlocked(s, {}, {<<w, m>> : m \in {n \in Members : r.rows[n] # r.wasRows[n]}})
      /\ points' = Merge(points, r.wasPts, r.pts)
      /\ voided' = voided \cup r.void
      /\ weekly' = [weekly EXCEPT ![w] = MergeRows(@, r.wasRows, r.rows)]
      /\ season' = MergeRows(season, r.wasSeason, r.season)
      /\ complete' = IF AllOver(w, r.seen) THEN complete \cup {w} ELSE complete
      /\ Goto(s, IF Tail(r.todo) = <<>> THEN Fresh ELSE Pending("fetch", Tail(r.todo)))
      /\ UNCHANGED <<actual, outcome, fails>>

\* ESPN does not answer, the database refuses, the machine stops: the open
\* transaction is rolled back and the weeks left are dropped.
Fail(s) ==
  /\ run[s].pc # "idle" /\ fails < MaxFails
  /\ fails' = fails + 1
  /\ Goto(s, Fresh)
  /\ UNCHANGED <<actual, tables>>

Work(s) ==
  \/ Fetch(s) \/ Import(s)
  \/ ReadGames(s) \/ ReadPicks(s) \/ ReadRows(s) \/ Flush(s)
  \/ ReadSeason(s) \/ Commit(s)

Next ==
  \/ \E g \in Games, o \in Endings : GameEnds(g, o)
  \/ \E s \in Scorers :
       \/ Start(s) \/ Work(s) \/ Fail(s)
       \/ \E w \in Weeks, unpaid \in UnpaidSets : VoidUnpaid(s, w, unpaid)

Spec == Init /\ [][Next]_vars

\* A running session keeps running; the cron starts a sync again and again.
FairSpec == Spec /\ \A s \in Scorers : WF_vars(Work(s)) /\ SF_vars(Start(s))

(***************************************************************************)
(* Properties.                                                             *)
(***************************************************************************)

\* The points of week w as the rules give them, from the imported outcomes.
DuePoints(w) ==
  [p \in Picks |->
     IF p \in PicksOf(w) \ voided /\ outcome[p[2]] \in Final
       THEN EarnedOn(p, outcome[p[2]])
       ELSE NoPoints]

\* A COMPLETE week is never synced again, so what it leaves behind is right: its
\* weekly rows and ranks are those of the imported outcomes and of the voids.
CompleteWeeksAreSettled ==
  \A w \in complete : weekly[w] = WeeklyRows(w, DuePoints(w))

\* A week becomes COMPLETE only once its games are really over, whichever stale
\* answers of ESPN the sessions still carry.
CompleteMeansOver ==
  \A w \in complete : \A g \in GamesOf(w) : actual[g] # "open"

\* Season rows add up complete weeks, each once, with at most the last of them
\* missing: repeated syncs, failed runs and later voids never double-count.
SeasonMissesAtMostOneWeek ==
  \E w \in Weeks \cup {0} : season = SeasonRows(complete \ {w}, weekly)

\* Once no run is under way the season rows count every COMPLETE week.
SeasonIsAccurate ==
  (\A s \in Scorers : run[s].pc = "idle") => season = SeasonRows(complete, weekly)

\* A voided pick stays worth nothing, whatever syncs run around the void.
VoidedPicksEarnNothing == \A p \in voided : points[p] = NoPoints

\* No week is orphaned: once its games are over, a sync completes it.
WeeksComplete ==
  \A w \in Weeks : (\A g \in GamesOf(w) : actual[g] # "open") ~> (w \in complete)
===============================================================================
