---------------------------- MODULE ScoreSyncProofs ----------------------------
(***************************************************************************)
(* Scoring, for any season: members, cards, weeks, games and endings.      *)
(*                                                                         *)
(* For any number of sessions: what a session carries of a game that is    *)
(* over is about a game that is over, so no stale answer completes a week; *)
(* and what it carries has the type of the table it is written to.         *)
(* For sessions that do not overlap (Scorers = {one}): what the session    *)
(* has loaded is still in the tables when it commits, so what it writes is *)
(* what the rules give for them.                                           *)
(***************************************************************************)
EXTENDS ScoreSync, ScoringProofs

Computing == {"picks", "rows", "flush", "season", "commit"}
Rescoring == {"rows", "flush", "season", "commit"}
Writing == {"flush", "season", "commit"}

Loads == {"void", "seen", "wasPts", "pts", "wasRows", "rows"}
RunShape ==
  /\ DOMAIN run = Scorers
  /\ \A s \in Scorers :
       /\ {"pc", "todo"} \subseteq DOMAIN run[s]
       /\ run[s].pc = "flush" => Loads \subseteq DOMAIN run[s]

OutcomeTypes == {actual, outcome} \subseteq [Games -> Outcome]

\* Outcomes are imported only after the fact ...
ImportedHaveHappened == \A g \in Games : outcome[g] # "open" => actual[g] # "open"

\* ... whatever the answers that sessions have got and not imported yet ...
FeedsHaveHappened ==
  \A s \in Scorers : run[s].pc = "import" =>
    /\ run[s].feed \in [GamesOf(Week(s)) -> Outcome]
    /\ \A g \in GamesOf(Week(s)) : run[s].feed[g] # "open" => actual[g] # "open"

\* ... and the outcomes they have read and not used yet.
SeenHaveHappened ==
  \A s \in Scorers : run[s].pc \in Computing =>
    \A g \in GamesOf(Week(s)) : run[s].seen[g] # "open" => actual[g] # "open"

OverInv ==
  /\ RunShape /\ OutcomeTypes /\ ImportedHaveHappened /\ FeedsHaveHappened /\ SeenHaveHappened
  /\ CompleteMeansOver

(***************************************************************************)
(* Sessions that do not overlap.                                           *)
(***************************************************************************)

\* A game that is over stays as it was imported.
OutcomesAgree ==
  /\ \A g \in Games : outcome[g] # "open" => actual[g] = outcome[g]
  /\ \A s \in Scorers : run[s].pc = "import" =>
       \A g \in GamesOf(Week(s)) :
         /\ run[s].feed[g] # "open" => actual[g] = run[s].feed[g]
         /\ outcome[g] # "open" => run[s].feed[g] = outcome[g]

\* Points are those of the imported outcomes.
PointsAreEarned ==
  \A p \in Picks : points[p] # NoPoints =>
    outcome[p[2]] \in Final /\ points[p] = EarnedOn(p, outcome[p[2]])

CompleteIsImported ==
  /\ complete \subseteq Weeks
  /\ \A w \in complete : \A g \in GamesOf(w) : outcome[g] # "open"

TableShapes ==
  /\ voided \subseteq Picks
  /\ points = [p \in Picks |-> points[p]]
  /\ weekly = [w \in Weeks |-> weekly[w]]

\* The points a session computes for week w from what it has read.
NewPoints(w, seen, void) ==
  [p \in Picks |-> IF p \in PicksOf(w) THEN Rescored(p, points, seen, voided \cup void)
                   ELSE points[p]]

\* What a session has loaded is what the tables hold.
Loaded(r) ==
  LET w == Head(r.todo)
  IN  /\ "void" \in DOMAIN r => r.void \subseteq PicksOf(w)
      /\ r.pc \in Computing =>
           "void" \in DOMAIN r /\ \A g \in GamesOf(w) : r.seen[g] = outcome[g]
      /\ r.pc \in Rescoring => r.wasPts = points /\ r.pts = NewPoints(w, r.seen, r.void)
      /\ r.pc \in Writing => r.wasRows = weekly[w] /\ r.rows = WeeklyRows(w, r.pts)
      /\ r.pc = "commit" =>
           r.wasSeason = season /\ r.season = SeasonRows(complete, [weekly EXCEPT ![w] = r.rows])
LoadedIsCurrent == \A s \in Scorers : Loaded(run[s])

SettledInv ==
  /\ RunShape /\ OutcomeTypes /\ FeedsHaveHappened /\ OutcomesAgree /\ PointsAreEarned
  /\ CompleteIsImported /\ TableShapes /\ LoadedIsCurrent
  /\ VoidedPicksEarnNothing /\ CompleteWeeksAreSettled /\ SeasonMissesAtMostOneWeek

(***************************************************************************)
(* Sessions move one at a time.                                            *)
(***************************************************************************)

LEMMA GotoMoves ==
  ASSUME RunShape, NEW s \in Scorers, NEW r, Goto(s, r)
  PROVE  /\ run'[s] = r /\ DOMAIN run' = Scorers
         /\ \A t \in Scorers \ {s} : run'[t] = run[t]
BY DEF Goto, RunShape

\* The steps of session s.
Moves(s) ==
  \/ Start(s) \/ Work(s) \/ Fail(s)
  \/ \E w \in Weeks, unpaid \in UnpaidSets : VoidUnpaid(s, w, unpaid)

\* What a step does to the session that takes it, and that it leaves the others.
LEMMA SessionMoves ==
  ASSUME RunShape, NEW s \in Scorers, Moves(s)
  PROVE  /\ RunShape' /\ \A t \in Scorers \ {s} : run'[t] = run[t]
         /\ run'[s].pc = "import" => Fetch(s)
         /\ run'[s].pc \in Computing => \/ ReadGames(s)
                                        \/ /\ run[s].pc \in Computing
                                           /\ run'[s].todo = run[s].todo
                                           /\ run'[s].seen = run[s].seen
<1>1. ASSUME NEW r, Goto(s, r), {"pc", "todo"} \subseteq DOMAIN r, r.pc # "flush"
      PROVE  RunShape' /\ run'[s] = r /\ \A t \in Scorers \ {s} : run'[t] = run[t]
  BY <1>1, GotoMoves DEF RunShape
<1>2. CASE Start(s) \/ Fail(s)
  <2> DEFINE todo == SetToSortSeq(Weeks \ complete, <)
  <2>1. Goto(s, Fresh) \/ Goto(s, Pending("fetch", todo))
    BY <1>2, Zenon DEF Start, Fail
  <2> HIDE DEF todo
  <2> QED BY <1>1, <2>1 DEF Pending, Fresh, Computing
<1>3. CASE Fetch(s) \/ Import(s)
  BY <1>1, <1>3 DEF Fetch, Import, Pending, Computing
<1>4. CASE Commit(s)
  <2>1. Goto(s, Fresh) \/ Goto(s, Pending("fetch", Tail(run[s].todo)))
    BY <1>4 DEF Commit
  <2> QED BY <1>1, <2>1 DEF Pending, Fresh, Computing
<1>5. CASE \E w \in Weeks, unpaid \in UnpaidSets : VoidUnpaid(s, w, unpaid)
  <2>1. PICK w, void : Goto(s, [pc |-> "games", todo |-> <<w>>, void |-> void])
    BY <1>5 DEF VoidUnpaid
  <2> QED BY <1>1, <2>1 DEF Computing
<1>6. CASE ReadGames(s)
  <2>1. Goto(s, [pc |-> "picks", todo |-> run[s].todo, void |-> ClearedBy(s),
                 seen |-> [g \in GamesOf(Week(s)) |-> outcome[g]]])
    BY <1>6 DEF ReadGames
  <2> QED BY <1>1, <1>6, <2>1
<1>7. CASE ReadPicks(s)
  <2>1. PICK pts : Goto(s, [pc |-> "rows", todo |-> run[s].todo, void |-> run[s].void,
                            seen |-> run[s].seen, wasPts |-> points, pts |-> pts])
    BY <1>7 DEF ReadPicks
  <2> QED BY <1>1, <1>7, <2>1 DEF ReadPicks, Computing
<1>8. CASE ReadRows(s)
  <2>1. PICK rows : Goto(s, [pc |-> "flush", todo |-> run[s].todo, void |-> run[s].void,
                             seen |-> run[s].seen, wasPts |-> run[s].wasPts, pts |-> run[s].pts,
                             wasRows |-> weekly[Week(s)], rows |-> rows])
    BY <1>8 DEF ReadRows
  <2>2. RunShape' /\ \A t \in Scorers \ {s} : run'[t] = run[t]
    BY <2>1, GotoMoves DEF RunShape, Loads
  <2>3. /\ run'[s].pc = "flush" /\ run'[s].todo = run[s].todo /\ run'[s].seen = run[s].seen
        /\ run[s].pc = "rows"
    BY <1>8, <2>1, GotoMoves DEF ReadRows
  <2> QED BY <2>2, <2>3 DEF Computing
<1>9. CASE ReadSeason(s)
  BY <1>1, <1>9 DEF ReadSeason, Computing
<1>10. CASE Flush(s)
  <2> DEFINE r == [run[s] EXCEPT !.pc = "season"]
  <2>1. run[s].pc = "flush" /\ Goto(s, r)
    BY <1>10 DEF Flush
  <2>2. {"pc", "todo", "seen"} \subseteq DOMAIN run[s]
    BY <2>1 DEF RunShape, Loads
  <2>3. DOMAIN r = DOMAIN run[s] /\ r.pc = "season" /\ r.todo = run[s].todo /\ r.seen = run[s].seen
    BY <2>2
  <2> HIDE DEF r
  <2> QED BY <1>1, <2>1, <2>2, <2>3 DEF Computing
<1> QED BY <1>2, <1>3, <1>4, <1>5, <1>6, <1>7, <1>8, <1>9, <1>10 DEF Work, Moves

\* Who writes the outcomes and the statuses.
LEMMA WritersOfTheTables ==
  ASSUME NEW s \in Scorers, Moves(s)
  PROVE  /\ UNCHANGED actual
         /\ ~Import(s) => UNCHANGED outcome
         /\ ~Commit(s) => UNCHANGED <<points, voided, weekly, season, complete>>
<1>1. CASE Start(s) \/ Fail(s) \/ Fetch(s) \/ ReadGames(s) \/ ReadPicks(s) \/ ReadRows(s)
           \/ Flush(s) \/ ReadSeason(s)
  BY <1>1 DEF Start, Fail, Fetch, ReadGames, ReadPicks, ReadRows, Flush, ReadSeason, tables
<1>2. CASE Import(s)
  BY <1>2 DEF Import
<1>3. CASE Commit(s)
  BY <1>3 DEF Commit
<1>4. CASE \E w \in Weeks, unpaid \in UnpaidSets : VoidUnpaid(s, w, unpaid)
  BY <1>4 DEF VoidUnpaid, tables
<1> QED BY <1>1, <1>2, <1>3, <1>4 DEF Work, Moves

(***************************************************************************)
(* Complete means over.                                                    *)
(***************************************************************************)

LEMMA OverStart == Init => OverInv
BY DEF Init, OverInv, RunShape, OutcomeTypes, Outcome, ImportedHaveHappened, FeedsHaveHappened,
       SeenHaveHappened, CompleteMeansOver, Fresh, Computing, Rescoring, Writing

\* What is over stays over.
LEMMA EndingKeepsOver ==
  ASSUME OverInv, NEW g \in Games, NEW o \in Endings, GameEnds(g, o)
  PROVE  OverInv'
<1>1. /\ actual[g] = "open" /\ actual' = [actual EXCEPT ![g] = o]
      /\ UNCHANGED <<outcome, complete, run>> /\ o \in Outcome
  BY SyncAssumption DEF GameEnds, tables, Outcome, Final
<1>2. \A h \in Games : actual[h] # "open" => actual'[h] # "open"
  BY <1>1 DEF OverInv, OutcomeTypes
<1>3. RunShape' /\ OutcomeTypes'
  BY <1>1 DEF OverInv, RunShape, OutcomeTypes
<1>4. ImportedHaveHappened'
  BY <1>1, <1>2 DEF OverInv, ImportedHaveHappened
<1>5. FeedsHaveHappened' /\ SeenHaveHappened'
  BY <1>1, <1>2 DEF OverInv, FeedsHaveHappened, SeenHaveHappened, Week, GamesOf
<1>6. CompleteMeansOver'
  BY <1>1, <1>2 DEF OverInv, CompleteMeansOver, GamesOf
<1> QED BY <1>3, <1>4, <1>5, <1>6 DEF OverInv

LEMMA WorkKeepsOver ==
  ASSUME OverInv, NEW s \in Scorers, Moves(s)
  PROVE  OverInv'
<1>1. /\ RunShape' /\ UNCHANGED actual
      /\ \A t \in Scorers \ {s} : run'[t] = run[t]
      /\ run'[s].pc = "import" => Fetch(s)
      /\ run'[s].pc \in Computing => \/ ReadGames(s)
                                     \/ /\ run[s].pc \in Computing
                                        /\ run'[s].todo = run[s].todo
                                        /\ run'[s].seen = run[s].seen
  BY SessionMoves, WritersOfTheTables DEF OverInv
<1>2. OutcomeTypes' /\ ImportedHaveHappened'
  <2>1. CASE Import(s)
    <3>1. /\ run[s].pc = "import"
          /\ outcome' = [g \in Games |-> IF WeekOf[g] = Week(s) THEN run[s].feed[g] ELSE outcome[g]]
      BY <2>1 DEF Import
    <3>2. /\ run[s].feed \in [GamesOf(Week(s)) -> Outcome] /\ outcome \in [Games -> Outcome]
          /\ \A g \in Games : WeekOf[g] = Week(s) => g \in GamesOf(Week(s))
      BY <3>1 DEF OverInv, FeedsHaveHappened, OutcomeTypes, GamesOf
    <3> QED BY <1>1, <3>1, <3>2
        DEF OverInv, OutcomeTypes, ImportedHaveHappened, FeedsHaveHappened
  <2>2. CASE ~Import(s)
    BY <1>1, <2>2, WritersOfTheTables DEF OverInv, OutcomeTypes, ImportedHaveHappened
  <2> QED BY <2>1, <2>2
<1>3. FeedsHaveHappened'
  <2> SUFFICES ASSUME NEW t \in Scorers, run'[t].pc = "import"
               PROVE  /\ run'[t].feed \in [GamesOf(Week(t)') -> Outcome]
                      /\ \A g \in GamesOf(Week(t)') : run'[t].feed[g] # "open" => actual'[g] # "open"
    BY DEF FeedsHaveHappened, GamesOf
  <2>1. CASE t = s
    <3>1. run'[s] = [pc |-> "import", todo |-> run[s].todo,
                     feed |-> [g \in GamesOf(Week(s)) |-> actual[g]]]
      BY <1>1, <2>1, GotoMoves DEF Fetch, OverInv
    <3>2. Week(s)' = Week(s)
      BY <3>1 DEF Week
    <3>3. run'[s].feed = [g \in GamesOf(Week(s)) |-> actual[g]]
      BY <3>1
    <3>4. \A g \in GamesOf(Week(s)) : actual[g] \in Outcome
      BY DEF OverInv, OutcomeTypes, GamesOf
    <3> QED BY <1>1, <2>1, <3>2, <3>3, <3>4
  <2>2. CASE t # s
    BY <1>1, <2>2 DEF OverInv, FeedsHaveHappened, Week
  <2> QED BY <2>1, <2>2
<1>4. SeenHaveHappened'
  <2> SUFFICES ASSUME NEW t \in Scorers, run'[t].pc \in Computing, NEW g \in GamesOf(Week(t)'),
                      run'[t].seen[g] # "open"
               PROVE  actual[g] # "open"
    BY <1>1 DEF SeenHaveHappened, GamesOf
  <2>1. CASE t = s /\ ReadGames(s)
    <3>1. run'[s].todo = run[s].todo /\ run'[s].seen = [h \in GamesOf(Week(s)) |-> outcome[h]]
      BY <2>1, GotoMoves DEF ReadGames, OverInv
    <3>2. g \in GamesOf(Week(s)) /\ g \in Games
      BY <2>1, <3>1 DEF Week, GamesOf
    <3> QED BY <2>1, <3>1, <3>2 DEF OverInv, ImportedHaveHappened
  <2>2. CASE ~(t = s /\ ReadGames(s))
    <3>1. run[t].pc \in Computing /\ run'[t].todo = run[t].todo /\ run'[t].seen = run[t].seen
      BY <1>1, <2>2
    <3>2. Week(t)' = Week(t)
      BY <3>1 DEF Week
    <3> QED BY <3>1, <3>2 DEF OverInv, SeenHaveHappened
  <2> QED BY <2>1, <2>2
<1>5. CompleteMeansOver'
  <2>1. CASE Commit(s)
    <3>1. /\ run[s].pc = "commit"
          /\ complete' \subseteq complete
               \cup IF AllOver(Week(s), run[s].seen) THEN {Week(s)} ELSE {}
      BY <2>1 DEF Commit
    <3>2. AllOver(Week(s), run[s].seen) => \A g \in GamesOf(Week(s)) : actual[g] # "open"
      BY <3>1 DEF OverInv, SeenHaveHappened, AllOver, Computing
    <3> QED BY <1>1, <3>1, <3>2 DEF OverInv, CompleteMeansOver, GamesOf
  <2>2. CASE ~Commit(s)
    BY <1>1, <2>2, WritersOfTheTables DEF OverInv, CompleteMeansOver, GamesOf
  <2> QED BY <2>1, <2>2
<1> QED BY <1>1, <1>2, <1>3, <1>4, <1>5 DEF OverInv

LEMMA OverStep == OverInv /\ [Next]_vars => OverInv'
<1>1. ASSUME OverInv, UNCHANGED vars PROVE OverInv'
  BY <1>1 DEF vars, OverInv, RunShape, OutcomeTypes, ImportedHaveHappened, FeedsHaveHappened,
              SeenHaveHappened, CompleteMeansOver, Week, GamesOf
<1> QED BY <1>1, EndingKeepsOver, WorkKeepsOver DEF Next, Moves

\* Whatever sessions overlap and whatever stale answers they carry, a week is
\* COMPLETE only when all its games are over.
THEOREM CompleteWeeksAreOver == Spec => []CompleteMeansOver
<1>1. OverInv => CompleteMeansOver
  BY DEF OverInv
<1> QED BY <1>1, OverStart, OverStep, PTL DEF Spec

(***************************************************************************)
(* Types, for any number of sessions.                                      *)
(***************************************************************************)

Stages == {"idle", "fetch", "import", "games", "picks", "rows", "flush", "season", "commit"}

\* What a session carries has the type of the table it is written to.
LoadedIsTyped(r) ==
  /\ r.pc \in Stages
  /\ "void" \in DOMAIN r => r.void \subseteq Picks
  /\ r.pc \in Computing => "void" \in DOMAIN r
  /\ r.pc \in Rescoring => r.pts \in [Picks -> Points]
  /\ r.pc \in Writing => r.rows \in [Members -> WeeklyRow]
  /\ r.pc = "commit" => r.season \in [Members -> SeasonRow]
SessionsAreTyped == \A s \in Scorers : LoadedIsTyped(run[s])

TypedInv == OverInv /\ TypeOK /\ SessionsAreTyped

LEMMA RowFields ==
  ASSUME NEW r
  PROVE  /\ r \in WeeklyRow <=> r \in [{"total", "correct", "topWin", "topLoss", "rank"} -> Nat]
         /\ r \in SeasonRow <=> r \in [{"total", "wins", "topWin", "rank"} -> Nat]
<1>1. r \in WeeklyRow <=> r \in [{"total", "correct", "topWin", "topLoss", "rank"} -> Nat]
  BY DEF WeeklyRow
<1>2. r \in SeasonRow <=> r \in [{"total", "wins", "topWin", "rank"} -> Nat]
  BY DEF SeasonRow
<1> QED BY <1>1, <1>2

\* A flush mixes rows of one type into rows of that type.
LEMMA MergeKeepsFields ==
  ASSUME NEW S, NEW current \in [Members -> [S -> Nat]], NEW loaded,
         NEW mine \in [Members -> [S -> Nat]]
  PROVE  MergeRows(current, loaded, mine) \in [Members -> [S -> Nat]]
BY DEF MergeRows, Merge

LEMMA MergeKeepsRows ==
  ASSUME NEW current, NEW loaded, NEW mine
  PROVE  /\ {current, mine} \subseteq [Members -> WeeklyRow]
              => MergeRows(current, loaded, mine) \in [Members -> WeeklyRow]
         /\ {current, mine} \subseteq [Members -> SeasonRow]
              => MergeRows(current, loaded, mine) \in [Members -> SeasonRow]
<1> DEFINE weeklyFields == [{"total", "correct", "topWin", "topLoss", "rank"} -> Nat]
           seasonFields == [{"total", "wins", "topWin", "rank"} -> Nat]
<1>1. WeeklyRow = weeklyFields /\ SeasonRow = seasonFields
  BY RowFields
<1> QED BY <1>1, MergeKeepsFields

\* The rows of a week, and the season rows of weeks that have theirs.
LEMMA WeeklyRowsAreTyped ==
  ASSUME NEW w, NEW pts \in [Picks -> Points]
  PROVE  WeeklyRows(w, pts) \in [Members -> WeeklyRow]
<1>1. PicksOf(w) \in SUBSET Picks /\ [p \in PicksOf(w) |-> pts[p]] \in [PicksOf(w) -> Points]
  BY DEF PicksOf
<1> QED BY <1>1, RowsAreTyped DEF WeeklyRows

LEMMA SeasonRowsAreTyped ==
  ASSUME NEW done \in SUBSET Weeks, NEW res \in [Weeks -> [Members -> WeeklyRow]]
  PROVE  SeasonRows(done, res) \in [Members -> SeasonRow]
<1>1. IsFiniteSet(done)
  <2>1. LastWeek \in Int /\ 1 \in Int
    BY ScoreAssumption
  <2>2. IsFiniteSet(Weeks)
    BY <2>1, FS_Interval DEF Weeks
  <2> QED BY <2>2, FS_Subset
<1>2. ASSUME NEW m \in Members
      PROVE  /\ SeasonRows(done, res)[m].total \in Nat
             /\ SeasonRows(done, res)[m].wins \in Nat
             /\ SeasonRows(done, res)[m].topWin \in Nat
             /\ SeasonRows(done, res)[m].rank \in Nat
  <2> DEFINE totals == [w \in done |-> res[w][m].total]
             won == {w \in done : res[w][m].rank = 1}
             tops == {res[w][m].topWin : w \in done}
  <2>1. \A w \in done : res[w][m].total \in Nat /\ res[w][m].topWin \in Nat
    BY DEF WeeklyRow
  <2>2. Counts(totals, done)
    BY <2>1 DEF Counts
  <2>3. IsFiniteSet(won) /\ tops \in SUBSET Nat /\ IsFiniteSet(tops)
    <3>1. IsFiniteSet(won) /\ tops \in SUBSET Nat
      BY <1>1, <2>1, FS_Subset
    <3>2. [w \in done |-> res[w][m].topWin] \in Surjection(done, tops)
      BY DEF Surjection
    <3> QED BY <1>1, <3>1, <3>2, FS_Surjection
  <2>4. /\ SeasonRows(done, res)[m].total = SumFunctionOnSet(totals, done)
        /\ SeasonRows(done, res)[m].wins = Cardinality(won)
        /\ SeasonRows(done, res)[m].topWin = Top(tops)
    BY DEF SeasonRows
  <2>5. PICK those \in SUBSET Members : SeasonRows(done, res)[m].rank = 1 + Cardinality(those)
    BY DEF SeasonRows
  <2>6. Cardinality(those) \in Nat
    BY ScoreAssumption, FS_Subset, FS_CardinalityType
  <2> HIDE DEF totals, won, tops
  <2> QED BY <1>1, <2>2, <2>3, <2>4, <2>5, <2>6, SumIsANumber, TopIsGreatest, FS_CardinalityType
<1>3. /\ SeasonRows(done, res) = [m \in Members |-> SeasonRows(done, res)[m]]
      /\ \A m \in Members :
           SeasonRows(done, res)[m] =
             [total |-> SeasonRows(done, res)[m].total, wins |-> SeasonRows(done, res)[m].wins,
              topWin |-> SeasonRows(done, res)[m].topWin, rank |-> SeasonRows(done, res)[m].rank]
  BY DEF SeasonRows
<1> QED BY <1>2, <1>3 DEF SeasonRow

(***************************************************************************)
(* Every step writes values of the right type.                             *)
(***************************************************************************)

LEMMA TypedStart == Init => TypedInv
<1> SUFFICES ASSUME Init PROVE TypeOK /\ SessionsAreTyped
  BY OverStart DEF TypedInv
<1>1. points \in [Picks -> Points] /\ {actual, outcome} \subseteq [Games -> Outcome]
  BY DEF Init, Points, Outcome
<1>2. weekly \in [Weeks -> [Members -> WeeklyRow]]
  BY <1>1, WeeklyRowsAreTyped DEF Init
<1>3. season \in [Members -> SeasonRow]
  <2>1. season = SeasonRows({}, weekly)
    BY DEF Init
  <2> QED BY <1>2, <2>1, SeasonRowsAreTyped
<1>4. voided \subseteq Picks /\ complete \subseteq Weeks /\ fails \in 0..MaxFails
  BY SyncAssumption DEF Init
<1>5. \A s \in Scorers : run[s] = [pc |-> "idle", todo |-> <<>>]
  BY DEF Init, Fresh
<1>6. SessionsAreTyped
  BY <1>5 DEF SessionsAreTyped, LoadedIsTyped, Stages, Computing, Rescoring, Writing
<1> QED BY <1>1, <1>2, <1>3, <1>4, <1>5, <1>6 DEF TypeOK, Points

LEMMA EndingKeepsTypes ==
  ASSUME TypedInv, NEW g \in Games, NEW o \in Endings, GameEnds(g, o)
  PROVE  TypeOK' /\ SessionsAreTyped'
<1>1. /\ actual' = [actual EXCEPT ![g] = o] /\ o \in Outcome
      /\ UNCHANGED <<outcome, points, voided, weekly, season, complete, run, fails>>
  BY SyncAssumption DEF GameEnds, tables, Outcome, Final
<1>2. actual' \in [Games -> Outcome]
  BY <1>1 DEF TypedInv, TypeOK
<1>3. TypeOK'
  BY <1>1, <1>2 DEF TypedInv, TypeOK
<1> QED BY <1>1, <1>3 DEF TypedInv, SessionsAreTyped

\* What a session holds after a step of its own.
LEMMA StepLoadsTyped ==
  ASSUME TypedInv, NEW s \in Scorers, Moves(s)
  PROVE  LoadedIsTyped(run'[s])
<1> USE DEF Computing, Rescoring, Writing, Stages
<1>1. RunShape /\ LoadedIsTyped(run[s])
  BY DEF TypedInv, OverInv, SessionsAreTyped
<1>2. ASSUME NEW r, Goto(s, r), LoadedIsTyped(r) PROVE LoadedIsTyped(run'[s])
  BY <1>1, <1>2, GotoMoves
<1>3. points \in [Picks -> Points] /\ weekly \in [Weeks -> [Members -> WeeklyRow]]
      /\ complete \subseteq Weeks /\ voided \subseteq Picks
  BY DEF TypedInv, TypeOK, Points
<1>4. CASE Start(s) \/ Fail(s)
  <2> DEFINE todo == SetToSortSeq(Weeks \ complete, <)
  <2>1. Goto(s, Fresh) \/ Goto(s, Pending("fetch", todo))
    BY <1>4, Zenon DEF Start, Fail
  <2> HIDE DEF todo
  <2>2. LoadedIsTyped(Fresh) /\ LoadedIsTyped(Pending("fetch", todo))
    BY DEF LoadedIsTyped, Fresh, Pending
  <2> QED BY <1>2, <2>1, <2>2
<1>5. CASE Fetch(s) \/ Import(s)
  BY <1>2, <1>5 DEF Fetch, Import, Pending, LoadedIsTyped
<1>6. CASE \E w \in Weeks, unpaid \in UnpaidSets : VoidUnpaid(s, w, unpaid)
  <2>1. PICK w, void : /\ Goto(s, [pc |-> "games", todo |-> <<w>>, void |-> void])
                       /\ void \subseteq Picks
    BY <1>6 DEF VoidUnpaid, PicksOf
  <2> QED BY <1>2, <2>1 DEF LoadedIsTyped
<1>7. CASE ReadGames(s)
  <2>1. ClearedBy(s) \subseteq Picks
    BY <1>1 DEF ClearedBy, LoadedIsTyped
  <2> QED BY <1>2, <1>7, <2>1 DEF ReadGames, LoadedIsTyped
<1>8. CASE ReadPicks(s)
  <2> DEFINE pts == [p \in Picks |->
                       IF p \in PicksOf(Week(s))
                         THEN Rescored(p, points, run[s].seen, voided \cup run[s].void)
                         ELSE points[p]]
  <2>1. \A p \in Picks : Rescored(p, points, run[s].seen, voided \cup run[s].void) \in Points
    BY <1>3, ScoreAssumption DEF Rescored, EarnedOn, Points
  <2>2. pts \in [Picks -> Points]
    BY <1>3, <2>1
  <2>3. /\ run[s].pc = "picks"
        /\ Goto(s, [pc |-> "rows", todo |-> run[s].todo, void |-> run[s].void,
                    seen |-> run[s].seen, wasPts |-> points, pts |-> pts])
    BY <1>8 DEF ReadPicks
  <2> HIDE DEF pts
  <2> QED BY <1>1, <1>2, <2>2, <2>3 DEF LoadedIsTyped
<1>9. CASE ReadRows(s)
  <2>1. WeeklyRows(Week(s), run[s].pts) \in [Members -> WeeklyRow]
    BY <1>1, <1>9, WeeklyRowsAreTyped DEF ReadRows, LoadedIsTyped
  <2> QED BY <1>1, <1>2, <1>9, <2>1 DEF ReadRows, LoadedIsTyped
<1>10. CASE Flush(s)
  <2> DEFINE r == [run[s] EXCEPT !.pc = "season"]
  <2>1. run[s].pc = "flush" /\ Goto(s, r)
    BY <1>10 DEF Flush
  <2>2. {"pc"} \cup Loads \subseteq DOMAIN run[s]
    BY <1>1, <2>1 DEF RunShape
  <2>3. /\ DOMAIN r = DOMAIN run[s] /\ r.pc = "season" /\ r.void = run[s].void
        /\ r.pts = run[s].pts /\ r.rows = run[s].rows
    BY <2>2 DEF Loads
  <2> HIDE DEF r
  <2> QED BY <1>1, <1>2, <2>1, <2>3 DEF LoadedIsTyped
<1>11. CASE ReadSeason(s)
  <2>1. run[s].rows \in [Members -> WeeklyRow]
    BY <1>1, <1>11 DEF ReadSeason, LoadedIsTyped
  <2>2. [weekly EXCEPT ![Week(s)] = run[s].rows] \in [Weeks -> [Members -> WeeklyRow]]
    BY <1>3, <2>1
  <2>3. SeasonRows(complete, [weekly EXCEPT ![Week(s)] = run[s].rows]) \in [Members -> SeasonRow]
    BY <1>3, <2>2, SeasonRowsAreTyped
  <2> QED BY <1>1, <1>2, <1>11, <2>1, <2>3 DEF ReadSeason, LoadedIsTyped
<1>12. CASE Commit(s)
  <2>1. Goto(s, Fresh) \/ Goto(s, Pending("fetch", Tail(run[s].todo)))
    BY <1>12 DEF Commit
  <2> QED BY <1>2, <2>1 DEF LoadedIsTyped, Fresh, Pending
<1> QED BY <1>4, <1>5, <1>6, <1>7, <1>8, <1>9, <1>10, <1>11, <1>12 DEF Moves, Work

\* A commit writes the changed columns of what the session carries.
LEMMA CommitKeepsTables ==
  ASSUME TypedInv, NEW s \in Scorers, Commit(s)
  PROVE  /\ points' \in [Picks -> Points] /\ voided' \subseteq Picks
         /\ weekly' \in [Weeks -> [Members -> WeeklyRow]]
         /\ season' \in [Members -> SeasonRow] /\ complete' \subseteq Weeks
<1> DEFINE r == run[s]
           w == Week(s)
<1>1. /\ "void" \in DOMAIN r /\ r.void \subseteq Picks /\ r.pts \in [Picks -> Points]
      /\ r.rows \in [Members -> WeeklyRow] /\ r.season \in [Members -> SeasonRow]
  BY DEF Commit, TypedInv, SessionsAreTyped, LoadedIsTyped, Computing, Rescoring, Writing
<1>2. /\ points \in [Picks -> Points] /\ weekly \in [Weeks -> [Members -> WeeklyRow]]
      /\ season \in [Members -> SeasonRow] /\ complete \subseteq Weeks /\ voided \subseteq Picks
  BY DEF TypedInv, TypeOK, Points
<1>3. /\ points' = Merge(points, r.wasPts, r.pts) /\ voided' = voided \cup r.void
      /\ weekly' = [weekly EXCEPT ![w] = MergeRows(weekly[w], r.wasRows, r.rows)]
      /\ season' = MergeRows(season, r.wasSeason, r.season)
      /\ complete' = IF AllOver(w, r.seen) THEN complete \cup {w} ELSE complete
  BY DEF Commit
<1> HIDE DEF r, w
<1>4. points' \in [Picks -> Points]
  BY <1>1, <1>2, <1>3 DEF Merge
<1>5. weekly' \in [Weeks -> [Members -> WeeklyRow]]
  <2>1. w \in Weeks => MergeRows(weekly[w], r.wasRows, r.rows) \in [Members -> WeeklyRow]
    BY <1>1, <1>2, MergeKeepsRows
  <2> QED BY <1>2, <1>3, <2>1
<1>6. season' \in [Members -> SeasonRow]
  BY <1>1, <1>2, <1>3, MergeKeepsRows
<1>7. AllOver(w, r.seen) => w \in Weeks
  BY ScoreAssumption DEF AllOver, GamesOf
<1> QED BY <1>1, <1>2, <1>3, <1>4, <1>5, <1>6, <1>7

LEMMA MovesKeepTypes ==
  ASSUME TypedInv, NEW s \in Scorers, Moves(s)
  PROVE  TypeOK' /\ SessionsAreTyped'
<1>1. SessionsAreTyped'
  <2>1. \A t \in Scorers \ {s} : run'[t] = run[t]
    BY SessionMoves DEF TypedInv, OverInv
  <2> QED BY <2>1, StepLoadsTyped DEF TypedInv, SessionsAreTyped
<1>2. {actual, outcome}' \subseteq [Games -> Outcome]
  BY WorkKeepsOver DEF TypedInv, OverInv, OutcomeTypes
<1>3. fails' \in 0..MaxFails
  <2>1. CASE Fail(s)
    BY <2>1, SyncAssumption DEF Fail, TypedInv, TypeOK
  <2>2. CASE ~Fail(s)
    <3>1. fails' = fails
      BY <2>2 DEF Moves, Work, Start, Fetch, Import, VoidUnpaid, ReadGames, ReadPicks, ReadRows,
                  Flush, ReadSeason, Commit
    <3> QED BY <3>1 DEF TypedInv, TypeOK
  <2> QED BY <2>1, <2>2
<1>4. /\ points' \in [Picks -> Points] /\ voided' \subseteq Picks
      /\ weekly' \in [Weeks -> [Members -> WeeklyRow]]
      /\ season' \in [Members -> SeasonRow] /\ complete' \subseteq Weeks
  <2>1. CASE Commit(s)
    BY <2>1, CommitKeepsTables
  <2>2. CASE ~Commit(s)
    BY <2>2, WritersOfTheTables DEF TypedInv, TypeOK, Points
  <2> QED BY <2>1, <2>2
<1>5. \A t \in Scorers : run'[t].pc \in Stages
  BY <1>1 DEF SessionsAreTyped, LoadedIsTyped
<1> QED BY <1>1, <1>2, <1>3, <1>4, <1>5 DEF TypeOK, Points, Stages

LEMMA TypedStep == TypedInv /\ [Next]_vars => TypedInv'
<1>1. ASSUME TypedInv, UNCHANGED vars PROVE TypeOK' /\ SessionsAreTyped'
  BY <1>1 DEF vars, TypedInv, TypeOK, SessionsAreTyped
<1>2. ASSUME TypedInv, Next PROVE TypeOK' /\ SessionsAreTyped'
  BY <1>2, EndingKeepsTypes, MovesKeepTypes DEF Next, Moves
<1> QED BY <1>1, <1>2, OverStep DEF TypedInv

\* However sessions overlap, fail and overwrite each other's columns, every table
\* and every session keeps its type: totals, counts and ranks stay numbers.
THEOREM TypeCorrect == Spec => []TypeOK
<1>1. TypedInv => TypeOK
  BY DEF TypedInv
<1> QED BY <1>1, TypedStart, TypedStep, PTL DEF Spec

(***************************************************************************)
(* Sessions that do not overlap: what is COMPLETE is settled.              *)
(***************************************************************************)

\* Writing the changed columns of what is still as it was loaded writes all.
LEMMA MergeOfLoaded ==
  ASSUME NEW x, NEW mine, mine = [k \in DOMAIN mine |-> mine[k]]
  PROVE  Merge(x, x, mine) = mine
BY DEF Merge

\* A function from the members to records.
IsRows(mine) ==
  /\ mine = [m \in Members |-> mine[m]]
  /\ \A m \in Members : mine[m] = [k \in DOMAIN mine[m] |-> mine[m][k]]

LEMMA MergeOfLoadedRows ==
  ASSUME NEW x, NEW mine, IsRows(mine)
  PROVE  MergeRows(x, x, mine) = mine
<1>1. \A m \in Members : Merge(x[m], x[m], mine[m]) = mine[m]
  BY MergeOfLoaded DEF IsRows
<1> QED BY <1>1 DEF MergeRows, IsRows

LEMMA WeeklyRowsAreRows == ASSUME NEW w, NEW pts PROVE IsRows(WeeklyRows(w, pts))
<1>1. PICK row, rank : WeeklyRows(w, pts) = [m \in Members |-> [row[m] EXCEPT !.rank = rank[m]]]
  BY Zenon DEF WeeklyRows, RowsFrom
<1> QED BY <1>1 DEF IsRows

LEMMA SeasonRowsAreRows == ASSUME NEW done, NEW res PROVE IsRows(SeasonRows(done, res))
BY DEF SeasonRows, IsRows

\* The rows of a week are about the points of its picks.
LEMMA RowsAreOfTheWeek ==
  ASSUME NEW w, NEW p1, NEW p2, \A p \in PicksOf(w) : p1[p] = p2[p]
  PROVE  WeeklyRows(w, p1) = WeeklyRows(w, p2)
<1>1. [p \in PicksOf(w) |-> p1[p]] = [p \in PicksOf(w) |-> p2[p]]
  OBVIOUS
<1> QED BY <1>1 DEF WeeklyRows

LEMMA PickFacts ==
  ASSUME NEW w, NEW p \in PicksOf(w)
  PROVE  p \in Picks /\ p[2] \in GamesOf(w) /\ p[2] \in Games
BY DEF PicksOf, Picks, GamesOf

LEMMA SettledStart == Init => SettledInv
<1> SUFFICES ASSUME Init PROVE SettledInv
  OBVIOUS
<1>1. /\ outcome = actual /\ actual = [g \in Games |-> "open"] /\ voided = {} /\ complete = {}
      /\ points = [p \in Picks |-> NoPoints]
      /\ weekly = [w \in Weeks |-> WeeklyRows(w, points)]
      /\ season = SeasonRows({}, weekly)
      /\ run = [s \in Scorers |-> Fresh]
  BY DEF Init
<1>2. RunShape /\ OutcomeTypes /\ FeedsHaveHappened /\ OutcomesAgree
  BY <1>1 DEF RunShape, OutcomeTypes, FeedsHaveHappened, OutcomesAgree, Fresh, Outcome
<1>3. PointsAreEarned /\ CompleteIsImported /\ VoidedPicksEarnNothing /\ CompleteWeeksAreSettled
  BY <1>1 DEF PointsAreEarned, CompleteIsImported, VoidedPicksEarnNothing, CompleteWeeksAreSettled
<1>4. TableShapes
  BY <1>1 DEF TableShapes
<1>5. LoadedIsCurrent
  BY <1>1 DEF LoadedIsCurrent, Loaded, Fresh, Computing, Rescoring, Writing
<1>6. SeasonMissesAtMostOneWeek
  <2>1. complete \ {0} = {}
    BY <1>1
  <2> QED BY <1>1, <2>1 DEF SeasonMissesAtMostOneWeek
<1> QED BY <1>2, <1>3, <1>4, <1>5, <1>6 DEF SettledInv

LEMMA EndingKeepsSettled ==
  ASSUME SettledInv, NEW g \in Games, NEW o \in Endings, GameEnds(g, o)
  PROVE  SettledInv'
<1>1. /\ actual[g] = "open" /\ actual' = [actual EXCEPT ![g] = o]
      /\ UNCHANGED <<outcome, points, voided, weekly, season, complete, run>> /\ o \in Outcome
  BY SyncAssumption DEF GameEnds, tables, Outcome, Final
<1>2. \A h \in Games : actual[h] # "open" => actual'[h] = actual[h]
  BY <1>1 DEF SettledInv, OutcomeTypes
<1>3. RunShape' /\ OutcomeTypes' /\ TableShapes'
  BY <1>1 DEF SettledInv, RunShape, OutcomeTypes, TableShapes
<1>4. FeedsHaveHappened'
  BY <1>1, <1>2 DEF SettledInv, FeedsHaveHappened, Week, GamesOf
<1>5. OutcomesAgree'
  <2>1. \A h \in Games : outcome[h] \in Outcome /\ (outcome[h] # "open" => actual[h] # "open")
    BY DEF SettledInv, OutcomesAgree, OutcomeTypes
  <2>2. \A h \in Games : outcome'[h] # "open" => actual'[h] = outcome'[h]
    BY <1>1, <1>2, <2>1 DEF SettledInv, OutcomesAgree
  <2>3. ASSUME NEW s \in Scorers, run[s].pc = "import", NEW h \in GamesOf(Week(s))
        PROVE  /\ run[s].feed[h] # "open" => actual'[h] = run[s].feed[h]
               /\ outcome[h] # "open" => run[s].feed[h] = outcome[h]
    <3>1. h \in Games
      BY DEF GamesOf
    <3>2. /\ run[s].feed[h] # "open" => actual[h] = run[s].feed[h]
          /\ outcome[h] # "open" => run[s].feed[h] = outcome[h]
      BY <2>3 DEF SettledInv, OutcomesAgree
    <3> QED BY <1>2, <3>1, <3>2
  <2> QED BY <1>1, <2>2, <2>3 DEF OutcomesAgree, Week, GamesOf
<1>6. PointsAreEarned' /\ CompleteIsImported' /\ VoidedPicksEarnNothing'
  BY <1>1 DEF SettledInv, PointsAreEarned, CompleteIsImported, VoidedPicksEarnNothing
<1>7. LoadedIsCurrent'
  BY <1>1 DEF SettledInv, LoadedIsCurrent, Loaded, NewPoints
<1>8. CompleteWeeksAreSettled' /\ SeasonMissesAtMostOneWeek'
  BY <1>1 DEF SettledInv, CompleteWeeksAreSettled, SeasonMissesAtMostOneWeek, DuePoints
<1> QED BY <1>3, <1>4, <1>5, <1>6, <1>7, <1>8 DEF SettledInv

\* What a session that reads leaves as it was.
LEMMA ReadingKeepsTables ==
  ASSUME SettledInv, UNCHANGED <<actual, tables>>
  PROVE  /\ OutcomeTypes' /\ PointsAreEarned' /\ CompleteIsImported' /\ TableShapes'
         /\ VoidedPicksEarnNothing' /\ CompleteWeeksAreSettled' /\ SeasonMissesAtMostOneWeek'
BY DEF SettledInv, tables, OutcomeTypes, PointsAreEarned, CompleteIsImported, TableShapes,
       VoidedPicksEarnNothing, CompleteWeeksAreSettled, SeasonMissesAtMostOneWeek, DuePoints

\* The session that has taken its step holds r.
LEMMA ReadingLoads ==
  ASSUME NEW one, Scorers = {one}, NEW r, run' = [run EXCEPT ![one] = r], DOMAIN run = Scorers,
         UNCHANGED <<actual, tables>>, Loaded(r)
  PROVE  LoadedIsCurrent'
<1>1. run'[one] = r
  OBVIOUS
<1>2. Loaded(run[one])'
  BY <1>1 DEF tables, Loaded, NewPoints
<1> QED BY <1>2 DEF LoadedIsCurrent

LEMMA ReadingKeepsSettled ==
  ASSUME NEW one, Scorers = {one}, SettledInv, Moves(one), ~Import(one), ~Commit(one)
  PROVE  SettledInv'
<1> USE DEF Computing, Rescoring, Writing
<1>1. UNCHANGED <<actual, tables>>
  BY WritersOfTheTables DEF tables
<1>2. RunShape' /\ (run'[one].pc = "import" => Fetch(one))
  BY SessionMoves DEF SettledInv
<1>3. DOMAIN run = Scorers /\ Loaded(run[one])
  BY DEF SettledInv, RunShape, LoadedIsCurrent
<1>4. ASSUME NEW r, Goto(one, r), Loaded(r) PROVE LoadedIsCurrent'
  BY <1>1, <1>3, <1>4, ReadingLoads DEF Goto
<1>5. FeedsHaveHappened' /\ OutcomesAgree'
  <2>1. CASE Fetch(one)
    <3> DEFINE feed == [g \in GamesOf(Week(one)) |-> actual[g]]
    <3>1. run' = [run EXCEPT ![one] = [pc |-> "import", todo |-> run[one].todo, feed |-> feed]]
      BY <2>1 DEF Fetch, Goto
    <3>2. run'[one].todo = run[one].todo /\ run'[one].feed = feed
      BY <1>3, <3>1
    <3>3. Week(one)' = Week(one)
      BY <3>2 DEF Week
    <3>4. \A g \in GamesOf(Week(one)) :
             /\ feed[g] = actual[g] /\ actual[g] \in Outcome
             /\ outcome[g] # "open" => actual[g] = outcome[g]
      BY DEF SettledInv, OutcomeTypes, OutcomesAgree, GamesOf
    <3>5. FeedsHaveHappened'
      BY <1>1, <3>2, <3>3, <3>4 DEF FeedsHaveHappened
    <3>6. OutcomesAgree'
      BY <1>1, <3>2, <3>3, <3>4 DEF OutcomesAgree, SettledInv, tables
    <3> QED BY <3>5, <3>6
  <2>2. CASE ~Fetch(one)
    BY <1>1, <1>2, <2>2 DEF SettledInv, FeedsHaveHappened, OutcomesAgree, tables
  <2> QED BY <2>1, <2>2
<1>6. LoadedIsCurrent'
  <2>1. CASE Start(one) \/ Fail(one)
    <3> DEFINE todo == SetToSortSeq(Weeks \ complete, <)
    <3>1. Goto(one, Fresh) \/ Goto(one, Pending("fetch", todo))
      BY <2>1, Zenon DEF Start, Fail
    <3> HIDE DEF todo
    <3>2. Loaded(Fresh) /\ Loaded(Pending("fetch", todo))
      BY DEF Loaded, Fresh, Pending
    <3> QED BY <1>4, <3>1, <3>2
  <2>2. CASE Fetch(one)
    BY <1>4, <2>2 DEF Fetch, Loaded
  <2>3. CASE \E w \in Weeks, unpaid \in UnpaidSets : VoidUnpaid(one, w, unpaid)
    <3>1. PICK w, void : /\ Goto(one, [pc |-> "games", todo |-> <<w>>, void |-> void])
                         /\ void \subseteq PicksOf(w)
      BY <2>3 DEF VoidUnpaid
    <3> DEFINE todo == <<w>>
    <3>2. Head(todo) = w
      OBVIOUS
    <3> HIDE DEF todo
    <3>3. Loaded([pc |-> "games", todo |-> todo, void |-> void])
      BY <3>1, <3>2 DEF Loaded
    <3> QED BY <1>4, <3>1, <3>3 DEF todo
  <2>4. CASE ReadGames(one)
    <3>1. ClearedBy(one) \subseteq PicksOf(Week(one))
      BY <1>3 DEF ClearedBy, Loaded, Week
    <3> QED BY <1>4, <2>4, <3>1 DEF ReadGames, Loaded, Week
  <2>5. CASE ReadPicks(one)
    BY <1>3, <1>4, <2>5 DEF ReadPicks, Loaded, Week, NewPoints
  <2>6. CASE ReadRows(one)
    BY <1>3, <1>4, <2>6 DEF ReadRows, Loaded, Week
  <2>7. CASE Flush(one)
    <3> DEFINE r == [run[one] EXCEPT !.pc = "season"]
    <3>1. run[one].pc = "flush" /\ Goto(one, r)
      BY <2>7 DEF Flush
    <3>2. {"pc", "todo"} \cup Loads \subseteq DOMAIN run[one]
      BY <3>1 DEF SettledInv, RunShape
    <3>3. /\ DOMAIN r = DOMAIN run[one] /\ r.pc = "season" /\ r.todo = run[one].todo
          /\ r.void = run[one].void /\ r.seen = run[one].seen
          /\ r.wasPts = run[one].wasPts /\ r.pts = run[one].pts
          /\ r.wasRows = run[one].wasRows /\ r.rows = run[one].rows
      BY <3>2 DEF Loads
    <3> HIDE DEF r
    <3> QED BY <1>3, <1>4, <3>1, <3>3 DEF Loaded
  <2>8. CASE ReadSeason(one)
    BY <1>3, <1>4, <2>8 DEF ReadSeason, Loaded, Week
  <2> QED BY <2>1, <2>2, <2>3, <2>4, <2>5, <2>6, <2>7, <2>8 DEF Moves, Work
<1> QED BY <1>1, <1>2, <1>5, <1>6, ReadingKeepsTables DEF SettledInv

\* An import does not touch what has been imported as over.
LEMMA ImportKeepsSettled ==
  ASSUME NEW one, Scorers = {one}, SettledInv, Import(one)
  PROVE  SettledInv'
<1>1. /\ run[one].pc = "import"
      /\ outcome' = [g \in Games |-> IF WeekOf[g] = Week(one) THEN run[one].feed[g] ELSE outcome[g]]
      /\ Goto(one, Pending("games", run[one].todo))
      /\ UNCHANGED <<actual, points, voided, weekly, season, complete>>
  BY DEF Import
<1>2. DOMAIN run' = Scorers /\ run'[one] = [pc |-> "games", todo |-> run[one].todo]
  BY <1>1 DEF Goto, Pending, SettledInv, RunShape
<1>3. \A g \in Games :
        /\ outcome[g] # "open" => outcome'[g] = outcome[g]
        /\ outcome'[g] # "open" => actual[g] = outcome'[g]
        /\ outcome'[g] \in Outcome
  <2> SUFFICES ASSUME NEW g \in Games
               PROVE  /\ outcome[g] # "open" => outcome'[g] = outcome[g]
                      /\ outcome'[g] # "open" => actual[g] = outcome'[g]
                      /\ outcome'[g] \in Outcome
    OBVIOUS
  <2>1. CASE WeekOf[g] = Week(one)
    <3>1. g \in GamesOf(Week(one)) /\ outcome'[g] = run[one].feed[g]
      BY <1>1, <2>1 DEF GamesOf
    <3> QED BY <1>1, <3>1 DEF SettledInv, OutcomesAgree, FeedsHaveHappened
  <2>2. CASE WeekOf[g] # Week(one)
    BY <1>1, <2>2 DEF SettledInv, OutcomesAgree, OutcomeTypes
  <2> QED BY <2>1, <2>2
<1>4. RunShape' /\ OutcomeTypes' /\ TableShapes' /\ FeedsHaveHappened' /\ OutcomesAgree'
  BY <1>1, <1>2, <1>3
     DEF SettledInv, RunShape, OutcomeTypes, TableShapes, FeedsHaveHappened, OutcomesAgree
<1>5. PointsAreEarned'
  <2> SUFFICES ASSUME NEW p \in Picks, points[p] # NoPoints
               PROVE  outcome'[p[2]] \in Final /\ points[p] = EarnedOn(p, outcome'[p[2]])
    BY <1>1 DEF PointsAreEarned
  <2>1. /\ outcome[p[2]] \in Final /\ points[p] = EarnedOn(p, outcome[p[2]])
        /\ p[2] \in Games
    BY DEF SettledInv, PointsAreEarned, Picks
  <2> QED BY <1>3, <2>1 DEF Final
<1>6. CompleteIsImported'
  BY <1>1, <1>3 DEF SettledInv, CompleteIsImported, GamesOf
<1>7. VoidedPicksEarnNothing' /\ SeasonMissesAtMostOneWeek'
  BY <1>1 DEF SettledInv, VoidedPicksEarnNothing, SeasonMissesAtMostOneWeek
<1>8. CompleteWeeksAreSettled'
  <2> SUFFICES ASSUME NEW w \in complete PROVE weekly[w] = WeeklyRows(w, DuePoints(w)')
    BY <1>1 DEF CompleteWeeksAreSettled
  <2>1. \A p \in PicksOf(w) : outcome'[p[2]] = outcome[p[2]] /\ p \in Picks
    BY <1>3, PickFacts DEF SettledInv, CompleteIsImported
  <2>2. \A p \in PicksOf(w) : DuePoints(w)'[p] = DuePoints(w)[p]
    BY <1>1, <2>1 DEF DuePoints
  <2>3. weekly[w] = WeeklyRows(w, DuePoints(w))
    BY DEF SettledInv, CompleteWeeksAreSettled
  <2> HIDE DEF DuePoints
  <2> QED BY <2>2, <2>3, RowsAreOfTheWeek
<1>9. LoadedIsCurrent'
  BY <1>2 DEF LoadedIsCurrent, Loaded, Computing, Rescoring, Writing
<1> QED BY <1>4, <1>5, <1>6, <1>7, <1>8, <1>9 DEF SettledInv

\* A commit writes what the rules give for the tables it leaves behind.
LEMMA CommitKeepsSettled ==
  ASSUME NEW one, Scorers = {one}, SettledInv, Commit(one)
  PROVE  SettledInv'
<1> DEFINE r == run[one]
           w == Week(one)
<1>1. /\ r.void \subseteq PicksOf(w) /\ \A g \in GamesOf(w) : r.seen[g] = outcome[g]
      /\ r.wasPts = points /\ r.pts = NewPoints(w, r.seen, r.void)
      /\ r.wasRows = weekly[w] /\ r.rows = WeeklyRows(w, r.pts)
      /\ r.wasSeason = season
      /\ r.season = SeasonRows(complete, [weekly EXCEPT ![w] = r.rows])
  BY DEF Commit, SettledInv, LoadedIsCurrent, Loaded, Computing, Rescoring, Writing, Week
<1>2. points' = NewPoints(w, r.seen, r.void)
  <2>1. points' = Merge(points, points, r.pts)
    BY <1>1 DEF Commit
  <2>2. r.pts = [k \in DOMAIN r.pts |-> r.pts[k]]
    BY <1>1 DEF NewPoints
  <2> QED BY <1>1, <2>1, <2>2, MergeOfLoaded
<1>3. /\ weekly' = [weekly EXCEPT ![w] = r.rows]
      /\ r.rows = WeeklyRows(w, points')
  <2>1. weekly' = [weekly EXCEPT ![w] = MergeRows(weekly[w], weekly[w], r.rows)]
    BY <1>1 DEF Commit
  <2>2. MergeRows(weekly[w], weekly[w], r.rows) = r.rows
    BY <1>1, WeeklyRowsAreRows, MergeOfLoadedRows
  <2> QED BY <1>1, <1>2, <2>1, <2>2
<1>4. season' = SeasonRows(complete, weekly')
  <2>1. season' = MergeRows(season, season, r.season)
    BY <1>1 DEF Commit
  <2> QED BY <1>1, <1>3, <2>1, SeasonRowsAreRows, MergeOfLoadedRows
<1>5. /\ voided' = voided \cup r.void /\ UNCHANGED <<actual, outcome>>
      /\ complete' = IF AllOver(w, r.seen) THEN complete \cup {w} ELSE complete
      /\ run' = [run EXCEPT ![one] = IF Tail(r.todo) = <<>> THEN Fresh
                                     ELSE Pending("fetch", Tail(r.todo))]
  BY DEF Commit, Goto
<1>6. run'[one] = Fresh \/ run'[one] = Pending("fetch", Tail(r.todo))
  BY <1>5 DEF SettledInv, RunShape
<1>7. RunShape' /\ LoadedIsCurrent' /\ FeedsHaveHappened' /\ OutcomesAgree' /\ OutcomeTypes'
  <2>1. DOMAIN run' = Scorers
    BY <1>5 DEF SettledInv, RunShape
  <2>2. RunShape'
    BY <1>6, <2>1 DEF RunShape, Fresh, Pending
  <2>3. LoadedIsCurrent'
    BY <1>6 DEF LoadedIsCurrent, Loaded, Fresh, Pending, Computing, Rescoring, Writing
  <2>4. run'[one].pc # "import"
    BY <1>6 DEF Fresh, Pending
  <2>5. FeedsHaveHappened' /\ OutcomesAgree' /\ OutcomeTypes'
    BY <1>5, <2>4 DEF SettledInv, FeedsHaveHappened, OutcomesAgree, OutcomeTypes
  <2> QED BY <2>2, <2>3, <2>5
<1> HIDE DEF r, w
<1>8. \A p \in Picks : points'[p] = IF p \in PicksOf(w) THEN Rescored(p, points, r.seen, voided')
                                    ELSE points[p]
  BY <1>2, <1>5 DEF NewPoints
<1>9. \A p \in PicksOf(w) :
         points'[p] = CASE p \in voided' -> NoPoints
                        [] p \notin voided' /\ outcome[p[2]] \in Final -> EarnedOn(p, outcome[p[2]])
                        [] OTHER -> points[p]
  BY <1>1, <1>8, PickFacts DEF Rescored
<1>10. PointsAreEarned'
  <2> SUFFICES ASSUME NEW p \in Picks, points'[p] # NoPoints
               PROVE  outcome[p[2]] \in Final /\ points'[p] = EarnedOn(p, outcome[p[2]])
    BY <1>5 DEF PointsAreEarned
  <2>1. points[p] # NoPoints => outcome[p[2]] \in Final /\ points[p] = EarnedOn(p, outcome[p[2]])
    BY DEF SettledInv, PointsAreEarned
  <2> QED BY <1>8, <1>9, <2>1
<1>11. AllOver(w, r.seen) => w \in Weeks /\ \A g \in GamesOf(w) : outcome[g] # "open"
  BY <1>1, ScoreAssumption DEF AllOver, GamesOf
<1>12. CompleteIsImported'
  BY <1>5, <1>11 DEF SettledInv, CompleteIsImported
<1>13. TableShapes'
  <2>1. voided' \subseteq Picks
    BY <1>1, <1>5 DEF SettledInv, TableShapes, PicksOf
  <2> QED BY <1>2, <1>3, <2>1 DEF SettledInv, TableShapes, NewPoints
<1>14. VoidedPicksEarnNothing'
  <2> SUFFICES ASSUME NEW p \in voided' PROVE points'[p] = NoPoints
    BY DEF VoidedPicksEarnNothing
  <2>1. CASE p \in PicksOf(w)
    BY <1>9, <2>1
  <2>2. CASE p \notin PicksOf(w)
    <3>1. p \in voided /\ points[p] = NoPoints
      BY <1>1, <1>5, <2>2 DEF SettledInv, VoidedPicksEarnNothing
    <3>2. p \in Picks
      BY <3>1 DEF SettledInv, TableShapes
    <3> QED BY <1>8, <2>2, <3>1, <3>2
  <2> QED BY <2>1, <2>2
<1>15. CompleteWeeksAreSettled'
  <2> SUFFICES ASSUME NEW v \in complete' PROVE weekly'[v] = WeeklyRows(v, DuePoints(v)')
    BY DEF CompleteWeeksAreSettled
  <2>1. v \in Weeks /\ \A g \in GamesOf(v) : outcome[g] # "open"
    BY <1>5, <1>12 DEF CompleteIsImported
  <2>2. CASE v = w
    <3>1. weekly'[v] = WeeklyRows(v, points')
      BY <1>3, <2>1, <2>2 DEF SettledInv, TableShapes
    <3>2. ASSUME NEW p \in PicksOf(v) PROVE points'[p] = DuePoints(v)'[p]
      <4>1. /\ p \in Picks /\ p[2] \in GamesOf(v) /\ p[2] \in Games
            /\ outcome[p[2]] # "open" /\ outcome'[p[2]] = outcome[p[2]]
        BY <1>5, <2>1, PickFacts
      <4>2. DuePoints(v)'[p] = IF p \notin voided' /\ outcome[p[2]] \in Final
                                 THEN EarnedOn(p, outcome[p[2]]) ELSE NoPoints
        BY <1>5, <4>1 DEF DuePoints
      <4>3. outcome[p[2]] \notin Final => points[p] = NoPoints
        BY <4>1 DEF SettledInv, PointsAreEarned
      <4> QED BY <1>9, <2>2, <4>2, <4>3
    <3> HIDE DEF DuePoints
    <3> QED BY <3>1, <3>2, RowsAreOfTheWeek
  <2>3. CASE v # w
    <3>1. v \in complete /\ weekly'[v] = weekly[v]
      BY <1>3, <1>5, <2>1, <2>3 DEF SettledInv, TableShapes
    <3>2. ASSUME NEW p \in PicksOf(v) PROVE DuePoints(v)'[p] = DuePoints(v)[p]
      <4>1. p \in Picks /\ p \notin PicksOf(w)
        BY <2>3 DEF PicksOf
      <4>2. p \in voided' <=> p \in voided
        BY <1>1, <1>5, <4>1
      <4> QED BY <1>5, <4>1, <4>2 DEF DuePoints
    <3>3. weekly[v] = WeeklyRows(v, DuePoints(v))
      BY <3>1 DEF SettledInv, CompleteWeeksAreSettled
    <3> HIDE DEF DuePoints
    <3> QED BY <3>1, <3>2, <3>3, RowsAreOfTheWeek
  <2> QED BY <2>2, <2>3
<1>16. SeasonMissesAtMostOneWeek'
  <2>1. CASE AllOver(w, r.seen) /\ w \notin complete
    <3>1. w \in Weeks \cup {0} /\ complete' \ {w} = complete
      BY <1>5, <1>11, <2>1
    <3> QED BY <1>4, <3>1 DEF SeasonMissesAtMostOneWeek
  <2>2. CASE ~(AllOver(w, r.seen) /\ w \notin complete)
    <3>1. complete' = complete /\ 0 \notin complete
      BY <1>5, <2>2, ScoreAssumption DEF SettledInv, CompleteIsImported, Weeks
    <3>2. complete' \ {0} = complete
      BY <3>1
    <3> QED BY <1>4, <3>2 DEF SeasonMissesAtMostOneWeek
  <2> QED BY <2>1, <2>2
<1> QED BY <1>7, <1>10, <1>12, <1>13, <1>14, <1>15, <1>16 DEF SettledInv

LEMMA SettledStep ==
  ASSUME NEW one, Scorers = {one}, SettledInv, [Next]_vars
  PROVE  SettledInv'
<1>1. CASE UNCHANGED vars
  <2>1. RunShape' /\ FeedsHaveHappened' /\ OutcomesAgree'
    BY <1>1 DEF vars, SettledInv, RunShape, FeedsHaveHappened, OutcomesAgree, Week
  <2>2. LoadedIsCurrent'
    BY <1>1 DEF vars, SettledInv, LoadedIsCurrent, Loaded, NewPoints
  <2> QED BY <1>1, <2>1, <2>2, ReadingKeepsTables DEF vars, tables, SettledInv
<1>2. CASE \E g \in Games, o \in Endings : GameEnds(g, o)
  BY <1>2, EndingKeepsSettled
<1>3. CASE Moves(one)
  BY <1>3, ReadingKeepsSettled, ImportKeepsSettled, CommitKeepsSettled
<1> QED BY <1>1, <1>2, <1>3 DEF Next, Moves

LEMMA SettledHolds == ASSUME NEW one, Scorers = {one} PROVE Spec => []SettledInv
BY SettledStart, SettledStep, PTL DEF Spec

\* Sessions that do not overlap leave every COMPLETE week with the rows that the
\* rules give for its imported outcomes and its voids.
THEOREM CompleteWeeksStaySettled ==
  ASSUME NEW one, Scorers = {one} PROVE Spec => []CompleteWeeksAreSettled
<1>1. SettledInv => CompleteWeeksAreSettled
  BY DEF SettledInv
<1> QED BY <1>1, SettledHolds, PTL

\* Their season rows count each COMPLETE week once, but for at most one of them.
THEOREM SeasonCountsWeeksOnce ==
  ASSUME NEW one, Scorers = {one} PROVE Spec => []SeasonMissesAtMostOneWeek
<1>1. SettledInv => SeasonMissesAtMostOneWeek
  BY DEF SettledInv
<1> QED BY <1>1, SettledHolds, PTL

\* No sync of theirs gives points back to a pick that was voided.
THEOREM VoidsStayVoid ==
  ASSUME NEW one, Scorers = {one} PROVE Spec => []VoidedPicksEarnNothing
<1>1. SettledInv => VoidedPicksEarnNothing
  BY DEF SettledInv
<1> QED BY <1>1, SettledHolds, PTL
===============================================================================
