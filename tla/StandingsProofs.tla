---------------------------- MODULE StandingsProofs ----------------------------
(***************************************************************************)
(* The weekly leaderboard, for every league, week, card and ending: rows   *)
(* and flags keep their types, a scenario comes true as promised; and of   *)
(* boards that were fresh: nobody is flagged who places in a completion    *)
(* with winners, a flag stays, and the greatest score shown can be         *)
(* reached.  What the argument rests on is that points are sums            *)
(* (ScoringProofs): a projection that adds the confidences won to a row    *)
(* gives the row that rescoring from the beginning gives.                  *)
(***************************************************************************)
EXTENDS Standings, ScoringProofs

\* However many members enter, the three prizes of get_league_pot add up to the
\* pot, none is negative, and a better place never wins less.
THEOREM PrizesUseUpThePot ==
  ASSUME NEW n \in Nat
  PROVE  /\ Prizes(n)[1] + Prizes(n)[2] + Prizes(n)[3] = Pot(n)
         /\ Prizes(n)[1] >= Prizes(n)[2]
         /\ Prizes(n)[2] >= Prizes(n)[3]
         /\ Prizes(n)[3] >= 0
<1>1. CASE n \in 1..5
  <2>1. n = 1 \/ n = 2 \/ n = 3 \/ n = 4 \/ n = 5
    BY <1>1
  <2>2. Prizes(n) = SmallPots[n]
    BY <1>1 DEF Prizes
  <2> QED BY <2>1, <2>2 DEF SmallPots, Pot
<1>2. CASE n = 0
  <2>1. Prizes(n) = <<0, 0, 0>>
    BY <1>2 DEF Prizes
  <2> QED BY <1>2, <2>1 DEF Pot
<1>3. CASE n > 5
  <2>1. Prizes(n) = <<IF Pot(n) > 3000 THEN Pot(n) - 3000 ELSE 0, 2000, 1000>>
    BY <1>3 DEF Prizes
  <2>2. n * 1000 >= 6000
    BY <1>3
  <2> QED BY <2>1, <2>2 DEF Pot
<1> QED BY <1>1, <1>2, <1>3

\* The current-points check is sound: a member it marks is not in a paid place
\* of any later rows in which nobody has lost points and the member has won no
\* more than was left.
THEOREM OutOfReachNeverPlaces ==
  ASSUME NEW S, IsFiniteSet(S), NEW m \in S,
         NEW row, NEW later, NEW left,
         \A k \in S : row[k].total \in Nat /\ later[k].total \in Nat,
         left[m] \in Nat,
         \A k \in S : later[k].total >= row[k].total,
         later[m].total <= row[m].total + left[m],
         m \in OutOfReach(row, left, S)
  PROVE  m \notin Placed(RankIn(later, S))
<1> DEFINE rivals == {k \in S \ {m} : row[k].total > row[m].total + left[m]}
           table == {<<k, later[k]>> : k \in S}
           ahead == {t \in table : Ahead(t[2], later[m])}
<1>1. Cardinality(rivals) >= PaidPlaces
  BY DEF OutOfReach
<1>2. \A k \in rivals : <<k, later[k]>> \in ahead
  <2> SUFFICES ASSUME NEW k \in rivals PROVE Ahead(later[k], later[m])
    OBVIOUS
  <2> QED BY DEF Ahead
<1>3. IsFiniteSet(table)
  <2> DEFINE g == [k \in S |-> <<k, later[k]>>]
  <2>1. g \in Surjection(S, table)
    BY DEF Surjection
  <2> QED BY <2>1, FS_Surjection
<1>4. IsFiniteSet(ahead)
  BY <1>3, FS_Subset
<1>5. IsFiniteSet(rivals)
  BY FS_Subset
<1>6. Cardinality(rivals) <= Cardinality(ahead)
  <2> DEFINE f == [k \in rivals |-> <<k, later[k]>>]
  <2>1. f \in Injection(rivals, ahead)
    BY <1>2 DEF Injection, IsInjective
  <2> QED BY <2>1, <1>4, FS_Injection
<1>7. Cardinality(ahead) \in Nat /\ Cardinality(rivals) \in Nat
  BY <1>4, <1>5, FS_CardinalityType
<1>8. RankIn(later, S)[m] = 1 + Cardinality(ahead)
  BY DEF RankIn
<1> QED BY <1>1, <1>6, <1>7, <1>8 DEF Placed, PaidPlaces
(***************************************************************************)
(* The rows of a week as its games end.                                    *)
(***************************************************************************)

Results == [TheGames -> Outcome]

\* The points and the rows of the week with these results and voids.
PointsOf(seen, voids) ==
  [p \in ThePicks |->
     IF p \notin voids /\ seen[p[2]] \in Final THEN EarnedOn(p, seen[p[2]]) ELSE NoPoints]
RowsOf(seen, voids) == RowsFrom(PointsOf(seen, voids))

LEMMA RowsForAreRowsOf ==
  ASSUME NEW results
  PROVE  RowsFor(results) = RowsOf(results, voided) /\ RowsFor(results)' = RowsOf(results, voided')
<1>1. ASSUME NEW pts PROVE [p \in ThePicks |-> [q \in ThePicks |-> pts[q]][p]] = [p \in ThePicks |-> pts[p]]
  OBVIOUS
<1> QED BY DEF RowsFor, RowsOf, WeeklyRows, PointsOf, Due, ThePicks

LEMMA ThePicksArePicks ==
  /\ ThePicks \in SUBSET Picks /\ IsFiniteSet(ThePicks)
  /\ \A p \in ThePicks : /\ p[1] \in Members /\ p[2] \in TheGames
                         /\ Conf(p) \in Nat \ {0}
                         /\ Card[p[1]][p[2]].team \in {"home", "away"}
<1>1. ThePicks \in SUBSET Picks
  BY DEF ThePicks, PicksOf
<1>2. IsFiniteSet(ThePicks)
  BY <1>1, PicksAreFinite, FS_Subset
<1>3. ASSUME NEW p \in ThePicks
      PROVE  /\ p[1] \in Members /\ p[2] \in TheGames
             /\ Conf(p) \in Nat \ {0}
             /\ Card[p[1]][p[2]].team \in {"home", "away"}
  BY ScoreAssumption DEF ThePicks, PicksOf, Picks, TheGames, GamesOf
<1> QED BY <1>1, <1>2, <1>3

\* The picks of a member that the step from results to later ones decides.
DecidedBy(m, seen, later, voids) ==
  {p \in PicksBy(m) \ voids : seen[p[2]] = "open" /\ later[p[2]] \in Final}
HitsOf(m, seen, later, voids) ==
  {p \in DecidedBy(m, seen, later, voids) : Card[m][p[2]].team = later[p[2]]}

\* No game that has ended ends again.
Extends(seen, later) == \A g \in TheGames : seen[g] # "open" => later[g] = seen[g]

LEMMA PointsOfTyped ==
  ASSUME NEW seen, NEW voids
  PROVE  PointsOf(seen, voids) \in [ThePicks -> Points]
<1>1. \A p \in ThePicks : EarnedOn(p, seen[p[2]]) \in Nat
  BY ThePicksArePicks DEF EarnedOn
<1> QED BY <1>1 DEF PointsOf, Points

\* The picks that later results score are those scored before and those decided.
LEMMA ScoredGrow ==
  ASSUME NEW m \in Members, NEW voids, NEW seen \in Results, NEW later \in Results,
         Extends(seen, later)
  PROVE  LET old == PointsOf(seen, voids)
             new == PointsOf(later, voids)
             due == DecidedBy(m, seen, later, voids)
             hits == HitsOf(m, seen, later, voids)
         IN  /\ ScoredOf(m, new) = ScoredOf(m, old) \cup due
             /\ ScoredOf(m, old) \cap due = {}
             /\ \A p \in ScoredOf(m, old) : new[p] = old[p]
             /\ hits \subseteq due /\ due \subseteq ThePicks
             /\ \A p \in hits : new[p] = Conf(p) /\ Conf(p) > 0
             /\ \A p \in due \ hits : new[p] = 0
<1> DEFINE old == PointsOf(seen, voids)
           new == PointsOf(later, voids)
           due == DecidedBy(m, seen, later, voids)
           hits == HitsOf(m, seen, later, voids)
           mine(results) == {p \in PicksBy(m) \ voids : results[p[2]] \in Final}
<1>1. ASSUME NEW results PROVE ScoredOf(m, PointsOf(results, voids)) = mine(results)
  <2>1. \A p \in ThePicks : EarnedOn(p, results[p[2]]) # NoPoints
    BY ThePicksArePicks DEF EarnedOn, NoPoints
  <2>2. DOMAIN PointsOf(results, voids) = ThePicks
    BY DEF PointsOf
  <2>3. \A p \in ThePicks : PointsOf(results, voids)[p] # NoPoints
                              <=> p \notin voids /\ results[p[2]] \in Final
    BY <2>1 DEF PointsOf
  <2> QED BY <2>2, <2>3 DEF ScoredOf, PicksBy
<1>2. ASSUME NEW p \in ThePicks
      PROVE  /\ seen[p[2]] \in Outcome /\ later[p[2]] \in Outcome
             /\ seen[p[2]] # "open" => later[p[2]] = seen[p[2]]
  BY ThePicksArePicks DEF Results, Extends
<1>3. mine(later) = mine(seen) \cup due /\ mine(seen) \cap due = {}
  BY <1>2 DEF DecidedBy, PicksBy, Outcome, Final
<1>4. \A p \in mine(seen) : new[p] = old[p]
  <2> SUFFICES ASSUME NEW p \in mine(seen) PROVE new[p] = old[p]
    OBVIOUS
  <2>1. p \in ThePicks /\ p \notin voids /\ seen[p[2]] \in Final
    BY DEF PicksBy
  <2>2. later[p[2]] = seen[p[2]]
    BY <1>2, <2>1 DEF Final
  <2> QED BY <2>1, <2>2 DEF PointsOf
<1>5. hits \subseteq due /\ due \subseteq ThePicks
  BY DEF HitsOf, DecidedBy, PicksBy
<1>6. ASSUME NEW p \in due
      PROVE  new[p] = (IF Card[m][p[2]].team = later[p[2]] THEN Conf(p) ELSE 0) /\ Conf(p) > 0
  <2>1. p \in ThePicks /\ p[1] = m /\ p \notin voids /\ later[p[2]] \in Final
    BY DEF DecidedBy, PicksBy
  <2>2. new[p] = EarnedOn(p, later[p[2]])
    BY <2>1 DEF PointsOf
  <2> QED BY <2>1, <2>2, ThePicksArePicks DEF EarnedOn
<1>7. /\ \A p \in hits : new[p] = Conf(p) /\ Conf(p) > 0
      /\ \A p \in due \ hits : new[p] = 0
  BY <1>6 DEF HitsOf
<1> HIDE DEF old, new, due, hits, mine
<1>8. ScoredOf(m, new) = mine(later) /\ ScoredOf(m, old) = mine(seen)
  BY <1>1 DEF new, old
<1>9. /\ ScoredOf(m, new) = ScoredOf(m, old) \cup due
      /\ ScoredOf(m, old) \cap due = {}
      /\ \A p \in ScoredOf(m, old) : new[p] = old[p]
  BY <1>3, <1>4, <1>8
<1> QED BY <1>5, <1>7, <1>9 DEF old, new, due, hits

\* What a completion of some games adds to the row of a member.
LEMMA RowsGrow ==
  ASSUME NEW m \in Members, NEW voids, NEW seen \in Results, NEW later \in Results,
         Extends(seen, later)
  PROVE  LET was == RowsOf(seen, voids)[m]
             now == RowsOf(later, voids)[m]
             due == DecidedBy(m, seen, later, voids)
             hits == HitsOf(m, seen, later, voids)
         IN  /\ now.total = was.total + MapThenSumSet(Conf, hits)
             /\ now.correct = was.correct + Cardinality(hits)
             /\ now.topLoss = Top({was.topLoss} \cup {Conf(p) : p \in due \ hits})
<1> DEFINE old == PointsOf(seen, voids)
           new == PointsOf(later, voids)
           due == DecidedBy(m, seen, later, voids)
           hits == HitsOf(m, seen, later, voids)
           mine == ScoredOf(m, old)
           all == ScoredOf(m, new)
           won == WonOf(m, old)
           allWon == WonOf(m, new)
           misses == due \ hits
           was == RowsFrom(old)[m]
           now == RowsFrom(new)[m]
<1>0. old \in [ThePicks -> Points] /\ new \in [ThePicks -> Points] /\ ThePicks \in SUBSET Picks
  BY PointsOfTyped, ThePicksArePicks
<1>1. /\ all = mine \cup due /\ mine \cap due = {}
      /\ \A p \in mine : new[p] = old[p]
      /\ hits \subseteq due /\ due \subseteq ThePicks
      /\ \A p \in hits : new[p] = Conf(p) /\ Conf(p) > 0
      /\ \A p \in misses : new[p] = 0
  BY ScoredGrow
<1>2. /\ was.total = SumFunctionOnSet(old, mine) /\ now.total = SumFunctionOnSet(new, all)
      /\ was.correct = Cardinality(won) /\ now.correct = Cardinality(allWon)
      /\ was.topLoss = Top({Conf(p) : p \in mine \ won})
      /\ now.topLoss = Top({Conf(p) : p \in all \ allWon})
  BY RowsAreSums
<1>3. /\ IsFiniteSet(all) /\ Counts(new, all) /\ IsFiniteSet(mine) /\ Counts(old, mine)
      /\ won \in SUBSET mine /\ IsFiniteSet(won) /\ IsFiniteSet(allWon)
      /\ {Conf(p) : p \in mine \ won} \in SUBSET Nat /\ IsFiniteSet({Conf(p) : p \in mine \ won})
      /\ {Conf(p) : p \in all \ allWon} \in SUBSET Nat
      /\ IsFiniteSet({Conf(p) : p \in all \ allWon})
  BY <1>0, PartsOfARow
<1>4. won = {p \in mine : old[p] > 0} /\ allWon = {p \in all : new[p] > 0}
  BY DEF WonOf
<1>5. RowsOf(seen, voids)[m] = was /\ RowsOf(later, voids)[m] = now
  BY DEF RowsOf
<1> HIDE DEF old, new, due, hits, mine, all, won, allWon, was, now
<1>6. now.total = was.total + MapThenSumSet(Conf, hits)
  <2>1. SumFunctionOnSet(new, all) = SumFunctionOnSet(new, mine) + SumFunctionOnSet(new, all \ mine)
    BY <1>1, <1>3, SumSplit
  <2>2. all \ mine = due /\ IsFiniteSet(due) /\ Counts(new, due)
    <3>1. all \ mine = due /\ due \in SUBSET all
      BY <1>1
    <3> QED BY <1>3, <3>1, FS_Subset DEF Counts
  <2>3. SumFunctionOnSet(new, mine) = SumFunctionOnSet(old, mine)
    BY <1>1, <1>3, SumSame
  <2>4. SumFunctionOnSet(new, due) = SumFunctionOnSet(new, hits) + SumFunctionOnSet(new, misses)
    BY <1>1, <2>2, SumSplit
  <2>5. SumFunctionOnSet(new, misses) = 0
    BY <1>1, <2>2, FS_Subset, SumOfZeros
  <2>6. SumFunctionOnSet(new, hits) = MapThenSumSet(Conf, hits) /\ SumFunctionOnSet(new, hits) \in Nat
    <3>1. IsFiniteSet(hits) /\ hits \in SUBSET Picks /\ Counts(new, hits)
      BY <1>0, <1>1, <2>2, FS_Subset DEF Counts
    <3> QED BY <1>1, <3>1, SumOfConfidences, SumIsANumber
  <2>7. SumFunctionOnSet(old, mine) \in Nat
    BY <1>3, SumIsANumber
  <2>8. MapThenSumSet(Conf, hits) \in Nat /\ SumFunctionOnSet(new, due) = MapThenSumSet(Conf, hits)
    BY <2>4, <2>5, <2>6
  <2>9. SumFunctionOnSet(new, all) = SumFunctionOnSet(old, mine) + SumFunctionOnSet(new, due)
    BY <2>1, <2>2, <2>3
  <2> QED BY <1>2, <2>8, <2>9
<1>7. allWon = won \cup hits /\ won \cap hits = {} /\ all \ allWon = (mine \ won) \cup misses
  <2>1. \A p \in mine : new[p] > 0 <=> old[p] > 0
    BY <1>1
  <2>2. \A p \in misses : ~(new[p] > 0)
    BY <1>1
  <2>3. \A p \in hits : new[p] > 0
    BY <1>1
  <2> QED BY <1>1, <1>4, <2>1, <2>2, <2>3
<1>8. now.correct = was.correct + Cardinality(hits)
  <2>1. IsFiniteSet(hits)
    BY <1>3, <1>7, FS_Subset
  <2>2. Cardinality(won \cup hits) = Cardinality(won) + Cardinality(hits) - Cardinality(won \cap hits)
    BY <1>3, <2>1, FS_Union
  <2>3. Cardinality(won \cap hits) = 0 /\ Cardinality(won) \in Nat /\ Cardinality(hits) \in Nat
    BY <1>3, <1>7, <2>1, FS_EmptySet, FS_CardinalityType
  <2> QED BY <1>2, <1>7, <2>2, <2>3
<1>9. now.topLoss = Top({was.topLoss} \cup {Conf(p) : p \in misses})
  <2> DEFINE lost == {Conf(p) : p \in mine \ won}
             missed == {Conf(p) : p \in misses}
             total == {Conf(p) : p \in all \ allWon}
  <2>1. total = lost \cup missed
    BY <1>7
  <2>2. /\ lost \in SUBSET Nat /\ IsFiniteSet(lost) /\ total \in SUBSET Nat /\ IsFiniteSet(total)
        /\ was.topLoss = Top(lost) /\ now.topLoss = Top(total)
    BY <1>2, <1>3
  <2> HIDE DEF lost, missed, total
  <2>3. missed \in SUBSET Nat /\ IsFiniteSet(missed)
    BY <2>1, <2>2, FS_Subset
  <2>4. Top(total) = Top({Top(lost)} \cup missed)
    BY <2>1, <2>2, <2>3, TopOfParts
  <2> QED BY <2>2, <2>4 DEF missed
<1> QED BY <1>5, <1>6, <1>8, <1>9 DEF due, hits

(***************************************************************************)
(* What boards are made of: projections, points left and eliminations.     *)
(***************************************************************************)

\* The confidences of some of the picks, summed.
LEMMA ConfidencesAddUp ==
  ASSUME NEW S \in SUBSET ThePicks, NEW T \in SUBSET S
  PROVE  /\ MapThenSumSet(Conf, T) \in Nat /\ MapThenSumSet(Conf, S) \in Nat
         /\ MapThenSumSet(Conf, T) <= MapThenSumSet(Conf, S)
         /\ MapThenSumSet(Conf, S) = MapThenSumSet(Conf, T) + MapThenSumSet(Conf, S \ T)
<1> DEFINE conf == [p \in ThePicks |-> Conf(p)]
<1>1. ASSUME NEW U \in SUBSET S
      PROVE  /\ IsFiniteSet(U) /\ Counts(conf, U)
             /\ MapThenSumSet(Conf, U) = SumFunctionOnSet(conf, U)
             /\ SumFunctionOnSet(conf, U) \in Nat
  <2>1. U \in SUBSET ThePicks
    OBVIOUS
  <2>2. IsFiniteSet(U) /\ U \in SUBSET Picks
    BY <2>1, ThePicksArePicks, FS_Subset
  <2>3. \A p \in U : conf[p] = Conf(p) /\ conf[p] \in Nat
    BY <2>1, ThePicksArePicks
  <2> HIDE DEF conf
  <2> QED BY <2>2, <2>3, SumOfConfidences, SumIsANumber DEF Counts
<1> HIDE DEF conf
<1>2. SumFunctionOnSet(conf, S) = SumFunctionOnSet(conf, T) + SumFunctionOnSet(conf, S \ T)
  BY <1>1, SumSplit
<1>3. T \in SUBSET S /\ S \in SUBSET S /\ S \ T \in SUBSET S
  OBVIOUS
<1>4. /\ MapThenSumSet(Conf, S) = SumFunctionOnSet(conf, S) /\ SumFunctionOnSet(conf, S) \in Nat
      /\ MapThenSumSet(Conf, T) = SumFunctionOnSet(conf, T) /\ SumFunctionOnSet(conf, T) \in Nat
      /\ MapThenSumSet(Conf, S \ T) = SumFunctionOnSet(conf, S \ T)
      /\ SumFunctionOnSet(conf, S \ T) \in Nat
  BY <1>1, <1>3
<1> QED BY <1>2, <1>4

\* The week completed with these results of the games that are open.
LEMMA EndedByExtends ==
  ASSUME NEW seen \in Results, NEW win \in [OpenGames(seen) -> Final]
  PROVE  LET later == EndedBy(win, seen)
         IN  /\ later \in Results /\ Extends(seen, later)
             /\ \A g \in OpenGames(seen) : later[g] = win[g]
<1>1. \A g \in TheGames : (IF seen[g] = "open" THEN win[g] ELSE seen[g]) \in Outcome
  BY DEF Results, OpenGames, Outcome
<1> QED BY <1>1 DEF EndedBy, Results, Extends, OpenGames

\* A projection to given winners is what the rules make of the week completed
\* with them, as far as the order of the board goes.
LEMMA ProjectionsAreExact ==
  ASSUME NEW voids, NEW seen \in Results, NEW win \in [OpenGames(seen) -> Final],
         NEW S \in SUBSET Members, IsFiniteSet(S)
  PROVE  RankIn(Projected(RowsOf(seen, voids), seen, voids, win), S)
           = RankIn(RowsOf(EndedBy(win, seen), voids), S)
<1> DEFINE later == EndedBy(win, seen)
           was == RowsOf(seen, voids)
           now == RowsOf(later, voids)
           projected == Projected(was, seen, voids, win)
<1>1. /\ later \in Results /\ Extends(seen, later)
      /\ \A g \in OpenGames(seen) : later[g] = win[g]
  BY EndedByExtends
<1> HIDE DEF later
<1>2. ASSUME NEW m \in S
      PROVE  /\ projected[m].total = now[m].total /\ projected[m].correct = now[m].correct
             /\ projected[m].topLoss = now[m].topLoss
  <2> DEFINE due == {p \in PicksBy(m) \ voids : p[2] \in DOMAIN win /\ seen[p[2]] = "open"}
             hits == {p \in due : Card[m][p[2]].team = win[p[2]]}
             misses == due \ hits
  <2>1. \A p \in PicksBy(m) : p[2] \in TheGames
    BY ThePicksArePicks DEF PicksBy
  <2>2. DOMAIN win = OpenGames(seen) /\ \A g \in OpenGames(seen) : win[g] \in Final
    OBVIOUS
  <2>3. due = DecidedBy(m, seen, later, voids)
    BY <1>1, <2>1, <2>2 DEF DecidedBy, OpenGames
  <2>4. \A p \in due : later[p[2]] = win[p[2]]
    BY <1>1, <2>1 DEF OpenGames
  <2>5. hits = HitsOf(m, seen, later, voids)
    BY <2>3, <2>4 DEF HitsOf
  <2>6. m \in Members
    OBVIOUS
  <2>7. /\ now[m].total = was[m].total + MapThenSumSet(Conf, hits)
        /\ now[m].correct = was[m].correct + Cardinality(hits)
        /\ now[m].topLoss = Top({was[m].topLoss} \cup {Conf(p) : p \in misses})
    <3>1. /\ now[m].total = was[m].total + MapThenSumSet(Conf, HitsOf(m, seen, later, voids))
          /\ now[m].correct = was[m].correct + Cardinality(HitsOf(m, seen, later, voids))
          /\ now[m].topLoss = Top({was[m].topLoss} \cup
               {Conf(p) : p \in DecidedBy(m, seen, later, voids) \ HitsOf(m, seen, later, voids)})
      BY <1>1, <2>6, RowsGrow
    <3>2. misses = DecidedBy(m, seen, later, voids) \ HitsOf(m, seen, later, voids)
      BY <2>3, <2>5
    <3> HIDE DEF due, hits, misses, was, now
    <3> QED BY <2>5, <3>1, <3>2
  <2>8. projected[m] = [was[m] EXCEPT !.total = @ + MapThenSumSet(Conf, hits),
                                      !.correct = @ + Cardinality(hits),
                                      !.topLoss = Top({@} \cup {Conf(p) : p \in misses})]
    BY DEF Projected
  <2>9. {"total", "correct", "topLoss"} \subseteq DOMAIN was[m]
    <3>1. was \in [Members -> WeeklyRow]
      BY PointsOfTyped, ThePicksArePicks, RowsAreTyped DEF RowsOf
    <3>2. was[m] \in WeeklyRow
      BY <3>1
    <3> QED BY <3>2 DEF WeeklyRow
  <2> HIDE DEF due, hits, misses, was, now, projected
  <2> QED BY <2>7, <2>8, <2>9
<1> HIDE DEF projected, now
<1>3. RankIn(projected, S) = RankIn(now, S)
  BY <1>2, SameOrderSameRanks
<1> QED BY <1>3 DEF projected, now, later

\* The totals never fall, and with the points left they never rise.
LEMMA LeftShrinks ==
  ASSUME NEW m \in Members, NEW voids, NEW seen \in Results, NEW later \in Results,
         Extends(seen, later)
  PROVE  LET was == RowsOf(seen, voids)[m].total
             now == RowsOf(later, voids)[m].total
             left == PointsLeft(seen, voids)[m]
             stillLeft == PointsLeft(later, voids)[m]
         IN  /\ was \in Nat /\ now \in Nat /\ left \in Nat /\ stillLeft \in Nat
             /\ was <= now /\ now + stillLeft <= was + left
<1> DEFINE was == RowsOf(seen, voids)[m].total
           now == RowsOf(later, voids)[m].total
           open(results) == {p \in PicksBy(m) \ voids : results[p[2]] = "open"}
           hits == HitsOf(m, seen, later, voids)
<1>1. /\ PointsLeft(seen, voids)[m] = MapThenSumSet(Conf, open(seen))
      /\ PointsLeft(later, voids)[m] = MapThenSumSet(Conf, open(later))
  BY DEF PointsLeft
<1>2. was \in Nat
  <2>1. RowsOf(seen, voids)[m] \in WeeklyRow
    BY PointsOfTyped, ThePicksArePicks, RowsAreTyped DEF RowsOf
  <2> QED BY <2>1 DEF WeeklyRow
<1>3. now = was + MapThenSumSet(Conf, hits)
  BY RowsGrow
<1>4. /\ open(seen) \in SUBSET ThePicks /\ open(later) \in SUBSET open(seen)
      /\ hits \in SUBSET (open(seen) \ open(later))
  <2>1. \A p \in PicksBy(m) : p[2] \in TheGames /\ p \in ThePicks
    BY ThePicksArePicks DEF PicksBy
  <2>2. \A p \in PicksBy(m) : later[p[2]] = "open" => seen[p[2]] = "open"
    BY <2>1 DEF Extends
  <2> QED BY <2>1, <2>2 DEF HitsOf, DecidedBy, Final
<1> DEFINE before == MapThenSumSet(Conf, open(seen))
           after == MapThenSumSet(Conf, open(later))
           gone == MapThenSumSet(Conf, open(seen) \ open(later))
           won == MapThenSumSet(Conf, hits)
<1>5. before \in Nat /\ after \in Nat /\ gone \in Nat /\ before = after + gone
  <2>1. open(seen) \ open(later) \in SUBSET open(seen)
    OBVIOUS
  <2> HIDE DEF open
  <2> QED BY <1>4, <2>1, ConfidencesAddUp
<1>6. won \in Nat /\ won <= gone
  <2>1. open(seen) \ open(later) \in SUBSET ThePicks
    BY <1>4
  <2> HIDE DEF open, hits
  <2> QED BY <1>4, <2>1, ConfidencesAddUp
<1>7. now = was + won /\ was \in Nat
  BY <1>2, <1>3
<1> HIDE DEF before, after, gone, won, was, now
<1>8. was <= now /\ now + after <= was + before /\ now \in Nat
  BY <1>5, <1>6, <1>7
<1> QED BY <1>1, <1>2, <1>5, <1>8 DEF before, after, was, now

\* With the games won as the member has picked, every point left is won.
LEMMA LeftIsReachable ==
  ASSUME NEW m \in Members, NEW voids, NEW seen \in Results,
         NEW win \in [OpenGames(seen) -> Final],
         \A g \in OpenGames(seen) : g \in DOMAIN Card[m] => win[g] = Card[m][g].team
  PROVE  RowsOf(EndedBy(win, seen), voids)[m].total
           = RowsOf(seen, voids)[m].total + PointsLeft(seen, voids)[m]
<1> DEFINE later == EndedBy(win, seen)
           open == {p \in PicksBy(m) \ voids : seen[p[2]] = "open"}
<1>1. later \in Results /\ Extends(seen, later) /\ \A g \in OpenGames(seen) : later[g] = win[g]
  BY EndedByExtends
<1> HIDE DEF later
<1>2. \A p \in PicksBy(m) : p[2] \in TheGames /\ p[2] \in DOMAIN Card[m]
  BY ThePicksArePicks DEF PicksBy, Picks
<1>3. \A p \in open : /\ p[2] \in OpenGames(seen) /\ later[p[2]] = win[p[2]]
                      /\ win[p[2]] \in Final /\ win[p[2]] = Card[m][p[2]].team
  BY <1>1, <1>2 DEF OpenGames
<1>4. HitsOf(m, seen, later, voids) = open
  BY <1>2, <1>3 DEF HitsOf, DecidedBy
<1>5. PointsLeft(seen, voids)[m] = MapThenSumSet(Conf, open)
  BY DEF PointsLeft
<1>6. RowsOf(later, voids)[m].total
        = RowsOf(seen, voids)[m].total + MapThenSumSet(Conf, HitsOf(m, seen, later, voids))
  BY <1>1, RowsGrow
<1> QED BY <1>4, <1>5, <1>6 DEF later

\* Who is out of reach is in no paid place when games have ended, and still out
\* of reach.
LEMMA OutOfReachForGood ==
  ASSUME NEW voids, NEW seen \in Results, NEW later \in Results, Extends(seen, later),
         NEW S \in SUBSET Members, IsFiniteSet(S),
         NEW m \in OutOfReach(RowsOf(seen, voids), PointsLeft(seen, voids), S)
  PROVE  /\ m \notin Placed(RankIn(RowsOf(later, voids), S))
         /\ m \in OutOfReach(RowsOf(later, voids), PointsLeft(later, voids), S)
<1> DEFINE was == RowsOf(seen, voids)
           now == RowsOf(later, voids)
           left == PointsLeft(seen, voids)
           stillLeft == PointsLeft(later, voids)
           ahead == {n \in S \ {m} : was[n].total > was[m].total + left[m]}
           stillAhead == {n \in S \ {m} : now[n].total > now[m].total + stillLeft[m]}
<1>1. ASSUME NEW k \in S
      PROVE  /\ was[k].total \in Nat /\ now[k].total \in Nat /\ left[k] \in Nat /\ stillLeft[k] \in Nat
             /\ was[k].total <= now[k].total
             /\ now[k].total + stillLeft[k] <= was[k].total + left[k]
  <2>1. k \in Members
    OBVIOUS
  <2> QED BY <2>1, LeftShrinks
<1>2. m \in S /\ Cardinality(ahead) >= PaidPlaces
  BY DEF OutOfReach
<1> HIDE DEF was, now, left, stillLeft
<1>3. ahead \subseteq stillAhead
  <2> SUFFICES ASSUME NEW n \in S, was[n].total > was[m].total + left[m]
               PROVE  now[n].total > now[m].total + stillLeft[m]
    OBVIOUS
  <2> QED BY <1>1, <1>2
<1>4. Cardinality(ahead) <= Cardinality(stillAhead) /\ Cardinality(ahead) \in Nat
      /\ Cardinality(stillAhead) \in Nat
  <2>1. IsFiniteSet(stillAhead)
    BY FS_Subset
  <2> HIDE DEF ahead, stillAhead
  <2> QED BY <1>3, <2>1, FS_Subset, FS_CardinalityType
<1>5. m \in OutOfReach(now, stillLeft, S)
  BY <1>2, <1>4 DEF OutOfReach, PaidPlaces
<1>6. m \notin Placed(RankIn(now, S))
  <2>1. m \in OutOfReach(was, left, S)
    BY DEF was, left
  <2>2. /\ \A k \in S : was[k].total \in Nat /\ now[k].total \in Nat
        /\ left[m] \in Nat
        /\ \A k \in S : now[k].total >= was[k].total
        /\ now[m].total <= was[m].total + left[m]
    BY <1>1, <1>2
  <2> QED BY <1>2, <2>1, <2>2, OutOfReachNeverPlaces
<1> QED BY <1>5, <1>6 DEF was, now, left, stillLeft

(***************************************************************************)
(* Eliminations of a board whose rows are those of the results.            *)
(***************************************************************************)

\* CanPlace and the flags of a board, for given results and voids.
CanPlaceOf(seen, voids) ==
  UNION {Placed(RankIn(RowsOf(EndedBy(win, seen), voids), Entries(voids))) :
           win \in Winners(OpenGames(seen))}
FlagsOf(seen, voids) ==
  IF HalfIsOver(seen) THEN OutWhoeverWins(RowsOf(seen, voids), seen, voids, Entries(voids))
  ELSE OutOfReach(RowsOf(seen, voids), PointsLeft(seen, voids), Entries(voids))

\* The members of gone are out, and will be flagged.
GoneFor(seen, voids, gone) ==
  /\ gone \subseteq Entries(voids)
  /\ gone \cap CanPlaceOf(seen, voids) = {}
  /\ ~HalfIsOver(seen) =>
       gone \subseteq OutOfReach(RowsOf(seen, voids), PointsLeft(seen, voids), Entries(voids))

LEMMA EntriesAreMembers ==
  ASSUME NEW voids PROVE Entries(voids) \in SUBSET Members /\ IsFiniteSet(Entries(voids))
<1>1. Entries(voids) \in SUBSET Members
  BY StandingsAssumption DEF Entries
<1> QED BY <1>1, ScoreAssumption, FS_Subset

LEMMA CanPlaceIs ==
  /\ CanPlace = CanPlaceOf(outcome, voided)
  /\ CanPlace' = CanPlaceOf(outcome', voided')
<1>1. ASSUME NEW results PROVE RowsFor(results) = RowsOf(results, voided)
  BY RowsForAreRowsOf
<1>2. ASSUME NEW results PROVE RowsFor(results)' = RowsOf(results, voided')
  BY RowsForAreRowsOf
<1> QED BY <1>1, <1>2 DEF CanPlace, CanPlaceOf

LEMMA WinnersAreFinal ==
  ASSUME NEW seen, NEW win \in Winners(OpenGames(seen))
  PROVE  win \in [OpenGames(seen) -> Final]
BY DEF Winners, Final

\* The exact check leaves out those who can place.
LEMMA ExactCheckIsExact ==
  ASSUME NEW voids, NEW seen \in Results
  PROVE  OutWhoeverWins(RowsOf(seen, voids), seen, voids, Entries(voids))
           = Entries(voids) \ CanPlaceOf(seen, voids)
<1>1. ASSUME NEW win \in Winners(OpenGames(seen))
      PROVE  RankIn(Projected(RowsOf(seen, voids), seen, voids, win), Entries(voids))
               = RankIn(RowsOf(EndedBy(win, seen), voids), Entries(voids))
  BY EntriesAreMembers, WinnersAreFinal, ProjectionsAreExact
<1> QED BY <1>1 DEF OutWhoeverWins, CanPlaceOf

\* A board flags nobody who can place, and everybody flagged before.
LEMMA FlagsAreSafe ==
  ASSUME NEW voids, NEW seen \in Results
  PROVE  /\ GoneFor(seen, voids, FlagsOf(seen, voids))
         /\ \A gone : GoneFor(seen, voids, gone) => gone \subseteq FlagsOf(seen, voids)
<1>1. CASE HalfIsOver(seen)
  BY <1>1, ExactCheckIsExact DEF FlagsOf, GoneFor
<1>2. CASE ~HalfIsOver(seen)
  <2> DEFINE S == Entries(voids)
             out0 == OutOfReach(RowsOf(seen, voids), PointsLeft(seen, voids), S)
  <2>1. ASSUME NEW m \in out0, NEW win \in Winners(OpenGames(seen))
        PROVE  m \notin Placed(RankIn(RowsOf(EndedBy(win, seen), voids), S))
    <3>1. EndedBy(win, seen) \in Results /\ Extends(seen, EndedBy(win, seen))
      BY WinnersAreFinal, EndedByExtends
    <3> QED BY <3>1, EntriesAreMembers, OutOfReachForGood
  <2>2. out0 \subseteq S
    BY DEF OutOfReach
  <2>3. out0 \cap CanPlaceOf(seen, voids) = {}
    BY <2>1 DEF CanPlaceOf
  <2> QED BY <1>2, <2>2, <2>3 DEF FlagsOf, GoneFor
<1> QED BY <1>1, <1>2

LEMMA GamesAreFinite == IsFiniteSet(TheGames) /\ TheGames \in SUBSET Games
<1>1. TheGames \in SUBSET Games
  BY DEF TheGames, GamesOf
<1> QED BY <1>1, ScoreAssumption, FS_Subset

\* Who is out stays out when a game ends with a winner.
LEMMA GoneStayGone ==
  ASSUME NEW voids, NEW seen \in Results, NEW g \in TheGames, seen[g] = "open",
         NEW o \in {"home", "away"}, NEW gone, GoneFor(seen, voids, gone)
  PROVE  GoneFor([seen EXCEPT ![g] = o], voids, gone)
<1> DEFINE later == [seen EXCEPT ![g] = o]
           S == Entries(voids)
<1>1. /\ later \in Results /\ Extends(seen, later)
      /\ \A h \in TheGames : later[h] = IF h = g THEN o ELSE seen[h]
  BY DEF Results, Extends, Outcome, Final
<1>2. OpenGames(later) = OpenGames(seen) \ {g} /\ g \in OpenGames(seen)
  BY <1>1 DEF OpenGames
<1> HIDE DEF later
<1>3. CanPlaceOf(later, voids) \subseteq CanPlaceOf(seen, voids)
  <2> SUFFICES ASSUME NEW win \in Winners(OpenGames(later))
               PROVE  \E all \in Winners(OpenGames(seen)) : EndedBy(all, seen) = EndedBy(win, later)
    BY DEF CanPlaceOf
  <2> DEFINE all == [h \in OpenGames(seen) |-> IF h = g THEN o ELSE win[h]]
  <2>1. all \in Winners(OpenGames(seen))
    BY <1>2 DEF Winners
  <2>2. ASSUME NEW h \in TheGames
        PROVE  (IF seen[h] = "open" THEN all[h] ELSE seen[h])
                 = (IF later[h] = "open" THEN win[h] ELSE later[h])
    BY <1>1, <1>2 DEF OpenGames
  <2>3. EndedBy(all, seen) = EndedBy(win, later)
    BY <2>2 DEF EndedBy
  <2> QED BY <2>1, <2>3
<1>4. ~HalfIsOver(later) => ~HalfIsOver(seen)
  <2> DEFINE over == TheGames \ OpenGames(seen)
             overNow == TheGames \ OpenGames(later)
  <2>1. over \in SUBSET overNow /\ overNow \in SUBSET TheGames
    BY <1>2
  <2>2. IsFiniteSet(overNow) /\ IsFiniteSet(over)
    BY <2>1, GamesAreFinite, FS_Subset
  <2> HIDE DEF over, overNow
  <2>3. /\ Cardinality(over) <= Cardinality(overNow) /\ Cardinality(over) \in Nat
        /\ Cardinality(overNow) \in Nat /\ Cardinality(TheGames) \in Nat
    BY <2>1, <2>2, GamesAreFinite, FS_Subset, FS_CardinalityType
  <2> QED BY <2>3 DEF HalfIsOver, over, overNow
<1>5. ASSUME ~HalfIsOver(later), NEW m \in gone
      PROVE  m \in OutOfReach(RowsOf(later, voids), PointsLeft(later, voids), S)
  <2>1. m \in OutOfReach(RowsOf(seen, voids), PointsLeft(seen, voids), S)
    BY <1>4, <1>5 DEF GoneFor
  <2> QED BY <1>1, <2>1, EntriesAreMembers, OutOfReachForGood
<1>6. GoneFor(later, voids, gone)
  BY <1>3, <1>5 DEF GoneFor
<1> QED BY <1>6 DEF later

(***************************************************************************)
(* The board.                                                              *)
(***************************************************************************)

\* Points are those of the imported results, except for games still to be scored.
PointsAreDue ==
  points = [p \in ThePicks |->
              IF p[2] \in unscored THEN NoPoints ELSE PointsOf(outcome, voided)[p]]

RowsAreScored == weekly = RowsFrom(points)

\* A fresh request has read what is there.
ReaderIsCurrent ==
  /\ reader.pc \in {"entries", "games"} => {"pc", "fresh"} \subseteq DOMAIN reader
  /\ reader.pc \in {"entries", "games"} /\ reader.fresh =>
       unscored = {} /\ reader.row = RowsOf(outcome, voided)
  /\ reader.pc = "games" /\ reader.fresh =>
       reader.left = PointsLeft(outcome, voided)
  /\ reader.pc = "games" /\ reader.fresh => reader.entries = Entries(voided)

BoardInv ==
  /\ TypeOK /\ PointsAreDue /\ RowsAreScored /\ ReaderIsCurrent
  /\ GoneFor(outcome, voided, out)

LEMMA GoneOfNobody ==
  ASSUME NEW seen, NEW voids PROVE GoneFor(seen, voids, {})
BY DEF GoneFor

\* The rows of a week that has been scored are those of its results.
LEMMA ScoredRows ==
  ASSUME TypeOK, PointsAreDue, RowsAreScored, unscored = {}
  PROVE  weekly = RowsOf(outcome, voided)
<1>1. points = PointsOf(outcome, voided)
  BY DEF PointsAreDue, PointsOf
<1> QED BY <1>1 DEF RowsAreScored, RowsOf

\* What score_week computes from the results it reads.
LEMMA ScoringIsDue ==
  ASSUME TypeOK, PointsAreDue, NEW voids, voided \subseteq voids
  PROVE  /\ Scored(outcome, voids) = PointsOf(outcome, voids)
         /\ WeeklyRows(Week, PointsOf(outcome, voids)) = RowsOf(outcome, voids)
<1>1. ASSUME NEW p \in ThePicks
      PROVE  Rescored(p, points, outcome, voids) = PointsOf(outcome, voids)[p]
  <2>1. CASE p \in voids \/ outcome[p[2]] \in Final
    BY <2>1 DEF Rescored, PointsOf
  <2>2. CASE p \notin voids /\ outcome[p[2]] \notin Final
    <3>1. Rescored(p, points, outcome, voids) = points[p]
      BY <2>2 DEF Rescored
    <3> QED BY <2>2, <3>1 DEF PointsAreDue, PointsOf
  <2> QED BY <2>1, <2>2
<1>2. Scored(outcome, voids) = PointsOf(outcome, voids)
  BY <1>1 DEF Scored, PointsOf
<1>3. [p \in PicksOf(Week) |-> PointsOf(outcome, voids)[p]] = PointsOf(outcome, voids)
  BY DEF PointsOf, ThePicks
<1> QED BY <1>2, <1>3 DEF WeeklyRows, RowsOf

LEMMA RowsOfTyped ==
  ASSUME NEW pts, pts \in [ThePicks -> Points] PROVE RowsFrom(pts) \in [Members -> WeeklyRow]
BY ThePicksArePicks, RowsAreTyped

LEMMA BoardStart == Init => BoardInv
<1> SUFFICES ASSUME Init PROVE BoardInv
  OBVIOUS
<1>1. /\ outcome = [g \in TheGames |-> "open"] /\ points = [p \in ThePicks |-> NoPoints]
      /\ voided = {} /\ weekly = WeeklyRows(Week, points) /\ paid \subseteq Members
      /\ reader = Idle /\ unscored = {} /\ out = {}
  BY DEF Init
<1>2. weekly = RowsFrom(points)
  BY <1>1 DEF WeeklyRows, ThePicks
<1>3. points \in [ThePicks -> Points] /\ outcome \in Results
  BY <1>1 DEF Points, Results, Outcome
<1>4. TypeOK
  BY <1>1, <1>2, <1>3, RowsOfTyped DEF TypeOK, Points, Results, Idle
<1>5. PointsAreDue
  <2>1. \A p \in ThePicks : outcome[p[2]] \notin Final
    BY <1>1, ThePicksArePicks DEF Final
  <2> QED BY <1>1, <2>1 DEF PointsAreDue, PointsOf
<1>6. ReaderIsCurrent
  BY <1>1 DEF ReaderIsCurrent, Idle
<1> QED BY <1>1, <1>2, <1>4, <1>5, <1>6, GoneOfNobody DEF BoardInv, RowsAreScored

\* What a commit leaves of a request that is reading.
LEMMA Torn ==
  ASSUME ReaderIsCurrent, TypeOK, TearsReader
  PROVE  /\ ReaderIsCurrent'
         /\ reader'.pc = reader.pc /\ (reader.pc = "shown" => reader' = reader)
<1>1. CASE reader.pc \in {"entries", "games"}
  <2>1. reader' = [reader EXCEPT !.fresh = FALSE] /\ {"pc", "fresh"} \subseteq DOMAIN reader
    BY <1>1 DEF TearsReader, ReaderIsCurrent
  <2>2. reader'.pc = reader.pc /\ reader'.fresh = FALSE /\ DOMAIN reader' = DOMAIN reader
    BY <2>1
  <2> QED BY <1>1, <2>1, <2>2 DEF ReaderIsCurrent
<1>2. CASE reader.pc \notin {"entries", "games"}
  <2>1. reader' = reader
    BY <1>2 DEF TearsReader
  <2> QED BY <1>2, <2>1 DEF ReaderIsCurrent
<1> QED BY <1>1, <1>2

LEMMA ImportKeepsBoard ==
  ASSUME BoardInv, NEW g \in TheGames, NEW o \in Endings[g], Import(g, o)
  PROVE  BoardInv'
<1>1. /\ outcome[g] = "open" /\ outcome' = [outcome EXCEPT ![g] = o]
      /\ out' = IF o \in {"home", "away"} THEN out ELSE {}
      /\ unscored' = unscored \cup {g} /\ TearsReader
      /\ UNCHANGED <<points, voided, weekly, paid>>
  BY DEF Import
<1>2. outcome \in Results /\ o \in Outcome /\ o # "open"
  <2>1. Endings[g] \in SUBSET (Outcome \ {"open"})
    BY StandingsAssumption DEF TheGames
  <2> QED BY <2>1 DEF BoardInv, TypeOK, Results
<1>3. /\ outcome' \in Results /\ \A h \in TheGames \ {g} : outcome'[h] = outcome[h]
      /\ outcome'[g] = o
  BY <1>1, <1>2 DEF Results
<1>4. ReaderIsCurrent' /\ reader'.pc = reader.pc /\ (reader.pc = "shown" => reader' = reader)
  BY <1>1, Torn DEF BoardInv
<1>5. TypeOK'
  <2>1. unscored' \subseteq TheGames \ OpenGames(outcome')
    BY <1>1, <1>2, <1>3 DEF BoardInv, TypeOK, OpenGames
  <2> QED BY <1>1, <1>3, <1>4, <2>1 DEF BoardInv, TypeOK, Results
<1>6. PointsAreDue'
  <2> SUFFICES ASSUME NEW p \in ThePicks
               PROVE  (IF p[2] \in unscored THEN NoPoints ELSE PointsOf(outcome, voided)[p])
                        = (IF p[2] \in unscored' THEN NoPoints ELSE PointsOf(outcome', voided)[p])
    BY <1>1 DEF BoardInv, PointsAreDue
  <2>1. CASE p[2] = g
    BY <1>1, <2>1 DEF PointsOf, Final
  <2>2. CASE p[2] # g
    <3>1. outcome'[p[2]] = outcome[p[2]]
      BY <1>3, <2>2, ThePicksArePicks
    <3> QED BY <1>1, <2>2, <3>1 DEF PointsOf
  <2> QED BY <2>1, <2>2
<1>7. GoneFor(outcome', voided', out')
  <2>1. CASE o \in {"home", "away"}
    BY <1>1, <1>2, <2>1, GoneStayGone DEF BoardInv
  <2>2. CASE o \notin {"home", "away"}
    BY <1>1, <2>2, GoneOfNobody
  <2> QED BY <2>1, <2>2
<1>8. GoneFor(outcome, voided, out)' /\ RowsAreScored'
  BY <1>1, <1>7 DEF BoardInv, RowsAreScored, GoneFor
<1> QED BY <1>4, <1>5, <1>6, <1>8 DEF BoardInv

\* Score and VoidUnpaid: the rows of these voids.
LEMMA ScoringKeepsBoard ==
  ASSUME BoardInv, NEW voids \in SUBSET ThePicks, voided \subseteq voids,
         voided' = voids, points' = Scored(outcome, voids),
         weekly' = WeeklyRows(Week, points'), unscored' = {},
         out' = {} \/ (out' = out /\ voids = voided),
         TearsReader, UNCHANGED <<outcome, paid>>
  PROVE  BoardInv'
<1>1. points' = PointsOf(outcome, voids) /\ weekly' = RowsOf(outcome, voids)
  BY ScoringIsDue DEF BoardInv
<1>2. points' \in [ThePicks -> Points] /\ weekly' = RowsFrom(points')
  BY <1>1, PointsOfTyped DEF RowsOf
<1>3. ReaderIsCurrent' /\ reader'.pc = reader.pc /\ (reader.pc = "shown" => reader' = reader)
  BY Torn DEF BoardInv
<1>4. TypeOK'
  <2>1. weekly' \in [Members -> WeeklyRow]
    BY <1>2, RowsOfTyped
  <2> QED BY <1>2, <1>3, <2>1 DEF BoardInv, TypeOK, Points
<1>5. PointsAreDue'
  BY <1>1 DEF PointsAreDue, PointsOf
<1>6. GoneFor(outcome', voided', out')
  BY GoneOfNobody DEF BoardInv
<1>7. GoneFor(outcome, voided, out)' /\ RowsAreScored'
  BY <1>2, <1>6 DEF RowsAreScored, GoneFor
<1> QED BY <1>3, <1>4, <1>5, <1>7 DEF BoardInv

LEMMA ReadingKeepsBoard ==
  ASSUME BoardInv, ReadResults \/ ReadEntries
  PROVE  BoardInv'
<1>1. UNCHANGED <<outcome, points, voided, weekly, paid, unscored, out>>
  BY DEF ReadResults, ReadEntries, tables
<1>2. /\ reader'.pc \in {"entries", "games"} /\ {"pc", "fresh"} \subseteq DOMAIN reader'
      /\ reader'.fresh => unscored = {} /\ reader'.row = RowsOf(outcome, voided)
      /\ reader'.pc = "games" => /\ reader'.left = PointsLeft(outcome, voided)
                                 /\ reader'.entries = Entries(voided)
  <2>1. CASE ReadResults
    <3>1. reader' = [pc |-> "entries", fresh |-> unscored = {}, row |-> weekly]
      BY <2>1 DEF ReadResults
    <3>2. reader'.pc = "entries" /\ reader'.fresh = (unscored = {}) /\ reader'.row = weekly
      BY <3>1
    <3>3. DOMAIN reader' = {"pc", "fresh", "row"}
      BY <3>1
    <3>4. unscored = {} => weekly = RowsOf(outcome, voided)
      BY ScoredRows DEF BoardInv
    <3> QED BY <3>2, <3>3, <3>4
  <2>2. CASE ReadEntries
    <3>1. /\ reader.pc = "entries"
          /\ reader' = [pc |-> "games", fresh |-> reader.fresh, row |-> reader.row,
                        entries |-> Entries(voided), left |-> PointsLeft(outcome, voided)]
      BY <2>2 DEF ReadEntries
    <3>2. /\ reader'.pc = "games" /\ reader'.fresh = reader.fresh /\ reader'.row = reader.row
          /\ reader'.entries = Entries(voided) /\ reader'.left = PointsLeft(outcome, voided)
      BY <3>1
    <3>3. {"pc", "fresh"} \subseteq DOMAIN reader'
      BY <3>1
    <3>4. reader.fresh => unscored = {} /\ reader.row = RowsOf(outcome, voided)
      BY <3>1 DEF BoardInv, ReaderIsCurrent
    <3> QED BY <3>2, <3>3, <3>4
  <2> QED BY <2>1, <2>2
<1>3. ReaderIsCurrent'
  BY <1>1, <1>2 DEF ReaderIsCurrent, PointsLeft, Entries, RowsOf, PointsOf
<1>4. TypeOK' /\ PointsAreDue' /\ RowsAreScored'
  BY <1>1, <1>2 DEF BoardInv, TypeOK, PointsAreDue, RowsAreScored, PointsOf
<1>5. GoneFor(outcome, voided, out)'
  BY <1>1 DEF BoardInv, GoneFor
<1> QED BY <1>3, <1>4, <1>5 DEF BoardInv

\* The flags of a fresh board are those of the results.
LEMMA FreshBoards ==
  ASSUME BoardInv, ShowBoard
  PROVE  /\ reader.pc = "games" /\ reader'.pc = "shown"
         /\ reader'.out \subseteq DOMAIN reader'.board
         /\ reader'.board = RankedMembers(reader.row, reader.left, reader.entries)
         /\ UNCHANGED <<outcome, points, voided, weekly, paid, unscored>>
         /\ ~reader.fresh => out' = out
         /\ reader.fresh => /\ reader.row = RowsOf(outcome, voided)
                            /\ reader.left = PointsLeft(outcome, voided)
                            /\ reader.entries = Entries(voided)
                            /\ reader'.out = FlagsOf(outcome, voided) /\ out' = reader'.out
<1> DEFINE flagged == IF HalfIsOver(outcome)
                        THEN OutWhoeverWins(reader.row, outcome, voided, reader.entries)
                        ELSE OutOfReach(reader.row, reader.left, reader.entries)
           board == RankedMembers(reader.row, reader.left, reader.entries)
<1>1. /\ reader.pc = "games"
      /\ reader' = [pc |-> "shown", out |-> flagged, board |-> board]
      /\ out' = IF reader.fresh THEN flagged ELSE out
      /\ UNCHANGED <<outcome, points, voided, weekly, paid, unscored>>
  BY DEF ShowBoard, tables
<1>2. flagged \subseteq reader.entries /\ DOMAIN board = reader.entries
  BY DEF OutWhoeverWins, OutOfReach, RankedMembers
<1>3. reader.fresh => /\ reader.row = RowsOf(outcome, voided)
                      /\ reader.left = PointsLeft(outcome, voided)
                      /\ reader.entries = Entries(voided)
  BY <1>1 DEF BoardInv, ReaderIsCurrent
<1>4. reader.fresh => flagged = FlagsOf(outcome, voided)
  BY <1>3 DEF FlagsOf
<1> HIDE DEF flagged, board
<1>5. reader'.pc = "shown" /\ reader'.out = flagged /\ reader'.board = board
  BY <1>1
<1>6. board = RankedMembers(reader.row, reader.left, reader.entries)
  BY DEF board
<1>7. /\ ~reader.fresh => out' = out
      /\ reader.fresh => reader'.out = FlagsOf(outcome, voided) /\ out' = reader'.out
  BY <1>1, <1>4, <1>5
<1>8. reader'.out \subseteq DOMAIN reader'.board
  BY <1>2, <1>5
<1> QED BY <1>1, <1>3, <1>5, <1>6, <1>7, <1>8

LEMMA ShowingKeepsBoard ==
  ASSUME BoardInv, ShowBoard
  PROVE  BoardInv'
<1>1. /\ reader'.pc = "shown" /\ reader'.out \subseteq DOMAIN reader'.board
      /\ UNCHANGED <<outcome, points, voided, weekly, paid, unscored>>
      /\ out' = out \/ out' = FlagsOf(outcome, voided)
  BY FreshBoards
<1>2. GoneFor(outcome, voided, out')
  BY <1>1, FlagsAreSafe DEF BoardInv, TypeOK, Results
<1>3. GoneFor(outcome, voided, out)'
  BY <1>1, <1>2 DEF GoneFor
<1>4. out' \subseteq Members
  BY <1>2, EntriesAreMembers DEF GoneFor
<1> QED BY <1>1, <1>3, <1>4
    DEF BoardInv, TypeOK, PointsAreDue, RowsAreScored, ReaderIsCurrent, PointsOf

LEMMA StepKeepsBoard == BoardInv /\ [Next]_vars => BoardInv'
<1> SUFFICES ASSUME BoardInv, [Next]_vars PROVE BoardInv'
  OBVIOUS
<1>1. CASE UNCHANGED vars
  BY <1>1 DEF vars, BoardInv, TypeOK, PointsAreDue, RowsAreScored, ReaderIsCurrent, GoneFor,
              PointsOf
<1>2. ASSUME NEW g \in TheGames, NEW o \in Endings[g], Import(g, o) PROVE BoardInv'
  BY <1>2, ImportKeepsBoard
<1>3. ASSUME NEW m \in Debtors, NEW isPaid \in BOOLEAN, MarkPayment(m, isPaid) PROVE BoardInv'
  <2>1. UNCHANGED <<outcome, points, voided, weekly, unscored, reader, out>>
    BY <1>3 DEF MarkPayment
  <2>2. paid' \subseteq Members
    BY <1>3, StandingsAssumption DEF MarkPayment, BoardInv, TypeOK
  <2> QED BY <2>1, <2>2
      DEF BoardInv, TypeOK, PointsAreDue, RowsAreScored, ReaderIsCurrent, GoneFor, PointsOf
<1>4. CASE Score
  <2>1. voided \in SUBSET ThePicks
    BY DEF BoardInv, TypeOK
  <2> QED BY <1>4, <2>1, ScoringKeepsBoard DEF Score
<1>5. CASE VoidUnpaid
  <2> DEFINE voids == voided \cup {p \in ThePicks : p[1] \notin paid}
  <2>1. voids \in SUBSET ThePicks /\ voided \subseteq voids
    BY DEF BoardInv, TypeOK
  <2>2. /\ voided' = voids /\ points' = Scored(outcome, voids) /\ weekly' = WeeklyRows(Week, points')
        /\ unscored' = {} /\ out' = {} /\ TearsReader /\ UNCHANGED <<outcome, paid>>
    BY <1>5 DEF VoidUnpaid
  <2> HIDE DEF voids
  <2> QED BY <2>1, <2>2, ScoringKeepsBoard
<1> QED BY <1>1, <1>2, <1>3, <1>4, <1>5, ReadingKeepsBoard, ShowingKeepsBoard DEF Next

LEMMA BoardInvHolds == Spec => []BoardInv
BY BoardStart, StepKeepsBoard, PTL DEF Spec

(***************************************************************************)
(* The theorems.                                                           *)
(***************************************************************************)

\* Whatever is imported, scored, voided and read, in whatever order, rows,
\* points and flags are of their types.
THEOREM TypeCorrect == Spec => []TypeOK
<1>1. BoardInv => TypeOK
  BY DEF BoardInv
<1> QED BY <1>1, BoardInvHolds, PTL

\* What the scenario table promises of any outcome of any league is what the
\* leaderboard shows when it has come about.
THEOREM ScenariosAreKept == Spec => []ScenariosComeTrue
<1>1. BoardInv => ScenariosComeTrue
  <2> SUFFICES ASSUME BoardInv, unscored = {}, NEW win \in Winners(OpenGames(outcome))
               PROVE  LET S == Entries(voided)
                          final == RankIn(RowsFor(EndedBy(win, outcome)), S)
                      IN  Scenario(weekly, outcome, voided, S, win)
                            = [place \in 1..PaidPlaces |-> {m \in S : final[m] = place}]
    BY DEF ScenariosComeTrue
  <2>1. weekly = RowsOf(outcome, voided) /\ outcome \in Results
    BY ScoredRows DEF BoardInv, TypeOK, Results
  <2>2. RankIn(Projected(weekly, outcome, voided, win), Entries(voided))
          = RankIn(RowsOf(EndedBy(win, outcome), voided), Entries(voided))
    BY <2>1, EntriesAreMembers, WinnersAreFinal, ProjectionsAreExact
  <2>3. RowsFor(EndedBy(win, outcome)) = RowsOf(EndedBy(win, outcome), voided)
    BY RowsForAreRowsOf
  <2> QED BY <2>2, <2>3 DEF Scenario
<1> QED BY <1>1, BoardInvHolds, PTL

\* Only a board that is shown ends a request.
LEMMA OnlyShowBoardShows ==
  ASSUME BoardInv, [Next]_vars, ShowsFreshBoard
  PROVE  ShowBoard /\ reader.fresh
<1>1. reader.pc = "games" /\ reader'.pc = "shown" /\ reader.fresh
  BY DEF ShowsFreshBoard
<1>2. ASSUME TearsReader PROVE FALSE
  BY <1>1, <1>2, Torn DEF BoardInv
<1>3. reader' # reader
  BY <1>1
<1>4. ~ReadResults /\ ~ReadEntries
  BY <1>1 DEF ReadResults, ReadEntries
<1>5. ~Score /\ ~VoidUnpaid /\ \A g \in TheGames : \A o \in Endings[g] : ~Import(g, o)
  BY <1>2 DEF Score, VoidUnpaid, Import
<1>6. \A m \in Debtors, isPaid \in BOOLEAN : ~MarkPayment(m, isPaid)
  BY <1>3 DEF MarkPayment
<1> QED BY <1>1, <1>3, <1>4, <1>5, <1>6 DEF Next, vars

\* However the sync, the voids and the reads interleave, a board that stayed fresh
\* through its reads flags nobody who is in a paid place of some completion in
\* which every open game has a winner, and after half the games all who are in
\* none.  It says nothing of a torn board, nor of open games that end in a tie.
THEOREM FlagsStayRight == Spec => FlagsAreRight
<1> DEFINE Right == ShowsFreshBoard =>
             /\ reader'.out \cap CanPlace = {}
             /\ HalfIsOver(outcome) => reader'.out = reader.entries \ CanPlace
<1>1. BoardInv /\ [Next]_vars => Right
  <2> SUFFICES ASSUME BoardInv, [Next]_vars, ShowsFreshBoard
               PROVE  /\ reader'.out \cap CanPlace = {}
                      /\ HalfIsOver(outcome) => reader'.out = reader.entries \ CanPlace
    OBVIOUS
  <2>1. ShowBoard /\ reader.fresh
    BY OnlyShowBoardShows
  <2>2. /\ reader'.out = FlagsOf(outcome, voided) /\ reader.entries = Entries(voided)
        /\ outcome \in Results
    BY <2>1, FreshBoards DEF BoardInv, TypeOK, Results
  <2>3. CanPlace = CanPlaceOf(outcome, voided)
    BY CanPlaceIs
  <2>4. GoneFor(outcome, voided, FlagsOf(outcome, voided))
    BY <2>2, FlagsAreSafe
  <2>5. HalfIsOver(outcome) => FlagsOf(outcome, voided) = Entries(voided) \ CanPlaceOf(outcome, voided)
    BY <2>2, ExactCheckIsExact DEF FlagsOf
  <2> QED BY <2>2, <2>3, <2>4, <2>5 DEF GoneFor
<1>2. BoardInv /\ [Next]_vars => [Right]_vars
  BY <1>1
<1> QED BY <1>2, BoardInvHolds, PTL DEF Spec, FlagsAreRight

\* A member who was shown as out is shown so by all later fresh boards, also
\* when the exact check takes over from the cheap one.
THEOREM EliminationsAreFinal == Spec => EliminationIsFinal
<1> DEFINE Kept == ShowsFreshBoard => out \subseteq reader'.out
<1>1. BoardInv /\ [Next]_vars => Kept
  <2> SUFFICES ASSUME BoardInv, [Next]_vars, ShowsFreshBoard PROVE out \subseteq reader'.out
    OBVIOUS
  <2>1. reader'.out = FlagsOf(outcome, voided) /\ outcome \in Results
    BY OnlyShowBoardShows, FreshBoards DEF BoardInv, TypeOK, Results
  <2>2. GoneFor(outcome, voided, out)
    BY DEF BoardInv
  <2> QED BY <2>1, <2>2, FlagsAreSafe
<1>2. BoardInv /\ [Next]_vars => [Kept]_vars
  BY <1>1
<1> QED BY <1>2, BoardInvHolds, PTL DEF Spec, EliminationIsFinal

\* The greatest score a fresh board gives is the one the rules give if the
\* open games are won as picked: no less, and no point that cannot be won.
THEOREM MostIsAlwaysReachable == Spec => MostIsReachable
<1> DEFINE Reachable == ShowsFreshBoard =>
             \A m \in reader.entries :
               LET asPicked == [g \in OpenGames(outcome) |->
                                  IF g \in DOMAIN Card[m] THEN Card[m][g].team ELSE "home"]
               IN  reader'.board[m].most = RowsFor(EndedBy(asPicked, outcome))[m].total
<1>1. BoardInv /\ [Next]_vars => Reachable
  <2> SUFFICES ASSUME BoardInv, [Next]_vars, ShowsFreshBoard, NEW m \in reader.entries
               PROVE  LET asPicked == [g \in OpenGames(outcome) |->
                                         IF g \in DOMAIN Card[m] THEN Card[m][g].team ELSE "home"]
                      IN  reader'.board[m].most = RowsFor(EndedBy(asPicked, outcome))[m].total
    OBVIOUS
  <2>1. ShowBoard /\ reader.fresh
    BY OnlyShowBoardShows
  <2>2. /\ reader.row = RowsOf(outcome, voided) /\ reader.left = PointsLeft(outcome, voided)
        /\ reader.entries = Entries(voided)
        /\ reader'.board = RankedMembers(reader.row, reader.left, reader.entries)
        /\ outcome \in Results
    BY <2>1, FreshBoards DEF BoardInv, TypeOK, Results
  <2>3. m \in Members
    BY <2>2, EntriesAreMembers
  <2>4. reader'.board[m].most = RowsOf(outcome, voided)[m].total + PointsLeft(outcome, voided)[m]
    BY <2>2 DEF RankedMembers
  <2> DEFINE asPicked == [g \in OpenGames(outcome) |->
                            IF g \in DOMAIN Card[m] THEN Card[m][g].team ELSE "home"]
  <2>5. asPicked \in [OpenGames(outcome) -> Final]
    <3>1. ASSUME NEW g \in OpenGames(outcome), g \in DOMAIN Card[m]
          PROVE  Card[m][g].team \in {"home", "away"}
      <4>1. <<m, g>> \in Picks
        BY <2>3, <3>1 DEF Picks, OpenGames, TheGames, GamesOf
      <4> QED BY <4>1, ScoreAssumption
    <3> QED BY <3>1 DEF Final
  <2>6. \A g \in OpenGames(outcome) : g \in DOMAIN Card[m] => asPicked[g] = Card[m][g].team
    OBVIOUS
  <2> HIDE DEF asPicked
  <2>7. RowsOf(EndedBy(asPicked, outcome), voided)[m].total
          = RowsOf(outcome, voided)[m].total + PointsLeft(outcome, voided)[m]
    BY <2>2, <2>3, <2>5, <2>6, LeftIsReachable
  <2>8. RowsFor(EndedBy(asPicked, outcome)) = RowsOf(EndedBy(asPicked, outcome), voided)
    BY RowsForAreRowsOf
  <2> QED BY <2>4, <2>7, <2>8 DEF asPicked
<1>2. BoardInv /\ [Next]_vars => [Reachable]_vars
  BY <1>1
<1> QED BY <1>2, BoardInvHolds, PTL DEF Spec, MostIsReachable
===============================================================================
