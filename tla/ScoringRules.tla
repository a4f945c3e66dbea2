---------------------------- MODULE ScoringRules ----------------------------
(***************************************************************************)
(* What scoring_service.score_week computes, as operators: the points of a *)
(* pick, the weekly rows with their ranks, the season rows.  ScoreSync     *)
(* runs them against changing tables; Standings reads the weekly rows.     *)
(* The incorrect-pick and placement counts are left out: they follow from  *)
(* the columns kept.                                                       *)
(***************************************************************************)
EXTENDS Integers, FiniteSetsExt, Functions

CONSTANTS
  Members,     \* user ids, numbers because they break ties by their order
  LastWeek,    \* weeks are numbered 1..LastWeek
  WeekOf,      \* week of each game
  Card         \* Card[m][g] = [team, conf]: the card of a member, maybe partial

Weeks == 1..LastWeek
Games == DOMAIN WeekOf
GamesOf(w) == {g \in Games : WeekOf[g] = w}
Picks == {p \in Members \X Games : p[2] \in DOMAIN Card[p[1]]}
Conf(p) == Card[p[1]][p[2]].conf
PicksOf(w) == {p \in Picks : WeekOf[p[2]] = w}

ASSUME ScoreAssumption ==
  /\ Members \subseteq Nat /\ IsFiniteSet(Members) /\ IsFiniteSet(Games)
  /\ LastWeek \in Nat
  /\ WeekOf \in [Games -> Weeks]
  /\ \A p \in Picks : Conf(p) \in Nat \ {0} /\ Card[p[1]][p[2]].team \in {"home", "away"}

\* game_status with the winner of a final game: "open" is scheduled or playing.
Final == {"home", "away", "tie"}
Outcome == {"open", "cancelled"} \cup Final
NoPoints == -1       \* points_earned is NULL

WeeklyRow == [total : Nat, correct : Nat, topWin : Nat, topLoss : Nat, rank : Nat]
SeasonRow == [total : Nat, wins : Nat, topWin : Nat, rank : Nat]

\* Broken variant: a wrong pick costs its confidence.
EarnedOn_Penalty(p, o) == IF Card[p[1]][p[2]].team = o THEN Conf(p) ELSE -Conf(p)

EarnedOn(p, o) == IF Card[p[1]][p[2]].team = o THEN Conf(p) ELSE 0

\* Broken variant: a voided pick is rescored like any other.
Rescored_Voided(p, pts, seen, voids) ==
  IF seen[p[2]] \in Final THEN EarnedOn(p, seen[p[2]]) ELSE pts[p]

\* The points of a pick after the loop over the picks: only a final game sets
\* them, and a void clears them.
Rescored(p, pts, seen, voids) ==
  CASE p \in voids -> NoPoints
    [] p \notin voids /\ seen[p[2]] \in Final -> EarnedOn(p, seen[p[2]])
    [] OTHER -> pts[p]

Top(S) == Max({0} \cup S)

\* _rank_key without the user id: ties share a weekly rank, which is one more
\* than the number of those ahead.
Ahead(a, b) ==
  \/ a.total > b.total
  \/ a.total = b.total /\ a.correct > b.correct
  \/ a.total = b.total /\ a.correct = b.correct /\ a.topLoss < b.topLoss

\* The ranks of the rows of the members of S among each other.
RankIn(row, S) ==
  LET table == {<<m, row[m]>> : m \in S}
      ahead(r) == {t \in table : Ahead(t[2], r)}
  IN  [m \in S |-> LET mine == row[m] IN 1 + Cardinality(ahead(mine))]

\* The rows of a week in which the picks have the points pts, ranks included.
RowsFrom(pts) ==
  LET scored(m) == {p \in DOMAIN pts : p[1] = m /\ pts[p] # NoPoints}
      fresh(mine) ==
        LET won == {p \in mine : pts[p] > 0}
        IN  [total |-> SumFunctionOnSet(pts, mine),
             correct |-> Cardinality(won),
             topWin |-> Top({Conf(p) : p \in won}),
             topLoss |-> Top({Conf(p) : p \in mine \ won}),
             rank |-> 0]
      row == [m \in Members |-> fresh(scored(m))]
      rank == RankIn(row, Members)
  IN  [m \in Members |-> [row[m] EXCEPT !.rank = rank[m]]]

WeeklyRows(w, pts) == RowsFrom([p \in PicksOf(w) |-> pts[p]])

\* The season rows for the weekly results res of the weeks in done.
SeasonRows(done, res) ==
  LET row == [m \in Members |->
               [total |-> SumFunctionOnSet([w \in done |-> res[w][m].total], done),
                wins |-> Cardinality({w \in done : res[w][m].rank = 1}),
                topWin |-> Top({res[w][m].topWin : w \in done}),
                rank |-> 0, id |-> m]]
      ahead(a, b) ==
        \/ a.total > b.total
        \/ a.total = b.total /\ a.wins > b.wins
        \/ a.total = b.total /\ a.wins = b.wins /\ a.topWin > b.topWin
        \/ a.total = b.total /\ a.wins = b.wins /\ a.topWin = b.topWin /\ a.id < b.id
  IN  [m \in Members |->
        [total |-> row[m].total, wins |-> row[m].wins, topWin |-> row[m].topWin,
         rank |-> 1 + Cardinality({n \in Members : ahead(row[n], row[m])})]]
===============================================================================
