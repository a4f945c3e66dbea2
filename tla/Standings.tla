------------------------------- MODULE Standings -------------------------------
(***************************************************************************)
(* The weekly leaderboard: leaderboard_service.py, which reads the results *)
(* that ScoreSync describes, with the payments and voids that decide whose *)
(* picks count (member_payment_service.py).                                *)
(*                                                                         *)
(* A board is put together from several SELECTs of one READ COMMITTED      *)
(* transaction: the results, then the entries and the points left, then    *)
(* the games and picks.  The sync writes behind its back: it commits the   *)
(* imported outcomes, and the scores in another transaction.  A board is   *)
(* `fresh` when scores and outcomes agreed while it was read.  What is     *)
(* shown about eliminations is right for fresh boards; README, section 3,  *)
(* says what the others may show.                                          *)
(***************************************************************************)
EXTENDS ScoringRules

CONSTANTS
  Week,         \* the week of the board
  Formal,       \* members with a week_submissions row
  Debtors,      \* members whose payment the commissioner may mark either way
  SundayNight,  \* games that kick off on a Sunday from 18:00 on
  MondayNight,  \* games that kick off on a Monday
  Kickoff,      \* when the games kick off
  Endings       \* bound: how each game may end

ASSUME StandingsAssumption ==
  /\ Week \in Weeks
  /\ {Formal, Debtors} \subseteq SUBSET Members
  /\ {SundayNight, MondayNight} \subseteq SUBSET GamesOf(Week)
  /\ MondayNight # {}
  /\ Kickoff \in [GamesOf(Week) -> Nat]
  /\ Endings \in [GamesOf(Week) -> SUBSET (Outcome \ {"open"})]

VARIABLES
  outcome,   \* nfl_games
  points,    \* picks.points_earned
  voided,    \* picks with a voided_at
  weekly,    \* weekly_results of the week
  paid,      \* members with is_paid in member_weekly_payments
  unscored,  \* games whose end is imported and not scored yet
  reader,    \* the request that is reading a board, or has shown it
  out        \* members that fresh boards have shown as eliminated

tables == <<outcome, points, voided, weekly, paid, unscored>>
vars == <<outcome, points, voided, weekly, paid, unscored, reader, out>>

TheGames == GamesOf(Week)
ThePicks == PicksOf(Week)
OpenGames(seen) == {g \in TheGames : seen[g] = "open"}
Idle == [pc |-> "idle"]

TypeOK ==
  /\ outcome \in [TheGames -> Outcome]
  /\ points \in [ThePicks -> Nat \cup {NoPoints}]
  /\ voided \subseteq ThePicks
  /\ weekly \in [Members -> WeeklyRow]
  /\ paid \subseteq Members
  /\ unscored \subseteq TheGames \ OpenGames(outcome)
  /\ reader.pc \in {"idle", "entries", "games", "shown"}
  /\ reader.pc = "shown" => reader.out \subseteq DOMAIN reader.board
  /\ out \subseteq Members

(***************************************************************************)
(* What a board is made of.                                                *)
(***************************************************************************)
PaidPlaces == 3

PicksBy(m) == {p \in ThePicks : p[1] = m}

\* list_submitted_user_ids: a formal submission or a complete card.
Entries(voids) ==
  Formal \cup {m \in Members :
                 /\ Cardinality(PicksBy(m) \ voids) = Cardinality(TheGames)
                 /\ {Conf(p) : p \in PicksBy(m) \ voids} = 1..Cardinality(TheGames)}

\* Broken variant: cancelled games still count.
PointsLeft_Cancelled(seen, voids) ==
  [m \in Members |->
     MapThenSumSet(Conf, {p \in PicksBy(m) \ voids : seen[p[2]] \in {"open", "cancelled"}})]

\* _points_remaining_by_user.
PointsLeft(seen, voids) ==
  [m \in Members |->
     MapThenSumSet(Conf, {p \in PicksBy(m) \ voids : seen[p[2]] = "open"})]

\* Broken variant: the points left are forgotten, and a draw counts as lost.
OutOfReach_Now(row, left, S) ==
  {m \in S : Cardinality({n \in S \ {m} : row[n].total >= row[m].total}) >= PaidPlaces}

\* _mark_eliminated: three rivals already have more than m can still reach.
OutOfReach(row, left, S) ==
  {m \in S : Cardinality({n \in S \ {m} : row[n].total > row[m].total + left[m]})
               >= PaidPlaces}

\* _ranked_members: the rank and the most points of each member.
RankedMembers(row, left, S) ==
  LET rank == RankIn(row, S)
  IN  [m \in S |-> [rank |-> rank[m], most |-> row[m].total + left[m]]]

\* Broken variants: a miss leaves the tie-breaker alone; picks that have been
\* voided score.
Projected_ForgetsMisses(row, seen, voids, win) ==
  [m \in Members |->
     LET due == {p \in PicksBy(m) \ voids : p[2] \in DOMAIN win /\ seen[p[2]] = "open"}
         hits == {p \in due : Card[m][p[2]].team = win[p[2]]}
     IN  [row[m] EXCEPT !.total = @ + MapThenSumSet(Conf, hits),
                        !.correct = @ + Cardinality(hits)]]
Projected_CountsVoided(row, seen, voids, win) ==
  [m \in Members |->
     LET due == {p \in PicksBy(m) : p[2] \in DOMAIN win /\ seen[p[2]] = "open"}
         hits == {p \in due : Card[m][p[2]].team = win[p[2]]}
     IN  [row[m] EXCEPT !.total = @ + MapThenSumSet(Conf, hits),
                        !.correct = @ + Cardinality(hits),
                        !.topLoss = Top({@} \cup {Conf(p) : p \in due \ hits})]]

\* _projected_ranks: the rows if the games in DOMAIN win are won as given.  A
\* game that is over is in the rows already.
Projected(row, seen, voids, win) ==
  [m \in Members |->
     LET due == {p \in PicksBy(m) \ voids : p[2] \in DOMAIN win /\ seen[p[2]] = "open"}
         hits == {p \in due : Card[m][p[2]].team = win[p[2]]}
     IN  [row[m] EXCEPT !.total = @ + MapThenSumSet(Conf, hits),
                        !.correct = @ + Cardinality(hits),
                        !.topLoss = Top({@} \cup {Conf(p) : p \in due \ hits})]]

\* The winners that the games of S may still have; ties are not enumerated.
Winners(S) == [S -> {"home", "away"}]

Placed(rank) == {m \in DOMAIN rank : rank[m] <= PaidPlaces}

\* _exact_eliminated_user_ids: out of the paid places whoever wins.
OutWhoeverWins(row, seen, voids, S) ==
  S \ UNION {Placed(RankIn(Projected(row, seen, voids, win), S)) : win \in Winners(OpenGames(seen))}

HalfIsOver(seen) ==
  TheGames # {} /\ 2 * Cardinality(TheGames \ OpenGames(seen)) >= Cardinality(TheGames)

\* _outcome_scenario_games: the Sunday and the late Monday night game, once
\* they are all that is left.
ScenarioGames(seen) ==
  LET late == CHOOSE g \in MondayNight : \A h \in MondayNight : Kickoff[h] <= Kickoff[g]
      last == SundayNight \cup {late}
  IN  IF Cardinality(SundayNight) = 1 /\ OpenGames(seen) \subseteq last THEN last ELSE {}

\* _outcome_scenarios: who is first to third if the open ones are won as given.
Scenario(row, seen, voids, S, win) ==
  LET rank == RankIn(Projected(row, seen, voids, win), S)
  IN  [place \in 1..PaidPlaces |-> {m \in S : rank[m] = place}]

\* get_league_pot: the prizes of a week with n entries, in cents.
SmallPots == <<
  <<1000, 0, 0>>, <<2000, 0, 0>>, <<2000, 1000, 0>>, <<2000, 1000, 1000>>, <<3000, 1000, 1000>> >>

Pot(n) == n * 1000

Prizes(n) ==
  CASE n \in 1..5 -> SmallPots[n]
    [] n = 0 -> <<0, 0, 0>>
    [] OTHER -> <<IF Pot(n) > 3000 THEN Pot(n) - 3000 ELSE 0, 2000, 1000>>

(***************************************************************************)
(* The sync and the commissioner.                                          *)
(***************************************************************************)
Scored(seen, voids) == [p \in ThePicks |-> Rescored(p, points, seen, voids)]

Init ==
  /\ outcome = [g \in TheGames |-> "open"]
  /\ points = [p \in ThePicks |-> NoPoints]
  /\ voided = {}
  /\ weekly = WeeklyRows(Week, points)
  /\ paid = Members \ Debtors
  /\ reader = Idle
  /\ unscored = {}
  /\ out = {}

\* A commit that a board under way may see one half of.
TearsReader ==
  reader' = IF reader.pc \in {"entries", "games"} THEN [reader EXCEPT !.fresh = FALSE] ELSE reader

\* The end of a game is imported; bound: a game ends after those that kicked off
\* before it.
Import(g, o) ==
  /\ outcome[g] = "open"
  /\ \A h \in OpenGames(outcome) : Kickoff[g] <= Kickoff[h]
  /\ outcome' = [outcome EXCEPT ![g] = o]
  /\ out' = IF o \in {"home", "away"} THEN out ELSE {}
  /\ unscored' = unscored \cup {g}
  /\ TearsReader
  /\ UNCHANGED <<points, voided, weekly, paid>>

\* A sync scores the week.
Score ==
  /\ unscored # {}
  /\ points' = Scored(outcome, voided)
  /\ weekly' = WeeklyRows(Week, points')
  /\ unscored' = {}
  /\ TearsReader
  /\ UNCHANGED <<outcome, voided, paid, out>>

\* mark_payment creates or updates the row of the member.
MarkPayment(m, isPaid) ==
  /\ paid' = IF isPaid THEN paid \cup {m} ELSE paid \ {m}
  /\ UNCHANGED <<outcome, points, voided, weekly, unscored, reader, out>>

\* void_unpaid_picks: no row and is_paid = FALSE count alike; voids and scores
\* in one transaction.
VoidUnpaid ==
  LET voids == voided \cup {p \in ThePicks : p[1] \notin paid}
  IN  /\ voids # voided
      /\ voided' = voids
      /\ points' = Scored(outcome, voids)
      /\ weekly' = WeeklyRows(Week, points')
      /\ unscored' = {}
      /\ out' = {}
      /\ TearsReader
      /\ UNCHANGED <<outcome, paid>>

(***************************************************************************)
(* get_weekly_leaderboard.                                                 *)
(***************************************************************************)
ReadResults ==
  /\ reader.pc \in {"idle", "shown"}
  /\ reader' = [pc |-> "entries", fresh |-> unscored = {}, row |-> weekly]
  /\ UNCHANGED <<tables, out>>

ReadEntries ==
  /\ reader.pc = "entries"
  /\ reader' = [pc |-> "games", fresh |-> reader.fresh, row |-> reader.row,
                entries |-> Entries(voided), left |-> PointsLeft(outcome, voided)]
  /\ UNCHANGED <<tables, out>>

\* The current-points check, replaced by the exact one once half the games are
\* over.
\* The 404 of a week without entries is an empty board.
ShowBoard ==
  LET r == reader
      flagged == IF HalfIsOver(outcome)
                   THEN OutWhoeverWins(r.row, outcome, voided, r.entries)
                   ELSE OutOfReach(r.row, r.left, r.entries)
  IN  /\ r.pc = "games"
      /\ reader' = [pc |-> "shown", out |-> flagged,
                    board |-> RankedMembers(r.row, r.left, r.entries)]
      /\ out' = IF r.fresh THEN flagged ELSE out
      /\ UNCHANGED tables

Next ==
  \/ \E g \in TheGames : \E o \in Endings[g] : Import(g, o)
  \/ \E m \in Debtors, isPaid \in BOOLEAN : MarkPayment(m, isPaid)
  \/ Score \/ VoidUnpaid
  \/ ReadResults \/ ReadEntries \/ ShowBoard

Spec == Init /\ [][Next]_vars

(***************************************************************************)
(* Properties.                                                             *)
(***************************************************************************)

\* The rows as the rules give them if the games end with these results.
Due(p, results) ==
  IF p \notin voided /\ results[p[2]] \in Final THEN EarnedOn(p, results[p[2]]) ELSE NoPoints
RowsFor(results) == WeeklyRows(Week, [p \in ThePicks |-> Due(p, results)])

\* The results of the week if the open games end as given.
EndedBy(win, seen) == [g \in TheGames |-> IF seen[g] = "open" THEN win[g] ELSE seen[g]]

\* Members in the paid places of some completion of the week that games with
\* winners give, scored from the beginning.
CanPlace ==
  UNION {Placed(RankIn(RowsFor(EndedBy(win, outcome)), Entries(voided))) :
           win \in Winners(OpenGames(outcome))}

ShowsFreshBoard == reader.pc = "games" /\ reader'.pc = "shown" /\ reader.fresh

\* A fresh board "never marks someone eliminated who can still place", as long as
\* the open games get winners, and once half are over it marks everyone who cannot.
FlagsAreRight ==
  [][ShowsFreshBoard =>
       /\ reader'.out \cap CanPlace = {}
       /\ HalfIsOver(outcome) => reader'.out = reader.entries \ CanPlace]_vars

\* Once shown as eliminated by a fresh board, a member is shown so by all later
\* fresh ones, also when the exact check takes over, unless a game ends without
\* a winner or picks are voided.
EliminationIsFinal == [][ShowsFreshBoard => out \subseteq reader'.out]_vars

\* The greatest score a fresh board gives a member is the one that the rules give
\* if the open games are won as the member picked.
MostIsReachable ==
  [][ShowsFreshBoard =>
       \A m \in reader.entries :
         LET asPicked == [g \in OpenGames(outcome) |-> IF g \in DOMAIN Card[m] THEN Card[m][g].team ELSE "home"]
         IN  reader'.board[m].most = RowsFor(EndedBy(asPicked, outcome))[m].total]_vars

\* What the scenario table says of an outcome is what the leaderboard shows when
\* the games have ended that way and have been scored.
ScenariosComeTrue ==
  unscored = {} /\ ScenarioGames(outcome) # {} =>
    \A win \in Winners(OpenGames(outcome)) :
      LET S == Entries(voided)
          final == RankIn(RowsFor(EndedBy(win, outcome)), S)
      IN  Scenario(weekly, outcome, voided, S, win)
            = [place \in 1..PaidPlaces |-> {m \in S : final[m] = place}]

===============================================================================
