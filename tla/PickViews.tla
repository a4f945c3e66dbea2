------------------------------- MODULE PickViews -------------------------------
(***************************************************************************)
(* Who sees whose picks, and when: the four pages on which a member of the *)
(* league is shown the picks of the others (picks_service.py and           *)
(* leaderboard_service.py), beside the requests of PickCards that change   *)
(* them.                                                                   *)
(*                                                                         *)
(* The pages change nothing, so each is the set of the weeks it shows picks *)
(* of.  A page compares the clock with kickoffs once and reads the picks   *)
(* after it; it is taken to show them at the moment of the comparison, any *)
(* pick of a week stands for the week, and every member is taken to look   *)
(* at every page at every moment.                                          *)
(***************************************************************************)
EXTENDS PickCards

CONSTANT NightTimes   \* moments that are a Sunday or a Monday night in the league's zone

ASSUME NightAssumption == NightTimes \subseteq Nat

VARIABLES
  revealed,   \* history: weeks some page has shown the members' picks of
  knew        \* history: whether the week of a save had been revealed when it arrived

viewVars == <<vars, revealed, knew>>

ViewTypeOK ==
  /\ TypeOK
  /\ revealed \subseteq weeks
  /\ knew \in [Requests -> BOOLEAN]

ViewInit ==
  /\ Init
  /\ revealed = {}
  /\ knew = [r \in Requests |-> FALSE]

(***************************************************************************)
(* The pages.                                                              *)
(***************************************************************************)
HasStarted(games) == games # {} /\ Min({kickoff[g] : g \in games}) <= clock

\* The week whose cards are asked for, by default the current one.
Asked(number) == IF number = NoWeek THEN CurrentWeek ELSE number

\* Everybody's cards of a week, once its earliest kickoff has passed.
AllPicks(w) == {v \in weeks : v = w /\ HasStarted(GamesOf(v))}

OnAllPicks(number) == AllPicks(Asked(number))

NightGames(w) == {g \in GamesOf(w) : kickoff[g] \in NightTimes}

\* The picks of its night games on a week's board, once the first has kicked off.
OnBoard(w) == {v \in weeks : v = w /\ HasStarted(NightGames(v))}

\* Broken variant: a week is revealed once it has been released.
WeekRevealed_Released(w) == w \in weeks /\ startDate[w] <= clock

\* _week_revealed: scored final, or some game has kicked off.
WeekRevealed(w) == w \in weeks /\ (w \in complete \/ KickedOff(w))

\* How the league has picked the games of the season's revealed weeks.
OnBreakdown == {w \in Weeks : WeekRevealed(w)}

\* Everybody's pick of one game.
OnGame(g) == {w \in Weeks : w = weekOf[g] /\ WeekRevealed(w)}

Visible ==
  UNION ({OnBreakdown} \cup {OnAllPicks(n) : n \in Weeks \cup {NoWeek}}
           \cup {OnBoard(w) : w \in Weeks} \cup {OnGame(g) : g \in Games})

(***************************************************************************)
(* The whole.                                                              *)
(***************************************************************************)

\* What a save knew when it arrived stays with it until it ends.
Remember(r) ==
  knew' = [knew EXCEPT ![r] =
             /\ phase'[r] # "idle"
             /\ IF phase[r] = "idle" THEN phase'[r] = "save" /\ aim'[r] \in revealed ELSE @]

ViewNext ==
  \/ CalendarStep /\ revealed' = revealed \cup Visible' /\ UNCHANGED knew
  \/ \E r \in Requests :
       (Arrive(r) \/ Step(r) \/ Abort(r)) /\ Remember(r) /\ UNCHANGED revealed

ViewSpec == ViewInit /\ [][ViewNext]_viewVars

(***************************************************************************)
(* Properties.                                                             *)
(***************************************************************************)

\* No member changes a card of a week with a save sent after any page has shown
\* the others' picks of it: "nobody sees a rival's late-game picks while they
\* can still change their own", although a save that was under way at the
\* kickoff may commit after the picks were shown.
NoChangeOfMind ==
  [][\A u \in Users, g \in Games :
       conf'[u][g] # conf[u][g] \/ (g \in voided[u] /\ g \notin voided'[u])
         => \E r \in Requests : phase[r] = "save_write" /\ who[r] = u /\ ~knew[r]]_viewVars
===============================================================================
