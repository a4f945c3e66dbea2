------------------------------ MODULE MCStandings ------------------------------
(* A week of five games: two that end early, one on Sunday night and two on   *)
(* Monday night, and five members.                                            *)
EXTENDS Standings, TLC

MCMembers == 1..5

\* A card from the teams and the confidences, in the order of MCWeekOf's games.
CardOf(teams, confs) ==
  [g \in {"a", "b", "s", "m", "n"} |->
     LET i == CHOOSE i \in 1..5 : <<"a", "b", "s", "m", "n">>[i] = g
     IN  [team |-> teams[i], conf |-> confs[i]]]

MCWeekOf == [g \in {"a", "b", "s", "m", "n"} |-> 1]

H == "home"
A == "away"

\* Members 1 to 3 like the favourites; 4 bets on the underdogs; 5 has left out a
\* game and has not submitted.
MCCard ==
  1 :> CardOf(<<H, H, H, H, H>>, <<5, 4, 3, 2, 1>>) @@
  2 :> CardOf(<<H, H, A, H, A>>, <<4, 5, 1, 3, 2>>) @@
  3 :> CardOf(<<H, H, H, A, H>>, <<5, 4, 2, 1, 3>>) @@
  4 :> CardOf(<<A, A, A, A, H>>, <<5, 4, 1, 2, 3>>) @@
  5 :> [g \in {"a", "b", "s"} |-> CardOf(<<H, H, A, A, A>>, <<5, 4, 3, 2, 1>>)[g]]

MCKickoff == "a" :> 1 @@ "b" :> 1 @@ "s" :> 2 @@ "m" :> 3 @@ "n" :> 4

MCEndings ==
  "a" :> {"home", "cancelled"} @@ "b" :> {"home"} @@
  "s" :> {"away", "tie"} @@ "m" :> {"home", "away"} @@ "n" :> {"away"}
===============================================================================
