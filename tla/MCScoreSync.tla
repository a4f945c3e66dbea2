----------------------------- MODULE MCScoreSync -----------------------------
\* Instances of ScoreSync for TLC: two members, one of them with a card that
\* misses a game, and two weeks of one or two games.
EXTENDS ScoreSync

CONSTANTS s1, s2

MCMembers == {1, 2}

P(team, conf) == [team |-> team, conf |-> conf]

\* Week 1 has two games, week 2 has one.
TwoWeeks == "a" :> 1 @@ "b" :> 1 @@ "c" :> 2
TwoWeekCards ==
  1 :> ("a" :> P("home", 2) @@ "b" :> P("home", 1) @@ "c" :> P("home", 1)) @@
  2 :> ("a" :> P("away", 2) @@ "c" :> P("home", 1))

\* One week, one game.
OneWeek == "a" :> 1
OneWeekCards == 1 :> ("a" :> P("home", 1)) @@ 2 :> ("a" :> P("away", 1))

\* Whether member 2 has paid is up to the commissioner.
NobodyUnpaid == {}
MayVoid == {{2}}
===============================================================================
