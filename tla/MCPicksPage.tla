----------------------------- MODULE MCPicksPage -----------------------------
(* A browser with the picks page in one tab and another page in a second tab; *)
(* two games, one of them picked.                                             *)
EXTENDS PicksPage, TLC

CONSTANTS picks, other, card, button, away, f1, f2, f3, g1, g2

MCTabOf == f1 :> picks @@ f2 :> picks @@ f3 :> picks @@ card :> picks @@ button :> picks @@ away :> other
MCChoices == {<<g2, 2>>, <<g2, 1>>}
MCFirstCards ==
  {g1 :> [conf |-> 1, voided |-> FALSE] @@ g2 :> [conf |-> 0, voided |-> FALSE]}
==============================================================================
