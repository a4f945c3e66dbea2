------------------------------ MODULE MCPickCards ------------------------------
(* Small instances of PickViews: a first week of two games, to which a third  *)
(* is added, and a second week of one game.                                   *)
EXTENDS PickViews, TLC

CONSTANTS g1, g2, g3

Feed(w, at) == [week |-> w, at |-> at]
Body(w, c, v) == [week |-> w, conf |-> c, void |-> v]

\* Week 1 as first imported, and with g2 added; week 2.
MCFeeds == {
  Feed(1, g1 :> 1),
  Feed(1, g1 :> 1 @@ g2 :> 2),
  Feed(2, g3 :> 2)}

\* The first card, the full card, which is out of range before g2 is imported,
\* a swap that voids g1, and the next week's card.
MCPayloads == {
  Body(1, g1 :> 1, {}), Body(1, g1 :> 2 @@ g2 :> 1, {}), Body(1, g2 :> 2, {g1}),
  Body(2, g3 :> 1, {})}

\* A week whose schedule does not change.
FixedFeed == {Feed(1, g1 :> 1 @@ g2 :> 2)}

RequestSymmetry == Permutations(Requests)
===============================================================================
