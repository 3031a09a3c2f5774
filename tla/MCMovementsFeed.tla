--------------------------- MODULE MCMovementsFeed --------------------------
(***************************************************************************)
(* MovementsFeed for TLC: every settled world with small and large pages,  *)
(* and the worlds that are not settled, or late, with middling ones.       *)
(***************************************************************************)
EXTENDS MovementsFeed

ThreeMoves == 1 .. 3
PageSizes == {1, 2, 4}

SomeWorlds ==
  {w \in [whole : BOOLEAN, late : BOOLEAN, settled : BOOLEAN, limit : PageSizes] :
     (w.settled /\ ~w.late) \/ w.limit = 2}
=============================================================================
