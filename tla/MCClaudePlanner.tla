--------------------------- MODULE MCClaudePlanner ---------------------------
(* No element at all, and as many as are enough, of one id; "c" is on no list. *)
EXTENDS ClaudePlanner, TLC

MCViews == {<<>>, <<"a", "a">>}
Same == Permutations(Planners)
=============================================================================
