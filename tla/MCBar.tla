------------------------------- MODULE MCBar --------------------------------
EXTENDS Bar

(* The same two bottles named in either order. *)
AnyOrder == {<<1, 2, 0>>, <<2, 1, 0>>}
=============================================================================
