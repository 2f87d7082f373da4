------------------------- MODULE MCTraderLifecycle -------------------------
(* TraderLifecycle on small instances. *)
EXTENDS TraderLifecycle, TLC

Symmetry == Permutations(Client) \cup Permutations(Slot)
=============================================================================
