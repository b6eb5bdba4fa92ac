---------------------------- MODULE MCLiveOrders ----------------------------
(* Small instances of LiveOrders for TLC. *)
EXTENDS LiveOrders, TLC

\* Nothing orders the members of these sets.
Symmetry == Permutations(Callers) \cup Permutations(BrokerIds) \cup Permutations(RowIds)
=============================================================================
