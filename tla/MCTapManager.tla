------------------------------ MODULE MCTapManager ------------------------------
(* Instances of TapManager for TLC. *)
EXTENDS TapManager, TLC

(* The callers, addresses and session ids are interchangeable. *)
Symmetry ==
  Permutations(Callers) \union Permutations(Addrs) \union Permutations(Sessions)

=============================================================================
