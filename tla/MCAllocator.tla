----------------------------- MODULE MCAllocator -----------------------------
(* Instances of Allocator for TLC.                                          *)
EXTENDS Allocator

AllAlgorithms == {"first_fit", "best_fit", "worst_fit", "none"}

(* Page-aligned addresses, page 0 excepted. *)
PageBases == {a \in 1 .. AddrLimit : a % PAGE = 0}
=============================================================================
