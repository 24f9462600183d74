------------------------------ MODULE MCGcHeap ------------------------------
(* Small instances of GcHeap for TLC. *)
EXTENDS GcHeap, TLC

\* Addresses and green threads are interchangeable.
HeapSymmetry == Permutations(Addrs) \cup Permutations(Fibers)
=============================================================================
