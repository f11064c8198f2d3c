----------------------------- MODULE MCEventRing -----------------------------
(* Small instances of EventRing for TLC; the threads are interchangeable. *)
EXTENDS EventRing, TLC

Symmetry == Permutations(Threads)
=============================================================================
