------------------------------ MODULE MCQueue ------------------------------
(* Small instances of Queue for TLC. *)
EXTENDS Queue, TLC

\* Posting threads are interchangeable, and so are getting threads.
Symmetry == Permutations(Posters) \cup Permutations(Getters)
=============================================================================
