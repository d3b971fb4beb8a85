------------------------------ MODULE MCTQueue ------------------------------
(* Instance of TQueue for TLC: threads and values are interchangeable.     *)
EXTENDS TQueue, TLC

Symmetry == Permutations(Threads) \cup Permutations(Values)
=============================================================================
