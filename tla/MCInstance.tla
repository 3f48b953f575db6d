----------------------------- MODULE MCInstance -----------------------------
(* Instances of Instance for TLC: a root and the actors that it and its     *)
(* children may spawn.                                                      *)
EXTENDS Instance, TLC
CONSTANTS r, a1, a2

OneEach == [a \in Actor |-> 1]
TwoEach == [a \in Actor |-> 2]
RootTwo == [a \in Actor |-> IF a = r THEN 2 ELSE 1]

Symmetry == Permutations(Actor \ Root) \cup Permutations(Thread)
=============================================================================
