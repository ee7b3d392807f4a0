---------------------------- MODULE MCSpillStore ----------------------------
(* Instances of SpillStore: where the workers run and how long outputs are. *)
EXTENDS SpillStore, TLC

OwnProcess == [w \in Workers |-> w]
OneProcess == [w \in Workers |-> "p"]
OneByte == [r \in Refs |-> 1]
Symmetry == Permutations(Workers) \cup Permutations(Refs)
=============================================================================
