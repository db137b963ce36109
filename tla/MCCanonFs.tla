----------------------------- MODULE MCCanonFs ------------------------------
(* Small instances of CanonFs for TLC. *)
EXTENDS CanonFs

MCChunks == [o \in Objects |-> 1]
DriverSymmetry == Permutations(Drivers)
MCSymmetry == Permutations(Drivers) \cup Permutations(Objects)
=============================================================================
