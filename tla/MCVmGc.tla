------------------------------- MODULE MCVmGc -------------------------------
(* Small instances of VmGc for TLC. *)
EXTENDS VmGc

MCPool == <<2>>
RegSymmetry == Permutations(Regs)
=============================================================================
