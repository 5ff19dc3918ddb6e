---------------------------- MODULE MCTeeKeyStore ----------------------------
(***************************************************************************)
(* Constants of TeeKeyStore for TLC: two instances, which may be exchanged. *)
(***************************************************************************)
EXTENDS TeeKeyStoreProps, TLC

CONSTANTS i1, i2

InstanceSymmetry == Permutations(Instance)
=============================================================================
