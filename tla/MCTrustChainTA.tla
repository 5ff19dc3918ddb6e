--------------------------- MODULE MCTrustChainTA ---------------------------
(***************************************************************************)
(* Constants of TrustChainTA for TLC.                                      *)
(***************************************************************************)
EXTENDS TrustChainTAProps, TLC

CONSTANTS k1, k2, k3

\* All keys differ within their first 256 characters.
DistinctPrefixes == [k \in Key |-> k]

KeySymmetry == Permutations(Key)

AllButOpen == FaultKind \ {"open"}

\* Nonces as 4 bytes, lowest first: with a zero byte, and with and without one.
SmallNonces == {<<1, 1, 0, 0>>, <<1, 2, 0, 0>>}
MixedNonces == {<<1, 1, 1, 1>>, <<2, 1, 1, 1>>, <<1, 1, 0, 0>>}
=============================================================================
