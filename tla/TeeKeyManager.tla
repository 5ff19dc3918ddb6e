--------------------------- MODULE TeeKeyManager ----------------------------
(***************************************************************************)
(* ta/tee_key_manager/tee_key_manager.c.  The only state is the RSA pair   *)
(* in secure storage under the fixed id "mykey#0": 0 when there is none,   *)
(* n when it is the n-th pair ever generated.  Every operation maps the    *)
(* stored pair to the set of its possible outcomes, each with the          *)
(* TEE_Result and the pair that is stored afterwards.                      *)
(*                                                                         *)
(* Faults names the TEE calls that may fail although nothing is wrong with *)
(* their arguments:                                                        *)
(*   "malloc"    TEE_Malloc                                                *)
(*   "digest"    the allocation or the run of a SHA-256 operation          *)
(*   "open"      TEE_OpenPersistentObject on a pair that is stored         *)
(*   "generate"  allocation, generation or storing of a new pair           *)
(*   "sign", "decrypt", "verify"  the allocation, keying or run of that    *)
(*              operation                                                  *)
(***************************************************************************)
EXTENDS TrustChainConsts

CONSTANTS
  Faults,     \* the calls that may fail
  MaxKeyGen   \* bound: how many pairs a behaviour may generate

FaultKind == {"malloc", "digest", "open", "generate", "sign", "decrypt", "verify"}
ASSUME FaultsAssumption == Faults \subseteq FaultKind
ASSUME MaxKeyGenAssumption == MaxKeyGen \in Nat \ {0}

StoredKey == 0..MaxKeyGen

Outcome(res, key) == [res |-> res, key |-> key]
When(condition, outcomes) == IF condition THEN outcomes ELSE {}
Failed(outcomes) == {Outcome(TEE_ERROR_GENERIC, o.key) : o \in outcomes}

CanFail(call) == call \in Faults

\* Mutant: the stored pair is never found again.
OpenFailsAlways(k) == TRUE

\* The open fails when there is no pair, and may fail when there is one; both
\* lead to the generation of a new pair, stored with TEE_DATA_FLAG_OVERWRITE.
OpenFails(k) == k = 0 \/ CanFail("open")

load_or_generate_key_pair(k) ==
  When(k # 0, {Outcome(TEE_SUCCESS, k)})
    \cup When(OpenFails(k) /\ k < MaxKeyGen, {Outcome(TEE_SUCCESS, k + 1)})
    \cup When(OpenFails(k) /\ CanFail("generate"), {Outcome(TEE_ERROR_GENERIC, k)})

\* The pair is loaded first; a failed signature leaves it as the load left it.
tee_sign_hash(k) ==
  load_or_generate_key_pair(k)
    \cup When(CanFail("sign"), Failed(load_or_generate_key_pair(k)))

\* A SHA-256 computation followed by tee_sign_hash: tee_sign_data, and also
\* the "hash the block, then sign the hash" of the three block producers.
tee_sign_data(k) ==
  tee_sign_hash(k) \cup When(CanFail("digest"), {Outcome(TEE_ERROR_GENERIC, k)})

\* The signature was made with the pair signer; it verifies under the stored
\* pair only.  A text that is not a signature is one of no pair.
tee_verify_signature(k, signer) ==
  {o \in load_or_generate_key_pair(k) : o.key = signer}
    \cup Failed({o \in load_or_generate_key_pair(k) : o.key # signer \/ CanFail("verify")})

\* enc is the pair a ciphertext was made for, 0 for a string that is not hex
\* (rejected before the pair is loaded).
tee_decrypt_data(k, enc) ==
  IF enc = 0
  THEN {Outcome(TEE_ERROR_BAD_PARAMETERS, k)}
  ELSE {o \in load_or_generate_key_pair(k) : o.key = enc}
         \cup Failed({o \in load_or_generate_key_pair(k) : o.key # enc \/ CanFail("decrypt")})
=============================================================================
