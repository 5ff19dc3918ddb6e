-------------------------- MODULE TeeKeyStoreProps ---------------------------
(***************************************************************************)
(* The correctness properties of TeeKeyStore.                              *)
(***************************************************************************)
EXTENDS TeeKeyStore

Call == {"open", "allocate", "generate", "create", "prepare", "attach", "use"}

\* Every variable has its type.
StoreTypeOK ==
  /\ stored \in 0..generated
  /\ generated \in 0..MaxPairs
  /\ pc \in [Instance -> Call \cup {"idle", "cleanup"}]
  /\ task \in [Instance -> Task]
  /\ key_pair \in [Instance -> {TEE_HANDLE_NULL} \cup Pair]
  /\ rsa_keypair \in [Instance -> {TEE_HANDLE_NULL, NoKeyYet} \cup Pair]
  /\ prepared \in [Instance -> BOOLEAN]
  /\ res \in [Instance -> TEE_Result]
  /\ before \in [Instance -> 0..MaxPairs]
  /\ alone \in [Instance -> BOOLEAN]

\* An instance between two tasks holds no handle, whichever of the TEE calls
\* failed: one that kept the pair open would lock all others out of it.
NoHandleLeft ==
  \A i \in Instance :
    pc[i] = "idle" => /\ key_pair[i] = TEE_HANDLE_NULL
                      /\ rsa_keypair[i] = TEE_HANDLE_NULL
                      /\ ~prepared[i]

\* The pair an instance works with is the one that is stored until it closes
\* it: a pair is persistent before its first signature exists, and no other
\* instance replaces it under the handle.
WorksWithStored ==
  \A i \in Instance : key_pair[i] # TEE_HANDLE_NULL => key_pair[i] = stored

-----------------------------------------------------------------------------
(* The tasks against the single steps of TeeKeyManager.                      *)

FaultsOf(call) ==
  CASE call = "open" -> {"open"}
    [] call \in {"allocate", "generate", "create"} -> {"generate"}
    [] OTHER -> {"sign", "decrypt", "verify"}

Atomic == INSTANCE TeeKeyManager
  WITH Faults <- UNION {FaultsOf(call) : call \in Failing}, MaxKeyGen <- MaxPairs + 2

\* TeeKeyManager numbers the pairs that were stored; here some are never
\* stored.  The pair from before keeps its number, a new one is the next.
NumberOf(i, pair) ==
  IF pair = before[i] THEN pair
  ELSE IF pair = stored THEN before[i] + 1
  ELSE MaxPairs + 2

Outcomes(i) ==
  LET t == task[i] IN
  IF t.kind = "sign" THEN Atomic!tee_sign_hash(before[i])
  ELSE IF t.kind = "verify" THEN Atomic!tee_verify_signature(before[i], NumberOf(i, t.arg))
  ELSE Atomic!tee_decrypt_data(before[i], IF t.arg = 0 THEN 0 ELSE NumberOf(i, t.arg))

\* A task that no other instance overlapped ends, whichever of its calls fail,
\* with an outcome that TeeKeyManager gives for the pair stored at its start:
\* the specification of the TA may take it for one step.
AtomicIfAlone ==
  \A i \in Instance :
    pc[i] = "cleanup" /\ alone[i] /\ task[i].kind # "export"
      => Atomic!Outcome(res[i], NumberOf(i, stored)) \in Outcomes(i)

-----------------------------------------------------------------------------
\* tee_key_manager.c:45: the key does not exist, a new pair is generated.  A
\* stored pair is never replaced.
StoredPairStays == [][stored # 0 => stored' = stored]_storeVars
=============================================================================
