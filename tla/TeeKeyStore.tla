----------------------------- MODULE TeeKeyStore -----------------------------
(***************************************************************************)
(* ta/tee_key_manager/tee_key_manager.c TEE call by TEE call.  The TA is   *)
(* multi-instance: every session has an instance of its own, whose calls   *)
(* interleave with those of the others, and all of them keep their RSA     *)
(* pair under the same id "mykey#0".  TeeKeyManager has the same           *)
(* operations as single steps.                                             *)
(*                                                                         *)
(* The tasks are tee_sign_hash, tee_verify_signature, tee_decrypt_data and *)
(* the opening of the pair by get_tee_public_key.  An instance may die     *)
(* between any two calls; the TEE then releases its handles, and storage   *)
(* keeps what it has.                                                      *)
(***************************************************************************)
EXTENDS TrustChainConsts

CONSTANTS
  Instance,   \* the instances of the TA
  Failing,    \* the TEE calls that may fail although nothing is wrong
  MaxPairs    \* bound: how many pairs a behaviour may generate

TEECall == {"open", "allocate", "generate", "create", "prepare", "attach", "use"}
ASSUME FailingAssumption == Failing \subseteq TEECall
ASSUME MaxPairsAssumption == MaxPairs \in Nat \ {0}

\* Pairs are numbered in the order in which they are generated.
Pair == 1..MaxPairs

TEE_HANDLE_NULL == -1
NoKeyYet == 0  \* in an allocated transient object

\* arg: the pair a ciphertext was made for or a signature was made with; 0
\* for a text that is not hex.
Task == [kind : {"sign", "export"}, arg : {0}] \cup [kind : {"decrypt", "verify"}, arg : 0..MaxPairs]

VARIABLES
  stored,       \* the pair in storage, 0 for none
  generated,    \* pairs generated so far
  pc, task,     \* per instance: its next TEE call, and what for
  key_pair,     \* the handle of the stored pair: the pair behind it
  rsa_keypair,  \* the transient object of load_or_generate_key_pair
  prepared,     \* the operation, or the public key object of tee_verify_signature
  res,          \* the TEE_Result of the task
  \* History:
  before,       \* the stored pair when the task began
  alone         \* no other instance was at work during the task

handles == <<key_pair, rsa_keypair, prepared>>
storeVars == <<stored, generated, pc, task, handles, res, before, alone>>

Init ==
  /\ stored = 0 /\ generated = 0
  /\ pc = [i \in Instance |-> "idle"]
  /\ task \in [Instance -> {[kind |-> "sign", arg |-> 0]}]
  /\ key_pair = [i \in Instance |-> TEE_HANDLE_NULL]
  /\ rsa_keypair = [i \in Instance |-> TEE_HANDLE_NULL]
  /\ prepared = [i \in Instance |-> FALSE]
  /\ res = [i \in Instance |-> TEE_SUCCESS]
  /\ before = [i \in Instance |-> 0]
  /\ alone = [i \in Instance |-> FALSE]

Fails(call) == call \in Failing
Goto(i, label) == pc' = [pc EXCEPT ![i] = label]
Set(h, i, value) == [h EXCEPT ![i] = value]

\* The task is over: goto cleanup, or fall through to it.
Finish(i, result) == Goto(i, "cleanup") /\ res' = Set(res, i, result)

-----------------------------------------------------------------------------
Begin(i) ==
  /\ pc[i] = "idle"
  /\ \E t \in Task :
       /\ task' = Set(task, i, t)
       /\ IF t.kind = "decrypt" /\ t.arg = 0 \* the text is converted before the pair is loaded
          THEN Finish(i, TEE_ERROR_BAD_PARAMETERS)
          ELSE Goto(i, "open") /\ res' = Set(res, i, TEE_SUCCESS)
  /\ before' = Set(before, i, stored)
  /\ alone' = [j \in Instance |-> IF j = i THEN \A k \in Instance \ {i} : pc[k] = "idle"
                                           ELSE alone[j] /\ pc[j] = "idle"]
  /\ UNCHANGED <<stored, generated, handles>>

\* Mutant: the open shares the pair (TEE_DATA_FLAG_SHARE_READ, SHARE_WRITE).
InUseShared(i) == FALSE

\* External: no flag shares the pair, so while a handle to it is open no other
\* instance opens or replaces it (TEE_ERROR_ACCESS_CONFLICT).
InUse(i) == \E j \in Instance \ {i} : key_pair[j] # TEE_HANDLE_NULL

\* Every error of the open is taken for a missing pair, except by
\* get_tee_public_key, which returns it.
Open(i) ==
  /\ pc[i] = "open"
  /\ \/ /\ stored # 0 /\ ~InUse(i)
        /\ key_pair' = Set(key_pair, i, stored)
        /\ Goto(i, IF task[i].kind = "export" THEN "use" ELSE "prepare")
        /\ UNCHANGED res
     \/ /\ stored = 0 \/ InUse(i) \/ Fails("open")
        /\ IF task[i].kind = "export" THEN Finish(i, TEE_ERROR_GENERIC)
                                      ELSE Goto(i, "allocate") /\ UNCHANGED res
        /\ UNCHANGED key_pair
  /\ UNCHANGED <<stored, generated, task, rsa_keypair, prepared, before, alone>>

Allocate(i) ==
  /\ pc[i] = "allocate"
  /\ \/ /\ rsa_keypair' = Set(rsa_keypair, i, NoKeyYet)
        /\ Goto(i, "generate")
        /\ UNCHANGED res
     \/ /\ Fails("allocate")
        /\ Finish(i, TEE_ERROR_GENERIC)
        /\ UNCHANGED rsa_keypair
  /\ UNCHANGED <<stored, generated, task, key_pair, prepared, before, alone>>

Generate(i) ==
  /\ pc[i] = "generate"
  /\ \/ /\ generated < MaxPairs
        /\ generated' = generated + 1
        /\ rsa_keypair' = Set(rsa_keypair, i, generated')
        /\ Goto(i, "create")
        /\ UNCHANGED res
     \/ /\ Fails("generate")
        /\ rsa_keypair' = Set(rsa_keypair, i, TEE_HANDLE_NULL)
        /\ Finish(i, TEE_ERROR_GENERIC)
        /\ UNCHANGED generated
  /\ UNCHANGED <<stored, task, key_pair, prepared, before, alone>>

\* Mutant: the new object is created from the wrong of the two handles.
CreateFromKeyPair(i) ==
  /\ pc[i] = "create"
  /\ \/ /\ ~InUse(i)
        /\ stored' = key_pair[i]
        /\ key_pair' = Set(key_pair, i, key_pair[i])
        /\ Goto(i, "prepare")
        /\ UNCHANGED res
     \/ /\ InUse(i) \/ Fails("create")
        /\ Finish(i, TEE_ERROR_GENERIC)
        /\ UNCHANGED <<stored, key_pair>>
  /\ rsa_keypair' = Set(rsa_keypair, i, TEE_HANDLE_NULL)
  /\ UNCHANGED <<generated, task, prepared, before, alone>>

\* TEE_DATA_FLAG_OVERWRITE: a pair stored meanwhile is replaced.
Create(i) ==
  /\ pc[i] = "create"
  /\ \/ /\ ~InUse(i)
        /\ stored' = rsa_keypair[i]
        /\ key_pair' = Set(key_pair, i, rsa_keypair[i])
        /\ Goto(i, "prepare")
        /\ UNCHANGED res
     \/ /\ InUse(i) \/ Fails("create")
        /\ Finish(i, TEE_ERROR_GENERIC)
        /\ UNCHANGED <<stored, key_pair>>
  /\ rsa_keypair' = Set(rsa_keypair, i, TEE_HANDLE_NULL)
  /\ UNCHANGED <<generated, task, prepared, before, alone>>

\* TEE_AllocateOperation, or the public key object; then TEE_SetOperationKey,
\* or the copy of the attributes.
Prepare(i) ==
  /\ pc[i] = "prepare"
  /\ \/ /\ Goto(i, "attach")
        /\ prepared' = Set(prepared, i, TRUE)
        /\ UNCHANGED res
     \/ /\ Fails("prepare")
        /\ Finish(i, TEE_ERROR_GENERIC)
        /\ UNCHANGED prepared
  /\ UNCHANGED <<stored, generated, task, key_pair, rsa_keypair, before, alone>>

Attach(i) ==
  /\ pc[i] = "attach"
  /\ \/ Goto(i, "use") /\ UNCHANGED res
     \/ Fails("attach") /\ Finish(i, TEE_ERROR_GENERIC)
  /\ UNCHANGED <<stored, generated, task, handles, before, alone>>

\* Mutant: the result of the operation is not looked at.
UseResultUnchecked(i) == TEE_SUCCESS

\* A signature is made; a text of this pair is decrypted or verified, and one
\* of another pair is not; public_key_obj_to_pem is given a length of 0.
UseResult(i) ==
  CASE task[i].kind = "sign" -> TEE_SUCCESS
    [] task[i].kind = "export" -> TEE_ERROR_SHORT_BUFFER
    [] OTHER -> IF task[i].arg = key_pair[i] THEN TEE_SUCCESS ELSE TEE_ERROR_GENERIC

Use(i) ==
  /\ pc[i] = "use"
  /\ \/ Finish(i, UseResult(i))
     \/ Fails("use") /\ Finish(i, TEE_ERROR_GENERIC)
  /\ UNCHANGED <<stored, generated, task, handles, before, alone>>

\* Mutant: an error path that returns without closing the pair.
CleanupOnSuccessOnly(i) ==
  /\ pc[i] = "cleanup"
  /\ Goto(i, "idle")
  /\ prepared' = Set(prepared, i, FALSE)
  /\ key_pair' = IF res[i] = TEE_SUCCESS THEN Set(key_pair, i, TEE_HANDLE_NULL) ELSE key_pair
  /\ UNCHANGED <<stored, generated, task, rsa_keypair, res, before, alone>>

\* What is not NULL is freed and closed, and the task returns.
Cleanup(i) ==
  /\ pc[i] = "cleanup"
  /\ Goto(i, "idle")
  /\ prepared' = Set(prepared, i, FALSE)
  /\ key_pair' = Set(key_pair, i, TEE_HANDLE_NULL)
  /\ UNCHANGED <<stored, generated, task, rsa_keypair, res, before, alone>>

\* The instance panics or its client goes away: it is never heard of again, or
\* a new instance takes its place.
Crash(i) ==
  /\ pc[i] # "idle"
  /\ Goto(i, "idle")
  /\ key_pair' = Set(key_pair, i, TEE_HANDLE_NULL)
  /\ rsa_keypair' = Set(rsa_keypair, i, TEE_HANDLE_NULL)
  /\ prepared' = Set(prepared, i, FALSE)
  /\ alone' = Set(alone, i, FALSE)
  /\ UNCHANGED <<stored, generated, task, res, before>>

Step(i) ==
  \/ Open(i) \/ Allocate(i) \/ Generate(i) \/ Create(i)
  \/ Prepare(i) \/ Attach(i) \/ Use(i) \/ Cleanup(i)

Next == \E i \in Instance : Begin(i) \/ Step(i) \/ Crash(i)

Spec == Init /\ [][Next]_storeVars
=============================================================================
