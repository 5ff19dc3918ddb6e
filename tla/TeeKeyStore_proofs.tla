------------------------- MODULE TeeKeyStore_proofs --------------------------
(***************************************************************************)
(* The handle discipline of TeeKeyStore holds for any number of instances, *)
(* whichever TEE calls fail and wherever instances die; and a task that is *)
(* alone is one of the single steps of TeeKeyManager.                      *)
(***************************************************************************)
EXTENDS TeeKeyStoreProps, TLAPS

\* What an instance holds follows from where it stands.
HandlesAt(i) ==
  /\ pc[i] \in {"idle", "open", "allocate", "generate", "create"}
       => key_pair[i] = TEE_HANDLE_NULL /\ ~prepared[i]
  /\ pc[i] \in {"prepare", "attach", "use"} => key_pair[i] \in Pair
  /\ pc[i] = "create" => rsa_keypair[i] \in 1..generated
  /\ pc[i] \notin {"generate", "create"} => rsa_keypair[i] = TEE_HANDLE_NULL

\* One instance at most has the pair open.
OneHolder ==
  \A i, j \in Instance :
    key_pair[i] # TEE_HANDLE_NULL /\ key_pair[j] # TEE_HANDLE_NULL => i = j

IInv == StoreTypeOK /\ (\A i \in Instance : HandlesAt(i)) /\ OneHolder /\ WorksWithStored

\* The results the tasks give are results of the TEE.
LEMMA ResultsKnown ==
  /\ TEE_SUCCESS \in TEE_Result /\ TEE_ERROR_GENERIC \in TEE_Result
  /\ TEE_ERROR_BAD_PARAMETERS \in TEE_Result /\ TEE_ERROR_SHORT_BUFFER \in TEE_Result
BY DEF TEE_Result

\* No instance is at work at first.
LEMMA InitHolds == Init => IInv
<1> SUFFICES ASSUME Init PROVE IInv
  OBVIOUS
<1> USE MaxPairsAssumption DEF Init
<1>1. StoreTypeOK
  BY ResultsKnown DEF StoreTypeOK, Task
<1>2. \A i \in Instance : HandlesAt(i)
  BY DEF HandlesAt
<1>3. OneHolder /\ WorksWithStored
  BY DEF OneHolder, WorksWithStored
<1> QED BY <1>1, <1>2, <1>3 DEF IInv

\* A task begins without handles.
LEMMA BeginKeeps == ASSUME IInv, NEW i \in Instance, Begin(i) PROVE IInv'
<1>0. PICK t \in Task, label \in {"open", "cleanup"},
           result \in {TEE_SUCCESS, TEE_ERROR_BAD_PARAMETERS} :
        /\ task' = [task EXCEPT ![i] = t] /\ pc' = [pc EXCEPT ![i] = label]
        /\ res' = [res EXCEPT ![i] = result]
  BY DEF Begin, Goto, Set, Finish
<1> USE MaxPairsAssumption
<1>1. StoreTypeOK'
  <2> USE DEF IInv, StoreTypeOK
  <2>1. before' \in [Instance -> 0..MaxPairs]
    BY DEF Begin, Set
  <2>2. alone' \in [Instance -> BOOLEAN]
    BY DEF Begin
  <2>3. task' \in [Instance -> Task]
    BY <1>0
  <2>4. result \in TEE_Result
    BY ResultsKnown
  <2>5. res' \in [Instance -> TEE_Result]
    BY <1>0, <2>4
  <2>6. pc' \in [Instance -> Call \cup {"idle", "cleanup"}]
    BY <1>0 DEF Call
  <2>7. UNCHANGED <<stored, generated, key_pair, rsa_keypair, prepared>>
    BY DEF Begin, handles
  <2> QED BY <2>1, <2>2, <2>3, <2>5, <2>6, <2>7
<1> USE DEF IInv, Begin, Goto, Set, Finish, handles
<1>2. ASSUME NEW j \in Instance PROVE HandlesAt(j)'
  BY DEF HandlesAt, StoreTypeOK
<1>3. OneHolder' /\ WorksWithStored'
  BY DEF OneHolder, WorksWithStored
<1> QED BY <1>1, <1>2, <1>3

\* The pair is opened only when nobody else holds it, and it is the stored one.
LEMMA OpenKeeps == ASSUME IInv, NEW i \in Instance, Open(i) PROVE IInv'
<1> USE MaxPairsAssumption
<1> USE DEF IInv, Open, Goto, Set, Finish, InUse
<1>1. StoreTypeOK'
  BY ResultsKnown DEF StoreTypeOK, Call, Pair
<1>2. ASSUME NEW j \in Instance PROVE HandlesAt(j)'
  BY DEF HandlesAt, StoreTypeOK, Pair
<1>3. OneHolder' /\ WorksWithStored'
  BY DEF OneHolder, WorksWithStored, StoreTypeOK
<1> QED BY <1>1, <1>2, <1>3

\* The transient object has no key yet, and nobody sees it.
LEMMA AllocateKeeps == ASSUME IInv, NEW i \in Instance, Allocate(i) PROVE IInv'
<1> USE DEF IInv, Allocate, Goto, Set, Finish
<1>1. StoreTypeOK'
  BY ResultsKnown DEF StoreTypeOK, Call
<1>2. ASSUME NEW j \in Instance PROVE HandlesAt(j)'
  BY DEF HandlesAt, StoreTypeOK
<1>3. OneHolder' /\ WorksWithStored'
  BY DEF OneHolder, WorksWithStored
<1> QED BY <1>1, <1>2, <1>3

\* A new pair is in the transient object only.
LEMMA GenerateKeeps == ASSUME IInv, NEW i \in Instance, Generate(i) PROVE IInv'
<1> USE MaxPairsAssumption
<1> USE DEF IInv, Generate, Goto, Set, Finish
<1>1. StoreTypeOK'
  BY ResultsKnown DEF StoreTypeOK, Call, Pair
<1>2. ASSUME NEW j \in Instance PROVE HandlesAt(j)'
  BY DEF HandlesAt, StoreTypeOK, Pair
<1>3. OneHolder' /\ WorksWithStored'
  BY DEF OneHolder, WorksWithStored
<1> QED BY <1>1, <1>2, <1>3

\* A stored pair is replaced only when nobody else holds it: the instance that
\* replaces it is the only holder of the new one.
LEMMA CreateKeeps == ASSUME IInv, NEW i \in Instance, Create(i) PROVE IInv'
<1> USE MaxPairsAssumption
<1> USE DEF IInv, Create, Goto, Set, Finish, InUse
<1>1. rsa_keypair[i] \in 1..generated
  BY DEF HandlesAt
<1>2. StoreTypeOK'
  BY <1>1, ResultsKnown DEF StoreTypeOK, Call, Pair
<1>3. ASSUME NEW j \in Instance PROVE HandlesAt(j)'
  BY <1>1 DEF HandlesAt, StoreTypeOK, Pair
<1>4. OneHolder'
  BY DEF OneHolder, StoreTypeOK
<1>5. WorksWithStored'
  BY DEF WorksWithStored, StoreTypeOK
<1> QED BY <1>2, <1>3, <1>4, <1>5

\* The operation is set up with the pair that is open.
LEMMA PrepareKeeps == ASSUME IInv, NEW i \in Instance, Prepare(i) \/ Attach(i) PROVE IInv'
<1>0. PICK label \in {"attach", "use", "cleanup"} : pc' = [pc EXCEPT ![i] = label]
  BY DEF Prepare, Attach, Goto, Finish
<1>1. StoreTypeOK'
  <2> USE DEF IInv, StoreTypeOK
  <2>1. pc' \in [Instance -> Call \cup {"idle", "cleanup"}]
    BY <1>0 DEF Call
  <2>2. res' \in [Instance -> TEE_Result]
    BY ResultsKnown DEF Prepare, Attach, Set, Finish
  <2>3. prepared' \in [Instance -> BOOLEAN]
    BY DEF Prepare, Attach, Set, handles
  <2>4. UNCHANGED <<stored, generated, task, key_pair, rsa_keypair, before, alone>>
    BY DEF Prepare, Attach, handles
  <2> QED BY <2>1, <2>2, <2>3, <2>4
<1> USE DEF IInv, Prepare, Attach, Goto, Set, Finish, handles
<1>2. ASSUME NEW j \in Instance PROVE HandlesAt(j)'
  BY DEF HandlesAt, StoreTypeOK
<1>3. OneHolder' /\ WorksWithStored'
  BY DEF OneHolder, WorksWithStored
<1> QED BY <1>1, <1>2, <1>3

\* The operation changes no handle.
LEMMA UseKeeps == ASSUME IInv, NEW i \in Instance, Use(i) PROVE IInv'
<1> USE DEF IInv, Use, Goto, Set, Finish, handles
<1>1. UseResult(i) \in TEE_Result
  BY ResultsKnown DEF UseResult
<1>2. StoreTypeOK'
  BY <1>1, ResultsKnown DEF StoreTypeOK, Call
<1>3. ASSUME NEW j \in Instance PROVE HandlesAt(j)'
  BY DEF HandlesAt, StoreTypeOK
<1>4. OneHolder' /\ WorksWithStored'
  BY DEF OneHolder, WorksWithStored
<1> QED BY <1>2, <1>3, <1>4

\* The end of a task, and of an instance, gives all handles back.
LEMMA CleanupKeeps == ASSUME IInv, NEW i \in Instance, Cleanup(i) \/ Crash(i) PROVE IInv'
<1> USE DEF IInv, Cleanup, Crash, Goto, Set
<1>1. StoreTypeOK'
  BY DEF StoreTypeOK
<1>2. ASSUME NEW j \in Instance PROVE HandlesAt(j)'
  BY DEF HandlesAt, StoreTypeOK
<1>3. OneHolder' /\ WorksWithStored'
  BY DEF OneHolder, WorksWithStored, StoreTypeOK
<1> QED BY <1>1, <1>2, <1>3

\* Handles follow from the program counter, one instance holds the pair, and
\* it is the stored one: initially and after every step.
THEOREM StoreInvariance == Spec => []IInv
<1>1. IInv /\ [Next]_storeVars => IInv'
  <2> SUFFICES ASSUME IInv, [Next]_storeVars PROVE IInv'
    OBVIOUS
  <2>1. CASE UNCHANGED storeVars
    BY <2>1 DEF storeVars, handles, IInv, StoreTypeOK, HandlesAt, OneHolder, WorksWithStored
  <2>2. ASSUME NEW i \in Instance, Begin(i) \/ Step(i) \/ Crash(i) PROVE IInv'
    BY <2>2, BeginKeeps, OpenKeeps, AllocateKeeps, GenerateKeeps, CreateKeeps,
       PrepareKeeps, UseKeeps, CleanupKeeps DEF Step
  <2> QED BY <2>1, <2>2 DEF Next
<1> QED BY InitHolds, <1>1, PTL DEF Spec

\* No path through a task leaves a handle behind.
THEOREM NoHandleIsLeft == Spec => []NoHandleLeft
<1>1. IInv => NoHandleLeft
  BY DEF IInv, NoHandleLeft, HandlesAt
<1> QED BY <1>1, StoreInvariance, PTL

\* No instance signs or decrypts with a pair other than the stored one.
THEOREM AllWorkWithStored == Spec => []WorksWithStored
<1>1. IInv => WorksWithStored
  BY DEF IInv
<1> QED BY <1>1, StoreInvariance, PTL

\* Every variable of the key manager keeps its type.
THEOREM StoreTypeCorrect == Spec => []StoreTypeOK
<1>1. IInv => StoreTypeOK
  BY DEF IInv
<1> QED BY <1>1, StoreInvariance, PTL

-----------------------------------------------------------------------------
(* The single steps of TeeKeyManager, as the tasks need them.                *)

\* A failing TEE call is a fault of TeeKeyManager.
LEMMA FaultsMean ==
  /\ "open" \in Failing => Atomic!CanFail("open")
  /\ \A call \in {"allocate", "generate", "create"} :
       call \in Failing => Atomic!CanFail("generate")
  /\ \A call \in {"prepare", "attach", "use"} : call \in Failing =>
       Atomic!CanFail("sign") /\ Atomic!CanFail("decrypt") /\ Atomic!CanFail("verify")
<1> DEFINE F == UNION {FaultsOf(call) : call \in Failing}
<1>1. \A call \in Failing : FaultsOf(call) \subseteq F
  OBVIOUS
<1>2. /\ FaultsOf("open") = {"open"}
      /\ \A call \in {"allocate", "generate", "create"} : FaultsOf(call) = {"generate"}
      /\ \A call \in {"prepare", "attach", "use"} : FaultsOf(call) = {"sign", "decrypt", "verify"}
  BY DEF FaultsOf
<1>3. \A call : Atomic!CanFail(call) <=> call \in F
  BY DEF Atomic!CanFail
<1> HIDE DEF F
<1> QED BY <1>1, <1>2, <1>3

\* The stored pair may be taken for a missing one.
MayReplace(b) == b = 0 \/ "open" \in Failing

\* How a load may end.
LEMMA LoadEnds ==
  ASSUME NEW b \in 0..MaxPairs
  PROVE  /\ b # 0 => Atomic!Outcome(TEE_SUCCESS, b) \in Atomic!load_or_generate_key_pair(b)
         /\ MayReplace(b) =>
              Atomic!Outcome(TEE_SUCCESS, b + 1) \in Atomic!load_or_generate_key_pair(b)
         /\ MayReplace(b) /\ (\E call \in {"allocate", "generate", "create"} : call \in Failing) =>
              Atomic!Outcome(TEE_ERROR_GENERIC, b) \in Atomic!load_or_generate_key_pair(b)
<1>1. MayReplace(b) => Atomic!OpenFails(b)
  BY FaultsMean DEF MayReplace, Atomic!OpenFails
<1>2. b < MaxPairs + 2
  BY MaxPairsAssumption
<1>3. Atomic!TEE_SUCCESS = TEE_SUCCESS /\ Atomic!TEE_ERROR_GENERIC = TEE_ERROR_GENERIC
  BY DEF Atomic!TEE_SUCCESS, TEE_SUCCESS, Atomic!TEE_ERROR_GENERIC, TEE_ERROR_GENERIC
<1> QED BY <1>1, <1>2, <1>3, FaultsMean
        DEF Atomic!load_or_generate_key_pair, Atomic!When

\* A task may fail after a load that did, or when one of its own calls may.
LEMMA TaskFails ==
  ASSUME NEW b, NEW key, NEW load \in {TEE_SUCCESS, TEE_ERROR_GENERIC},
         Atomic!Outcome(load, key) \in Atomic!load_or_generate_key_pair(b),
         \/ load = TEE_ERROR_GENERIC
         \/ \E call \in {"prepare", "attach", "use"} : call \in Failing
  PROVE  /\ Atomic!Outcome(TEE_ERROR_GENERIC, key) \in Atomic!tee_sign_hash(b)
         /\ \A s : Atomic!Outcome(TEE_ERROR_GENERIC, key) \in Atomic!tee_verify_signature(b, s)
         /\ \A e : e # 0 =>
              Atomic!Outcome(TEE_ERROR_GENERIC, key) \in Atomic!tee_decrypt_data(b, e)
<1> DEFINE O == Atomic!load_or_generate_key_pair(b)
           o == Atomic!Outcome(load, key)
           f == Atomic!Outcome(TEE_ERROR_GENERIC, key)
<1>1. o \in O /\ o.key = key /\ f.key = key
  BY DEF Atomic!Outcome
<1>2. f = Atomic!Outcome(Atomic!TEE_ERROR_GENERIC, o.key)
  BY <1>1 DEF Atomic!TEE_ERROR_GENERIC, TEE_ERROR_GENERIC
<1>3. \A S : o \in S => f \in Atomic!Failed(S)
  BY <1>2 DEF Atomic!Failed
<1>4. f \in O \/ (Atomic!CanFail("sign") /\ Atomic!CanFail("decrypt") /\ Atomic!CanFail("verify"))
  BY FaultsMean
<1> HIDE DEF o, f, O
<1>5. f \in Atomic!tee_sign_hash(b)
  BY <1>1, <1>3, <1>4 DEF Atomic!tee_sign_hash, Atomic!When, O
<1>6. ASSUME NEW s PROVE f \in Atomic!tee_verify_signature(b, s)
  <2>1. f \in {p \in O : p.key = s} \/ o \in {p \in O : p.key # s \/ Atomic!CanFail("verify")}
    BY <1>1, <1>4
  <2> QED BY <1>3, <2>1 DEF Atomic!tee_verify_signature, O
<1>7. ASSUME NEW e, e # 0 PROVE f \in Atomic!tee_decrypt_data(b, e)
  <2>1. f \in {p \in O : p.key = e} \/ o \in {p \in O : p.key # e \/ Atomic!CanFail("decrypt")}
    BY <1>1, <1>4
  <2> QED BY <1>3, <1>7, <2>1 DEF Atomic!tee_decrypt_data, O
<1> QED BY <1>5, <1>6, <1>7 DEF f

\* After a load that succeeded a task ends as the two pairs demand.
LEMMA TaskEnds ==
  ASSUME NEW b, NEW key,
         Atomic!Outcome(TEE_SUCCESS, key) \in Atomic!load_or_generate_key_pair(b)
  PROVE  /\ Atomic!Outcome(TEE_SUCCESS, key) \in Atomic!tee_sign_hash(b)
         /\ Atomic!Outcome(TEE_SUCCESS, key) \in Atomic!tee_verify_signature(b, key)
         /\ key # 0 => Atomic!Outcome(TEE_SUCCESS, key) \in Atomic!tee_decrypt_data(b, key)
         /\ \A s : s # key =>
              Atomic!Outcome(TEE_ERROR_GENERIC, key) \in Atomic!tee_verify_signature(b, s)
         /\ \A e : e # 0 /\ e # key =>
              Atomic!Outcome(TEE_ERROR_GENERIC, key) \in Atomic!tee_decrypt_data(b, e)
<1> DEFINE O == Atomic!load_or_generate_key_pair(b)
           o == Atomic!Outcome(TEE_SUCCESS, key)
           f == Atomic!Outcome(TEE_ERROR_GENERIC, key)
<1>1. o \in O /\ o.key = key
  BY DEF Atomic!Outcome
<1>2. f = Atomic!Outcome(Atomic!TEE_ERROR_GENERIC, o.key)
  BY <1>1 DEF Atomic!TEE_ERROR_GENERIC, TEE_ERROR_GENERIC
<1>3. \A S : o \in S => f \in Atomic!Failed(S)
  BY <1>2 DEF Atomic!Failed
<1> HIDE DEF o, f, O
<1>4. o \in Atomic!tee_sign_hash(b)
  BY <1>1 DEF Atomic!tee_sign_hash, O
<1>5. /\ o \in Atomic!tee_verify_signature(b, key)
      /\ \A s : s # key => f \in Atomic!tee_verify_signature(b, s)
  BY <1>1, <1>3 DEF Atomic!tee_verify_signature, O
<1>6. /\ key # 0 => o \in Atomic!tee_decrypt_data(b, key)
      /\ \A e : e # 0 /\ e # key => f \in Atomic!tee_decrypt_data(b, e)
  BY <1>1, <1>3 DEF Atomic!tee_decrypt_data, O
<1> QED BY <1>4, <1>5, <1>6 DEF o, f

-----------------------------------------------------------------------------
(* A task that is alone.                                                     *)

\* Where the task stands in the load, in terms of the pair from its start: it
\* is still stored until the new one is, and it is replaced only if it had to.
Loading(i) ==
  /\ pc[i] \notin {"idle", "cleanup"} => ~(task[i].kind = "decrypt" /\ task[i].arg = 0)
  /\ pc[i] \in {"open", "allocate", "generate", "create"} => stored = before[i]
  /\ pc[i] \in {"allocate", "generate", "create"}
       => task[i].kind # "export" /\ MayReplace(before[i])
  /\ pc[i] = "create" => stored < rsa_keypair[i]
  /\ pc[i] \in {"prepare", "attach", "use"}
       => stored # 0 /\ (stored = before[i] \/ MayReplace(before[i]))

\* While it is at work, no other instance is.
Solo(i) == pc[i] # "idle" => \A j \in Instance \ {i} : pc[j] = "idle"

\* When it has ended, its outcome is one of TeeKeyManager's.
EndsAtomic(i) ==
  pc[i] = "cleanup" /\ task[i].kind # "export"
    => Atomic!Outcome(res[i], NumberOf(i, stored)) \in Outcomes(i)

\* The three hold of a task as long as no other has overlapped it.
Track == \A i \in Instance : alone[i] => Loading(i) /\ Solo(i) /\ EndsAtomic(i)

\* The numbers tell the stored pair from every other, and a pair from none.
LEMMA Numbering ==
  ASSUME IInv, NEW i \in Instance
  PROVE  /\ before[i] \in 0..MaxPairs
         /\ stored = before[i] => NumberOf(i, stored) = before[i]
         /\ stored # before[i] => NumberOf(i, stored) = before[i] + 1
<1>1. stored \in 0..MaxPairs /\ before[i] \in 0..MaxPairs /\ MaxPairs \in Nat
  BY MaxPairsAssumption DEF IInv, StoreTypeOK
<1> QED BY <1>1 DEF NumberOf

\* A pair has the number of the stored one only if it is the stored one.
LEMMA NumbersTell ==
  ASSUME IInv, NEW i \in Instance, NEW arg \in 0..MaxPairs
  PROVE  /\ arg = stored <=> NumberOf(i, arg) = NumberOf(i, stored)
         /\ arg # 0 => NumberOf(i, arg) # 0
<1>1. stored \in 0..MaxPairs /\ before[i] \in 0..MaxPairs /\ MaxPairs \in Nat
  BY MaxPairsAssumption DEF IInv, StoreTypeOK
<1> QED BY <1>1 DEF NumberOf

\* The load of a task that goes on to its operation succeeded.
LEMMA LoadedOutcome ==
  ASSUME IInv, NEW i \in Instance, Loading(i), pc[i] \in {"prepare", "attach", "use"}
  PROVE  Atomic!Outcome(TEE_SUCCESS, NumberOf(i, stored))
           \in Atomic!load_or_generate_key_pair(before[i])
BY Numbering, LoadEnds DEF Loading

\* The kinds of tasks that TeeKeyManager has.
LEMMA TaskKinds ==
  ASSUME IInv, NEW i \in Instance
  PROVE  /\ task[i].kind \in {"sign", "export", "decrypt", "verify"}
         /\ task[i].arg \in 0..MaxPairs
<1>1. task[i] \in Task
  BY DEF IInv, StoreTypeOK
<1> QED BY <1>1, MaxPairsAssumption DEF Task

\* A call that fails ends the task with an outcome of TeeKeyManager.
LEMMA FailureIsOutcome ==
  ASSUME IInv, NEW i \in Instance, Loading(i), task[i].kind # "export",
         pc[i] \in {"allocate", "generate", "create", "prepare", "attach", "use"},
         pc[i] \in Failing
  PROVE  Atomic!Outcome(TEE_ERROR_GENERIC, NumberOf(i, stored)) \in Outcomes(i)
<1> DEFINE b == before[i]
           n == NumberOf(i, stored)
<1>1. PICK load \in {TEE_SUCCESS, TEE_ERROR_GENERIC} :
        /\ Atomic!Outcome(load, n) \in Atomic!load_or_generate_key_pair(b)
        /\ load = TEE_ERROR_GENERIC \/ \E call \in {"prepare", "attach", "use"} : call \in Failing
  <2>1. CASE pc[i] \in {"prepare", "attach", "use"}
    BY <2>1, LoadedOutcome
  <2>2. CASE pc[i] \in {"allocate", "generate", "create"}
    BY <2>2, Numbering, LoadEnds DEF Loading
  <2> QED BY <2>1, <2>2
<1>2. /\ Atomic!Outcome(TEE_ERROR_GENERIC, n) \in Atomic!tee_sign_hash(b)
      /\ \A s : Atomic!Outcome(TEE_ERROR_GENERIC, n) \in Atomic!tee_verify_signature(b, s)
      /\ \A e : e # 0 => Atomic!Outcome(TEE_ERROR_GENERIC, n) \in Atomic!tee_decrypt_data(b, e)
  BY <1>1, TaskFails
<1>3. ASSUME task[i].kind = "decrypt" PROVE task[i].arg # 0 /\ NumberOf(i, task[i].arg) # 0
  <2>1. task[i].arg \in 0..MaxPairs
    BY TaskKinds
  <2>2. task[i].arg # 0
    BY <1>3 DEF Loading
  <2> QED BY <2>1, <2>2, NumbersTell
<1> HIDE DEF b, n
<1>4. CASE task[i].kind = "sign"
  BY <1>2, <1>4 DEF Outcomes, b, n
<1>5. CASE task[i].kind = "verify"
  BY <1>2, <1>5 DEF Outcomes, b, n
<1>6. CASE task[i].kind = "decrypt"
  BY <1>2, <1>3, <1>6 DEF Outcomes, b, n
<1> QED BY <1>4, <1>5, <1>6, TaskKinds

\* So does the result of the operation.
LEMMA ResultIsOutcome ==
  ASSUME IInv, NEW i \in Instance, Loading(i), task[i].kind # "export", pc[i] = "use"
  PROVE  Atomic!Outcome(UseResult(i), NumberOf(i, stored)) \in Outcomes(i)
<1> DEFINE b == before[i]
           n == NumberOf(i, stored)
           a == NumberOf(i, task[i].arg)
<1>1. key_pair[i] = stored
  BY DEF IInv, HandlesAt, WorksWithStored, Pair, TEE_HANDLE_NULL
<1>2. /\ Atomic!Outcome(TEE_SUCCESS, n) \in Atomic!tee_sign_hash(b)
      /\ Atomic!Outcome(TEE_SUCCESS, n) \in Atomic!tee_verify_signature(b, n)
      /\ n # 0 => Atomic!Outcome(TEE_SUCCESS, n) \in Atomic!tee_decrypt_data(b, n)
      /\ \A s : s # n => Atomic!Outcome(TEE_ERROR_GENERIC, n) \in Atomic!tee_verify_signature(b, s)
      /\ \A e : e # 0 /\ e # n =>
           Atomic!Outcome(TEE_ERROR_GENERIC, n) \in Atomic!tee_decrypt_data(b, e)
  BY LoadedOutcome, TaskEnds
<1>3. /\ task[i].arg = stored <=> a = n
      /\ task[i].arg # 0 => a # 0
  <2>1. task[i].arg \in 0..MaxPairs
    BY TaskKinds
  <2> QED BY <2>1, NumbersTell
<1>4. task[i].kind = "decrypt" => task[i].arg # 0
  BY DEF Loading
<1> HIDE DEF b, n, a
<1>5. CASE task[i].kind = "sign"
  BY <1>2, <1>5 DEF Outcomes, UseResult, b, n
<1>6. CASE task[i].kind = "verify"
  <2>1. UseResult(i) = IF a = n THEN TEE_SUCCESS ELSE TEE_ERROR_GENERIC
    BY <1>1, <1>3, <1>6 DEF UseResult
  <2>2. Outcomes(i) = Atomic!tee_verify_signature(b, a)
    BY <1>6 DEF Outcomes, b, a
  <2>3. Atomic!Outcome(UseResult(i), n) \in Outcomes(i)
    BY <1>2, <2>1, <2>2
  <2> QED BY <2>3 DEF n
<1>7. CASE task[i].kind = "decrypt"
  <2>1. UseResult(i) = IF a = n THEN TEE_SUCCESS ELSE TEE_ERROR_GENERIC
    BY <1>1, <1>3, <1>7 DEF UseResult
  <2>2. a # 0 /\ Outcomes(i) = Atomic!tee_decrypt_data(b, a)
    BY <1>3, <1>4, <1>7 DEF Outcomes, b, a
  <2>3. Atomic!Outcome(UseResult(i), n) \in Outcomes(i)
    BY <1>2, <2>1, <2>2
  <2> QED BY <2>3 DEF n
<1> QED BY <1>5, <1>6, <1>7, TaskKinds

\* What a task owes at its end does not change while the stored pair stays.
LEMMA DebtStays ==
  ASSUME NEW i \in Instance, stored' = stored, UNCHANGED <<task, before>>
  PROVE  /\ Outcomes(i)' = Outcomes(i)
         /\ NumberOf(i, stored)' = NumberOf(i, stored)
BY DEF Outcomes, NumberOf

\* A step of an instance at work leaves nothing to show for the others: those
\* that are alone are idle.
LEMMA OthersIdle ==
  ASSUME IInv, Track, NEW i \in Instance, pc[i] # "idle",
         NEW label, pc' = [pc EXCEPT ![i] = label], UNCHANGED <<task, before, alone>>,
         alone[i] => Loading(i)' /\ EndsAtomic(i)'
  PROVE  Track'
<1>1. ASSUME NEW j \in Instance, j # i, alone'[j] PROVE Loading(j)' /\ Solo(j)' /\ EndsAtomic(j)'
  <2>1. pc[j] = "idle"
    BY <1>1 DEF Track, Solo
  <2>2. pc'[j] = "idle"
    BY <1>1, <2>1
  <2> QED BY <2>2 DEF Loading, Solo, EndsAtomic
<1>2. ASSUME alone'[i] PROVE Loading(i)' /\ Solo(i)' /\ EndsAtomic(i)'
  <2>1. \A j \in Instance \ {i} : pc[j] = "idle"
    BY <1>2 DEF Track, Solo
  <2>2. \A j \in Instance \ {i} : pc'[j] = "idle"
    BY <2>1
  <2> QED BY <1>2, <2>2 DEF Solo
<1> QED BY <1>1, <1>2 DEF Track

\* A task that finishes with an outcome of TeeKeyManager has done its part.
LEMMA FinishEnds ==
  ASSUME IInv, Track, NEW i \in Instance, pc[i] # "idle", NEW result, Finish(i, result),
         stored' = stored, UNCHANGED <<task, before, alone>>,
         alone[i] /\ task[i].kind # "export"
           => Atomic!Outcome(result, NumberOf(i, stored)) \in Outcomes(i)
  PROVE  Track'
<1>1. pc' = [pc EXCEPT ![i] = "cleanup"] /\ res'[i] = result /\ pc'[i] = "cleanup"
  BY DEF Finish, Goto, Set, IInv, StoreTypeOK
<1>2. alone[i] => EndsAtomic(i)'
  BY <1>1, DebtStays DEF EndsAtomic
<1>3. Loading(i)'
  BY <1>1 DEF Loading
<1> QED BY <1>1, <1>2, <1>3, OthersIdle

\* A step within the load or towards the operation.
LEMMA GotoGoesOn ==
  ASSUME IInv, Track, NEW i \in Instance, pc[i] # "idle", NEW label, Goto(i, label),
         label # "cleanup", UNCHANGED <<task, before, alone>>, alone[i] => Loading(i)'
  PROVE  Track'
<1>1. pc' = [pc EXCEPT ![i] = label] /\ pc'[i] = label
  BY DEF Goto, IInv, StoreTypeOK
<1>2. EndsAtomic(i)'
  BY <1>1 DEF EndsAtomic
<1> QED BY <1>1, <1>2, OthersIdle

\* An instance that is alone finds the pair free.
LEMMA PairIsFree ==
  ASSUME IInv, Track, NEW i \in Instance, alone[i], pc[i] # "idle"
  PROVE  ~InUse(i)
BY DEF Track, Solo, IInv, HandlesAt, InUse

\* A task that begins finds the stored pair it is measured by; the tasks it
\* overlaps are alone no more.
LEMMA BeginTracks == ASSUME IInv, Track, NEW i \in Instance, Begin(i) PROVE Track'
<1>1. PICK t \in Task :
        /\ task' = Set(task, i, t)
        /\ IF t.kind = "decrypt" /\ t.arg = 0
           THEN Finish(i, TEE_ERROR_BAD_PARAMETERS)
           ELSE Goto(i, "open") /\ res' = Set(res, i, TEE_SUCCESS)
  BY DEF Begin
<1>2. /\ pc[i] = "idle" /\ stored' = stored /\ task'[i] = t /\ before'[i] = stored
      /\ alone'[i] => \A k \in Instance \ {i} : pc[k] = "idle"
      /\ \A j \in Instance \ {i} : alone'[j] => pc[j] = "idle"
      /\ \A j \in Instance \ {i} : pc'[j] = pc[j]
  <2>1. /\ task \in [Instance -> Task] /\ pc \in [Instance -> Call \cup {"idle", "cleanup"}]
        /\ before \in [Instance -> 0..MaxPairs]
    BY DEF IInv, StoreTypeOK
  <2>2. task'[i] = t /\ before'[i] = stored /\ pc[i] = "idle" /\ stored' = stored
    BY <1>1, <2>1 DEF Begin, Set
  <2>3. \A j \in Instance \ {i} : pc'[j] = pc[j]
    BY <1>1, <2>1 DEF Goto, Finish
  <2>4. /\ alone'[i] => \A k \in Instance \ {i} : pc[k] = "idle"
        /\ \A j \in Instance \ {i} : alone'[j] => pc[j] = "idle"
    BY DEF Begin
  <2> QED BY <2>2, <2>3, <2>4
<1>3. ASSUME NEW j \in Instance \ {i}, alone'[j]
      PROVE  Loading(j)' /\ Solo(j)' /\ EndsAtomic(j)'
  <2>1. pc'[j] = "idle"
    BY <1>2, <1>3
  <2> QED BY <2>1 DEF Loading, Solo, EndsAtomic
<1>4. ASSUME alone'[i] PROVE Loading(i)' /\ Solo(i)' /\ EndsAtomic(i)'
  <2>1. Solo(i)'
    BY <1>2, <1>4 DEF Solo
  <2>2. CASE t.kind = "decrypt" /\ t.arg = 0
    <3>1. pc'[i] = "cleanup" /\ res'[i] = TEE_ERROR_BAD_PARAMETERS
      BY <1>1, <2>2 DEF Finish, Goto, Set, IInv, StoreTypeOK
    <3>2. NumberOf(i, stored)' = stored
      BY <1>2 DEF NumberOf
    <3>3. Outcomes(i)' = Atomic!tee_decrypt_data(stored, 0)
      BY <1>2, <2>2 DEF Outcomes
    <3>4. Atomic!Outcome(TEE_ERROR_BAD_PARAMETERS, stored) \in Atomic!tee_decrypt_data(stored, 0)
      BY DEF Atomic!tee_decrypt_data, Atomic!TEE_ERROR_BAD_PARAMETERS, TEE_ERROR_BAD_PARAMETERS
    <3>5. EndsAtomic(i)'
      BY <3>1, <3>2, <3>3, <3>4 DEF EndsAtomic
    <3> QED BY <2>1, <3>1, <3>5 DEF Loading
  <2>3. CASE ~(t.kind = "decrypt" /\ t.arg = 0)
    <3>1. pc'[i] = "open"
      BY <1>1, <2>3 DEF Goto, IInv, StoreTypeOK
    <3>2. Loading(i)'
      BY <1>2, <2>3, <3>1 DEF Loading
    <3>3. EndsAtomic(i)'
      BY <3>1 DEF EndsAtomic
    <3> QED BY <2>1, <3>2, <3>3
  <2> QED BY <2>2, <2>3
<1> QED BY <1>3, <1>4 DEF Track

\* A pair that is stored and free fails to open only if the call may fail.
LEMMA OpenTracks == ASSUME IInv, Track, NEW i \in Instance, Open(i) PROVE Track'
<1>1. pc[i] = "open" /\ stored' = stored /\ UNCHANGED <<task, before, alone>>
  BY DEF Open
<1>2. alone[i] => Loading(i) /\ ~InUse(i)
  BY <1>1, PairIsFree DEF Track
<1>3. CASE stored # 0 /\ Goto(i, IF task[i].kind = "export" THEN "use" ELSE "prepare")
  <2>1. pc'[i] \in {"use", "prepare"}
    BY <1>3 DEF Goto, IInv, StoreTypeOK
  <2>2. alone[i] => Loading(i)'
    BY <1>1, <1>2, <1>3, <2>1 DEF Loading
  <2> QED BY <1>1, <1>3, <2>2, GotoGoesOn
<1>4. CASE task[i].kind = "export" /\ Finish(i, TEE_ERROR_GENERIC)
  BY <1>1, <1>4, FinishEnds
<1>5. CASE /\ task[i].kind # "export" /\ Goto(i, "allocate")
           /\ stored = 0 \/ InUse(i) \/ Fails("open")
  <2>1. pc'[i] = "allocate"
    BY <1>5 DEF Goto, IInv, StoreTypeOK
  <2>2. alone[i] => MayReplace(before[i])
    BY <1>1, <1>2, <1>5 DEF Loading, MayReplace, Fails
  <2>3. alone[i] => Loading(i)'
    BY <1>1, <1>2, <1>5, <2>1, <2>2 DEF Loading, MayReplace
  <2> QED BY <1>1, <1>5, <2>3, GotoGoesOn
<1> QED BY <1>3, <1>4, <1>5 DEF Open

\* A TEE call that fails ends the task.
LEMMA FailureTracks ==
  ASSUME IInv, Track, NEW i \in Instance, Finish(i, TEE_ERROR_GENERIC),
         pc[i] \in {"allocate", "generate", "create", "prepare", "attach", "use"},
         alone[i] => pc[i] \in Failing, stored' = stored, UNCHANGED <<task, before, alone>>
  PROVE  Track'
<1>1. pc[i] # "idle"
  OBVIOUS
<1>2. alone[i] /\ task[i].kind # "export"
        => Atomic!Outcome(TEE_ERROR_GENERIC, NumberOf(i, stored)) \in Outcomes(i)
  BY FailureIsOutcome DEF Track
<1> QED BY <1>1, <1>2, FinishEnds

\* The transient object is no outcome, unless it cannot be had.
LEMMA AllocateTracks == ASSUME IInv, Track, NEW i \in Instance, Allocate(i) PROVE Track'
<1>1. pc[i] = "allocate" /\ stored' = stored /\ UNCHANGED <<task, before, alone>>
  BY DEF Allocate
<1>2. CASE Goto(i, "generate")
  <2>1. pc'[i] = "generate"
    BY <1>2 DEF Goto, IInv, StoreTypeOK
  <2>2. alone[i] => Loading(i)'
    BY <1>1, <2>1 DEF Track, Loading, MayReplace
  <2> QED BY <1>1, <1>2, <2>2, GotoGoesOn
<1>3. CASE Fails("allocate") /\ Finish(i, TEE_ERROR_GENERIC)
  BY <1>1, <1>3, FailureTracks DEF Fails
<1> QED BY <1>2, <1>3 DEF Allocate

\* The new pair has a number that no stored pair had.
LEMMA GenerateTracks == ASSUME IInv, Track, NEW i \in Instance, Generate(i) PROVE Track'
<1>1. pc[i] = "generate" /\ stored' = stored /\ UNCHANGED <<task, before, alone>>
  BY DEF Generate
<1>2. CASE Goto(i, "create") /\ rsa_keypair' = Set(rsa_keypair, i, generated + 1)
  <2>1. pc'[i] = "create" /\ rsa_keypair'[i] = generated + 1 /\ stored \in 0..generated
        /\ generated \in Nat
    BY <1>2, MaxPairsAssumption DEF Goto, Set, IInv, StoreTypeOK
  <2>2. alone[i] => Loading(i)'
    BY <1>1, <2>1 DEF Track, Loading, MayReplace
  <2> QED BY <1>1, <1>2, <2>2, GotoGoesOn
<1>3. CASE Fails("generate") /\ Finish(i, TEE_ERROR_GENERIC)
  BY <1>1, <1>3, FailureTracks DEF Fails
<1> QED BY <1>2, <1>3 DEF Generate

\* The new pair replaces what was stored when the task began.
LEMMA CreateTracks == ASSUME IInv, Track, NEW i \in Instance, Create(i) PROVE Track'
<1>1. pc[i] = "create" /\ UNCHANGED <<task, before, alone>>
  BY DEF Create
<1>2. CASE stored' = rsa_keypair[i] /\ Goto(i, "prepare")
  <2>1. pc'[i] = "prepare" /\ rsa_keypair[i] \in 1..generated /\ generated \in Nat
    BY <1>1, <1>2, MaxPairsAssumption DEF Goto, IInv, StoreTypeOK, HandlesAt
  <2>2. alone[i] => Loading(i)'
    BY <1>1, <1>2, <2>1 DEF Track, Loading, MayReplace
  <2> QED BY <1>1, <1>2, <2>2, GotoGoesOn
<1>3. CASE /\ InUse(i) \/ Fails("create")
           /\ stored' = stored /\ Finish(i, TEE_ERROR_GENERIC)
  <2>1. alone[i] => pc[i] \in Failing
    BY <1>1, <1>3, PairIsFree DEF Fails
  <2> QED BY <1>1, <1>3, <2>1, FailureTracks
<1> QED BY <1>2, <1>3 DEF Create

\* The steps towards the operation leave the load as it was.
LEMMA PrepareTracks ==
  ASSUME IInv, Track, NEW i \in Instance, Prepare(i) \/ Attach(i) PROVE Track'
<1>1. /\ pc[i] \in {"prepare", "attach"}
      /\ stored' = stored /\ UNCHANGED <<task, before, alone>>
  BY DEF Prepare, Attach
<1>2. CASE Goto(i, "attach") \/ Goto(i, "use")
  <2>1. PICK label \in {"attach", "use"} : Goto(i, label)
    BY <1>2
  <2>2. pc'[i] = label
    BY <2>1 DEF Goto, IInv, StoreTypeOK
  <2>3. alone[i] => Loading(i)'
    BY <1>1, <2>2 DEF Track, Loading, MayReplace
  <2> QED BY <1>1, <2>1, <2>3, GotoGoesOn
<1>3. CASE pc[i] \in Failing /\ Finish(i, TEE_ERROR_GENERIC)
  BY <1>1, <1>3, FailureTracks
<1> QED BY <1>2, <1>3 DEF Prepare, Attach, Fails

\* The operation has a result that TeeKeyManager gives for the two pairs.
LEMMA UseTracks == ASSUME IInv, Track, NEW i \in Instance, Use(i) PROVE Track'
<1>1. pc[i] = "use" /\ stored' = stored /\ UNCHANGED <<task, before, alone>>
  BY DEF Use
<1>2. CASE Finish(i, UseResult(i))
  <2>1. alone[i] /\ task[i].kind # "export"
          => Atomic!Outcome(UseResult(i), NumberOf(i, stored)) \in Outcomes(i)
    BY <1>1, ResultIsOutcome DEF Track
  <2> QED BY <1>1, <1>2, <2>1, FinishEnds
<1>3. CASE Fails("use") /\ Finish(i, TEE_ERROR_GENERIC)
  BY <1>1, <1>3, FailureTracks DEF Fails
<1> QED BY <1>2, <1>3 DEF Use

\* A task that has returned owes nothing.
LEMMA CleanupTracks == ASSUME IInv, Track, NEW i \in Instance, Cleanup(i) PROVE Track'
<1>1. pc[i] = "cleanup" /\ Goto(i, "idle") /\ UNCHANGED <<task, before, alone>>
  BY DEF Cleanup
<1>2. pc'[i] = "idle"
  BY <1>1 DEF Goto, IInv, StoreTypeOK
<1>3. Loading(i)'
  BY <1>2 DEF Loading
<1> QED BY <1>1, <1>3, GotoGoesOn

\* A task that dies is not alone; the others that are alone are idle.
LEMMA CrashTracks == ASSUME IInv, Track, NEW i \in Instance, Crash(i) PROVE Track'
<1>1. /\ pc[i] # "idle" /\ ~alone'[i]
      /\ \A j \in Instance \ {i} : pc'[j] = pc[j] /\ alone'[j] = alone[j]
  BY DEF Crash, Goto, Set, IInv, StoreTypeOK
<1>2. ASSUME NEW j \in Instance, alone'[j] PROVE pc'[j] = "idle"
  BY <1>1, <1>2 DEF Track, Solo
<1> QED BY <1>2 DEF Track, Loading, Solo, EndsAtomic

\* Whichever calls of a task fail, if no other instance was at work meanwhile
\* the task ends as one of the single steps by which the specification of the
\* trusted application models it.
THEOREM TasksAreAtomic == Spec => []AtomicIfAlone
<1>1. Init => Track
  BY DEF Init, Track
<1>2. IInv /\ Track /\ [Next]_storeVars => Track'
  <2> SUFFICES ASSUME IInv, Track, [Next]_storeVars PROVE Track'
    OBVIOUS
  <2>1. CASE UNCHANGED storeVars
    <3>1. UNCHANGED <<stored, pc, task, rsa_keypair, res, before, alone>>
      BY <2>1 DEF storeVars, handles
    <3>2. ASSUME NEW i \in Instance, alone'[i] PROVE Loading(i)' /\ Solo(i)' /\ EndsAtomic(i)'
      <4>1. Loading(i)' /\ Solo(i)'
        BY <3>1, <3>2 DEF Track, Loading, Solo, MayReplace
      <4>2. EndsAtomic(i)'
        BY <3>1, <3>2, DebtStays DEF Track, EndsAtomic
      <4> QED BY <4>1, <4>2
    <3> QED BY <3>2 DEF Track
  <2>2. ASSUME NEW i \in Instance, Begin(i) \/ Step(i) \/ Crash(i) PROVE Track'
    BY <2>2, BeginTracks, OpenTracks, AllocateTracks, GenerateTracks, CreateTracks,
       PrepareTracks, UseTracks, CleanupTracks, CrashTracks DEF Step
  <2> QED BY <2>1, <2>2 DEF Next
<1>3. Track => AtomicIfAlone
  BY DEF Track, EndsAtomic, AtomicIfAlone
<1> QED BY <1>1, <1>2, <1>3, StoreInvariance, PTL DEF Spec

-----------------------------------------------------------------------------
(* One instance.                                                             *)

\* A pair is made only while there is none.
MakesFirstPair ==
  \A i \in Instance : pc[i] \in {"allocate", "generate", "create"} => stored = 0

\* With one instance the pair is missing only if there is none.
LEMMA SingleStep ==
  ASSUME NEW i, Instance = {i}, "open" \notin Failing, IInv, MakesFirstPair, [Next]_storeVars
  PROVE  MakesFirstPair' /\ (stored # 0 => stored' = stored)
<1>1. CASE UNCHANGED storeVars
  BY <1>1 DEF storeVars, MakesFirstPair
<1>2. CASE Begin(i)
  <2>1. stored' = stored /\ pc'[i] \in {"open", "cleanup"}
    BY <1>2 DEF Begin, Goto, Finish, IInv, StoreTypeOK
  <2> QED BY <2>1 DEF MakesFirstPair
<1>3. CASE Open(i)
  <2>1. stored' = stored /\ ~InUse(i)
    BY <1>3 DEF Open, InUse
  <2>2. stored # 0 => pc'[i] \in {"use", "prepare"}
    BY <1>3, <2>1 DEF Open, Fails, Goto, IInv, StoreTypeOK
  <2> QED BY <2>1, <2>2 DEF MakesFirstPair
<1>4. CASE Allocate(i) \/ Generate(i)
  <2>1. stored' = stored /\ stored = 0
    BY <1>4 DEF Allocate, Generate, MakesFirstPair
  <2> QED BY <2>1 DEF MakesFirstPair
<1>5. CASE Create(i)
  <2>1. stored = 0 /\ pc'[i] \in {"prepare", "cleanup"}
    BY <1>5 DEF Create, Goto, Finish, MakesFirstPair, IInv, StoreTypeOK
  <2> QED BY <2>1 DEF MakesFirstPair
<1>6. CASE Prepare(i) \/ Attach(i) \/ Use(i) \/ Cleanup(i) \/ Crash(i)
  <2>1. stored' = stored
    BY <1>6 DEF Prepare, Attach, Use, Cleanup, Crash
  <2>2. pc'[i] \in {"attach", "use", "cleanup", "idle"}
    BY <1>6 DEF Prepare, Attach, Use, Cleanup, Crash, Goto, Finish, IInv, StoreTypeOK
  <2> QED BY <2>1, <2>2 DEF MakesFirstPair
<1> QED BY <1>1, <1>2, <1>3, <1>4, <1>5, <1>6 DEF Next, Step

\* Were there a single instance of the TA, as with TA_FLAG_SINGLE_INSTANCE, and
\* did no open fail for another reason, a stored pair would never be replaced:
\* what the comment of load_or_generate_key_pair says.
THEOREM SinglePairStays ==
  ASSUME NEW i, Instance = {i}, "open" \notin Failing
  PROVE  Spec => StoredPairStays
<1>1. Init => MakesFirstPair
  BY DEF Init, MakesFirstPair
<1>2. IInv /\ MakesFirstPair /\ [Next]_storeVars => MakesFirstPair'
  BY SingleStep
<1>3. IInv /\ MakesFirstPair /\ [Next]_storeVars => [stored # 0 => stored' = stored]_storeVars
  BY SingleStep
<1> QED BY <1>1, <1>2, <1>3, StoreInvariance, PTL DEF Spec, StoredPairStays
=============================================================================
