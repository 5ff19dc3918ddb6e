------------------------ MODULE TrustChainTA_proofs ------------------------
(***************************************************************************)
(* The safety invariants of TrustChainTA hold for every number of          *)
(* repositories, every set of keys, any failing TEE calls and any bounds.  *)
(*                                                                         *)
(* A step of Next is first reduced to its effect on the state the          *)
(* invariants speak of (StepEffect); every invariant is then shown to be   *)
(* preserved by the five kinds of effect.                                  *)
(***************************************************************************)
EXTENDS TrustChainTAProps, LedgerLemmas

chainVars == <<repo_num, repositories, block_height, latest_hash, founder_key,
               admin_keys, writer_keys, torn, ledger>>

Updated(m, u) ==
  /\ admin_keys' = [admin_keys EXCEPT ![m.rep_id] = u.admins]
  /\ writer_keys' = [writer_keys EXCEPT ![m.rep_id] = u.writers]

UpdatesOf(m) == UpdateKeySets(admin_keys[m.rep_id], writer_keys[m.rep_id], m)

\* The effects: a repository is created, the key lists change in a call that
\* fails, an access block or a contribution block is appended.
Created(k, tk) == repo_num < MAX_REPO_ID /\ InitSucceeds(k, tk)

TornBy(m, u) ==
  /\ AccessChecks(m) = TEE_SUCCESS /\ u \in UpdatesOf(m)
  /\ Updated(m, u)
  /\ \E res : AccessFails(m, u, res)

AccessBy(m, u, tk) ==
  /\ AccessChecks(m) = TEE_SUCCESS /\ u \in UpdatesOf(m) /\ u.res = TEE_SUCCESS
  /\ Updated(m, u)
  /\ AccessSucceeds(m, tk)

CommitBy(m, tk) ==
  /\ CommitChecks(m) = TEE_SUCCESS
  /\ CommitSucceeds(m, tk)
  /\ UNCHANGED listVars

-----------------------------------------------------------------------------
(* The outcomes of the key manager.                                          *)

\* The TEE calls that can fail between a change of the lists and its block.
TearFaults == {"malloc", "digest", "generate", "sign"}
CanTear == Faults \cap TearFaults # {}

\* A stored pair is replaced only if its open can fail.
Replaces(old, new) == old # 0 /\ new # old

\* Whatever fails, the key manager returns a TEE_Result and leaves a storable
\* pair; there is one after a success, and it is the old one if that opens.
LEMMA LoadOutcomes ==
  ASSUME NEW k \in StoredKey, NEW o \in load_or_generate_key_pair(k)
  PROVE  /\ o.key \in StoredKey /\ o.res \in TEE_Result
         /\ o.res = TEE_SUCCESS => o.key # 0
         /\ o.res # TEE_SUCCESS => CanTear
         /\ Replaces(k, o.key) => CanFail("open")
<1>1. /\ TEE_ERROR_GENERIC # TEE_SUCCESS
      /\ TEE_ERROR_GENERIC \in TEE_Result /\ TEE_SUCCESS \in TEE_Result
  BY DEF TEE_ERROR_GENERIC, TEE_SUCCESS, TEE_Result
<1>2. CanFail("generate") => CanTear
  BY DEF CanFail, CanTear, TearFaults
<1>3. k \in 0..MaxKeyGen /\ MaxKeyGen \in Nat
  BY MaxKeyGenAssumption DEF StoredKey
<1>4. \/ k # 0 /\ o = Outcome(TEE_SUCCESS, k)
      \/ OpenFails(k) /\ k < MaxKeyGen /\ o = Outcome(TEE_SUCCESS, k + 1)
      \/ CanFail("generate") /\ o = Outcome(TEE_ERROR_GENERIC, k)
  BY DEF load_or_generate_key_pair, When
<1> QED BY <1>1, <1>2, <1>3, <1>4 DEF Outcome, OpenFails, Replaces, StoredKey

\* The same of a signature: the digest or the signing may fail on top of the load.
LEMMA SignOutcomes ==
  ASSUME NEW k \in StoredKey, NEW o \in tee_sign_data(k)
  PROVE  /\ o.key \in StoredKey /\ o.res \in TEE_Result
         /\ o.res = TEE_SUCCESS => o.key # 0
         /\ o.res # TEE_SUCCESS => CanTear
         /\ Replaces(k, o.key) => CanFail("open")
<1>1. TEE_ERROR_GENERIC \in TEE_Result /\ TEE_ERROR_GENERIC # TEE_SUCCESS
  BY DEF TEE_Result, TEE_ERROR_GENERIC, TEE_SUCCESS
<1>2. CanFail("sign") \/ CanFail("digest") => CanTear
  BY DEF CanFail, CanTear, TearFaults
<1>3. CASE o \in load_or_generate_key_pair(k)
  BY <1>3, LoadOutcomes
<1>4. CASE CanFail("sign") /\ o \in Failed(load_or_generate_key_pair(k))
  <2>1. PICK p \in load_or_generate_key_pair(k) : o = Outcome(TEE_ERROR_GENERIC, p.key)
    BY <1>4 DEF Failed
  <2> QED BY <1>1, <1>2, <1>4, <2>1, LoadOutcomes DEF Outcome
<1>5. CASE CanFail("digest") /\ o = Outcome(TEE_ERROR_GENERIC, k)
  BY <1>1, <1>2, <1>5 DEF Outcome, Replaces
<1> QED BY <1>3, <1>4, <1>5 DEF tee_sign_data, tee_sign_hash, When

\* The same of the decryption of a caller's key.
LEMMA DecryptOutcomes ==
  ASSUME NEW k \in StoredKey, NEW enc, NEW o \in tee_decrypt_data(k, enc)
  PROVE  /\ o.key \in StoredKey /\ o.res \in TEE_Result
         /\ Replaces(k, o.key) => CanFail("open")
<1>1. CASE enc = 0
  BY <1>1 DEF tee_decrypt_data, Outcome, TEE_Result, Replaces
<1>2. CASE o \in load_or_generate_key_pair(k)
  BY <1>2, LoadOutcomes
<1>3. CASE enc # 0 /\ o \notin load_or_generate_key_pair(k)
  <2>1. PICK p \in load_or_generate_key_pair(k) : o = Outcome(TEE_ERROR_GENERIC, p.key)
    BY <1>3 DEF tee_decrypt_data, Failed
  <2> QED BY <2>1, LoadOutcomes DEF Outcome, TEE_Result
<1> QED BY <1>1, <1>2, <1>3

-----------------------------------------------------------------------------
(* The messages, and what the checks and the update of the key sets mean.    *)

\* The fields of an access_control message have their types.
LEMMA AccessMessageFields ==
  ASSUME NEW m \in AccessMessages
  PROVE  /\ m.rep_id \in AnyId /\ m.op \in AnyOp /\ m.role \in Role
         /\ m.pubkey \in Key /\ m.sigkey \in Key
<1>1. PICK r \in AnyId, op \in AnyOp, role \in Role, pk \in Key, sk \in Key, right \in BOOLEAN :
        m = AccessMessage(r, op, role, pk, sk, right)
  BY DEF AccessMessages
<1> QED BY <1>1 DEF AccessMessage

\* The fields of a commit message have their types.
LEMMA CommitMessageFields ==
  ASSUME NEW m \in CommitMessages
  PROVE  /\ m.rep_id \in AnyId /\ m.op \in AnyOp /\ m.commit_hash \in CommitHash
         /\ m.sigkey \in Key
<1>1. PICK r \in AnyId, op \in AnyOp, c \in CommitHash, sk \in Key, right \in BOOLEAN,
           enc \in StoredKey : m = CommitMessage(r, op, c, sk, right, enc)
  BY DEF CommitMessages
<1> QED BY <1>1 DEF CommitMessage

\* What access_control knows of a message once all its checks passed.
LEMMA AccessChecked ==
  ASSUME NEW m \in AccessMessages, AccessChecks(m) = TEE_SUCCESS
  PROVE  /\ m.op \in AccessOps
         /\ m.rep_id \in repositories /\ m.rep_id \in RepId
         /\ admin_keys[m.rep_id][m.sigkey] > 0
         /\ m.signature = Sign(m.sigkey, AccessData(m))
<1>1. TEE_ERROR_BAD_PARAMETERS # TEE_SUCCESS /\ TEE_ERROR_ITEM_NOT_FOUND # TEE_SUCCESS
        /\ TEE_ERROR_ACCESS_DENIED # TEE_SUCCESS /\ TEE_ERROR_SECURITY # TEE_SUCCESS
  BY DEF TEE_ERROR_BAD_PARAMETERS, TEE_ERROR_ITEM_NOT_FOUND, TEE_ERROR_ACCESS_DENIED,
         TEE_ERROR_SECURITY, TEE_SUCCESS
<1>2. /\ m.op \in AccessOps /\ RepoFound(m.rep_id)
      /\ key_exists_in_set(admin_keys[m.rep_id], m.sigkey)
      /\ verify_signature(AccessData(m), m.sigkey, m.signature)
  BY <1>1 DEF AccessChecks
<1>3. m.rep_id \in 0..(Word - 1)
  BY AccessMessageFields DEF AnyId
<1> QED BY <1>2, <1>3, RepoAssumption
        DEF RepoFound, key_exists_in_set, verify_signature, RepId

\* What commit knows of a message once all its checks passed.
LEMMA CommitChecked ==
  ASSUME NEW m \in CommitMessages, CommitChecks(m) = TEE_SUCCESS
  PROVE  /\ m.op \in CommitOps
         /\ m.rep_id \in repositories /\ m.rep_id \in RepId
         /\ admin_keys[m.rep_id][m.sigkey] > 0 \/ writer_keys[m.rep_id][m.sigkey] > 0
         /\ m.signature = Sign(m.sigkey, CommitData(m))
<1>1. TEE_ERROR_BAD_PARAMETERS # TEE_SUCCESS /\ TEE_ERROR_ITEM_NOT_FOUND # TEE_SUCCESS
        /\ TEE_ERROR_ACCESS_DENIED # TEE_SUCCESS /\ TEE_ERROR_SECURITY # TEE_SUCCESS
  BY DEF TEE_ERROR_BAD_PARAMETERS, TEE_ERROR_ITEM_NOT_FOUND, TEE_ERROR_ACCESS_DENIED,
         TEE_ERROR_SECURITY, TEE_SUCCESS
<1>2. /\ m.op \in CommitOps /\ RepoFound(m.rep_id)
      /\ \/ key_exists_in_set(admin_keys[m.rep_id], m.sigkey)
         \/ key_exists_in_set(writer_keys[m.rep_id], m.sigkey)
      /\ verify_signature(CommitData(m), m.sigkey, m.signature)
  BY <1>1 DEF CommitChecks
<1>3. m.rep_id \in 0..(Word - 1)
  BY CommitMessageFields DEF AnyId
<1> QED BY <1>2, <1>3, RepoAssumption
        DEF RepoFound, key_exists_in_set, verify_signature, RepId

\* The five ways the update of the key sets can go.
UpdateCase(A, W, m, u) ==
  \/ /\ u = Lists(u.res, A, W) /\ u.res # TEE_SUCCESS
  \/ /\ m.op = OP_ADD /\ m.role = ROLE_ADMIN /\ A[m.pubkey] = 0
     /\ u.writers = find_and_remove_key(W, m.pubkey)
     /\ \/ u.res = TEE_SUCCESS /\ u.admins = add_key_to_set(A, m.pubkey)
        \/ u.res # TEE_SUCCESS /\ u.admins = A /\ CanFail("malloc")
  \/ /\ m.op = OP_ADD /\ m.role = ROLE_WRITER /\ A[m.pubkey] = 0 /\ W[m.pubkey] = 0
     /\ u = Lists(TEE_SUCCESS, A, add_key_to_set(W, m.pubkey))
  \/ /\ m.op = OP_DELETE /\ m.role = ROLE_ADMIN /\ A[m.pubkey] > 0
     /\ u = Lists(TEE_SUCCESS, find_and_remove_key(A, m.pubkey), W)
  \/ /\ m.op = OP_DELETE /\ m.role = ROLE_WRITER /\ W[m.pubkey] > 0
     /\ u = Lists(TEE_SUCCESS, A, find_and_remove_key(W, m.pubkey))
  \/ /\ m.role \notin {ROLE_ADMIN, ROLE_WRITER}
     /\ u = Lists(TEE_SUCCESS, A, W)

\* Every outcome of the update of the key sets is one of those five.
LEMMA UpdateCases ==
  ASSUME NEW A \in KeyLists, NEW W \in KeyLists, NEW m, m.op \in AccessOps,
         m.role \in Role, m.pubkey \in Key, NEW u \in UpdateKeySets(A, W, m)
  PROVE  UpdateCase(A, W, m, u) /\ u.res \in TEE_Result
<1> DEFINE k == m.pubkey
<1>1. A[k] \in Nat /\ W[k] \in Nat
  BY DEF KeyLists
<1>2. TEE_ERROR_BAD_PARAMETERS # TEE_SUCCESS /\ TEE_ERROR_OUT_OF_MEMORY # TEE_SUCCESS
  BY DEF TEE_ERROR_BAD_PARAMETERS, TEE_ERROR_OUT_OF_MEMORY, TEE_SUCCESS
<1>3. {TEE_ERROR_BAD_PARAMETERS, TEE_ERROR_OUT_OF_MEMORY, TEE_SUCCESS} \subseteq TEE_Result
  BY DEF TEE_Result
<1> USE DEF Lists, key_exists_in_set, When
<1>4. CASE m.op = OP_ADD /\ m.role = ROLE_ADMIN
  <2>1. u \in AddAdmin(A, W, k)
    BY <1>4 DEF UpdateKeySets, OP_ADD, OP_DELETE, ROLE_ADMIN, ROLE_WRITER
  <2> QED BY <1>1, <1>2, <1>3, <1>4, <2>1 DEF AddAdmin, UpdateCase
<1>5. CASE m.op = OP_ADD /\ m.role = ROLE_WRITER
  <2>1. u \in AddWriter(A, W, k)
    BY <1>5 DEF UpdateKeySets, OP_ADD, OP_DELETE, ROLE_ADMIN, ROLE_WRITER
  <2> QED BY <1>1, <1>2, <1>3, <1>5, <2>1 DEF AddWriter, UpdateCase
<1>6. CASE m.op = OP_DELETE /\ m.role = ROLE_ADMIN
  <2>1. u \in DeleteAdmin(A, W, k)
    BY <1>6 DEF UpdateKeySets, OP_ADD, OP_DELETE, ROLE_ADMIN, ROLE_WRITER
  <2> QED BY <1>1, <1>2, <1>3, <1>6, <2>1 DEF DeleteAdmin, UpdateCase
<1>7. CASE m.op = OP_DELETE /\ m.role = ROLE_WRITER
  <2>1. u \in DeleteWriter(A, W, k)
    BY <1>7 DEF UpdateKeySets, OP_ADD, OP_DELETE, ROLE_ADMIN, ROLE_WRITER
  <2> QED BY <1>1, <1>2, <1>3, <1>7, <2>1 DEF DeleteWriter, UpdateCase
<1>8. CASE m.role \notin {ROLE_ADMIN, ROLE_WRITER}
  <2>1. u \in {Lists(TEE_SUCCESS, A, W)}
    BY <1>8 DEF UpdateKeySets
  <2> QED BY <1>3, <1>8, <2>1 DEF UpdateCase
<1> QED BY <1>4, <1>5, <1>6, <1>7, <1>8 DEF AccessOps

-----------------------------------------------------------------------------
(* What a step does to the chain state.                                      *)

Effect ==
  \/ UNCHANGED chainVars
  \/ TA_CloseSession
  \/ \E k \in Key, tk \in StoredKey : Created(k, tk)
  \/ \E m \in AccessMessages : \E u \in UpdatesOf(m) : TornBy(m, u)
  \/ \E m \in AccessMessages : \E u \in UpdatesOf(m), tk \in StoredKey : AccessBy(m, u, tk)
  \/ \E m \in CommitMessages : \E tk \in StoredKey : CommitBy(m, tk)

\* The part of TypeOK that is about the other variables.
OuterTypes ==
  /\ session \in BOOLEAN
  /\ tee_key \in StoredKey
  /\ result \in TEE_Result
  /\ boots \in 0..MaxBoots

USE DEF chainVars, repoVars, listVars, lifeVars, Return

\* A block was sealed with this pair, which is still the stored one if that opens.
SealedWith(tk) == tk \in StoredKey \ {0} /\ (tk = tee_key' \/ CanFail("open"))

KeyKept == Replaces(tee_key, tee_key') => CanFail("open")

\* An invocation that failed leaves the chains and the lists alone.
Refused == result' # TEE_SUCCESS /\ UNCHANGED chainVars

\* init_repo creates a repository or leaves the chains and lists alone; the slot
\* it clears on failure was empty because the ids are dense.
LEMMA InitRepoStep ==
  ASSUME IdsDense, OuterTypes, NEW k \in Key, init_repo(k)
  PROVE  /\ OuterTypes' /\ KeyKept
         /\ \/ Refused
            \/ /\ result' = TEE_SUCCESS
               /\ \E tk \in StoredKey : SealedWith(tk) /\ Created(k, tk)
<1> USE DEF init_repo, OuterTypes
<1>0. TEE_ERROR_OUT_OF_MEMORY \in TEE_Result /\ TEE_ERROR_OUT_OF_MEMORY # TEE_SUCCESS
  BY DEF TEE_Result, TEE_ERROR_OUT_OF_MEMORY, TEE_SUCCESS
<1>1. CASE InitRepoFull
  BY <1>0, <1>1 DEF InitRepoFull, Refused, KeyKept, Replaces
<1>2. ASSUME NEW res, InitFails(res)
      PROVE  UNCHANGED chainVars /\ result' = res
  BY <1>2, RepoAssumption DEF InitFails, IdsDense, cleanup_repo_resources
<1>3. CASE InitRepoNoMemory
  BY <1>0, <1>2, <1>3 DEF InitRepoNoMemory, Refused, KeyKept, Replaces
<1>4. CASE InitRepoSeal(k)
  <2>1. PICK o \in tee_sign_data(tee_key) :
          /\ repo_num < MAX_REPO_ID
          /\ tee_key' = o.key
          /\ \/ o.res # TEE_SUCCESS /\ InitFails(o.res)
             \/ o.res = TEE_SUCCESS /\ InitSucceeds(k, o.key)
    BY <1>4 DEF InitRepoSeal
  <2>2. /\ o.key \in StoredKey /\ o.res \in TEE_Result
        /\ o.res = TEE_SUCCESS => o.key # 0
        /\ KeyKept
    BY <2>1, SignOutcomes DEF KeyKept
  <2>3. CASE o.res # TEE_SUCCESS /\ InitFails(o.res)
    BY <1>2, <2>1, <2>2, <2>3 DEF Refused
  <2>4. CASE o.res = TEE_SUCCESS /\ InitSucceeds(k, o.key)
    <3>1. result' = TEE_SUCCESS
      BY <2>4 DEF InitSucceeds
    <3>2. Created(k, o.key) /\ SealedWith(o.key)
      BY <2>1, <2>2, <2>4 DEF Created, SealedWith
    <3> QED BY <2>1, <2>2, <2>4, <3>1, <3>2
  <2> QED BY <2>1, <2>3, <2>4
<1> QED BY <1>1, <1>3, <1>4

\* access_control appends a block and succeeds; when it fails it leaves the
\* chains alone, and the lists too unless a call can fail after their update.
LEMMA AccessStep ==
  ASSUME TypeOK, OuterTypes, NEW m \in AccessMessages, access_control(m)
  PROVE  /\ OuterTypes' /\ KeyKept
         /\ \/ Refused
            \/ /\ result' # TEE_SUCCESS /\ CanTear
               /\ \E u \in UpdatesOf(m) : TornBy(m, u)
            \/ /\ result' = TEE_SUCCESS /\ Len(ledger[m.rep_id]) < MaxBlocks
               /\ \E u \in UpdatesOf(m), tk \in StoredKey : SealedWith(tk) /\ AccessBy(m, u, tk)
<1> USE DEF access_control, OuterTypes
<1>1. CASE AccessRefused(m)
  <2>1. /\ AccessChecks(m) \in TEE_Result /\ TEE_ERROR_SECURITY \in TEE_Result
        /\ TEE_ERROR_SECURITY # TEE_SUCCESS
    BY DEF AccessChecks, TEE_Result, TEE_ERROR_SECURITY, TEE_SUCCESS
  <2> QED BY <1>1, <2>1 DEF AccessRefused, Refused, KeyKept, Replaces
<1>2. CASE ~AccessRefused(m)
  <2>1. PICK u \in UpdatesOf(m) :
          /\ AccessChecks(m) = TEE_SUCCESS /\ Len(ledger[m.rep_id]) < MaxBlocks
          /\ AccessApplied(m, u)
    BY <1>2 DEF UpdatesOf
  <2>2. Updated(m, u)
    BY <2>1 DEF AccessApplied, Updated
  <2>3. /\ m.rep_id \in RepId
        /\ UpdateCase(admin_keys[m.rep_id], writer_keys[m.rep_id], m, u)
        /\ u.res \in TEE_Result
    BY <2>1, AccessChecked, AccessMessageFields, UpdateCases DEF TypeOK, UpdatesOf
  <2>4. ASSUME NEW res, AccessFails(m, u, res),
               u.admins = admin_keys[m.rep_id], u.writers = writer_keys[m.rep_id]
        PROVE  UNCHANGED chainVars
    BY <2>2, <2>3, <2>4 DEF AccessFails, Updated, TypeOK
  <2>5. CASE u.res # TEE_SUCCESS
    <3>1. AccessFails(m, u, u.res) /\ UNCHANGED tee_key
      BY <2>1, <2>5 DEF AccessApplied
    <3>2. TornBy(m, u) /\ result' = u.res
      BY <2>1, <2>2, <3>1 DEF TornBy, AccessFails
    <3>3. \/ u.admins = admin_keys[m.rep_id] /\ u.writers = writer_keys[m.rep_id]
          \/ CanTear
      BY <2>3, <2>5 DEF UpdateCase, Lists, CanFail, CanTear, TearFaults
    <3>4. CASE CanTear
      BY <2>3, <2>5, <3>1, <3>2, <3>4 DEF KeyKept, Replaces
    <3>5. CASE u.admins = admin_keys[m.rep_id] /\ u.writers = writer_keys[m.rep_id]
      <4>1. Refused
        BY <2>4, <2>5, <3>1, <3>2, <3>5 DEF Refused
      <4> QED BY <2>3, <3>1, <3>2, <4>1 DEF KeyKept, Replaces
    <3> QED BY <3>3, <3>4, <3>5
  <2>6. CASE u.res = TEE_SUCCESS
    <3>1. PICK o \in tee_sign_data(tee_key) :
            /\ tee_key' = o.key
            /\ \/ o.res # TEE_SUCCESS /\ AccessFails(m, u, o.res)
               \/ o.res = TEE_SUCCESS /\ AccessSucceeds(m, o.key)
      BY <2>1, <2>6 DEF AccessApplied
    <3>2. /\ o.key \in StoredKey /\ o.res \in TEE_Result
          /\ o.res = TEE_SUCCESS => o.key # 0
          /\ o.res # TEE_SUCCESS => CanTear
          /\ KeyKept
      BY <3>1, SignOutcomes DEF KeyKept
    <3>3. CASE o.res # TEE_SUCCESS /\ AccessFails(m, u, o.res)
      <4>1. TornBy(m, u) /\ result' = o.res
        BY <2>1, <2>2, <3>3 DEF TornBy, AccessFails
      <4> QED BY <3>1, <3>2, <3>3, <4>1
    <3>4. CASE o.res = TEE_SUCCESS /\ AccessSucceeds(m, o.key)
      <4>1. AccessBy(m, u, o.key) /\ SealedWith(o.key)
        BY <2>1, <2>2, <2>6, <3>1, <3>2, <3>4 DEF AccessBy, SealedWith
      <4>2. result' = TEE_SUCCESS
        BY <3>4 DEF AccessSucceeds
      <4> QED BY <2>1, <3>1, <3>2, <3>4, <4>1, <4>2
    <3> QED BY <3>1, <3>3, <3>4
  <2> QED BY <2>5, <2>6
<1> QED BY <1>1, <1>2

\* commit appends a block and succeeds, or fails and changes nothing.  The pair
\* that sealed the block is the stored one although a decryption came between.
LEMMA CommitStep ==
  ASSUME OuterTypes, NEW m \in CommitMessages, commit(m)
  PROVE  /\ OuterTypes' /\ KeyKept
         /\ \/ Refused
            \/ /\ result' = TEE_SUCCESS
               /\ \E tk \in StoredKey : SealedWith(tk) /\ CommitBy(m, tk)
<1> USE DEF commit, OuterTypes
<1>1. CASE CommitRefused(m)
  <2>1. /\ CommitChecks(m) \in TEE_Result /\ TEE_ERROR_SECURITY \in TEE_Result
        /\ TEE_ERROR_SECURITY # TEE_SUCCESS
    BY DEF CommitChecks, TEE_Result, TEE_ERROR_SECURITY, TEE_SUCCESS
  <2> QED BY <1>1, <2>1 DEF CommitRefused, Refused, KeyKept, Replaces
<1>2. CASE CommitChecks(m) = TEE_SUCCESS /\ CommitSealed(m)
  <2>1. PICK o \in tee_sign_data(tee_key) :
          \/ /\ o.res # TEE_SUCCESS
             /\ tee_key' = o.key
             /\ CommitFails(o.res)
          \/ /\ o.res = TEE_SUCCESS
             /\ \E d \in tee_decrypt_data(o.key, m.encrypted_key) :
                  /\ tee_key' = d.key
                  /\ \/ d.res # TEE_SUCCESS /\ CommitFails(d.res)
                     \/ d.res = TEE_SUCCESS /\ CommitSucceeds(m, o.key)
    BY <1>2 DEF CommitSealed
  <2>2. /\ o.key \in StoredKey /\ o.res \in TEE_Result
        /\ o.res = TEE_SUCCESS => o.key # 0
        /\ Replaces(tee_key, o.key) => CanFail("open")
    BY SignOutcomes
  <2>3. CASE o.res # TEE_SUCCESS /\ tee_key' = o.key /\ CommitFails(o.res)
    BY <2>2, <2>3 DEF CommitFails, Refused, KeyKept
  <2>4. ASSUME NEW d \in tee_decrypt_data(o.key, m.encrypted_key), tee_key' = d.key,
               o.res = TEE_SUCCESS
        PROVE  /\ d.key \in StoredKey /\ d.res \in TEE_Result
               /\ KeyKept /\ SealedWith(o.key)
    BY <2>2, <2>4, DecryptOutcomes DEF KeyKept, SealedWith, Replaces
  <2>5. CASE \E d \in tee_decrypt_data(o.key, m.encrypted_key) :
               /\ o.res = TEE_SUCCESS /\ tee_key' = d.key
               /\ d.res # TEE_SUCCESS /\ CommitFails(d.res)
    BY <2>4, <2>5 DEF CommitFails, Refused
  <2>6. CASE \E d \in tee_decrypt_data(o.key, m.encrypted_key) :
               /\ o.res = TEE_SUCCESS /\ tee_key' = d.key
               /\ d.res = TEE_SUCCESS /\ CommitSucceeds(m, o.key)
    <3>1. CommitBy(m, o.key) /\ result' = TEE_SUCCESS
      BY <1>2, <2>6 DEF CommitBy, CommitSucceeds
    <3>2. OuterTypes' /\ KeyKept /\ SealedWith(o.key)
      BY <2>4, <2>6, <3>1, <1>2 DEF TEE_Result
    <3> QED BY <2>2, <3>1, <3>2
  <2> QED BY <2>1, <2>3, <2>5, <2>6
<1> QED BY <1>1, <1>2

\* Every step has one of the effects, and keeps the types of the other variables.
LEMMA StepEffect ==
  ASSUME TypeOK, IdsDense, [Next]_vars
  PROVE  Effect /\ OuterTypes'
<1>0. OuterTypes
  BY DEF TypeOK, OuterTypes
<1>1. CASE UNCHANGED vars
  BY <1>0, <1>1 DEF vars, Effect, OuterTypes
<1>2. CASE TA_OpenSession
  <2>1. boots' \in 0..MaxBoots
    <3>1. MaxBoots \in Nat /\ boots \in 0..MaxBoots
      BY <1>0, BoundAssumption DEF OuterTypes
    <3> QED BY <1>2, <3>1 DEF TA_OpenSession
  <2>2. session' \in BOOLEAN
    BY <1>0, <1>2, Zenon DEF TA_OpenSession, OuterTypes
  <2>3. result' \in TEE_Result /\ UNCHANGED tee_key /\ UNCHANGED chainVars
    BY <1>2 DEF TA_OpenSession, TEE_Result
  <2> QED BY <1>0, <2>1, <2>2, <2>3 DEF Effect, OuterTypes
<1>3. CASE TA_CloseSession
  BY <1>0, <1>3 DEF TA_CloseSession, Effect, OuterTypes, TEE_Result
<1>4. ASSUME NEW k \in Key, init_repo(k)
      PROVE  Effect /\ OuterTypes'
  BY <1>0, <1>4, InitRepoStep DEF Effect, Refused
<1>5. ASSUME NEW m \in AccessMessages, access_control(m)
      PROVE  Effect /\ OuterTypes'
  BY <1>0, <1>5, AccessStep DEF Effect, Refused
<1>6. ASSUME NEW m \in CommitMessages, commit(m)
      PROVE  Effect /\ OuterTypes'
  BY <1>0, <1>6, CommitStep DEF Effect, Refused
<1>7. ASSUME NEW r \in AnyId, NEW n \in Nonce, get_latest_hash(r, n)
      PROVE  Effect /\ OuterTypes'
  <2>1. UNCHANGED chainVars
    BY <1>7 DEF get_latest_hash
  <2>2. tee_key' \in StoredKey /\ result' \in TEE_Result
    <3>1. CASE result' = TEE_ERROR_ITEM_NOT_FOUND /\ UNCHANGED tee_key
      BY <1>0, <3>1 DEF OuterTypes, TEE_Result
    <3>2. ASSUME NEW o \in tee_sign_data(tee_key), tee_key' = o.key, result' = o.res
          PROVE  tee_key' \in StoredKey /\ result' \in TEE_Result
      BY <1>0, <3>2, SignOutcomes DEF OuterTypes
    <3> QED BY <1>7, <3>1, <3>2 DEF get_latest_hash
  <2> QED BY <1>0, <1>7, <2>1, <2>2 DEF get_latest_hash, Effect, OuterTypes
<1>8. ASSUME NEW size \in PemBufSize, get_tee_public_key(size)
      PROVE  Effect /\ OuterTypes'
  <2>1. \A res \in PublicKeyResults(size) : res \in TEE_Result
    BY DEF PublicKeyResults, When, public_key_obj_to_pem, TEE_Result
  <2> QED BY <1>0, <1>8, <2>1 DEF get_tee_public_key, Effect, OuterTypes
<1>9. CASE InvokeBadParameters
  BY <1>0, <1>9 DEF InvokeBadParameters, Effect, OuterTypes, TEE_Result
<1> QED BY <1>1, <1>2, <1>3, <1>4, <1>5, <1>6, <1>7, <1>8, <1>9 DEF Next

-----------------------------------------------------------------------------
(* The two ways of appending a block have the same effect on the chain.      *)

Grown(r, b) ==
  /\ r \in repositories /\ r \in RepId
  /\ ledger' = [ledger EXCEPT ![r] = Append(@, b)]
  /\ latest_hash' = [latest_hash EXCEPT ![r] = BlockHash(b)]
  /\ founder_key' = [founder_key EXCEPT ![r] = EmptyStr]
  /\ block_height' = [block_height EXCEPT ![r] = @ + 1]
  /\ UNCHANGED <<repo_num, repositories, torn>>
  /\ b.block_height = block_height[r] + 1
  /\ b.parent_hash = latest_hash[r]
  /\ b.tee_sig.digest = BlockHash(b)
  /\ BlockOK(b)

\* What an appended access block does to the ledger, the hash and the height.
LEMMA AccessGrows ==
  ASSUME TypeOK, NEW m \in AccessMessages, NEW u, NEW tk \in StoredKey, AccessBy(m, u, tk)
  PROVE  Grown(m.rep_id, Signed(AccessBlock(m), tk))
<1> DEFINE a == AccessBlock(m)
           b == Signed(a, tk)
<1>1. /\ m.op \in AccessOps /\ m.rep_id \in repositories /\ m.rep_id \in RepId
      /\ m.pubkey \in Key /\ m.sigkey \in Key /\ m.role \in Nat
  BY AccessChecked, AccessMessageFields, RoleAssumption DEF AccessBy
<1>2. BlockHash(b) = BlockHash(a)
  BY DEF BlockHash, calculate_access_block_hash, calculate_contribution_block_hash,
         Signed, AccessBlock, init_access_block
<1>3. /\ b.block_height = block_height[m.rep_id] + 1
      /\ b.parent_hash = latest_hash[m.rep_id]
      /\ b.tee_sig = [key |-> tk, digest |-> BlockHash(a)]
      /\ b.op = m.op /\ b.role = m.role /\ b.pubkey = m.pubkey /\ b.sigkey = m.sigkey
      /\ b.commit_hash = EmptyStr
  BY DEF Signed, AccessBlock, init_access_block
<1>4. block_height[m.rep_id] \in Nat
  BY <1>1 DEF TypeOK
<1>5. BlockOK(b)
  BY <1>1, <1>3, <1>4 DEF BlockOK
<1>6. AppendBlock(m.rep_id, a, tk) /\ UNCHANGED <<repo_num, repositories, torn>>
  BY DEF AccessBy, AccessSucceeds
<1> QED BY <1>1, <1>2, <1>3, <1>5, <1>6 DEF Grown, AppendBlock, StoreLatestHash

\* What an appended contribution block does to the ledger, the hash and the height.
LEMMA CommitGrows ==
  ASSUME TypeOK, NEW m \in CommitMessages, NEW tk \in StoredKey, CommitBy(m, tk)
  PROVE  Grown(m.rep_id, Signed(ContributionBlock(m), tk))
<1> DEFINE a == ContributionBlock(m)
           b == Signed(a, tk)
<1>1. /\ m.op \in CommitOps /\ m.rep_id \in repositories /\ m.rep_id \in RepId
      /\ m.commit_hash \in CommitHash /\ m.sigkey \in Key
  BY CommitChecked, CommitMessageFields DEF CommitBy
<1>2. BlockHash(b) = BlockHash(a)
  BY DEF BlockHash, calculate_access_block_hash, calculate_contribution_block_hash,
         Signed, ContributionBlock, init_contribution_block
<1>3. /\ b.block_height = block_height[m.rep_id] + 1
      /\ b.parent_hash = latest_hash[m.rep_id]
      /\ b.tee_sig = [key |-> tk, digest |-> BlockHash(a)]
      /\ b.op = m.op /\ b.role = 0 /\ b.pubkey = EmptyStr /\ b.sigkey = m.sigkey
      /\ b.commit_hash = m.commit_hash
  BY DEF Signed, ContributionBlock, init_contribution_block
<1>4. block_height[m.rep_id] \in Nat
  BY <1>1 DEF TypeOK
<1>5. BlockOK(b)
  BY <1>1, <1>3, <1>4 DEF BlockOK
<1>6. AppendBlock(m.rep_id, a, tk) /\ UNCHANGED <<repo_num, repositories, torn>>
  BY DEF CommitBy, CommitSucceeds
<1> QED BY <1>1, <1>2, <1>3, <1>5, <1>6 DEF Grown, AppendBlock, StoreLatestHash

\* A new repository: its genesis block and its fields; the others are untouched.
Fresh(k, tk) == Signed(GenesisBlock(k), tk)

\* The state of a repository that was just created.
LEMMA CreatedFacts ==
  ASSUME TypeOK, IdsDense, NEW k \in Key, NEW tk \in StoredKey, Created(k, tk)
  PROVE  /\ repo_num \in RepId /\ repo_num \notin repositories
         /\ repositories' = repositories \cup {repo_num}
         /\ repo_num' = repo_num + 1
         /\ ledger' = [ledger EXCEPT ![repo_num] = <<Fresh(k, tk)>>]
         /\ block_height' = [block_height EXCEPT ![repo_num] = 0]
         /\ latest_hash' = [latest_hash EXCEPT ![repo_num] = BlockHash(Fresh(k, tk))]
         /\ founder_key' = [founder_key EXCEPT ![repo_num] = EmptyStr]
         /\ admin_keys' = [admin_keys EXCEPT ![repo_num] = add_key_to_set(init_key_list, k)]
         /\ writer_keys' = [writer_keys EXCEPT ![repo_num] = init_key_list]
         /\ torn' = torn
         /\ BlockOK(Fresh(k, tk))
         /\ Fresh(k, tk).block_height = 1
         /\ Fresh(k, tk).parent_hash = ZERO_HASH
         /\ Fresh(k, tk).tee_sig.digest = BlockHash(Fresh(k, tk))
         /\ Fresh(k, tk).op = OP_ADD /\ Fresh(k, tk).role = ROLE_ADMIN
         /\ Fresh(k, tk).pubkey = k
<1> DEFINE g == GenesisBlock(k)
           b == Fresh(k, tk)
<1>1. repo_num \in RepId /\ repo_num \notin repositories
  BY RepoAssumption DEF TypeOK, IdsDense, Created, RepId
<1>2. BlockHash(b) = BlockHash(g)
  BY DEF BlockHash, calculate_access_block_hash, calculate_contribution_block_hash,
         Fresh, Signed, GenesisBlock, init_access_block
<1>3. /\ b.block_height = 1 /\ b.parent_hash = ZERO_HASH
      /\ b.tee_sig = [key |-> tk, digest |-> BlockHash(g)]
      /\ b.op = OP_ADD /\ b.role = ROLE_ADMIN /\ b.pubkey = k /\ b.sigkey = k
      /\ b.commit_hash = EmptyStr
  BY DEF Fresh, Signed, GenesisBlock, init_access_block
<1>4. BlockOK(b)
  BY <1>3 DEF BlockOK, AccessOps, OP_ADD, ROLE_ADMIN
<1>5. InitSucceeds(k, tk)
  BY DEF Created
<1> QED BY <1>1, <1>2, <1>3, <1>4, <1>5 DEF InitSucceeds, StoreLatestHash, Fresh

-----------------------------------------------------------------------------
(* Types and ids.                                                            *)

\* The lists an update leaves are lists.
LEMMA UpdatedTypes ==
  ASSUME TypeOK, NEW m \in AccessMessages, AccessChecks(m) = TEE_SUCCESS,
         NEW u \in UpdatesOf(m), Updated(m, u)
  PROVE  admin_keys' \in [RepId -> KeyLists] /\ writer_keys' \in [RepId -> KeyLists]
<1> DEFINE A == admin_keys[m.rep_id]
           W == writer_keys[m.rep_id]
<1>1. /\ m.op \in AccessOps /\ m.rep_id \in RepId /\ m.role \in Role /\ m.pubkey \in Key
  BY AccessChecked, AccessMessageFields
<1>2. A \in KeyLists /\ W \in KeyLists
  BY <1>1 DEF TypeOK
<1>3. UpdateCase(A, W, m, u)
  BY <1>1, <1>2, UpdateCases DEF UpdatesOf
<1>4. \A L \in KeyLists : /\ add_key_to_set(L, m.pubkey) \in KeyLists
                          /\ find_and_remove_key(L, m.pubkey) \in KeyLists
  BY <1>1 DEF add_key_to_set, find_and_remove_key, KeyLists
<1>5. u.admins \in KeyLists /\ u.writers \in KeyLists
  BY <1>2, <1>3, <1>4 DEF UpdateCase, Lists
<1> QED BY <1>1, <1>5 DEF TypeOK, Updated

\* Every step keeps the types.
LEMMA TypeStep ==
  ASSUME TypeOK, IdsDense, [Next]_vars
  PROVE  TypeOK' /\ IdsDense'
<1>1. Effect /\ OuterTypes'
  BY StepEffect
<1> DEFINE LedgerOK(L) == IsLedger(L) /\ \A i \in 1..Len(L) : BlockOK(L[i])
           ChainTypes == /\ repo_num \in 0..MAX_REPO_ID
                         /\ repositories \subseteq RepId
                         /\ block_height \in [RepId -> Nat]
                         /\ DOMAIN latest_hash = RepId
                         /\ founder_key \in [RepId -> Key \cup {EmptyStr}]
                         /\ admin_keys \in [RepId -> KeyLists]
                         /\ writer_keys \in [RepId -> KeyLists]
                         /\ DOMAIN ledger = RepId
                         /\ \A r \in RepId : LedgerOK(ledger[r])
                         /\ torn \in [RepId -> SUBSET Key]
<1>2. ChainTypes /\ IdsDense
  BY DEF TypeOK
<1>3. LedgerOK(<<>>)
  BY EmptyLedger
<1>4. \A L, b : LedgerOK(L) /\ BlockOK(b) => LedgerOK(Append(L, b))
  <2>1. SUFFICES ASSUME NEW L, NEW b, LedgerOK(L), BlockOK(b), NEW i \in 1..Len(Append(L, b))
                 PROVE  BlockOK(Append(L, b)[i])
    BY AppendElements
  <2>2. i \in 1..Len(L) \/ i = Len(L) + 1
    BY <2>1, AppendElements
  <2> QED BY <2>1, <2>2, AppendElements
<1>5. init_key_list \in KeyLists /\ \A k \in Key : add_key_to_set(init_key_list, k) \in KeyLists
  BY DEF init_key_list, add_key_to_set, KeyLists
<1> HIDE DEF LedgerOK
<1>6. ASSUME UNCHANGED chainVars
      PROVE  ChainTypes' /\ IdsDense'
  BY <1>2, <1>6 DEF IdsDense
<1>7. ASSUME TA_CloseSession
      PROVE  ChainTypes' /\ IdsDense'
  BY <1>3, <1>5, <1>7, RepoAssumption DEF TA_CloseSession, EverySlot, IdsDense
<1>8. ASSUME NEW k \in Key, NEW tk \in StoredKey, Created(k, tk)
      PROVE  ChainTypes' /\ IdsDense'
  <2>1. LedgerOK(<<Fresh(k, tk)>>)
    BY <1>8, CreatedFacts, SingletonLedger DEF LedgerOK
  <2>2. repo_num' \in 0..MAX_REPO_ID /\ repositories' \subseteq RepId /\ IdsDense'
    <3>1. /\ repo_num \in Nat /\ repo_num < MAX_REPO_ID /\ repositories = 0..(repo_num - 1)
          /\ repo_num' = repo_num + 1 /\ repositories' = repositories \cup {repo_num}
      BY <1>2, <1>8, CreatedFacts DEF Created, IdsDense
    <3>2. 0..(repo_num - 1) \cup {repo_num} = 0..((repo_num + 1) - 1)
      BY <3>1
    <3> QED BY <3>1, <3>2, RepoAssumption DEF RepId, IdsDense
  <2>3. \A r \in RepId : LedgerOK(ledger'[r])
    BY <1>2, <1>8, <2>1, CreatedFacts
  <2>4. /\ block_height' \in [RepId -> Nat] /\ DOMAIN latest_hash' = RepId
        /\ founder_key' \in [RepId -> Key \cup {EmptyStr}]
        /\ DOMAIN ledger' = RepId /\ torn' \in [RepId -> SUBSET Key]
    BY <1>2, <1>8, CreatedFacts
  <2>5. admin_keys' \in [RepId -> KeyLists] /\ writer_keys' \in [RepId -> KeyLists]
    BY <1>2, <1>5, <1>8, CreatedFacts
  <2> QED BY <2>2, <2>3, <2>4, <2>5
<1>9. ASSUME NEW m \in AccessMessages, NEW u \in UpdatesOf(m), TornBy(m, u)
      PROVE  ChainTypes' /\ IdsDense'
  <2>1. admin_keys' \in [RepId -> KeyLists] /\ writer_keys' \in [RepId -> KeyLists]
    BY <1>9, UpdatedTypes DEF TornBy
  <2>2. torn' \in [RepId -> SUBSET Key]
    <3>1. m.pubkey \in Key /\ m.rep_id \in RepId
      BY <1>9, AccessMessageFields, AccessChecked DEF TornBy
    <3>2. torn[m.rep_id] \cup {m.pubkey} \in SUBSET Key
      BY <1>2, <3>1
    <3>3. torn' = torn \/ torn' = [torn EXCEPT ![m.rep_id] = torn[m.rep_id] \cup {m.pubkey}]
      BY <1>9 DEF TornBy, AccessFails
    <3> QED BY <1>2, <3>1, <3>2, <3>3
  <2>3. UNCHANGED <<repoVars, ledger>>
    BY <1>9 DEF TornBy, AccessFails
  <2> QED BY <1>2, <2>1, <2>2, <2>3 DEF IdsDense
<1>10. ASSUME NEW r, NEW b, Grown(r, b),
              admin_keys' \in [RepId -> KeyLists], writer_keys' \in [RepId -> KeyLists]
       PROVE  ChainTypes' /\ IdsDense'
  <2>1. \A s \in RepId : LedgerOK(ledger'[s])
    BY <1>2, <1>4, <1>10 DEF Grown
  <2>2. /\ block_height' \in [RepId -> Nat] /\ DOMAIN latest_hash' = RepId
        /\ founder_key' \in [RepId -> Key \cup {EmptyStr}]
        /\ DOMAIN ledger' = RepId
    BY <1>2, <1>10 DEF Grown
  <2> QED BY <1>2, <1>10, <2>1, <2>2 DEF Grown, IdsDense
<1>11. ASSUME NEW m \in AccessMessages, NEW u \in UpdatesOf(m), NEW tk \in StoredKey,
              AccessBy(m, u, tk)
       PROVE  ChainTypes' /\ IdsDense'
  BY <1>10, <1>11, AccessGrows, UpdatedTypes DEF AccessBy
<1>12. ASSUME NEW m \in CommitMessages, NEW tk \in StoredKey, CommitBy(m, tk)
       PROVE  ChainTypes' /\ IdsDense'
  <2>1. UNCHANGED <<admin_keys, writer_keys>>
    BY <1>12 DEF CommitBy
  <2> QED BY <1>2, <1>10, <1>12, <2>1, CommitGrows
<1>13. ChainTypes' /\ IdsDense'
  BY <1>1, <1>6, <1>7, <1>8, <1>9, <1>11, <1>12 DEF Effect
<1> QED BY <1>1, <1>13 DEF TypeOK, OuterTypes, LedgerOK

-----------------------------------------------------------------------------
(* The invariant: the seven together are inductive.                          *)

\* How heights run in the code, where pseudocode.md counts otherwise (HeightsCount):
\* the genesis block has height 1 and leaves block_height at 0, so the block after
\* it has height 1 again; from there block_height is the height of the last block.
HeightLaw ==
  \A r \in repositories :
    LET L == ledger[r] IN
    /\ block_height[r] = Len(L) - 1
    /\ \A i \in 1..Len(L) : L[i].block_height = IF i = 1 THEN 1 ELSE i - 1

IInv == /\ TypeOK /\ IdsDense /\ ListsExclusive
        /\ HeightLaw /\ ChainLinked /\ ListsMatchLedger /\ BlocksAuthorised

\* The strengthened invariant holds of the zeroed globals.
LEMMA InitIInv ==
  ASSUME Init
  PROVE  IInv
<1> USE DEF Init, EverySlot
<1>1. TypeOK
  <2>1. init_key_list \in KeyLists
    BY DEF init_key_list, KeyLists
  <2>2. 0 \in StoredKey /\ TEE_SUCCESS \in TEE_Result
    BY MaxKeyGenAssumption DEF StoredKey, TEE_Result
  <2>3. /\ session \in BOOLEAN /\ tee_key \in StoredKey /\ result \in TEE_Result
        /\ boots \in 0..MaxBoots /\ repo_num \in 0..MAX_REPO_ID
        /\ repositories \subseteq RepId
    <3>1. MaxBoots \in Nat /\ MAX_REPO_ID \in Nat
      BY RepoAssumption, BoundAssumption
    <3>2. boots = 0 /\ repo_num = 0 /\ repositories = {}
      OBVIOUS
    <3>3. session \in BOOLEAN /\ tee_key = 0 /\ result = TEE_SUCCESS
      BY Zenon
    <3>4. boots \in 0..MaxBoots /\ repo_num \in 0..MAX_REPO_ID /\ repositories \subseteq RepId
      BY <3>1, <3>2
    <3> QED BY <2>2, <3>3, <3>4
  <2>4. /\ block_height \in [RepId -> Nat] /\ DOMAIN latest_hash = RepId
        /\ founder_key \in [RepId -> Key \cup {EmptyStr}]
        /\ admin_keys \in [RepId -> KeyLists] /\ writer_keys \in [RepId -> KeyLists]
        /\ torn \in [RepId -> SUBSET Key]
    BY <2>1
  <2>5. DOMAIN ledger = RepId /\ \A r \in RepId : ledger[r] = <<>>
    OBVIOUS
  <2>6. \A r \in RepId : IsLedger(ledger[r]) /\ 1..Len(ledger[r]) = {}
    BY <2>5, EmptyLedger
  <2> QED BY <2>3, <2>4, <2>5, <2>6 DEF TypeOK
<1>2. IdsDense
  BY DEF IdsDense
<1>3. ListsExclusive
  BY DEF ListsExclusive, init_key_list
<1> QED BY <1>1, <1>2, <1>3
        DEF IInv, HeightLaw, ChainLinked, ListsMatchLedger, BlocksAuthorised

\* No list holds a key twice, and the two lists of a repository are disjoint.
ListPair(A, W) == \A k \in Key : A[k] + W[k] <= 1

\* No outcome of the update puts a key on a list twice or on both.
LEMMA UpdateExclusive ==
  ASSUME NEW A \in KeyLists, NEW W \in KeyLists, NEW m, m.op \in AccessOps,
         m.role \in Role, m.pubkey \in Key, NEW u \in UpdateKeySets(A, W, m),
         ListPair(A, W)
  PROVE  ListPair(u.admins, u.writers)
<1>1. UpdateCase(A, W, m, u)
  BY UpdateCases
<1>2. \A k \in Key : A[k] \in Nat /\ W[k] \in Nat
  BY DEF KeyLists
<1>3. SUFFICES ASSUME NEW k \in Key
               PROVE  u.admins[k] + u.writers[k] <= 1
  BY DEF ListPair
<1>4. A[k] + W[k] <= 1
  BY DEF ListPair
<1>5. \A L \in KeyLists :
        /\ add_key_to_set(L, m.pubkey)[k] = IF k = m.pubkey THEN L[k] + 1 ELSE L[k]
        /\ find_and_remove_key(L, m.pubkey)[k] =
             IF k = m.pubkey THEN (IF L[k] > 0 THEN L[k] - 1 ELSE 0) ELSE L[k]
  BY DEF add_key_to_set, find_and_remove_key, KeyLists
<1>6. \/ u.admins[k] = A[k] /\ u.writers[k] = W[k]
      \/ k = m.pubkey /\ A[k] = 0 /\ u.admins[k] <= 1
                      /\ u.writers[k] = IF W[k] > 0 THEN W[k] - 1 ELSE 0
      \/ k = m.pubkey /\ A[k] = 0 /\ W[k] = 0 /\ u.admins[k] = 0 /\ u.writers[k] = 1
      \/ k = m.pubkey /\ u.admins[k] = A[k] - 1 /\ u.writers[k] = W[k]
      \/ k = m.pubkey /\ u.admins[k] = A[k] /\ u.writers[k] = W[k] - 1
  BY <1>1, <1>2, <1>5 DEF UpdateCase, Lists
<1>7. u.admins[k] \in Nat
  BY <1>1, <1>2, <1>5 DEF UpdateCase, Lists
<1> QED BY <1>2, <1>4, <1>6, <1>7

\* Every step keeps the two lists of a repository exclusive.
LEMMA ExclusiveStep ==
  ASSUME TypeOK, IdsDense, Effect, ListsExclusive
  PROVE  ListsExclusive'
<1>0. \A r \in RepId : ListPair(admin_keys[r], writer_keys[r])
  BY DEF ListsExclusive, ListPair
<1>1. SUFFICES \A r \in RepId : ListPair(admin_keys'[r], writer_keys'[r])
  BY DEF ListsExclusive, ListPair
<1>2. CASE UNCHANGED <<admin_keys, writer_keys>>
  BY <1>0, <1>2
<1>3. CASE TA_CloseSession
  <2>1. ListPair(init_key_list, init_key_list)
    BY DEF ListPair, init_key_list
  <2> QED BY <1>3, <2>1 DEF TA_CloseSession, EverySlot
<1>4. ASSUME NEW k \in Key, NEW tk \in StoredKey, Created(k, tk)
      PROVE  \A r \in RepId : ListPair(admin_keys'[r], writer_keys'[r])
  <2>1. ListPair(add_key_to_set(init_key_list, k), init_key_list)
    BY DEF ListPair, init_key_list, add_key_to_set
  <2>2. /\ admin_keys' = [admin_keys EXCEPT ![repo_num] = add_key_to_set(init_key_list, k)]
        /\ writer_keys' = [writer_keys EXCEPT ![repo_num] = init_key_list]
    BY <1>4, CreatedFacts
  <2> QED BY <1>0, <2>1, <2>2 DEF TypeOK
<1>5. ASSUME NEW m \in AccessMessages, AccessChecks(m) = TEE_SUCCESS,
             NEW u \in UpdatesOf(m), Updated(m, u)
      PROVE  \A r \in RepId : ListPair(admin_keys'[r], writer_keys'[r])
  <2>1. m.op \in AccessOps /\ m.rep_id \in RepId /\ m.role \in Role /\ m.pubkey \in Key
    BY <1>5, AccessChecked, AccessMessageFields
  <2>2. ListPair(u.admins, u.writers)
    BY <1>0, <2>1, UpdateExclusive DEF UpdatesOf, TypeOK
  <2> QED BY <1>0, <1>5, <2>1, <2>2 DEF Updated, TypeOK
<1> QED BY <1>2, <1>3, <1>4, <1>5 DEF Effect, TornBy, AccessBy, CommitBy

-----------------------------------------------------------------------------
(* Heights and hashes.                                                       *)

HeightsOf(L, h) ==
  /\ h = Len(L) - 1
  /\ \A i \in 1..Len(L) : L[i].block_height = IF i = 1 THEN 1 ELSE i - 1

ChainOf(L, hash) ==
  /\ Len(L) > 0
  /\ L[1].parent_hash = ZERO_HASH
  /\ \A i \in 2..Len(L) : L[i].parent_hash = BlockHash(L[i-1])
  /\ \A i \in 1..Len(L) : L[i].tee_sig.digest = BlockHash(L[i])
  /\ hash = BlockHash(L[Len(L)])

\* A block of the next height that names the latest hash extends both laws.
LEMMA ChainExtends ==
  ASSUME NEW L, IsLedger(L), NEW b, NEW h \in Nat, NEW hash,
         HeightsOf(L, h), ChainOf(L, hash),
         b.block_height = h + 1, b.parent_hash = hash, b.tee_sig.digest = BlockHash(b)
  PROVE  HeightsOf(Append(L, b), h + 1) /\ ChainOf(Append(L, b), BlockHash(b))
<1> DEFINE n == Len(L)
           M == Append(L, b)
<1>1. /\ n \in Nat /\ n > 0
      /\ Len(M) = n + 1
      /\ \A i \in 1..n : M[i] = L[i]
      /\ M[n + 1] = b
  BY AppendElements DEF ChainOf
<1>2. h = n - 1 /\ \A i \in 1..n : L[i].block_height = IF i = 1 THEN 1 ELSE i - 1
  BY DEF HeightsOf
<1>3. /\ L[1].parent_hash = ZERO_HASH
      /\ \A i \in 2..n : L[i].parent_hash = BlockHash(L[i-1])
      /\ \A i \in 1..n : L[i].tee_sig.digest = BlockHash(L[i])
      /\ hash = BlockHash(L[n])
  BY DEF ChainOf
<1> HIDE DEF n, M
<1>4. HeightsOf(M, h + 1)
  <2>1. ASSUME NEW i \in 1..(n + 1)
        PROVE  M[i].block_height = IF i = 1 THEN 1 ELSE i - 1
    <3>1. CASE i = n + 1
      BY <1>1, <1>2, <3>1
    <3>2. CASE i # n + 1
      <4>1. i \in 1..n
        BY <1>1, <3>2
      <4> QED BY <1>1, <1>2, <4>1
    <3> QED BY <3>1, <3>2
  <2> QED BY <1>1, <1>2, <2>1 DEF HeightsOf
<1>5. \A i \in 2..(n + 1) : M[i].parent_hash = BlockHash(M[i-1])
  <2>1. SUFFICES ASSUME NEW i \in 2..(n + 1)
                 PROVE  M[i].parent_hash = BlockHash(M[i-1])
    OBVIOUS
  <2>2. CASE i = n + 1
    <3>1. M[i] = b /\ M[i-1] = L[n]
      BY <1>1, <2>2
    <3> QED BY <1>3, <3>1
  <2>3. CASE i # n + 1
    <3>1. i \in 2..n /\ M[i] = L[i] /\ M[i-1] = L[i-1]
      BY <1>1, <2>3
    <3> QED BY <1>3, <3>1
  <2> QED BY <2>2, <2>3
<1>6. \A i \in 1..(n + 1) : M[i].tee_sig.digest = BlockHash(M[i])
  <2>1. \A i \in 1..(n + 1) : i \in 1..n \/ i = n + 1
    BY <1>1
  <2> QED BY <1>1, <1>3, <2>1
<1>7. M[1] = L[1]
  BY <1>1
<1>8. ChainOf(M, BlockHash(b))
  BY <1>1, <1>3, <1>5, <1>6, <1>7 DEF ChainOf
<1> QED BY <1>4, <1>8 DEF M

\* Every step keeps the hash chain linked and the heights on their law.
LEMMA ChainStep ==
  ASSUME TypeOK, IdsDense, Effect, HeightLaw, ChainLinked
  PROVE  HeightLaw' /\ ChainLinked'
<1> DEFINE Good(r) == /\ HeightsOf(ledger[r], block_height[r])
                      /\ ChainOf(ledger[r], latest_hash[r])
<1>1. \A r \in repositories : Good(r)
  BY DEF HeightLaw, ChainLinked, HeightsOf, ChainOf
<1>2. SUFFICES \A r \in repositories' : Good(r)'
  BY DEF HeightLaw, ChainLinked, HeightsOf, ChainOf
<1>3. CASE UNCHANGED <<repositories, ledger, block_height, latest_hash>>
  BY <1>1, <1>3
<1>4. CASE TA_CloseSession
  BY <1>4 DEF TA_CloseSession
<1>5. ASSUME NEW k \in Key, NEW tk \in StoredKey, Created(k, tk), NEW r \in repositories'
      PROVE  Good(r)'
  <2>1. CASE r = repo_num
    <3> DEFINE b == Fresh(k, tk)
    <3>1. ledger'[r] = <<b>> /\ block_height'[r] = 0 /\ latest_hash'[r] = BlockHash(b)
      BY <1>5, <2>1, CreatedFacts DEF TypeOK
    <3>2. b.block_height = 1 /\ b.parent_hash = ZERO_HASH /\ b.tee_sig.digest = BlockHash(b)
      BY <1>5, CreatedFacts
    <3> HIDE DEF b
    <3> QED BY <3>1, <3>2, SingletonLedger DEF HeightsOf, ChainOf
  <2>2. CASE r # repo_num
    <3>1. /\ r \in repositories
          /\ ledger'[r] = ledger[r] /\ block_height'[r] = block_height[r]
          /\ latest_hash'[r] = latest_hash[r]
      BY <1>5, <2>2, CreatedFacts DEF TypeOK
    <3> QED BY <1>1, <3>1
  <2> QED BY <2>1, <2>2
<1>6. ASSUME NEW s, NEW b, Grown(s, b), NEW r \in repositories'
      PROVE  Good(r)'
  <2>1. r \in repositories /\ r \in RepId
    BY <1>6 DEF Grown, TypeOK
  <2>2. CASE r = s
    <3>1. /\ ledger'[r] = Append(ledger[r], b) /\ latest_hash'[r] = BlockHash(b)
          /\ block_height'[r] = block_height[r] + 1
      BY <1>6, <2>1, <2>2 DEF Grown, TypeOK
    <3>2. /\ b.block_height = block_height[r] + 1 /\ b.parent_hash = latest_hash[r]
          /\ b.tee_sig.digest = BlockHash(b)
      BY <1>6, <2>2 DEF Grown
    <3>3. IsLedger(ledger[r]) /\ block_height[r] \in Nat
      BY <2>1 DEF TypeOK
    <3> QED BY <1>1, <2>1, <3>1, <3>2, <3>3, ChainExtends
  <2>3. CASE r # s
    <3>1. /\ ledger'[r] = ledger[r] /\ block_height'[r] = block_height[r]
          /\ latest_hash'[r] = latest_hash[r]
      BY <1>6, <2>1, <2>3 DEF Grown, TypeOK
    <3> QED BY <1>1, <2>1, <3>1
  <2> QED BY <2>2, <2>3
<1> HIDE DEF Good
<1>7. ASSUME NEW m \in AccessMessages, NEW u \in UpdatesOf(m), TornBy(m, u)
      PROVE  UNCHANGED <<repositories, ledger, block_height, latest_hash>>
  BY <1>7 DEF TornBy, AccessFails
<1> QED BY <1>3, <1>4, <1>5, <1>6, <1>7, AccessGrows, CommitGrows DEF Effect

-----------------------------------------------------------------------------
(* The key lists and the roles read off the ledger.                          *)

\* Up to the keys of T, the lists A and W say what the ledger L says.
RolesKnown(A, W, L, T) ==
  \A k \in Key \ T : /\ A[k] > 0 <=> AdminAt(L, Len(L), k)
                     /\ W[k] > 0 <=> WriterAt(L, Len(L), k)

\* An applied update changes the lists as its block changes the ledger's roles.
LEMMA RolesFollow ==
  ASSUME NEW A \in KeyLists, NEW W \in KeyLists, ListPair(A, W),
         NEW m, m.op \in AccessOps, m.role \in Role, m.pubkey \in Key,
         NEW u \in UpdateKeySets(A, W, m), u.res = TEE_SUCCESS,
         NEW L, IsLedger(L), NEW T, RolesKnown(A, W, L, T),
         NEW b, b.op = m.op, b.role = m.role, b.pubkey = m.pubkey
  PROVE  RolesKnown(u.admins, u.writers, Append(L, b), T)
<1>1. SUFFICES ASSUME NEW k \in Key \ T
               PROVE  /\ u.admins[k] > 0 <=> AdminAt(Append(L, b), Len(L) + 1, k)
                      /\ u.writers[k] > 0 <=> WriterAt(Append(L, b), Len(L) + 1, k)
  BY AppendElements DEF RolesKnown
<1>2. /\ A[k] > 0 <=> AdminAt(L, Len(L), k)
      /\ W[k] > 0 <=> WriterAt(L, Len(L), k)
  BY DEF RolesKnown
<1>3. A[k] \in Nat /\ W[k] \in Nat /\ A[k] + W[k] <= 1
  BY DEF KeyLists, ListPair
<1>4. \A X \in KeyLists :
        /\ add_key_to_set(X, m.pubkey)[k] = IF k = m.pubkey THEN X[k] + 1 ELSE X[k]
        /\ find_and_remove_key(X, m.pubkey)[k] =
             IF k = m.pubkey THEN (IF X[k] > 0 THEN X[k] - 1 ELSE 0) ELSE X[k]
  BY DEF add_key_to_set, find_and_remove_key, KeyLists
<1>5. UpdateCase(A, W, m, u)
  BY UpdateCases
<1> DEFINE Is(op, role) == m.op = op /\ m.role = role /\ k = m.pubkey
<1>6. \A op, role : Entry(b, op, role, k) <=> Is(op, role)
  BY DEF Entry
<1>7. /\ AdminAt(Append(L, b), Len(L) + 1, k) <=>
           Is(OP_ADD, ROLE_ADMIN) \/ (A[k] > 0 /\ ~Is(OP_DELETE, ROLE_ADMIN))
      /\ WriterAt(Append(L, b), Len(L) + 1, k) <=>
           \/ Is(OP_ADD, ROLE_WRITER)
           \/ W[k] > 0 /\ ~Is(OP_DELETE, ROLE_WRITER) /\ ~Is(OP_ADD, ROLE_ADMIN)
  <2> HIDE DEF Is
  <2> QED BY <1>2, <1>6, AdminAfterAppend, WriterAfterAppend
<1>8. /\ u.admins[k] > 0 <=>
           Is(OP_ADD, ROLE_ADMIN) \/ (A[k] > 0 /\ ~Is(OP_DELETE, ROLE_ADMIN))
      /\ u.writers[k] > 0 <=>
           \/ Is(OP_ADD, ROLE_WRITER)
           \/ W[k] > 0 /\ ~Is(OP_DELETE, ROLE_WRITER) /\ ~Is(OP_ADD, ROLE_ADMIN)
  <2> USE DEF OP_ADD, OP_DELETE, ROLE_ADMIN, ROLE_WRITER
  <2>1. CASE k = m.pubkey
    <3>1. \/ /\ m.op = OP_ADD /\ m.role = ROLE_ADMIN
             /\ u.admins[k] = A[k] + 1 /\ u.writers[k] = IF W[k] > 0 THEN W[k] - 1 ELSE 0
          \/ /\ m.op = OP_ADD /\ m.role = ROLE_WRITER /\ A[k] = 0
             /\ u.admins[k] = A[k] /\ u.writers[k] = W[k] + 1
          \/ /\ m.op = OP_DELETE /\ m.role = ROLE_ADMIN
             /\ u.admins[k] = (IF A[k] > 0 THEN A[k] - 1 ELSE 0) /\ u.writers[k] = W[k]
          \/ /\ m.op = OP_DELETE /\ m.role = ROLE_WRITER
             /\ u.admins[k] = A[k] /\ u.writers[k] = IF W[k] > 0 THEN W[k] - 1 ELSE 0
          \/ /\ m.role \notin {ROLE_ADMIN, ROLE_WRITER}
             /\ u.admins[k] = A[k] /\ u.writers[k] = W[k]
      BY <1>4, <1>5, <2>1 DEF UpdateCase, Lists
    <3> QED BY <1>3, <2>1, <3>1
  <2>2. CASE k # m.pubkey
    BY <1>3, <1>4, <1>5, <2>2 DEF UpdateCase, Lists
  <2> QED BY <2>1, <2>2
<1> HIDE DEF Is
<1> QED BY <1>7, <1>8

\* A contribution block changes no role.
LEMMA RolesStay ==
  ASSUME NEW A, NEW W, NEW L, IsLedger(L), NEW T, RolesKnown(A, W, L, T),
         NEW b, b.op \in CommitOps
  PROVE  RolesKnown(A, W, Append(L, b), T)
<1>1. \A op, role, k : op \in AccessOps => ~Entry(b, op, role, k)
  BY DEF Entry, AccessOps, CommitOps, OP_ADD, OP_DELETE, OP_PUSH, OP_PR
<1>2. OP_ADD \in AccessOps /\ OP_DELETE \in AccessOps
  BY DEF AccessOps
<1>3. \A k : /\ AdminAt(Append(L, b), Len(L) + 1, k)  <=> AdminAt(L, Len(L), k)
             /\ WriterAt(Append(L, b), Len(L) + 1, k) <=> WriterAt(L, Len(L), k)
  BY <1>1, <1>2, AdminAfterAppend, WriterAfterAppend
<1> QED BY <1>3, AppendElements DEF RolesKnown

\* Up to the keys of T, every block of the ledger L of r is allowed by those before it.
Authorised(L, T, r) ==
  \A i \in 2..Len(L) :
    /\ L[i].signature = Sign(L[i].sigkey, DataOf(r, L[i]))
    /\ L[i].sigkey \in T \/ MaySign(L, i - 1, L[i])
    /\ L[i].pubkey \in T \/ Changes(L, i - 1, L[i])

\* An authorised ledger that gets an authorised block stays authorised.
LEMMA AuthorisedExtends ==
  ASSUME NEW L, IsLedger(L), NEW T, NEW r, Authorised(L, T, r), NEW b,
         b.signature = Sign(b.sigkey, DataOf(r, b)),
         b.sigkey \in T \/ MaySign(L, Len(L), b),
         b.pubkey \in T \/ Changes(L, Len(L), b)
  PROVE  Authorised(Append(L, b), T, r)
<1> DEFINE n == Len(L)
           M == Append(L, b)
<1>1. /\ n \in Nat
      /\ Len(M) = n + 1
      /\ \A i \in 1..n : M[i] = L[i]
      /\ M[n + 1] = b
  BY AppendElements
<1>2. SUFFICES ASSUME NEW i \in 2..(n + 1)
               PROVE  /\ M[i].signature = Sign(M[i].sigkey, DataOf(r, M[i]))
                      /\ M[i].sigkey \in T \/ MaySign(M, i - 1, M[i])
                      /\ M[i].pubkey \in T \/ Changes(M, i - 1, M[i])
  BY <1>1 DEF Authorised
<1>3. i - 1 \in Nat /\ (\A j \in 1..(i - 1) : j \in 1..n)
  BY <1>1
<1>4. \A k : /\ AdminAt(M, i - 1, k)  <=> AdminAt(L, i - 1, k)
             /\ WriterAt(M, i - 1, k) <=> WriterAt(L, i - 1, k)
  <2> HIDE DEF M, n
  <2> QED BY <1>1, <1>3, RolesOfPrefix
<1>5. /\ MaySign(M, i - 1, M[i]) <=> MaySign(L, i - 1, M[i])
      /\ Changes(M, i - 1, M[i]) <=> Changes(L, i - 1, M[i])
  BY <1>4 DEF MaySign, Changes
<1>6. CASE i = n + 1
  BY <1>1, <1>5, <1>6
<1>7. CASE i # n + 1
  <2>1. i \in 2..n /\ M[i] = L[i]
    BY <1>1, <1>7
  <2> QED BY <1>5, <2>1 DEF Authorised
<1> QED BY <1>6, <1>7

\* A change that a failing call applied concerns only the key of that call, and
\* torn gains that key: the other keys are still known.
LEMMA TornKeepsRoles ==
  ASSUME TypeOK, NEW m \in AccessMessages, NEW u \in UpdatesOf(m), TornBy(m, u),
         NEW r \in RepId,
         RolesKnown(admin_keys[r], writer_keys[r], ledger[r], torn[r])
  PROVE  /\ RolesKnown(admin_keys'[r], writer_keys'[r], ledger'[r], torn'[r])
         /\ torn[r] \subseteq torn'[r]
<1> DEFINE k == m.pubkey
<1>1. m.op \in AccessOps /\ m.rep_id \in RepId /\ m.role \in Role /\ k \in Key
  BY AccessChecked, AccessMessageFields DEF TornBy
<1>2. /\ admin_keys' = [admin_keys EXCEPT ![m.rep_id] = u.admins]
      /\ writer_keys' = [writer_keys EXCEPT ![m.rep_id] = u.writers]
      /\ ledger' = ledger
  BY DEF TornBy, Updated, AccessFails
<1>3. torn' = IF u.admins = admin_keys[m.rep_id] /\ u.writers = writer_keys[m.rep_id]
              THEN torn ELSE [torn EXCEPT ![m.rep_id] = @ \cup {k}]
  BY DEF TornBy, AccessFails
<1>4. CASE r # m.rep_id
  BY <1>1, <1>2, <1>3, <1>4 DEF TypeOK
<1>5. CASE r = m.rep_id /\ u.admins = admin_keys[r] /\ u.writers = writer_keys[r]
  BY <1>1, <1>2, <1>3, <1>5 DEF TypeOK
<1>6. CASE r = m.rep_id /\ ~(u.admins = admin_keys[r] /\ u.writers = writer_keys[r])
  <2>1. /\ torn'[r] = torn[r] \cup {k}
        /\ admin_keys'[r] = u.admins /\ writer_keys'[r] = u.writers /\ ledger'[r] = ledger[r]
    BY <1>1, <1>2, <1>3, <1>6 DEF TypeOK
  <2>2. admin_keys[r] \in KeyLists /\ writer_keys[r] \in KeyLists
    BY DEF TypeOK
  <2>3. UpdateCase(admin_keys[r], writer_keys[r], m, u)
    BY <1>1, <1>6, <2>2, UpdateCases DEF UpdatesOf
  <2>4. \A L \in KeyLists : \A c \in Key \ {k} : /\ add_key_to_set(L, k)[c] = L[c]
                                                /\ find_and_remove_key(L, k)[c] = L[c]
    BY DEF add_key_to_set, find_and_remove_key, KeyLists
  <2>5. \A c \in Key \ {k} : u.admins[c] = admin_keys[r][c] /\ u.writers[c] = writer_keys[r][c]
    BY <2>2, <2>3, <2>4 DEF UpdateCase, Lists
  <2> QED BY <2>1, <2>5 DEF RolesKnown
<1> QED BY <1>4, <1>5, <1>6

\* Every step keeps the key lists what the ledger says, outside torn keys.
LEMMA RolesStep ==
  ASSUME TypeOK, IdsDense, Effect, ListsExclusive, ListsMatchLedger
  PROVE  ListsMatchLedger'
<1> DEFINE Good(r) == RolesKnown(admin_keys[r], writer_keys[r], ledger[r], torn[r])
<1>1. \A r \in repositories : Good(r)
  BY DEF ListsMatchLedger, RolesKnown, key_exists_in_set
<1>2. SUFFICES \A r \in repositories' : Good(r)'
  BY DEF ListsMatchLedger, RolesKnown, key_exists_in_set
<1>3. CASE UNCHANGED chainVars
  BY <1>1, <1>3
<1>4. CASE TA_CloseSession
  BY <1>4 DEF TA_CloseSession
<1>5. ASSUME NEW k \in Key, NEW tk \in StoredKey, Created(k, tk), NEW r \in repositories'
      PROVE  Good(r)'
  <2>1. CASE r = repo_num
    <3> DEFINE b == Fresh(k, tk)
    <3>1. /\ ledger'[r] = <<b>>
          /\ admin_keys'[r] = add_key_to_set(init_key_list, k)
          /\ writer_keys'[r] = init_key_list
      BY <1>5, <2>1, CreatedFacts DEF TypeOK
    <3>2. b.op = OP_ADD /\ b.role = ROLE_ADMIN /\ b.pubkey = k
      BY <1>5, CreatedFacts
    <3> HIDE DEF b
    <3>3. \A c : /\ AdminAt(<<b>>, 1, c) <=> c = k
                 /\ ~WriterAt(<<b>>, 1, c)
      <4>1. 1..1 = {1} /\ (1 + 1)..1 = {} /\ <<b>>[1] = b
        OBVIOUS
      <4>2. \A c : /\ Entry(b, OP_ADD, ROLE_ADMIN, c) <=> c = k
                   /\ ~Entry(b, OP_ADD, ROLE_WRITER, c)
        BY <3>2 DEF Entry, ROLE_ADMIN, ROLE_WRITER
      <4> QED BY <4>1, <4>2 DEF AdminAt, WriterAt
    <3>4. \A c \in Key : /\ add_key_to_set(init_key_list, k)[c] > 0 <=> c = k
                         /\ ~(init_key_list[c] > 0)
      BY DEF add_key_to_set, init_key_list
    <3>5. \A c \in Key : /\ admin_keys'[r][c] > 0 <=> c = k
                         /\ ~(writer_keys'[r][c] > 0)
      BY <3>1, <3>4
    <3>6. Len(ledger'[r]) = 1
      BY <3>1
    <3> QED BY <3>1, <3>3, <3>5, <3>6 DEF RolesKnown
  <2>2. CASE r # repo_num
    <3>1. /\ r \in repositories /\ r \in RepId
          /\ ledger'[r] = ledger[r] /\ admin_keys'[r] = admin_keys[r]
          /\ writer_keys'[r] = writer_keys[r] /\ torn'[r] = torn[r]
      BY <1>5, <2>2, CreatedFacts DEF TypeOK
    <3> QED BY <1>1, <3>1
  <2> QED BY <2>1, <2>2
<1>6. ASSUME NEW m \in AccessMessages, NEW u \in UpdatesOf(m), TornBy(m, u),
             NEW r \in repositories'
      PROVE  Good(r)'
  <2>1. r \in repositories /\ r \in RepId
    BY <1>6 DEF TornBy, AccessFails, TypeOK
  <2> QED BY <1>1, <1>6, <2>1, TornKeepsRoles
<1>7. ASSUME NEW m \in AccessMessages, NEW u \in UpdatesOf(m), NEW tk \in StoredKey,
             AccessBy(m, u, tk), NEW r \in repositories'
      PROVE  Good(r)'
  <2> DEFINE b == Signed(AccessBlock(m), tk)
  <2>1. Grown(m.rep_id, b)
    BY <1>7, AccessGrows
  <2>2. r \in repositories /\ r \in RepId /\ torn' = torn
    BY <2>1 DEF Grown, TypeOK
  <2>3. b.op = m.op /\ b.role = m.role /\ b.pubkey = m.pubkey
    BY DEF Signed, AccessBlock, init_access_block
  <2> HIDE DEF b
  <2>4. CASE r = m.rep_id
    <3>1. m.op \in AccessOps /\ m.role \in Role /\ m.pubkey \in Key
      BY <1>7, AccessChecked, AccessMessageFields DEF AccessBy
    <3>2. /\ ledger'[r] = Append(ledger[r], b)
          /\ admin_keys'[r] = u.admins /\ writer_keys'[r] = u.writers
      BY <1>7, <2>1, <2>2, <2>4 DEF Grown, AccessBy, Updated, TypeOK
    <3>3. /\ IsLedger(ledger[r])
          /\ admin_keys[r] \in KeyLists /\ writer_keys[r] \in KeyLists
          /\ ListPair(admin_keys[r], writer_keys[r])
      BY <2>2 DEF TypeOK, ListsExclusive, ListPair
    <3>4. u \in UpdateKeySets(admin_keys[r], writer_keys[r], m) /\ u.res = TEE_SUCCESS
      BY <1>7, <2>4 DEF UpdatesOf, AccessBy
    <3>5. RolesKnown(admin_keys[r], writer_keys[r], ledger[r], torn[r])
      BY <1>1, <2>2
    <3>6. RolesKnown(u.admins, u.writers, Append(ledger[r], b), torn[r])
      BY <2>3, <3>1, <3>3, <3>4, <3>5, RolesFollow
    <3> QED BY <2>2, <3>2, <3>6
  <2>5. CASE r # m.rep_id
    <3>1. /\ ledger'[r] = ledger[r] /\ admin_keys'[r] = admin_keys[r]
          /\ writer_keys'[r] = writer_keys[r]
      BY <1>7, <2>1, <2>2, <2>5 DEF Grown, AccessBy, Updated, TypeOK
    <3> QED BY <1>1, <2>2, <3>1
  <2> QED BY <2>4, <2>5
<1>8. ASSUME NEW m \in CommitMessages, NEW tk \in StoredKey, CommitBy(m, tk),
             NEW r \in repositories'
      PROVE  Good(r)'
  <2> DEFINE b == Signed(ContributionBlock(m), tk)
  <2>1. Grown(m.rep_id, b) /\ b.op \in CommitOps
    BY <1>8, CommitGrows, CommitChecked
       DEF CommitBy, Signed, ContributionBlock, init_contribution_block
  <2> HIDE DEF b
  <2>2. /\ r \in repositories /\ r \in RepId /\ torn' = torn
        /\ admin_keys' = admin_keys /\ writer_keys' = writer_keys
    BY <1>8, <2>1 DEF Grown, TypeOK, CommitBy
  <2>3. ledger'[r] = ledger[r] \/ ledger'[r] = Append(ledger[r], b)
    BY <2>1, <2>2 DEF Grown, TypeOK
  <2>4. IsLedger(ledger[r])
    BY <2>2 DEF TypeOK
  <2> QED BY <1>1, <2>1, <2>2, <2>3, <2>4, RolesStay
<1> HIDE DEF Good
<1> QED BY <1>3, <1>4, <1>5, <1>6, <1>7, <1>8 DEF Effect

\* Every step appends only authorised blocks: the checks on the lists are
\* checks on the ledger, because the lists are what the ledger says.
LEMMA AuthorisedStep ==
  ASSUME TypeOK, IdsDense, Effect, ListsMatchLedger, BlocksAuthorised
  PROVE  BlocksAuthorised'
<1> DEFINE Good(r) == Authorised(ledger[r], torn[r], r)
<1>1. \A r \in repositories : Good(r)
  BY DEF BlocksAuthorised, Authorised
<1>2. SUFFICES \A r \in repositories' : Good(r)'
  BY DEF BlocksAuthorised, Authorised
<1>3. CASE UNCHANGED chainVars
  BY <1>1, <1>3
<1>4. CASE TA_CloseSession
  BY <1>4 DEF TA_CloseSession
<1>5. ASSUME NEW k \in Key, NEW tk \in StoredKey, Created(k, tk), NEW r \in repositories'
      PROVE  Good(r)'
  <2>1. CASE r = repo_num
    <3> DEFINE b == Fresh(k, tk)
    <3>0. /\ DOMAIN ledger = RepId
          /\ repo_num \in RepId /\ ledger' = [ledger EXCEPT ![repo_num] = <<b>>]
      BY <1>5, CreatedFacts DEF TypeOK
    <3> HIDE DEF b
    <3>1. ledger'[r] = <<b>>
      BY <2>1, <3>0
    <3>2. 2..Len(ledger'[r]) = {}
      BY <3>1
    <3> QED BY <3>2 DEF Authorised
  <2>2. CASE r # repo_num
    <3>1. r \in repositories /\ ledger'[r] = ledger[r] /\ torn'[r] = torn[r]
      BY <1>5, <2>2, CreatedFacts DEF TypeOK
    <3> QED BY <1>1, <3>1
  <2> QED BY <2>1, <2>2
<1>6. ASSUME NEW m \in AccessMessages, NEW u \in UpdatesOf(m), TornBy(m, u),
             NEW r \in repositories'
      PROVE  Good(r)'
  <2>1. r \in repositories /\ r \in RepId /\ ledger' = ledger
    BY <1>6 DEF TornBy, AccessFails, TypeOK
  <2>2. torn[r] \subseteq torn'[r]
    BY <1>6, <2>1 DEF TornBy, AccessFails, TypeOK
  <2> QED BY <1>1, <2>1, <2>2 DEF Authorised
<1>7. ASSUME NEW s, NEW b, Grown(s, b), NEW r \in repositories',
             b.signature = Sign(b.sigkey, DataOf(s, b)),
             b.sigkey \in torn[s] \/ MaySign(ledger[s], Len(ledger[s]), b),
             b.pubkey \in torn[s] \/ Changes(ledger[s], Len(ledger[s]), b)
      PROVE  Good(r)'
  <2>1. r \in repositories /\ r \in RepId /\ torn' = torn
    BY <1>7 DEF Grown, TypeOK
  <2>2. CASE r = s
    <3>1. ledger'[r] = Append(ledger[r], b) /\ IsLedger(ledger[r])
      BY <1>7, <2>1, <2>2 DEF Grown, TypeOK
    <3> QED BY <1>1, <1>7, <2>1, <2>2, <3>1, AuthorisedExtends
  <2>3. CASE r # s
    <3>1. ledger'[r] = ledger[r]
      BY <1>7, <2>1, <2>3 DEF Grown, TypeOK
    <3> QED BY <1>1, <2>1, <3>1
  <2> QED BY <2>2, <2>3
<1> HIDE DEF Good
<1>8. ASSUME NEW m \in AccessMessages, NEW u \in UpdatesOf(m), NEW tk \in StoredKey,
             AccessBy(m, u, tk)
      PROVE  \A r \in repositories' : Good(r)'
  <2> DEFINE b == Signed(AccessBlock(m), tk)
             s == m.rep_id
             L == ledger[s]
             n == Len(L)
             A == admin_keys[s]
             W == writer_keys[s]
  <2>1. Grown(s, b)
    BY <1>8, AccessGrows
  <2>2. /\ b.op = m.op /\ b.role = m.role /\ b.pubkey = m.pubkey
        /\ b.sigkey = m.sigkey /\ b.signature = m.signature
    BY DEF Signed, AccessBlock, init_access_block
  <2> HIDE DEF b
  <2>3. /\ m.op \in AccessOps /\ s \in repositories /\ s \in RepId
        /\ m.role \in Role /\ m.pubkey \in Key /\ m.sigkey \in Key
        /\ A[m.sigkey] > 0 /\ m.signature = Sign(m.sigkey, AccessData(m))
    BY <1>8, AccessChecked, AccessMessageFields DEF AccessBy
  <2>4. b.signature = Sign(b.sigkey, DataOf(s, b))
    BY <2>2, <2>3 DEF DataOf, AccessData
  <2>5. \A k \in Key \ torn[s] : /\ A[k] > 0 <=> AdminAt(L, n, k)
                                 /\ W[k] > 0 <=> WriterAt(L, n, k)
    BY <2>3 DEF ListsMatchLedger, key_exists_in_set
  <2>6. b.sigkey \in torn[s] \/ MaySign(L, n, b)
    BY <2>2, <2>3, <2>5 DEF MaySign
  <2>7. UpdateCase(A, W, m, u) /\ u.res = TEE_SUCCESS
    BY <1>8, <2>3, UpdateCases DEF TypeOK, UpdatesOf, AccessBy
  <2>8. /\ m.op = OP_ADD /\ m.role = ROLE_ADMIN => ~(A[m.pubkey] > 0)
        /\ m.op = OP_ADD /\ m.role = ROLE_WRITER => ~(A[m.pubkey] > 0) /\ ~(W[m.pubkey] > 0)
        /\ m.op = OP_DELETE /\ m.role = ROLE_ADMIN => A[m.pubkey] > 0
        /\ m.op = OP_DELETE /\ m.role = ROLE_WRITER => W[m.pubkey] > 0
    BY <2>7 DEF UpdateCase, OP_ADD, OP_DELETE, ROLE_ADMIN, ROLE_WRITER
  <2>9. b.pubkey \in torn[s] \/ Changes(L, n, b)
    <3>1. CASE m.pubkey \notin torn[s]
      <4>1. /\ A[m.pubkey] > 0 <=> AdminAt(L, n, b.pubkey)
            /\ W[m.pubkey] > 0 <=> WriterAt(L, n, b.pubkey)
        BY <2>2, <2>3, <2>5, <3>1
      <4> QED BY <2>2, <2>8, <4>1 DEF Changes, Entry
    <3> QED BY <2>2, <3>1
  <2> QED BY <1>7, <2>1, <2>4, <2>6, <2>9
<1>9. ASSUME NEW m \in CommitMessages, NEW tk \in StoredKey, CommitBy(m, tk)
      PROVE  \A r \in repositories' : Good(r)'
  <2> DEFINE b == Signed(ContributionBlock(m), tk)
             s == m.rep_id
             L == ledger[s]
             n == Len(L)
  <2>1. Grown(s, b)
    BY <1>9, CommitGrows
  <2>2. /\ b.op = m.op /\ b.commit_hash = m.commit_hash
        /\ b.sigkey = m.sigkey /\ b.signature = m.signature
    BY DEF Signed, ContributionBlock, init_contribution_block
  <2> HIDE DEF b
  <2>3. /\ m.op \in CommitOps /\ s \in repositories /\ m.sigkey \in Key
        /\ admin_keys[s][m.sigkey] > 0 \/ writer_keys[s][m.sigkey] > 0
        /\ m.signature = Sign(m.sigkey, CommitData(m))
    BY <1>9, CommitChecked, CommitMessageFields DEF CommitBy
  <2>4. m.op \notin AccessOps /\ m.op # OP_ADD /\ m.op # OP_DELETE
    BY <2>3 DEF AccessOps, CommitOps, OP_ADD, OP_DELETE, OP_PUSH, OP_PR
  <2>5. b.signature = Sign(b.sigkey, DataOf(s, b))
    BY <2>2, <2>3, <2>4 DEF DataOf, CommitData
  <2>6. b.sigkey \in torn[s] \/ MaySign(L, n, b)
    BY <2>2, <2>3 DEF ListsMatchLedger, key_exists_in_set, MaySign
  <2>7. Changes(L, n, b)
    BY <2>2, <2>4 DEF Changes, Entry
  <2> QED BY <1>7, <2>1, <2>5, <2>6, <2>7
<1>10. CASE \E k \in Key, tk \in StoredKey : Created(k, tk)
  BY <1>5, <1>10
<1>11. CASE \E m \in AccessMessages : \E u \in UpdatesOf(m) : TornBy(m, u)
  BY <1>6, <1>11
<1> QED BY <1>3, <1>4, <1>8, <1>9, <1>10, <1>11 DEF Effect

-----------------------------------------------------------------------------
(* The theorems.                                                             *)

\* The invariant holds in the initial state and is kept by every step.
THEOREM Invariance == Spec => []IInv
<1>1. Init => IInv
  BY InitIInv
<1>2. IInv /\ [Next]_vars => IInv'
  <2> SUFFICES ASSUME IInv, [Next]_vars
               PROVE  IInv'
    OBVIOUS
  <2>1. /\ TypeOK /\ IdsDense /\ ListsExclusive
        /\ HeightLaw /\ ChainLinked /\ ListsMatchLedger /\ BlocksAuthorised
    BY DEF IInv
  <2>2. TypeOK' /\ IdsDense' /\ Effect
    BY <2>1, TypeStep, StepEffect
  <2>3. ListsExclusive'
    BY <2>1, <2>2, ExclusiveStep
  <2>4. HeightLaw' /\ ChainLinked'
    BY <2>1, <2>2, ChainStep
  <2>5. ListsMatchLedger'
    BY <2>1, <2>2, RolesStep
  <2>6. BlocksAuthorised'
    BY <2>1, <2>2, AuthorisedStep
  <2> QED BY <2>2, <2>3, <2>4, <2>5, <2>6 DEF IInv
<1> QED BY <1>1, <1>2, PTL DEF Spec

\* Every variable keeps its type.
THEOREM TypeCorrect == Spec => []TypeOK
<1>1. IInv => TypeOK
  BY DEF IInv
<1> QED BY <1>1, Invariance, PTL

\* init_repo hands out consecutive ids, and a failed one leaves no slot behind.
THEOREM IdsAreDense == Spec => []IdsDense
<1>1. IInv => IdsDense
  BY DEF IInv
<1> QED BY <1>1, Invariance, PTL

\* Neither list ever holds a key twice, and no key is on both.
THEOREM ListsAreExclusive == Spec => []ListsExclusive
<1>1. IInv => ListsExclusive
  BY DEF IInv
<1> QED BY <1>1, Invariance, PTL

\* The blocks of every repository are one hash chain that ends in latest_hash.
THEOREM ChainIsLinked == Spec => []ChainLinked
<1>1. IInv => ChainLinked
  BY DEF IInv
<1> QED BY <1>1, Invariance, PTL

\* Heights run 1, 1, 2, 3, ... in every repository, and block_height is the last.
THEOREM HeightsFollowLaw == Spec => []HeightLaw
<1>1. IInv => HeightLaw
  BY DEF IInv
<1> QED BY <1>1, Invariance, PTL

\* The permissions in memory are those a reader computes from the blocks.
THEOREM ListsFollowLedger == Spec => []ListsMatchLedger
<1>1. IInv => ListsMatchLedger
  BY DEF IInv
<1> QED BY <1>1, Invariance, PTL

\* Every block is signed over its content by a key its predecessors authorise.
THEOREM BlocksAreAuthorised == Spec => []BlocksAuthorised
<1>1. IInv => BlocksAuthorised
  BY DEF IInv
<1> QED BY <1>1, Invariance, PTL
=============================================================================
