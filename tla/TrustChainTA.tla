---------------------------- MODULE TrustChainTA ----------------------------
(***************************************************************************)
(* ta/trust_chain_ta.c: the trusted application.  The TEE serialises the   *)
(* invocations of a session, so every command handler is one action; the   *)
(* places where a handler can return early are the alternatives of that    *)
(* action.  The fields of struct repo_metadata are functions on RepId,     *)
(* meaningful for the ids in repositories (the non-NULL slots).            *)
(*                                                                         *)
(* The TA is multi-instance and nothing but the RSA pair is persistent:    *)
(* closing the session discards the globals.                               *)
(***************************************************************************)
EXTENDS TrustChainConsts, KeyList, Block, TeeKeyManager, Encoding, LedgerRules, FiniteSets

CONSTANTS
  MAX_REPO_ID,  \* number of repository slots
  Word,         \* a uint32_t takes the values below it: 2^32
  CommitHash,   \* the commit hashes clients submit
  Role,         \* the role codes clients submit
  ParsableKey,  \* the keys public_key_pem_to_obj turns into an RSA key
  Nonce,        \* the nonces of get_latest_hash: 4 bytes, lowest first
  PemBufSize,   \* the sizes of the buffers given to get_tee_public_key
  MaxBlocks,    \* bound: blocks per repository
  MaxBoots,     \* bound: sessions per behaviour
  MaxArchive,   \* bound: ledgers of earlier instances that are remembered
  MaxReplies    \* bound: answers of get_latest_hash that are remembered

ASSUME RepoAssumption == MAX_REPO_ID \in Nat /\ Word \in Nat /\ MAX_REPO_ID < Word
ASSUME KeyAssumption == ParsableKey \subseteq Key
ASSUME EmptyStrAssumption == EmptyStr \notin Key \cup CommitHash
ASSUME RoleAssumption == Role \subseteq Nat
ASSUME NonceAssumption == Nonce \subseteq [1..4 -> 0..255]
ASSUME BoundAssumption ==
  {MaxBlocks, MaxBoots, MaxArchive, MaxReplies} \subseteq Nat /\ MaxBlocks > 0

RepId == 0..(MAX_REPO_ID - 1)

VARIABLES
  session,        \* a session, and with it an instance of the TA, is open
  repo_num,       \* static uint32_t repo_num
  repositories,   \* the ids whose slot is not NULL
  block_height, latest_hash, founder_key, admin_keys, writer_keys,
  tee_key,        \* the RSA pair in secure storage
  result,         \* the TEE_Result of the last invocation
  \* History variables, read by no action except for the bounds:
  ledger,         \* the blocks this instance returned, per repository
  torn,           \* keys whose list entry changed in a call that returned an error
  archive,        \* the ledgers of earlier instances
  boots,          \* sessions opened so far
  attested        \* the answers of get_latest_hash

repoVars == <<repo_num, repositories, block_height, latest_hash, founder_key>>
listVars == <<admin_keys, writer_keys, torn>>
lifeVars == <<session, boots, archive>>
vars == <<session, repo_num, repositories, block_height, latest_hash, founder_key,
          admin_keys, writer_keys, tee_key, result, ledger, torn, archive, boots, attested>>

Return(res) == result' = res

\* A value of a field in every slot: the globals of a fresh instance are zeroed.
EverySlot(value) == [r \in RepId |-> value]

Init ==
  /\ session = FALSE
  /\ repo_num = 0
  /\ repositories = {}
  /\ block_height = EverySlot(0)
  /\ latest_hash = EverySlot(ZERO_HASH)
  /\ founder_key = EverySlot(EmptyStr)
  /\ admin_keys = EverySlot(init_key_list)
  /\ writer_keys = EverySlot(init_key_list)
  /\ tee_key = 0
  /\ result = TEE_SUCCESS
  /\ ledger = EverySlot(<<>>)
  /\ torn = EverySlot({})
  /\ archive = {}
  /\ boots = 0
  /\ attested = {}

-----------------------------------------------------------------------------
(* Session life cycle: TA_CreateEntryPoint and TA_OpenSessionEntryPoint;     *)
(* TA_CloseSessionEntryPoint and TA_DestroyEntryPoint, or a panic.  Neither  *)
(* end saves or restores a repository.                                       *)

TA_OpenSession ==
  /\ ~session /\ boots < MaxBoots
  /\ \/ session' = TRUE /\ boots' = boots + 1 /\ Return(TEE_SUCCESS)
     \/ UNCHANGED <<session, boots>> /\ Return(TEE_ERROR_BAD_PARAMETERS) \* wrong types
  /\ UNCHANGED <<repoVars, listVars, tee_key, ledger, archive, attested>>

Discarded == {[rep_id |-> r, blocks |-> ledger[r]] : r \in repositories}

TA_CloseSession ==
  /\ session /\ boots < MaxBoots
  /\ session' = FALSE
  /\ repo_num' = 0
  /\ repositories' = {}
  /\ block_height' = EverySlot(0)
  /\ latest_hash' = EverySlot(ZERO_HASH)
  /\ founder_key' = EverySlot(EmptyStr)
  /\ admin_keys' = EverySlot(init_key_list)
  /\ writer_keys' = EverySlot(init_key_list)
  /\ result' = TEE_SUCCESS
  /\ ledger' = EverySlot(<<>>)
  /\ torn' = EverySlot({})
  /\ archive' = IF Cardinality(archive \cup Discarded) <= MaxArchive
                THEN archive \cup Discarded ELSE archive
  /\ UNCHANGED <<tee_key, boots, attested>>

-----------------------------------------------------------------------------
(* Helpers of the handlers.                                                  *)

\* validate_and_get_repo succeeds.
RepoFound(rep_id) == rep_id < MAX_REPO_ID /\ rep_id \in repositories

\* The key parses as an RSA key of a length the TEE operations accept.
public_key_pem_to_obj(sigkey) == sigkey \in ParsableKey

\* Mutant: a key that parses is enough.
verify_signature_key_only(data, sigkey, signature) == public_key_pem_to_obj(sigkey)

\* The key parses, and the signature was made with it over data.
verify_signature(data, sigkey, signature) ==
  public_key_pem_to_obj(sigkey) /\ signature = Sign(sigkey, data)

\* A TEE call of the verification fails: the handlers report the failure as
\* TEE_ERROR_SECURITY, as they report a wrong signature.
VerifyCanFail == \E call \in {"malloc", "digest", "verify"} : CanFail(call)

\* Mutant: the memory is freed, the slot still points to it.
cleanup_repo_resources_dangling(slots, rep_id) == slots \cup {rep_id}

\* cleanup_repo_resources frees the slot and sets it to NULL.
cleanup_repo_resources(slots, rep_id) == slots \ {rep_id}

\* Mutant: the new hash is not stored.
StoreLatestHashForgotten(rep_id, hash) ==
  /\ latest_hash' = latest_hash
  /\ founder_key' = [founder_key EXCEPT ![rep_id] = EmptyStr]

\* latest_hash has 64 bytes and a hash has 64 characters: strcpy puts the
\* terminating NUL on the first character of the next field, founder_key.
StoreLatestHash(rep_id, hash) ==
  /\ latest_hash' = [latest_hash EXCEPT ![rep_id] = hash]
  /\ founder_key' = [founder_key EXCEPT ![rep_id] = EmptyStr]

Signed(block, key) == [block EXCEPT !.tee_sig = [key |-> key, digest |-> BlockHash(block)]]

\* The tail of access_control and commit: the block leaves the TA, its hash
\* becomes latest_hash and the height grows.
AppendBlock(rep_id, block, key) ==
  /\ ledger' = [ledger EXCEPT ![rep_id] = Append(@, Signed(block, key))]
  /\ StoreLatestHash(rep_id, BlockHash(block))
  /\ block_height' = [block_height EXCEPT ![rep_id] = @ + 1]

-----------------------------------------------------------------------------
(* init_repo.  latest_hash is not terminated while the genesis block is      *)
(* built (founder_key already follows it), but what strcpy carries past      *)
(* parent_hash is overwritten by op and sigkey, and the hash reads 64        *)
(* characters: the parent is ZERO_HASH.                                      *)

GenesisBlock(admin_key) ==
  init_access_block(1, ZERO_HASH, OP_ADD, ROLE_ADMIN, admin_key, admin_key, EMPTY_SIGNATURE)

InitFails(res) ==
  /\ repositories' = cleanup_repo_resources(repositories, repo_num)
  /\ Return(res)
  /\ UNCHANGED <<repo_num, block_height, latest_hash, founder_key, listVars, ledger>>

\* Mutant: repo_num does not move on, the next repository takes the same slot.
InitSucceedsSameId(admin_key, key) ==
  LET rep_id == repo_num IN
  /\ repositories' = repositories \cup {rep_id}
  /\ block_height' = [block_height EXCEPT ![rep_id] = 0]
  /\ admin_keys' = [admin_keys EXCEPT ![rep_id] = add_key_to_set(init_key_list, admin_key)]
  /\ writer_keys' = [writer_keys EXCEPT ![rep_id] = init_key_list]
  /\ StoreLatestHash(rep_id, BlockHash(GenesisBlock(admin_key)))
  /\ ledger' = [ledger EXCEPT ![rep_id] = <<Signed(GenesisBlock(admin_key), key)>>]
  /\ Return(TEE_SUCCESS)
  /\ UNCHANGED <<torn, repo_num>>

InitSucceeds(admin_key, key) ==
  LET rep_id == repo_num IN
  /\ repositories' = repositories \cup {rep_id}
  /\ block_height' = [block_height EXCEPT ![rep_id] = 0]
  /\ admin_keys' = [admin_keys EXCEPT ![rep_id] = add_key_to_set(init_key_list, admin_key)]
  /\ writer_keys' = [writer_keys EXCEPT ![rep_id] = init_key_list]
  /\ StoreLatestHash(rep_id, BlockHash(GenesisBlock(admin_key)))
  /\ ledger' = [ledger EXCEPT ![rep_id] = <<Signed(GenesisBlock(admin_key), key)>>]
  /\ repo_num' = repo_num + 1
  /\ Return(TEE_SUCCESS)
  /\ UNCHANGED torn

InitRepoFull ==
  /\ repo_num >= MAX_REPO_ID
  /\ Return(TEE_ERROR_OUT_OF_MEMORY)
  /\ UNCHANGED <<repoVars, listVars, ledger, tee_key>>

InitRepoNoMemory ==
  /\ repo_num < MAX_REPO_ID /\ CanFail("malloc")
  /\ InitFails(TEE_ERROR_OUT_OF_MEMORY)
  /\ UNCHANGED tee_key

InitRepoSeal(admin_key) ==
  /\ repo_num < MAX_REPO_ID
  /\ \E o \in tee_sign_data(tee_key) :
       /\ tee_key' = o.key
       /\ \/ o.res # TEE_SUCCESS /\ InitFails(o.res)
          \/ o.res = TEE_SUCCESS /\ InitSucceeds(admin_key, o.key)

init_repo(admin_key) ==
  /\ session
  /\ InitRepoFull \/ InitRepoNoMemory \/ InitRepoSeal(admin_key)
  /\ UNCHANGED <<lifeVars, attested>>

-----------------------------------------------------------------------------
(* access_control.                                                           *)

AccessData(m) == <<m.rep_id, m.op, m.role, m.pubkey>>

\* Mutant: a writer passes the check of the admin list.
AccessChecksAnyRole(m) ==
  IF m.op \notin AccessOps THEN TEE_ERROR_BAD_PARAMETERS
  ELSE IF ~RepoFound(m.rep_id) THEN TEE_ERROR_ITEM_NOT_FOUND
  ELSE IF /\ ~key_exists_in_set(admin_keys[m.rep_id], m.sigkey)
          /\ ~key_exists_in_set(writer_keys[m.rep_id], m.sigkey)
       THEN TEE_ERROR_ACCESS_DENIED
  ELSE IF ~verify_signature(AccessData(m), m.sigkey, m.signature) THEN TEE_ERROR_SECURITY
  ELSE TEE_SUCCESS

\* The checks in their order; the first that fails decides the result.
AccessChecks(m) ==
  IF m.op \notin AccessOps THEN TEE_ERROR_BAD_PARAMETERS
  ELSE IF ~RepoFound(m.rep_id) THEN TEE_ERROR_ITEM_NOT_FOUND
  ELSE IF ~key_exists_in_set(admin_keys[m.rep_id], m.sigkey) THEN TEE_ERROR_ACCESS_DENIED
  ELSE IF ~verify_signature(AccessData(m), m.sigkey, m.signature) THEN TEE_ERROR_SECURITY
  ELSE TEE_SUCCESS

\* What the update of the key sets can end with: the result and both lists.
Lists(res, admins, writers) == [res |-> res, admins |-> admins, writers |-> writers]

\* Mutant: a promoted writer stays on the writer list.
AddAdminKeepWriter(admins, writers, k) ==
  IF key_exists_in_set(admins, k)
  THEN {Lists(TEE_ERROR_BAD_PARAMETERS, admins, writers)}
  ELSE {Lists(TEE_SUCCESS, add_key_to_set(admins, k), writers)}

\* A writer loses its entry before the admin entry is allocated.
AddAdmin(admins, writers, k) ==
  IF key_exists_in_set(admins, k)
  THEN {Lists(TEE_ERROR_BAD_PARAMETERS, admins, writers)}
  ELSE {Lists(TEE_SUCCESS, add_key_to_set(admins, k), find_and_remove_key(writers, k))}
         \cup When(CanFail("malloc"),
                   {Lists(TEE_ERROR_OUT_OF_MEMORY, admins, find_and_remove_key(writers, k))})

\* Mutant: the admin list is not looked at.
AddWriterToAdmin(admins, writers, k) ==
  IF key_exists_in_set(writers, k)
  THEN {Lists(TEE_ERROR_BAD_PARAMETERS, admins, writers)}
  ELSE {Lists(TEE_SUCCESS, admins, add_key_to_set(writers, k))}

AddWriter(admins, writers, k) ==
  IF key_exists_in_set(writers, k) \/ key_exists_in_set(admins, k)
  THEN {Lists(TEE_ERROR_BAD_PARAMETERS, admins, writers)}
  ELSE {Lists(TEE_SUCCESS, admins, add_key_to_set(writers, k))}
         \cup When(CanFail("malloc"), {Lists(TEE_ERROR_OUT_OF_MEMORY, admins, writers)})

\* Mutant: the test of was_found is the wrong way round.
DeleteAdminInverted(admins, writers, k) ==
  IF key_exists_in_set(admins, k)
  THEN {Lists(TEE_ERROR_BAD_PARAMETERS, find_and_remove_key(admins, k), writers)}
  ELSE {Lists(TEE_SUCCESS, admins, writers)}

DeleteAdmin(admins, writers, k) ==
  IF key_exists_in_set(admins, k)
  THEN {Lists(TEE_SUCCESS, find_and_remove_key(admins, k), writers)}
  ELSE {Lists(TEE_ERROR_BAD_PARAMETERS, admins, writers)}

\* Mutant: the key is found and stays.
DeleteWriterKept(admins, writers, k) ==
  IF key_exists_in_set(writers, k)
  THEN {Lists(TEE_SUCCESS, admins, writers)}
  ELSE {Lists(TEE_ERROR_BAD_PARAMETERS, admins, writers)}

DeleteWriter(admins, writers, k) ==
  IF key_exists_in_set(writers, k)
  THEN {Lists(TEE_SUCCESS, admins, find_and_remove_key(writers, k))}
  ELSE {Lists(TEE_ERROR_BAD_PARAMETERS, admins, writers)}

\* Any other role code passes through: no list changes, the call goes on.
UpdateKeySets(admins, writers, m) ==
  When(m.op = OP_ADD /\ m.role = ROLE_ADMIN, AddAdmin(admins, writers, m.pubkey))
    \cup When(m.op = OP_ADD /\ m.role = ROLE_WRITER, AddWriter(admins, writers, m.pubkey))
    \cup When(m.op = OP_DELETE /\ m.role = ROLE_ADMIN, DeleteAdmin(admins, writers, m.pubkey))
    \cup When(m.op = OP_DELETE /\ m.role = ROLE_WRITER, DeleteWriter(admins, writers, m.pubkey))
    \cup When(m.role \notin {ROLE_ADMIN, ROLE_WRITER}, {Lists(TEE_SUCCESS, admins, writers)})

AccessBlock(m) ==
  init_access_block(block_height[m.rep_id] + 1, latest_hash[m.rep_id], m.op, m.role,
                    m.pubkey, m.sigkey, m.signature)

AccessRefused(m) ==
  /\ \/ AccessChecks(m) # TEE_SUCCESS /\ Return(AccessChecks(m))
     \/ AccessChecks(m) = TEE_SUCCESS /\ VerifyCanFail /\ Return(TEE_ERROR_SECURITY)
  /\ UNCHANGED <<repoVars, listVars, tee_key, ledger>>

\* The call returns an error with the lists as the update left them.
AccessFails(m, u, res) ==
  /\ Return(res)
  /\ torn' = IF u.admins = admin_keys[m.rep_id] /\ u.writers = writer_keys[m.rep_id]
             THEN torn
             ELSE [torn EXCEPT ![m.rep_id] = @ \cup {m.pubkey}]
  /\ UNCHANGED <<repoVars, ledger>>

AccessSucceeds(m, key) ==
  /\ AppendBlock(m.rep_id, AccessBlock(m), key)
  /\ Return(TEE_SUCCESS)
  /\ UNCHANGED <<repo_num, repositories, torn>>

AccessApplied(m, u) ==
  /\ admin_keys' = [admin_keys EXCEPT ![m.rep_id] = u.admins]
  /\ writer_keys' = [writer_keys EXCEPT ![m.rep_id] = u.writers]
  /\ \/ /\ u.res # TEE_SUCCESS
        /\ AccessFails(m, u, u.res)
        /\ UNCHANGED tee_key
     \/ /\ u.res = TEE_SUCCESS
        /\ \E o \in tee_sign_data(tee_key) :
             /\ tee_key' = o.key
             /\ \/ o.res # TEE_SUCCESS /\ AccessFails(m, u, o.res)
                \/ o.res = TEE_SUCCESS /\ AccessSucceeds(m, o.key)

access_control(m) ==
  /\ session
  /\ \/ AccessRefused(m)
     \/ /\ AccessChecks(m) = TEE_SUCCESS
        /\ Len(ledger[m.rep_id]) < MaxBlocks
        /\ \E u \in UpdateKeySets(admin_keys[m.rep_id], writer_keys[m.rep_id], m) :
             AccessApplied(m, u)
  /\ UNCHANGED <<lifeVars, attested>>

-----------------------------------------------------------------------------
(* commit.                                                                   *)

CommitData(m) == <<m.rep_id, m.op, m.commit_hash>>

CommitChecks(m) ==
  IF m.op \notin CommitOps THEN TEE_ERROR_BAD_PARAMETERS
  ELSE IF ~RepoFound(m.rep_id) THEN TEE_ERROR_ITEM_NOT_FOUND
  ELSE IF /\ ~key_exists_in_set(admin_keys[m.rep_id], m.sigkey)
          /\ ~key_exists_in_set(writer_keys[m.rep_id], m.sigkey)
       THEN TEE_ERROR_ACCESS_DENIED
  ELSE IF ~verify_signature(CommitData(m), m.sigkey, m.signature) THEN TEE_ERROR_SECURITY
  ELSE TEE_SUCCESS

ContributionBlock(m) ==
  init_contribution_block(block_height[m.rep_id] + 1, latest_hash[m.rep_id], m.op,
                          m.commit_hash, m.sigkey, m.signature)

CommitRefused(m) ==
  /\ \/ CommitChecks(m) # TEE_SUCCESS /\ Return(CommitChecks(m))
     \/ CommitChecks(m) = TEE_SUCCESS /\ VerifyCanFail /\ Return(TEE_ERROR_SECURITY)
  /\ UNCHANGED <<repoVars, tee_key, ledger>>

CommitFails(res) ==
  /\ Return(res)
  /\ UNCHANGED <<repoVars, ledger>>

CommitSucceeds(m, key) ==
  /\ AppendBlock(m.rep_id, ContributionBlock(m), key)
  /\ Return(TEE_SUCCESS)
  /\ UNCHANGED <<repo_num, repositories>>

\* Mutant: the chain moves before the key is decrypted.
CommitSealedEarly(m) ==
  \E o \in tee_sign_data(tee_key) :
    \/ /\ o.res # TEE_SUCCESS
       /\ tee_key' = o.key
       /\ CommitFails(o.res)
    \/ /\ o.res = TEE_SUCCESS
       /\ AppendBlock(m.rep_id, ContributionBlock(m), o.key)
       /\ UNCHANGED <<repo_num, repositories>>
       /\ \E d \in tee_decrypt_data(o.key, m.encrypted_key) :
            tee_key' = d.key /\ Return(d.res)

\* The block is signed first; the caller's key is decrypted afterwards, with
\* the pair that is stored by then, and only then the chain moves.
CommitSealed(m) ==
  \E o \in tee_sign_data(tee_key) :
    \/ /\ o.res # TEE_SUCCESS
       /\ tee_key' = o.key
       /\ CommitFails(o.res)
    \/ /\ o.res = TEE_SUCCESS
       /\ \E d \in tee_decrypt_data(o.key, m.encrypted_key) :
            /\ tee_key' = d.key
            /\ \/ d.res # TEE_SUCCESS /\ CommitFails(d.res)
               \/ d.res = TEE_SUCCESS /\ CommitSucceeds(m, o.key)

commit(m) ==
  /\ session
  /\ \/ CommitRefused(m)
     \/ /\ CommitChecks(m) = TEE_SUCCESS
        /\ Len(ledger[m.rep_id]) < MaxBlocks
        /\ CommitSealed(m)
  /\ UNCHANGED <<lifeVars, listVars, attested>>

-----------------------------------------------------------------------------
(* get_latest_hash.  tee_sign_data takes a C string, but is given the struct *)
(* <nonce, latest_hash>: it hashes the bytes before the first zero byte.     *)

\* Mutant: the nonce is not part of what is signed.
SignedBytesNoNonce(nonce, hash) == <<hash>>

SignedBytes(nonce, hash) ==
  IF \E i \in 1..4 : nonce[i] = 0
  THEN SubSeq(nonce, 1, (CHOOSE i \in 1..4 : nonce[i] = 0 /\ \A j \in 1..(i-1) : nonce[j] # 0) - 1)
  ELSE nonce \o <<hash>>

Answer(rep_id, nonce, key) ==
  [nonce |-> nonce, latest_hash |-> latest_hash[rep_id],
   signature |-> [key |-> key, digest |-> sha256(SignedBytes(nonce, latest_hash[rep_id]))]]

get_latest_hash(rep_id, nonce) ==
  /\ session
  /\ \/ /\ ~RepoFound(rep_id)
        /\ Return(TEE_ERROR_ITEM_NOT_FOUND)
        /\ UNCHANGED <<tee_key, attested>>
     \/ /\ RepoFound(rep_id) /\ Cardinality(attested) < MaxReplies
        /\ \E o \in tee_sign_data(tee_key) :
             /\ tee_key' = o.key
             /\ Return(o.res)
             /\ attested' = IF o.res = TEE_SUCCESS
                            THEN attested \cup {Answer(rep_id, nonce, o.key)}
                            ELSE attested
  /\ UNCHANGED <<repoVars, listVars, lifeVars, ledger>>

-----------------------------------------------------------------------------
(* get_tee_public_key.                                                       *)

\* The DER form of an RSA-2048 public key.
DER_LEN == 294

\* public_key_obj_to_pem reads the capacity of the buffer from *pem_len.
public_key_obj_to_pem(pem_len) ==
  IF pem_len < estimated_len(DER_LEN) THEN TEE_ERROR_SHORT_BUFFER ELSE TEE_SUCCESS

\* The handler passes pem_len = 0; the size of the caller's buffer is only
\* compared with 0.  The pair is opened, never generated.
PublicKeyResults(size) ==
  IF size = 0 THEN {TEE_ERROR_BAD_PARAMETERS}
  ELSE When(tee_key = 0, {TEE_ERROR_ITEM_NOT_FOUND})
         \cup When(tee_key # 0, {public_key_obj_to_pem(0)})
         \cup When(CanFail("open") \/ CanFail("malloc"), {TEE_ERROR_GENERIC})

get_tee_public_key(size) ==
  /\ session
  /\ \E res \in PublicKeyResults(size) : Return(res)
  /\ UNCHANGED <<repoVars, listVars, lifeVars, tee_key, ledger, attested>>

-----------------------------------------------------------------------------
\* TA_InvokeCommandEntryPoint with an unknown command or with parameter types
\* other than the command's.
InvokeBadParameters ==
  /\ session
  /\ Return(TEE_ERROR_BAD_PARAMETERS)
  /\ UNCHANGED <<repoVars, listVars, lifeVars, tee_key, ledger, attested>>

\* The messages a caller may send: any fields, and a signature that is right
\* or is not (one over other data, by another key, or no signature at all).
SignedBy(sigkey, data, right) == IF right THEN Sign(sigkey, data) ELSE EMPTY_SIGNATURE

AccessMessage(rep_id, op, role, pubkey, sigkey, right) ==
  [rep_id |-> rep_id, op |-> op, role |-> role, pubkey |-> pubkey, sigkey |-> sigkey,
   signature |-> SignedBy(sigkey, <<rep_id, op, role, pubkey>>, right)]

CommitMessage(rep_id, op, commit_hash, sigkey, right, encrypted_key) ==
  [rep_id |-> rep_id, op |-> op, commit_hash |-> commit_hash, sigkey |-> sigkey,
   signature |-> SignedBy(sigkey, <<rep_id, op, commit_hash>>, right),
   encrypted_key |-> encrypted_key]

AnyId == 0..(Word - 1)
AnyOp == AccessOps \cup CommitOps

AccessMessages ==
  {AccessMessage(r, op, role, pk, sk, right) :
     r \in AnyId, op \in AnyOp, role \in Role, pk \in Key, sk \in Key, right \in BOOLEAN}
CommitMessages ==
  {CommitMessage(r, op, c, sk, right, enc) :
     r \in AnyId, op \in AnyOp, c \in CommitHash, sk \in Key, right \in BOOLEAN,
     enc \in StoredKey}

Next ==
  \/ TA_OpenSession
  \/ TA_CloseSession
  \/ \E k \in Key : init_repo(k)
  \/ \E m \in AccessMessages : access_control(m)
  \/ \E m \in CommitMessages : commit(m)
  \/ \E r \in AnyId, n \in Nonce : get_latest_hash(r, n)
  \/ \E size \in PemBufSize : get_tee_public_key(size)
  \/ InvokeBadParameters

Spec == Init /\ [][Next]_vars
=============================================================================
