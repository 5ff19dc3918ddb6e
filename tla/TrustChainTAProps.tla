------------------------- MODULE TrustChainTAProps --------------------------
(***************************************************************************)
(* The correctness properties of TrustChainTA.                             *)
(***************************************************************************)
EXTENDS TrustChainTA

BlockOK(b) ==
  /\ b.block_height \in Nat
  /\ b.op \in AccessOps \cup CommitOps
  /\ b.role \in Nat
  /\ b.pubkey \in Key \cup {EmptyStr}
  /\ b.sigkey \in Key
  /\ b.commit_hash \in CommitHash \cup {EmptyStr}
  /\ b.tee_sig.key \in StoredKey

\* Every variable has its type; the blocks of a ledger are well formed.
TypeOK ==
  /\ session \in BOOLEAN
  /\ repo_num \in 0..MAX_REPO_ID
  /\ repositories \subseteq RepId
  /\ block_height \in [RepId -> Nat]
  /\ DOMAIN latest_hash = RepId
  /\ founder_key \in [RepId -> Key \cup {EmptyStr}]
  /\ admin_keys \in [RepId -> KeyLists]
  /\ writer_keys \in [RepId -> KeyLists]
  /\ tee_key \in StoredKey
  /\ result \in TEE_Result
  /\ DOMAIN ledger = RepId
  /\ \A r \in RepId : /\ IsLedger(ledger[r])
                      /\ \A i \in 1..Len(ledger[r]) : BlockOK(ledger[r][i])
  /\ torn \in [RepId -> SUBSET Key]
  /\ boots \in 0..MaxBoots

-----------------------------------------------------------------------------
(* Safety.                                                                   *)

\* The repositories are exactly the ids below repo_num: an init_repo that
\* fails half way frees its slot and reuses the id, and no id is skipped.
IdsDense == repositories = 0..(repo_num - 1)

\* No list holds a key twice and no key is on both lists: add_key_to_set does
\* not check, the callers do, on every path including the failing ones.
ListsExclusive == \A r \in RepId, k \in Key : admin_keys[r][k] + writer_keys[r][k] <= 1

\* The blocks of a repository form one hash chain from the 64 zeros up to
\* latest_hash, and the TEE signature of each is over that block's hash.
ChainLinked ==
  \A r \in repositories :
    LET L == ledger[r] IN
    /\ Len(L) > 0
    /\ L[1].parent_hash = ZERO_HASH
    /\ \A i \in 2..Len(L) : L[i].parent_hash = BlockHash(L[i-1])
    /\ \A i \in 1..Len(L) : L[i].tee_sig.digest = BlockHash(L[i])
    /\ latest_hash[r] = BlockHash(L[Len(L)])

\* The key lists are what a reader of the chain would compute from it, except
\* for keys whose change was applied by a call that then returned an error.
ListsMatchLedger ==
  \A r \in repositories :
    \A k \in Key \ torn[r] :
      /\ key_exists_in_set(admin_keys[r], k)  <=> AdminAt(ledger[r], Len(ledger[r]), k)
      /\ key_exists_in_set(writer_keys[r], k) <=> WriterAt(ledger[r], Len(ledger[r]), k)

DataOf(r, b) == IF b.op \in AccessOps THEN <<r, b.op, b.role, b.pubkey>>
                                      ELSE <<r, b.op, b.commit_hash>>

\* Every block after the genesis block is signed, over its own content and for
\* this repository, by a key that the blocks before it authorise, and a grant
\* or revocation is never redundant; again up to the keys of failed calls.
BlocksAuthorised ==
  \A r \in repositories :
    \A i \in 2..Len(ledger[r]) :
      LET L == ledger[r]
          b == L[i]
      IN /\ b.signature = Sign(b.sigkey, DataOf(r, b))
         /\ b.sigkey \in torn[r] \/ MaySign(L, i - 1, b)
         /\ b.pubkey \in torn[r] \/ Changes(L, i - 1, b)

\* The blocks this and all earlier instances returned.
AllBlocks ==
  (UNION {{ledger[r][i] : i \in 1..Len(ledger[r])} : r \in RepId})
    \cup (UNION {{a.blocks[i] : i \in 1..Len(a.blocks)} : a \in archive})

\* Every TEE signature ever given out, on a block or on a latest-hash answer,
\* verifies under the pair that is stored now, across restarts and failed
\* calls: a generated pair is never replaced (while the open does not fail).
SignaturesStayValid ==
  /\ \A b \in AllBlocks : b.tee_sig.key = tee_key
  /\ \A a \in attested : a.signature.key = tee_key

\* For a nonce without a zero byte, equal signatures of two latest-hash
\* answers mean the same nonce and the same hash.
FullNonceBindsAnswer ==
  \A a, b \in attested :
    (\A i \in 1..4 : a.nonce[i] # 0) /\ a.signature = b.signature
      => a.nonce = b.nonce /\ a.latest_hash = b.latest_hash

-----------------------------------------------------------------------------
(* What a step may never do.                                                 *)

\* A call that returns an error leaves every chain, height and repository as
\* it was, wherever the handler stopped.
ErrorKeepsChain ==
  [][result' # TEE_SUCCESS => UNCHANGED <<repoVars, ledger>>]_vars

\* A repository without admins never gets one again: only an admin's call can
\* change its lists.
LockoutIsPermanent ==
  [][\A r \in repositories \cap repositories' :
       (\A k \in Key : admin_keys[r][k] = 0) => (\A k \in Key : admin_keys'[r][k] = 0)]_vars

\* The key lists of a repository change only together with its ledger: every
\* change of a permission is recorded by a block.
KeyChangesAreRecorded ==
  [][\A r \in repositories :
       admin_keys'[r] # admin_keys[r] \/ writer_keys'[r] # writer_keys[r]
         => ledger'[r] # ledger[r]]_vars

-----------------------------------------------------------------------------
(* Refinement: the ledgers behave as those of AccessLedger.                  *)

EntryOf(b) == [op |-> b.op, role |-> b.role, pubkey |-> b.pubkey, sigkey |-> b.sigkey,
               commit_hash |-> b.commit_hash]

Abstract == INSTANCE AccessLedger
  WITH ledger <- [r \in RepId |-> [i \in 1..Len(ledger[r]) |-> EntryOf(ledger[r][i])]]

\* With no failing TEE calls the TA implements AccessLedger: deciding with the
\* key lists in memory is deciding from the chain.
ImplementsAccessLedger == Abstract!Spec

-----------------------------------------------------------------------------
(* Statements of the documentation and of comments that the code does not    *)
(* meet; each is refuted by a run of its own.                                *)

\* pseudocode.md: the owner, the first admin, may not be deleted.
OwnerStaysAdmin ==
  \A r \in repositories : key_exists_in_set(admin_keys[r], ledger[r][1].pubkey)

\* pseudocode.md: block_height starts at 0, a block gets it as its height, and it
\* is then incremented.  So heights number the blocks, and block_height counts them.
HeightsCount ==
  \A r \in repositories :
    /\ block_height[r] = Len(ledger[r])
    /\ \A i \in 1..Len(ledger[r]) : ledger[r][i].block_height = i - 1

\* trust_chain_ta.c: the repositories are saved and come back with the next
\* start of the TA.
RepositoriesSurviveRestart ==
  session => \A a \in archive : /\ a.rep_id \in repositories
                                /\ Len(ledger[a.rep_id]) >= Len(a.blocks)
                                /\ SubSeq(ledger[a.rep_id], 1, Len(a.blocks)) = a.blocks

\* README.md: tee_sig is the TEE's signature of the block that is returned.
ReleasedBlockVerifies ==
  \A b \in AllBlocks : Released(b).tee_sig.digest = BlockHash(Released(b))

\* README.md: the answer of get_latest_hash is a signed <nonce, latest_hash>.
AnswerIsBound ==
  \A a, b \in attested :
    a.signature = b.signature => a.nonce = b.nonce /\ a.latest_hash = b.latest_hash
=============================================================================
