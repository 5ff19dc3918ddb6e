------------------------------- MODULE Block --------------------------------
(***************************************************************************)
(* ta/block/block.c and the struct layout of ta/block/block.h.  The access *)
(* and the contribution block share one record: an access block has no     *)
(* commit_hash and a contribution block neither role nor pubkey (their     *)
(* fields hold 0 and EmptyStr); op tells the two apart.                    *)
(*                                                                         *)
(* SHA-256 is an ideal hash: a digest is the term <<preimage>>, equal only *)
(* for equal preimages.  A signature is the term <<signer, data>>.         *)
(***************************************************************************)
EXTENDS TrustChainConsts, Sequences

CONSTANTS
  EmptyStr,   \* the string ""
  Prefix256   \* Prefix256[k]: what the "%.256s" conversions keep of key k

sha256(preimage) == <<preimage>>

\* The 64 zeros init_repo starts latest_hash with: the digest of nothing.
ZERO_HASH == <<>>

\* The signature "" of a genesis block.
EMPTY_SIGNATURE == <<>>
Sign(signer, data) == <<signer, data>>

NO_TEE_SIG == [key |-> 0, digest |-> ZERO_HASH]

init_access_block(block_height, parent_hash, op, role, pubkey, sigkey, signature) ==
  [block_height |-> block_height, parent_hash |-> parent_hash, op |-> op,
   sigkey |-> sigkey, signature |-> signature, tee_sig |-> NO_TEE_SIG,
   role |-> role, pubkey |-> pubkey, commit_hash |-> EmptyStr]

init_contribution_block(block_height, parent_hash, op, commit_hash, sigkey, signature) ==
  [block_height |-> block_height, parent_hash |-> parent_hash, op |-> op,
   sigkey |-> sigkey, signature |-> signature, tee_sig |-> NO_TEE_SIG,
   role |-> 0, pubkey |-> EmptyStr, commit_hash |-> commit_hash]

\* The serialised fields: keys only up to their 256th character.  Signatures
\* are cut there too, but half of an RSA signature still identifies it.
calculate_access_block_hash(b) ==
  sha256(<<b.block_height, b.parent_hash, b.op, Prefix256[b.sigkey], b.signature,
           b.role, Prefix256[b.pubkey]>>)

calculate_contribution_block_hash(b) ==
  sha256(<<b.block_height, b.parent_hash, b.op, Prefix256[b.sigkey], b.signature,
           b.commit_hash>>)

BlockHash(b) == IF b.op \in AccessOps THEN calculate_access_block_hash(b)
                                      ELSE calculate_contribution_block_hash(b)

\* tee_sig holds 512 characters and the hex form of the 256-byte signature
\* takes all of them: its terminating NUL lands on the byte that follows
\* base, the low byte of role in an access block and the first character of
\* commit_hash in a contribution block.  This is the block the caller gets.
Released(b) == IF b.op \in AccessOps THEN [b EXCEPT !.role = @ - (@ % 256)]
                                     ELSE [b EXCEPT !.commit_hash = EmptyStr]
=============================================================================
