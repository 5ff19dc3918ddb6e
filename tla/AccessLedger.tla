---------------------------- MODULE AccessLedger ----------------------------
(***************************************************************************)
(* What the trusted application promises, without its memory: per          *)
(* repository a ledger that only grows, in which every block is allowed by *)
(* the blocks before it.  There are no key lists here: who is an admin or  *)
(* a writer is read off the ledger itself (LedgerRules).  Heights, hashes  *)
(* and signatures are left out.                                            *)
(***************************************************************************)
EXTENDS LedgerRules

CONSTANTS RepId, Key, Role, CommitHash, EmptyStr

VARIABLE ledger

AccessEntry == [op : AccessOps, role : Role, pubkey : Key, sigkey : Key,
                commit_hash : {EmptyStr}]
CommitEntry == [op : CommitOps, role : {0}, pubkey : {EmptyStr}, sigkey : Key,
                commit_hash : CommitHash]

GenesisEntry(k) == [op |-> OP_ADD, role |-> ROLE_ADMIN, pubkey |-> k, sigkey |-> k,
                    commit_hash |-> EmptyStr]

Init == ledger = [r \in RepId |-> <<>>]

\* Repositories are created with consecutive ids, each by its first admin.
Create(r, k) ==
  /\ ledger[r] = <<>>
  /\ \A s \in RepId : s < r => ledger[s] # <<>>
  /\ ledger' = [ledger EXCEPT ![r] = <<GenesisEntry(k)>>]

Extend(r, b) ==
  LET L == ledger[r] IN
  /\ L # <<>>
  /\ MaySign(L, Len(L), b)
  /\ Changes(L, Len(L), b)
  /\ ledger' = [ledger EXCEPT ![r] = Append(L, b)]

\* The instance goes away, and all of its ledgers with it.
Lose == ledger' = [r \in RepId |-> <<>>]

\* One ledger gains a block (the first conjunct is implied by the others).
Grow(r) ==
  /\ ledger'[r] # ledger[r]
  /\ \/ \E k \in Key : Create(r, k)
     \/ \E b \in AccessEntry \cup CommitEntry : Extend(r, b)

Next == (\E r \in RepId : Grow(r)) \/ Lose

Spec == Init /\ [][Next]_ledger
=============================================================================
