---------------------------- MODULE LedgerRules -----------------------------
(***************************************************************************)
(* Who holds which role, read off a ledger (the sequence of the blocks of  *)
(* one repository) and nothing else.  A reader of the chain who has no     *)
(* access to the TA's memory decides permissions this way; the TA decides  *)
(* them with its two key lists.                                            *)
(***************************************************************************)
EXTENDS TrustChainConsts, Sequences

\* A sequence of some blocks.
IsLedger(L) == L \in Seq({L[i] : i \in 1..Len(L)})

Entry(b, op, role, k) == b.op = op /\ b.role = role /\ b.pubkey = k

\* k is an admin after the first n blocks of L: it was added, not deleted since.
AdminAt(L, n, k) ==
  \E i \in 1..n :
    /\ Entry(L[i], OP_ADD, ROLE_ADMIN, k)
    /\ \A j \in (i+1)..n : ~Entry(L[j], OP_DELETE, ROLE_ADMIN, k)

\* k is a writer after the first n blocks of L: it was added, and since then
\* neither deleted nor promoted to admin.
WriterAt(L, n, k) ==
  \E i \in 1..n :
    /\ Entry(L[i], OP_ADD, ROLE_WRITER, k)
    /\ \A j \in (i+1)..n : /\ ~Entry(L[j], OP_DELETE, ROLE_WRITER, k)
                           /\ ~Entry(L[j], OP_ADD, ROLE_ADMIN, k)

\* Block b may follow the first n blocks of L: its signer holds a sufficient
\* role, and a grant or a revocation really changes something.
MaySign(L, n, b) ==
  \/ AdminAt(L, n, b.sigkey)
  \/ b.op \in CommitOps /\ WriterAt(L, n, b.sigkey)

Changes(L, n, b) ==
  /\ Entry(b, OP_ADD, ROLE_ADMIN, b.pubkey) => ~AdminAt(L, n, b.pubkey)
  /\ Entry(b, OP_ADD, ROLE_WRITER, b.pubkey) =>
       ~AdminAt(L, n, b.pubkey) /\ ~WriterAt(L, n, b.pubkey)
  /\ Entry(b, OP_DELETE, ROLE_ADMIN, b.pubkey) => AdminAt(L, n, b.pubkey)
  /\ Entry(b, OP_DELETE, ROLE_WRITER, b.pubkey) => WriterAt(L, n, b.pubkey)
=============================================================================
