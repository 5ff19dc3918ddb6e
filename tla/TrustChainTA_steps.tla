------------------------- MODULE TrustChainTA_steps --------------------------
(***************************************************************************)
(* What a step of TrustChainTA may never do, and that its ledgers behave   *)
(* as those of AccessLedger, for every value of the constants.             *)
(***************************************************************************)
EXTENDS TrustChainTA_proofs, SequenceTheorems

USE DEF chainVars, repoVars, listVars, lifeVars, Return

\* A call that fails leaves the repositories and their chains alone, wherever
\* it stopped; for init_repo because the slot it clears was empty.
LEMMA ErrorStep ==
  ASSUME TypeOK, IdsDense, [Next]_vars, result' # TEE_SUCCESS
  PROVE  UNCHANGED <<repoVars, ledger>>
<1>0. OuterTypes
  BY DEF TypeOK, OuterTypes
<1>1. CASE UNCHANGED vars \/ TA_OpenSession \/ InvokeBadParameters
  BY <1>1 DEF vars, TA_OpenSession, InvokeBadParameters
<1>2. CASE TA_CloseSession
  BY <1>2 DEF TA_CloseSession
<1>3. ASSUME NEW k \in Key, init_repo(k) PROVE UNCHANGED <<repoVars, ledger>>
  BY <1>0, <1>3, InitRepoStep DEF Refused
<1>4. ASSUME NEW m \in AccessMessages, access_control(m) PROVE UNCHANGED <<repoVars, ledger>>
  BY <1>0, <1>4, AccessStep DEF Refused, TornBy, AccessFails
<1>5. ASSUME NEW m \in CommitMessages, commit(m) PROVE UNCHANGED <<repoVars, ledger>>
  BY <1>0, <1>5, CommitStep DEF Refused
<1>6. ASSUME NEW r \in AnyId, NEW n \in Nonce, get_latest_hash(r, n)
      PROVE  UNCHANGED <<repoVars, ledger>>
  BY <1>6 DEF get_latest_hash
<1>7. ASSUME NEW size \in PemBufSize, get_tee_public_key(size)
      PROVE  UNCHANGED <<repoVars, ledger>>
  BY <1>7 DEF get_tee_public_key
<1> QED BY <1>1, <1>2, <1>3, <1>4, <1>5, <1>6, <1>7 DEF Next

\* A failed call has no effect on the chains, whichever TEE call failed.
THEOREM FailedCallsKeepChain == Spec => ErrorKeepsChain
<1>1. IInv /\ [Next]_vars => [result' # TEE_SUCCESS => UNCHANGED <<repoVars, ledger>>]_vars
  BY ErrorStep DEF IInv
<1> QED BY <1>1, Invariance, PTL DEF Spec, ErrorKeepsChain

\* Who changes the lists of a repository is on its admin list.
LEMMA LockoutStep ==
  ASSUME TypeOK, IdsDense, [Next]_vars, NEW r \in repositories, r \in repositories',
         \A k \in Key : admin_keys[r][k] = 0
  PROVE  \A k \in Key : admin_keys'[r][k] = 0
<1>1. Effect /\ r \in RepId
  BY StepEffect DEF TypeOK
<1>2. CASE UNCHANGED chainVars
  BY <1>2
<1>3. CASE TA_CloseSession
  BY <1>3 DEF TA_CloseSession
<1>4. ASSUME NEW k \in Key, NEW tk \in StoredKey, Created(k, tk)
      PROVE  admin_keys'[r] = admin_keys[r]
  BY <1>1, <1>4, CreatedFacts DEF TypeOK
<1>5. ASSUME NEW m \in AccessMessages, NEW u, AccessChecks(m) = TEE_SUCCESS, Updated(m, u)
      PROVE  admin_keys'[r] = admin_keys[r]
  <2>1. m.rep_id \in RepId /\ m.sigkey \in Key /\ admin_keys[m.rep_id][m.sigkey] > 0
    BY <1>5, AccessChecked, AccessMessageFields
  <2>2. r # m.rep_id
    BY <2>1
  <2> QED BY <1>1, <1>5, <2>1, <2>2 DEF Updated, TypeOK
<1>6. ASSUME NEW m \in CommitMessages, NEW tk \in StoredKey, CommitBy(m, tk)
      PROVE  admin_keys'[r] = admin_keys[r]
  BY <1>6 DEF CommitBy
<1> QED BY <1>1, <1>2, <1>3, <1>4, <1>5, <1>6 DEF Effect, TornBy, AccessBy

\* A repository that has lost its last admin never gets one again.
THEOREM LockoutsArePermanent == Spec => LockoutIsPermanent
<1>1. IInv /\ [Next]_vars =>
        [\A r \in repositories \cap repositories' :
           (\A k \in Key : admin_keys[r][k] = 0) => (\A k \in Key : admin_keys'[r][k] = 0)]_vars
  BY LockoutStep DEF IInv
<1> QED BY <1>1, Invariance, PTL DEF Spec, LockoutIsPermanent

-----------------------------------------------------------------------------
(* While nothing fails between the update of the lists and the block.        *)

PlainEffect ==
  \/ UNCHANGED chainVars
  \/ TA_CloseSession
  \/ \E k \in Key, tk \in StoredKey : Created(k, tk)
  \/ \E m \in AccessMessages : \E u \in UpdatesOf(m), tk \in StoredKey : AccessBy(m, u, tk)
  \/ \E m \in CommitMessages : \E tk \in StoredKey : CommitBy(m, tk)

\* No step then changes the lists without appending the block.
LEMMA PlainStep ==
  ASSUME TypeOK, IdsDense, [Next]_vars, ~CanTear
  PROVE  PlainEffect
<1>0. OuterTypes
  BY DEF TypeOK, OuterTypes
<1>1. CASE UNCHANGED vars \/ TA_OpenSession \/ InvokeBadParameters
  BY <1>1 DEF vars, TA_OpenSession, InvokeBadParameters, PlainEffect
<1>2. CASE TA_CloseSession
  BY <1>2 DEF PlainEffect
<1>3. ASSUME NEW k \in Key, init_repo(k) PROVE PlainEffect
  BY <1>0, <1>3, InitRepoStep DEF Refused, PlainEffect
<1>4. ASSUME NEW m \in AccessMessages, access_control(m) PROVE PlainEffect
  BY <1>0, <1>4, AccessStep DEF Refused, PlainEffect
<1>5. ASSUME NEW m \in CommitMessages, commit(m) PROVE PlainEffect
  BY <1>0, <1>5, CommitStep DEF Refused, PlainEffect
<1>6. ASSUME NEW r \in AnyId, NEW n \in Nonce, get_latest_hash(r, n) PROVE PlainEffect
  BY <1>6 DEF get_latest_hash, PlainEffect
<1>7. ASSUME NEW size \in PemBufSize, get_tee_public_key(size) PROVE PlainEffect
  BY <1>7 DEF get_tee_public_key, PlainEffect
<1> QED BY <1>1, <1>2, <1>3, <1>4, <1>5, <1>6, <1>7 DEF Next

\* A ledger that has gained a block is another ledger.
LEMMA AppendDiffers ==
  ASSUME NEW L, IsLedger(L), NEW b
  PROVE  Append(L, b) # L
BY AppendElements

\* Every change of a list comes with a block, or with the end of the instance.
LEMMA RecordedStep ==
  ASSUME TypeOK, ChainLinked, PlainEffect, IdsDense, NEW r \in repositories,
         admin_keys'[r] # admin_keys[r] \/ writer_keys'[r] # writer_keys[r]
  PROVE  ledger'[r] # ledger[r]
<1>1. r \in RepId /\ IsLedger(ledger[r]) /\ Len(ledger[r]) > 0
  BY DEF TypeOK, ChainLinked
<1>2. CASE TA_CloseSession
  BY <1>1, <1>2 DEF TA_CloseSession, EverySlot
<1>3. ASSUME NEW k \in Key, NEW tk \in StoredKey, Created(k, tk) PROVE FALSE
  BY <1>1, <1>3, CreatedFacts DEF TypeOK
<1>4. ASSUME NEW m \in AccessMessages, NEW u, NEW tk \in StoredKey, AccessBy(m, u, tk)
      PROVE  ledger'[r] # ledger[r]
  <2>1. Grown(m.rep_id, Signed(AccessBlock(m), tk))
    BY <1>4, AccessGrows
  <2>2. r = m.rep_id
    BY <1>1, <1>4, <2>1 DEF AccessBy, Updated, Grown, TypeOK
  <2> QED BY <1>1, <2>1, <2>2, AppendDiffers DEF Grown, TypeOK
<1>5. ASSUME NEW m \in CommitMessages, NEW tk \in StoredKey, CommitBy(m, tk) PROVE FALSE
  BY <1>5 DEF CommitBy
<1> QED BY <1>2, <1>3, <1>4, <1>5 DEF PlainEffect

\* As long as no allocation, digest, generation of a pair or signing fails, the
\* lists change only with their ledger.
THEOREM ListChangesAreRecorded ==
  ASSUME ~CanTear
  PROVE  Spec => KeyChangesAreRecorded
<1>1. IInv /\ [Next]_vars =>
        [\A r \in repositories :
           admin_keys'[r] # admin_keys[r] \/ writer_keys'[r] # writer_keys[r]
             => ledger'[r] # ledger[r]]_vars
  BY PlainStep, RecordedStep DEF IInv
<1> QED BY <1>1, Invariance, PTL DEF Spec, KeyChangesAreRecorded

-----------------------------------------------------------------------------
(* The refinement of AccessLedger.                                           *)

\* No block is left in a slot that is not in use.
EmptySlots == \A r \in RepId \ repositories : ledger[r] = <<>>

\* Blocks appear in a slot with its genesis block, and all go with the instance.
LEMMA SlotsStep ==
  ASSUME TypeOK, IdsDense, Effect, EmptySlots
  PROVE  EmptySlots'
<1>1. CASE UNCHANGED <<repositories, ledger>>
  BY <1>1 DEF EmptySlots
<1>2. CASE TA_CloseSession
  BY <1>2 DEF TA_CloseSession, EverySlot, EmptySlots
<1>3. ASSUME NEW k \in Key, NEW tk \in StoredKey, Created(k, tk) PROVE EmptySlots'
  <2> DEFINE b == Fresh(k, tk)
  <2>1. /\ DOMAIN ledger = RepId /\ repositories' = repositories \cup {repo_num}
        /\ ledger' = [ledger EXCEPT ![repo_num] = <<b>>]
    BY <1>3, CreatedFacts DEF TypeOK
  <2> HIDE DEF b
  <2> QED BY <2>1 DEF EmptySlots
<1>4. ASSUME NEW r, NEW b, Grown(r, b) PROVE EmptySlots'
  BY <1>4 DEF Grown, EmptySlots, TypeOK
<1> QED BY <1>1, <1>2, <1>3, <1>4, AccessGrows, CommitGrows DEF Effect, TornBy, AccessFails

\* A slot that is not in use holds no block, whatever calls have failed.
THEOREM FreeSlotsAreEmpty == Spec => []EmptySlots
<1>1. Init => EmptySlots
  BY DEF Init, EverySlot, EmptySlots
<1>2. IInv /\ EmptySlots /\ [Next]_vars => EmptySlots'
  BY StepEffect, SlotsStep DEF IInv
<1> QED BY <1>1, <1>2, Invariance, PTL DEF Spec

\* No call that failed has touched a key.
NothingTorn == \A r \in RepId : torn[r] = {}

\* Without such failures no call leaves a key torn.
LEMMA UntornStep ==
  ASSUME TypeOK, IdsDense, PlainEffect, NothingTorn
  PROVE  NothingTorn'
<1>1. CASE TA_CloseSession
  BY <1>1 DEF TA_CloseSession, EverySlot, NothingTorn
<1>2. CASE UNCHANGED torn
  BY <1>2 DEF NothingTorn
<1>3. ASSUME NEW k \in Key, NEW tk \in StoredKey, Created(k, tk) PROVE UNCHANGED torn
  BY <1>3, CreatedFacts
<1>4. ASSUME NEW r, NEW b, Grown(r, b) PROVE UNCHANGED torn
  BY <1>4 DEF Grown
<1> QED BY <1>1, <1>2, <1>3, <1>4, AccessGrows, CommitGrows DEF PlainEffect

\* The abstract ledger of a repository, and the one of the whole instance.
ViewOf(L) == [i \in 1..Len(L) |-> EntryOf(L[i])]
View == [r \in RepId |-> ViewOf(ledger[r])]

\* Seen abstractly, a ledger is a sequence of as many entries, empty if it is.
LEMMA ViewIsLedger ==
  ASSUME NEW L, IsLedger(L)
  PROVE  IsLedger(ViewOf(L)) /\ Len(ViewOf(L)) = Len(L) /\ (Len(L) = 0 => ViewOf(L) = <<>>)
<1> DEFINE V == ViewOf(L)
           S == {V[i] : i \in 1..Len(L)}
<1>1. Len(L) \in Nat
  BY AppendElements
<1>2. V \in [1..Len(L) -> S]
  BY DEF ViewOf
<1>3. V \in Seq(S)
  BY <1>1, <1>2, SeqDef
<1>4. DOMAIN V = 1..Len(L)
  BY DEF ViewOf
<1>5. Len(V) = Len(L)
  <2> HIDE DEF V, S
  <2> QED BY <1>1, <1>3, <1>4, LenProperties
<1>6. Len(L) = 0 => V = <<>>
  <2> HIDE DEF V, S
  <2> QED BY <1>3, <1>5, EmptySeq
<1> HIDE DEF V
<1> QED BY <1>3, <1>5, <1>6 DEF V, IsLedger

\* Appending a block appends its entry.
LEMMA ViewOfAppend ==
  ASSUME NEW L, IsLedger(L), NEW b
  PROVE  ViewOf(Append(L, b)) = Append(ViewOf(L), EntryOf(b))
<1> DEFINE V == ViewOf(L)
           M == Append(L, b)
           N == Append(V, EntryOf(b))
           n == Len(L)
<1>1. /\ n \in Nat /\ Len(M) = n + 1
      /\ \A i \in 1..n : M[i] = L[i]
      /\ M[n + 1] = b
  BY AppendElements
<1>2. IsLedger(V) /\ Len(V) = n
  BY ViewIsLedger
<1>3. /\ Len(N) = n + 1 /\ IsLedger(N)
      /\ \A i \in 1..n : N[i] = V[i]
      /\ N[n + 1] = EntryOf(b)
  <2> HIDE DEF V, n
  <2> QED BY <1>2, AppendElements
<1>4. DOMAIN N = 1..(n + 1) /\ N = [i \in 1..(n + 1) |-> N[i]]
  <2> HIDE DEF N
  <2> QED BY <1>3, LenProperties DEF IsLedger
<1>5. \A i \in 1..(n + 1) : N[i] = EntryOf(M[i])
  <2>1. \A i \in 1..n : V[i] = EntryOf(L[i])
    BY DEF ViewOf
  <2>2. \A i \in 1..(n + 1) : i \in 1..n \/ i = n + 1
    BY <1>1
  <2> HIDE DEF M, N, V, n
  <2> QED BY <1>1, <1>3, <2>1, <2>2
<1>6. ViewOf(M) = [i \in 1..(n + 1) |-> EntryOf(M[i])]
  BY <1>1 DEF ViewOf
<1> HIDE DEF M, N, V, n
<1> QED BY <1>4, <1>5, <1>6 DEF M, N, V

\* An entry gives its key the role its block gives: what may follow a ledger
\* may follow the view of it.
LEMMA ViewRoles ==
  ASSUME NEW L, IsLedger(L), NEW b
  PROVE  /\ MaySign(Append(L, b), Len(L), b) =>
              MaySign(ViewOf(L), Len(ViewOf(L)), EntryOf(b))
         /\ Changes(Append(L, b), Len(L), b) =>
              Changes(ViewOf(L), Len(ViewOf(L)), EntryOf(b))
<1> DEFINE V == ViewOf(L)
           M == Append(L, b)
           n == Len(L)
<1>1. n \in Nat /\ Len(V) = n /\ \A i \in 1..n : M[i] = L[i]
  BY AppendElements, ViewIsLedger
<1>2. \A c, op, role, k : Entry(EntryOf(c), op, role, k) <=> Entry(c, op, role, k)
  BY DEF Entry, EntryOf
<1>3. \A i \in 1..n : V[i] = EntryOf(M[i])
  BY <1>1 DEF ViewOf
<1>4. EntryOf(b).sigkey = b.sigkey /\ EntryOf(b).pubkey = b.pubkey /\ EntryOf(b).op = b.op
  BY DEF EntryOf
<1> HIDE DEF V, M, n
<1>5. \A i \in 1..n : \A op, role, k : Entry(V[i], op, role, k) <=> Entry(M[i], op, role, k)
  BY <1>2, <1>3
<1>6. \A i \in 1..n : \A j \in (i+1)..n : j \in 1..n
  BY <1>1
<1>7. \A k : /\ AdminAt(V, n, k) <=> AdminAt(M, n, k)
             /\ WriterAt(V, n, k) <=> WriterAt(M, n, k)
  BY <1>5, <1>6 DEF AdminAt, WriterAt
<1>8. MaySign(M, n, b) => MaySign(V, n, EntryOf(b))
  BY <1>4, <1>7 DEF MaySign
<1>9. Changes(M, n, b) => Changes(V, n, EntryOf(b))
  BY <1>2, <1>4, <1>7 DEF Changes
<1> QED BY <1>1, <1>8, <1>9 DEF V, M, n

\* The instance reads ledgers by the same rules.
LEMMA SameRules ==
  /\ Abstract!AccessOps = AccessOps /\ Abstract!CommitOps = CommitOps
  /\ Abstract!OP_ADD = OP_ADD /\ Abstract!ROLE_ADMIN = ROLE_ADMIN
  /\ \A L, n, b : /\ Abstract!MaySign(L, n, b) <=> MaySign(L, n, b)
                  /\ Abstract!Changes(L, n, b) <=> Changes(L, n, b)
<1>1. /\ Abstract!OP_ADD = OP_ADD /\ Abstract!OP_DELETE = OP_DELETE
      /\ Abstract!ROLE_ADMIN = ROLE_ADMIN /\ Abstract!ROLE_WRITER = ROLE_WRITER
      /\ Abstract!AccessOps = AccessOps /\ Abstract!CommitOps = CommitOps
  BY DEF Abstract!OP_ADD, OP_ADD, Abstract!OP_DELETE, OP_DELETE, Abstract!ROLE_ADMIN,
         ROLE_ADMIN, Abstract!ROLE_WRITER, ROLE_WRITER, Abstract!AccessOps, AccessOps,
         Abstract!CommitOps, CommitOps, Abstract!OP_PUSH, OP_PUSH, Abstract!OP_PR, OP_PR
<1>2. \A b, op, role, k : Abstract!Entry(b, op, role, k) <=> Entry(b, op, role, k)
  BY DEF Abstract!Entry, Entry
<1>3. \A L, n, k : /\ Abstract!AdminAt(L, n, k) <=> AdminAt(L, n, k)
                   /\ Abstract!WriterAt(L, n, k) <=> WriterAt(L, n, k)
  BY <1>1, <1>2 DEF Abstract!AdminAt, AdminAt, Abstract!WriterAt, WriterAt
<1> QED BY <1>1, <1>2, <1>3 DEF Abstract!MaySign, MaySign, Abstract!Changes, Changes

\* In the initial state the abstract ledgers are empty.
LEMMA InitRefines ==
  ASSUME Init
  PROVE  Abstract!Init
<1>1. ViewOf(<<>>) = <<>>
  BY EmptyLedger, ViewIsLedger
<1>2. \A r \in RepId : ledger[r] = <<>>
  BY DEF Init, EverySlot
<1>3. View = [r \in RepId |-> <<>>]
  BY <1>1, <1>2 DEF View
<1> QED BY <1>3 DEF Abstract!Init, View, ViewOf

\* A successful init_repo is the creation of the next ledger by its first admin.
LEMMA CreatedRefines ==
  ASSUME TypeOK, IdsDense, ChainLinked, EmptySlots,
         NEW k \in Key, NEW tk \in StoredKey, Created(k, tk),
         NEW r \in RepId, r = repo_num
  PROVE  Abstract!Grow(r)
<1> DEFINE b == Fresh(k, tk)
           g == Abstract!GenesisEntry(k)
<1>1. r \notin repositories /\ ledger' = [ledger EXCEPT ![r] = <<b>>]
  BY CreatedFacts
<1>2. EntryOf(b) = g
  BY SameRules DEF Fresh, Signed, GenesisBlock, init_access_block, EntryOf, Abstract!GenesisEntry
<1> HIDE DEF b, g
<1>3. ViewOf(<<b>>) = <<g>>
  <2>1. Len(<<b>>) = 1 /\ <<b>>[1] = b
    OBVIOUS
  <2>2. ViewOf(<<b>>) = [i \in 1..1 |-> EntryOf(<<b>>[i])]
    BY <2>1 DEF ViewOf
  <2>3. \A i \in 1..1 : EntryOf(<<b>>[i]) = g
    BY <1>2, <2>1
  <2>4. ViewOf(<<b>>) = [i \in 1..1 |-> g]
    BY <2>2, <2>3
  <2> QED BY <2>4
<1>4. View[r] = <<>>
  <2>1. ledger[r] = <<>>
    BY <1>1 DEF EmptySlots
  <2> QED BY <1>1, <2>1, EmptyLedger, ViewIsLedger DEF View
<1>5. \A s \in RepId : s < r => View[s] # <<>>
  <2>1. SUFFICES ASSUME NEW s \in RepId, s < r PROVE View[s] # <<>>
    OBVIOUS
  <2>2. s \in repositories
    BY <1>1, <2>1 DEF IdsDense, RepId
  <2>3. IsLedger(ledger[s]) /\ Len(ledger[s]) > 0
    BY <2>2 DEF ChainLinked, TypeOK
  <2>4. Len(View[s]) > 0
    BY <2>1, <2>3, ViewIsLedger DEF View
  <2> QED BY <2>4
<1>6. View' = [View EXCEPT ![r] = <<g>>]
  <2>1. \A s \in RepId : ledger'[s] = IF s = r THEN <<b>> ELSE ledger[s]
    BY <1>1 DEF TypeOK
  <2>2. View' = [s \in RepId |-> ViewOf(ledger'[s])]
    BY DEF View, ViewOf
  <2> QED BY <1>3, <2>1, <2>2 DEF View
<1>7. View'[r] # View[r]
  <2>1. <<g>> # <<>>
    OBVIOUS
  <2> QED BY <1>1, <1>4, <1>6, <2>1 DEF View
<1>8. Abstract!Create(r, k)
  BY <1>4, <1>5, <1>6 DEF Abstract!Create, View, ViewOf, g
<1> QED BY <1>7, <1>8 DEF Abstract!Grow, View, ViewOf

\* Appending a block that its predecessors authorise extends the abstract
\* ledger by its entry.
LEMMA GrownRefines ==
  ASSUME TypeOK, BlocksAuthorised', NothingTorn, NEW r, NEW b, Grown(r, b),
         ChainLinked, EntryOf(b) \in Abstract!AccessEntry \cup Abstract!CommitEntry
  PROVE  Abstract!Grow(r)
<1> DEFINE L == ledger[r]
           e == EntryOf(b)
<1>1. /\ r \in repositories /\ r \in RepId /\ IsLedger(L) /\ Len(L) > 0
      /\ ledger' = [ledger EXCEPT ![r] = Append(L, b)]
      /\ r \in repositories' /\ torn'[r] = {}
  BY DEF Grown, TypeOK, ChainLinked, NothingTorn
<1>2. /\ Len(L) + 1 \in 2..Len(ledger'[r])
      /\ ledger'[r] = Append(L, b) /\ ledger'[r][Len(L) + 1] = b
      /\ (Len(L) + 1) - 1 = Len(L)
  BY <1>1, AppendElements DEF TypeOK
<1>3. MaySign(Append(L, b), Len(L), b) /\ Changes(Append(L, b), Len(L), b)
  <2> HIDE DEF L
  <2> QED BY <1>1, <1>2 DEF BlocksAuthorised
<1>4. View[r] = ViewOf(L)
  BY <1>1 DEF View
<1> HIDE DEF L, e
<1>5. MaySign(View[r], Len(View[r]), e) /\ Changes(View[r], Len(View[r]), e)
  BY <1>1, <1>3, <1>4, ViewRoles DEF e
<1>6. View' = [View EXCEPT ![r] = Append(View[r], e)]
  <2>1. \A s \in RepId : ledger'[s] = IF s = r THEN Append(L, b) ELSE ledger[s]
    BY <1>1 DEF TypeOK
  <2>2. View' = [s \in RepId |-> ViewOf(ledger'[s])]
    BY DEF View, ViewOf
  <2>3. ViewOf(Append(L, b)) = Append(View[r], e)
    BY <1>1, <1>4, ViewOfAppend DEF e
  <2> QED BY <2>1, <2>2, <2>3 DEF View
<1>7. View[r] # <<>> /\ View'[r] # View[r]
  <2>1. IsLedger(View[r]) /\ Len(View[r]) > 0
    BY <1>1, <1>4, ViewIsLedger
  <2>2. View'[r] = Append(View[r], e)
    BY <1>1, <1>6 DEF View
  <2> QED BY <2>1, <2>2, AppendDiffers
<1>8. Abstract!Extend(r, e)
  <2>1. Abstract!MaySign(View[r], Len(View[r]), e) /\ Abstract!Changes(View[r], Len(View[r]), e)
    BY <1>5, SameRules
  <2> QED BY <1>6, <1>7, <2>1 DEF Abstract!Extend, View, ViewOf
<1> QED BY <1>7, <1>8 DEF Abstract!Grow, View, ViewOf, e

\* The entries of appended blocks are entries of the abstract ledger.
LEMMA AccessEntries ==
  ASSUME NEW m \in AccessMessages, NEW u, NEW tk, AccessBy(m, u, tk)
  PROVE  EntryOf(Signed(AccessBlock(m), tk)) \in Abstract!AccessEntry
<1>1. m.op \in AccessOps /\ m.role \in Role /\ m.pubkey \in Key /\ m.sigkey \in Key
  BY AccessMessageFields, AccessChecked DEF AccessBy
<1> QED BY <1>1, SameRules
        DEF EntryOf, Signed, AccessBlock, init_access_block, Abstract!AccessEntry

\* A contribution block, read as an entry, is one the ledgers know.
LEMMA CommitEntries ==
  ASSUME NEW m \in CommitMessages, NEW tk, CommitBy(m, tk)
  PROVE  EntryOf(Signed(ContributionBlock(m), tk)) \in Abstract!CommitEntry
<1>1. m.op \in CommitOps /\ m.commit_hash \in CommitHash /\ m.sigkey \in Key
  BY CommitMessageFields, CommitChecked DEF CommitBy
<1> QED BY <1>1, SameRules
        DEF EntryOf, Signed, ContributionBlock, init_contribution_block, Abstract!CommitEntry

\* Every step of the TA is a step of the abstract ledger or leaves it alone.
LEMMA StepRefines ==
  ASSUME IInv, BlocksAuthorised', EmptySlots, NothingTorn, ~CanTear, [Next]_vars
  PROVE  Abstract!Next \/ View' = View
<1>0. TypeOK /\ IdsDense /\ ChainLinked /\ PlainEffect
  BY PlainStep DEF IInv
<1>1. CASE UNCHANGED chainVars
  BY <1>1 DEF View, ViewOf
<1>2. CASE TA_CloseSession
  <2>1. \A r \in RepId : ledger'[r] = <<>>
    BY <1>2 DEF TA_CloseSession, EverySlot
  <2>2. ViewOf(<<>>) = <<>>
    BY EmptyLedger, ViewIsLedger
  <2>3. View' = [r \in RepId |-> ViewOf(ledger'[r])]
    BY DEF View, ViewOf
  <2>4. View' = [r \in RepId |-> <<>>]
    BY <2>1, <2>2, <2>3
  <2> QED BY <2>4 DEF Abstract!Next, Abstract!Lose, View, ViewOf
<1>3. ASSUME NEW k \in Key, NEW tk \in StoredKey, Created(k, tk) PROVE Abstract!Next
  <2>1. PICK r \in RepId : r = repo_num
    BY <1>0, <1>3, CreatedFacts
  <2>2. Abstract!Grow(r)
    BY <1>0, <1>3, <2>1, CreatedRefines
  <2> QED BY <2>2 DEF Abstract!Next
<1>4. ASSUME NEW m \in AccessMessages, NEW u, NEW tk \in StoredKey, AccessBy(m, u, tk)
      PROVE  Abstract!Next
  <2>1. Grown(m.rep_id, Signed(AccessBlock(m), tk))
    BY <1>0, <1>4, AccessGrows
  <2>2. Abstract!Grow(m.rep_id) /\ m.rep_id \in RepId
    BY <1>0, <1>4, <2>1, GrownRefines, AccessEntries DEF Grown
  <2> QED BY <2>2 DEF Abstract!Next
<1>5. ASSUME NEW m \in CommitMessages, NEW tk \in StoredKey, CommitBy(m, tk)
      PROVE  Abstract!Next
  <2>1. Grown(m.rep_id, Signed(ContributionBlock(m), tk))
    BY <1>0, <1>5, CommitGrows
  <2>2. Abstract!Grow(m.rep_id) /\ m.rep_id \in RepId
    BY <1>0, <1>5, <2>1, GrownRefines, CommitEntries DEF Grown
  <2> QED BY <2>2 DEF Abstract!Next
<1> QED BY <1>0, <1>1, <1>2, <1>3, <1>4, <1>5 DEF PlainEffect

\* As long as no allocation, digest, generation of a pair or signing fails, the
\* TA implements AccessLedger: what it decides with the lists in memory is what
\* the ledgers alone decide.
THEOREM ImplementsLedger ==
  ASSUME ~CanTear
  PROVE  Spec => ImplementsAccessLedger
<1>1. Init => Abstract!Init /\ EmptySlots /\ NothingTorn
  BY InitRefines DEF Init, EverySlot, EmptySlots, NothingTorn
<1>2. IInv /\ EmptySlots /\ NothingTorn /\ [Next]_vars => EmptySlots' /\ NothingTorn'
  BY PlainStep, StepEffect, SlotsStep, UntornStep DEF IInv
<1>3. /\ IInv /\ IInv' /\ EmptySlots /\ NothingTorn /\ [Next]_vars
      => [Abstract!Next]_View
  BY StepRefines DEF IInv
<1> QED BY <1>1, <1>2, <1>3, Invariance, PTL
        DEF Spec, ImplementsAccessLedger, Abstract!Spec, View, ViewOf
=============================================================================
