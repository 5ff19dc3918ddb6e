----------------------- MODULE TrustChainTA_signatures -----------------------
(***************************************************************************)
(* What the signatures of TrustChainTA are worth: they stay valid as long  *)
(* as the stored pair can be opened, and an answer of get_latest_hash is   *)
(* bound to its nonce if the nonce has no zero byte.                       *)
(***************************************************************************)
EXTENDS TrustChainTA_proofs, SequenceTheorems

USE DEF chainVars, repoVars, listVars, lifeVars, Return

-----------------------------------------------------------------------------
(* The answers of get_latest_hash.                                           *)

\* An answer holds the signature of its own nonce and hash.
AnswersShaped ==
  \A a \in attested :
    a.nonce \in Nonce /\ a.signature.digest = sha256(SignedBytes(a.nonce, a.latest_hash))

\* Only get_latest_hash adds an answer, made of what it was asked.
LEMMA ShapedStep ==
  ASSUME AnswersShaped, [Next]_vars
  PROVE  AnswersShaped'
<1>1. CASE UNCHANGED attested
  BY <1>1 DEF AnswersShaped
<1>2. ASSUME NEW r \in AnyId, NEW n \in Nonce, get_latest_hash(r, n) PROVE AnswersShaped'
  <2>1. CASE UNCHANGED attested
    BY <2>1 DEF AnswersShaped
  <2>2. ASSUME NEW key, attested' = attested \cup {Answer(r, n, key)} PROVE AnswersShaped'
    <3>1. LET a == Answer(r, n, key)
          IN  a.nonce = n /\ a.signature.digest = sha256(SignedBytes(a.nonce, a.latest_hash))
      BY DEF Answer
    <3> QED BY <2>2, <3>1 DEF AnswersShaped
  <2> QED BY <1>2, <2>1, <2>2 DEF get_latest_hash
<1>3. [Next]_vars => UNCHANGED attested \/ \E r \in AnyId, n \in Nonce : get_latest_hash(r, n)
  BY DEF Next, vars, TA_OpenSession, TA_CloseSession, init_repo, access_control, commit,
         get_tee_public_key, InvokeBadParameters
<1> QED BY <1>1, <1>2, <1>3

\* Without a zero byte the whole struct is signed.
LEMMA WholeStruct ==
  ASSUME NEW n \in Nonce, NEW h, \A i \in 1..4 : n[i] # 0
  PROVE  /\ Len(SignedBytes(n, h)) = 5
         /\ \A i \in 1..4 : SignedBytes(n, h)[i] = n[i]
         /\ SignedBytes(n, h)[5] = h
<1> DEFINE S == 0..255 \cup {h}
<1>1. n \in [1..4 -> 0..255]
  BY NonceAssumption
<1>2. n \in [1..4 -> S] /\ <<h>> \in [1..1 -> S]
  BY <1>1
<1> HIDE DEF S
<1>3. n \in Seq(S) /\ <<h>> \in Seq(S)
  <2>1. \A k \in Nat : [1..k -> S] \subseteq Seq(S)
    BY SeqDef
  <2> QED BY <1>2, <2>1
<1>4. Len(n) = 4 /\ Len(<<h>>) = 1 /\ <<h>>[1] = h
  BY <1>1, <1>3, LenProperties
<1>5. /\ Len(n \o <<h>>) = Len(n) + Len(<<h>>)
      /\ \A i \in 1..(Len(n) + Len(<<h>>)) :
           (n \o <<h>>)[i] = IF i <= Len(n) THEN n[i] ELSE <<h>>[i - Len(n)]
  BY <1>3, ConcatProperties, Zenon
<1>6. SignedBytes(n, h) = n \o <<h>>
  BY DEF SignedBytes
<1> QED BY <1>4, <1>5, <1>6

\* With a zero byte what is signed ends before it.
LEMMA CutStruct ==
  ASSUME NEW n \in Nonce, NEW h, \E i \in 1..4 : n[i] = 0
  PROVE  Len(SignedBytes(n, h)) < 4
<1> DEFINE first == CHOOSE i \in 1..4 : n[i] = 0 /\ \A j \in 1..(i-1) : n[j] # 0
<1>1. n \in [1..4 -> 0..255]
  BY NonceAssumption
<1>2. first \in 1..4
  <2>1. \E i \in 1..4 : n[i] = 0 /\ \A j \in 1..(i-1) : n[j] # 0
    BY <1>1
  <2> QED BY <2>1
<1>3. SignedBytes(n, h) = SubSeq(n, 1, first - 1)
  BY DEF SignedBytes
<1> HIDE DEF first
<1>4. \A i \in 1..(first - 1) : n[i] \in 0..255
  BY <1>1, <1>2
<1>5. Len(SubSeq(n, 1, first - 1)) = IF 1 <= first - 1 THEN (first - 1) - 1 + 1 ELSE 0
  BY <1>2, <1>4, SubSeqProperties
<1> QED BY <1>2, <1>3, <1>5

\* Without a zero byte in one of two nonces, the signed bytes determine both
\* nonces and both hashes.
LEMMA SignedBytesDiffer ==
  ASSUME NEW n \in Nonce, NEW m \in Nonce, NEW h, NEW g,
         \A i \in 1..4 : n[i] # 0, SignedBytes(n, h) = SignedBytes(m, g)
  PROVE  n = m /\ h = g
<1> DEFINE s == SignedBytes(n, h)
           t == SignedBytes(m, g)
<1>1. Len(s) = 5 /\ (\A i \in 1..4 : s[i] = n[i]) /\ s[5] = h
  BY WholeStruct
<1>2. s = t
  OBVIOUS
<1>3. \A i \in 1..4 : m[i] # 0
  <2>1. (\E i \in 1..4 : m[i] = 0) => Len(t) < 4
    BY CutStruct
  <2>2. ~(Len(t) < 4)
    BY <1>1, <1>2
  <2> HIDE DEF t
  <2> QED BY <2>1, <2>2, Zenon
<1>4. (\A i \in 1..4 : t[i] = m[i]) /\ t[5] = g
  BY <1>3, WholeStruct
<1> HIDE DEF s, t
<1>5. (\A i \in 1..4 : n[i] = m[i]) /\ h = g
  BY <1>1, <1>2, <1>4
<1>6. n \in [1..4 -> 0..255] /\ m \in [1..4 -> 0..255]
  BY NonceAssumption
<1> QED BY <1>5, <1>6

\* The signature of an answer whose nonce has no zero byte is the signature of
\* no answer to another nonce or with another hash.
THEOREM NoncesBindAnswers == Spec => []FullNonceBindsAnswer
<1>1. Init => AnswersShaped
  BY DEF Init, AnswersShaped
<1>2. AnswersShaped => FullNonceBindsAnswer
  <2>1. SUFFICES ASSUME AnswersShaped, NEW a \in attested, NEW b \in attested,
                        \A i \in 1..4 : a.nonce[i] # 0, a.signature = b.signature
                 PROVE  a.nonce = b.nonce /\ a.latest_hash = b.latest_hash
    BY DEF FullNonceBindsAnswer
  <2>2. /\ a.nonce \in Nonce /\ b.nonce \in Nonce
        /\ sha256(SignedBytes(a.nonce, a.latest_hash)) = sha256(SignedBytes(b.nonce, b.latest_hash))
    BY <2>1 DEF AnswersShaped
  <2>3. SignedBytes(a.nonce, a.latest_hash) = SignedBytes(b.nonce, b.latest_hash)
    BY <2>2 DEF sha256
  <2> QED BY <2>1, <2>2, <2>3, SignedBytesDiffer
<1>3. AnswersShaped /\ [Next]_vars => AnswersShaped'
  BY ShapedStep
<1> QED BY <1>1, <1>2, <1>3, PTL DEF Spec
-----------------------------------------------------------------------------
(* The signatures of the blocks and of the answers.                          *)

\* The strengthening: once a signature is out there is a stored pair, so the
\* next load finds it and generates no other one.
Sealed ==
  /\ \A b \in AllBlocks : b.tee_sig.key = tee_key /\ tee_key # 0
  /\ \A a \in attested : a.signature.key = tee_key /\ tee_key # 0

\* A signature that the step makes, with the pair it leaves.
NewSeal(signature) == signature.key = tee_key' /\ tee_key' # 0

\* A block is in a ledger of this instance or of an earlier one.
Given(b, ledgers, archived) ==
  \/ \E r \in RepId : \E i \in 1..Len(ledgers[r]) : b = ledgers[r][i]
  \/ \E a \in archived : \E i \in 1..Len(a.blocks) : b = a.blocks[i]

\* What AllBlocks is, element by element, before and after a step.
LEMMA GivenBlocks ==
  /\ \A b : b \in AllBlocks <=> Given(b, ledger, archive)
  /\ \A b : b \in AllBlocks' <=> Given(b, ledger', archive')
<1> DEFINE Live(L) == UNION {{L[r][i] : i \in 1..Len(L[r])} : r \in RepId}
           Past(A) == UNION {{a.blocks[i] : i \in 1..Len(a.blocks)} : a \in A}
<1>1. \A L, A, b : b \in Live(L) \cup Past(A) <=> Given(b, L, A)
  <2>1. \A L, b : b \in Live(L) <=> \E r \in RepId : \E i \in 1..Len(L[r]) : b = L[r][i]
    OBVIOUS
  <2>2. \A A, b : b \in Past(A) <=> \E a \in A : \E i \in 1..Len(a.blocks) : b = a.blocks[i]
    OBVIOUS
  <2> HIDE DEF Live, Past
  <2> QED BY <2>1, <2>2 DEF Given
<1>2. AllBlocks = Live(ledger) \cup Past(archive)
  BY DEF AllBlocks
<1>3. AllBlocks' = Live(ledger') \cup Past(archive')
  BY DEF AllBlocks
<1> HIDE DEF Live, Past
<1> QED BY <1>1, <1>2, <1>3

\* An appended block is the only one that is new.
LEMMA GrownBlocks ==
  ASSUME TypeOK, NEW r, NEW b, Grown(r, b), UNCHANGED archive
  PROVE  \A c \in AllBlocks' : c \in AllBlocks \/ c = b
<1>1. SUFFICES ASSUME NEW c, Given(c, ledger', archive') PROVE Given(c, ledger, archive) \/ c = b
  BY GivenBlocks
<1>2. CASE \E a \in archive' : \E i \in 1..Len(a.blocks) : c = a.blocks[i]
  BY <1>2 DEF Given
<1>3. ASSUME NEW s \in RepId, NEW i \in 1..Len(ledger'[s]), c = ledger'[s][i]
      PROVE  Given(c, ledger, archive) \/ c = b
  <2>1. CASE s # r
    <3>1. ledger'[s] = ledger[s]
      BY <2>1 DEF Grown, TypeOK
    <3> QED BY <1>3, <3>1 DEF Given
  <2>2. CASE s = r
    <3>1. ledger'[s] = Append(ledger[s], b) /\ IsLedger(ledger[s])
      BY <2>2 DEF Grown, TypeOK
    <3>2. i \in 1..Len(ledger[s]) \/ i = Len(ledger[s]) + 1
      BY <1>3, <3>1, AppendElements
    <3>3. c = b \/ (i \in 1..Len(ledger[s]) /\ c = ledger[s][i])
      BY <1>3, <3>1, <3>2, AppendElements
    <3> QED BY <1>3, <3>3 DEF Given
  <2> QED BY <2>1, <2>2
<1> QED BY <1>1, <1>2, <1>3 DEF Given

\* A genesis block is the only one that is new.
LEMMA CreatedBlocks ==
  ASSUME TypeOK, IdsDense, NEW k \in Key, NEW tk \in StoredKey, Created(k, tk), UNCHANGED archive
  PROVE  \A c \in AllBlocks' : c \in AllBlocks \/ c = Fresh(k, tk)
<1> DEFINE b == Fresh(k, tk)
<1>1. SUFFICES ASSUME NEW c, Given(c, ledger', archive') PROVE Given(c, ledger, archive) \/ c = b
  BY GivenBlocks
<1>2. CASE \E a \in archive' : \E i \in 1..Len(a.blocks) : c = a.blocks[i]
  BY <1>2 DEF Given
<1>3. PICK r \in RepId : r = repo_num /\ ledger' = [ledger EXCEPT ![r] = <<b>>]
  BY CreatedFacts
<1> HIDE DEF b
<1>4. ASSUME NEW s \in RepId, NEW i \in 1..Len(ledger'[s]), c = ledger'[s][i]
      PROVE  Given(c, ledger, archive) \/ c = b
  <2>1. CASE s # r
    <3>1. ledger'[s] = ledger[s]
      BY <1>3, <2>1 DEF TypeOK
    <3> QED BY <1>4, <3>1 DEF Given
  <2>2. CASE s = r
    <3>1. ledger'[s] = <<b>>
      BY <1>3, <2>2 DEF TypeOK
    <3> QED BY <1>4, <3>1
  <2> QED BY <2>1, <2>2
<1> QED BY <1>1, <1>2, <1>4 DEF Given

\* The end of an instance moves its blocks to the archive, or forgets them.
LEMMA ClosedBlocks ==
  ASSUME TypeOK, TA_CloseSession
  PROVE  AllBlocks' \subseteq AllBlocks
<1>1. SUFFICES ASSUME NEW c, Given(c, ledger', archive') PROVE Given(c, ledger, archive)
  BY GivenBlocks
<1>2. /\ \A s \in RepId : ledger'[s] = <<>>
      /\ archive' \subseteq archive \cup Discarded
  BY DEF TA_CloseSession, EverySlot
<1>3. PICK a \in archive' : \E i \in 1..Len(a.blocks) : c = a.blocks[i]
  BY <1>1, <1>2 DEF Given
<1>4. CASE a \in archive
  BY <1>3, <1>4 DEF Given
<1>5. CASE a \in Discarded
  <2>1. PICK s \in repositories : a = [rep_id |-> s, blocks |-> ledger[s]]
    BY <1>5 DEF Discarded
  <2>2. s \in RepId /\ a.blocks = ledger[s]
    BY <2>1 DEF TypeOK
  <2> QED BY <1>3, <2>2 DEF Given
<1> QED BY <1>2, <1>3, <1>4, <1>5

\* While an open does not fail, a step keeps the stored pair if there is one,
\* and what it adds to the blocks and answers is signed with the pair it leaves.
LEMMA SealStep ==
  ASSUME IInv, "open" \notin Faults, [Next]_vars
  PROVE  /\ tee_key # 0 => tee_key' = tee_key
         /\ \A b \in AllBlocks' : b \in AllBlocks \/ NewSeal(b.tee_sig)
         /\ \A a \in attested' : a \in attested \/ NewSeal(a.signature)
<1>0. TypeOK /\ IdsDense /\ OuterTypes
  BY DEF IInv, TypeOK, OuterTypes
<1>1. KeyKept => (tee_key # 0 => tee_key' = tee_key)
  BY DEF KeyKept, Replaces, CanFail
<1>2. ASSUME UNCHANGED <<ledger, archive>> PROVE AllBlocks' = AllBlocks
  BY <1>2 DEF AllBlocks
<1>3. CASE UNCHANGED vars \/ TA_OpenSession \/ InvokeBadParameters
  BY <1>2, <1>3 DEF vars, TA_OpenSession, InvokeBadParameters
<1>4. CASE TA_CloseSession
  BY <1>0, <1>4, ClosedBlocks DEF TA_CloseSession
<1>5. ASSUME NEW k \in Key, init_repo(k)
      PROVE  /\ KeyKept /\ attested' = attested
             /\ \A b \in AllBlocks' : b \in AllBlocks \/ NewSeal(b.tee_sig)
  <2>1. attested' = attested /\ archive' = archive
    BY <1>5 DEF init_repo
  <2>2. KeyKept /\ (Refused \/ \E tk \in StoredKey : SealedWith(tk) /\ Created(k, tk))
    BY <1>0, <1>5, InitRepoStep
  <2>3. CASE Refused
    BY <1>2, <2>1, <2>2, <2>3 DEF Refused
  <2>4. ASSUME NEW tk \in StoredKey, SealedWith(tk), Created(k, tk)
        PROVE  \A b \in AllBlocks' : b \in AllBlocks \/ NewSeal(b.tee_sig)
    <3>1. tk = tee_key' /\ tk # 0
      BY <2>4 DEF SealedWith, CanFail, NewSeal
    <3>2. Fresh(k, tk).tee_sig.key = tk
      BY DEF Fresh, Signed, GenesisBlock, init_access_block
    <3> QED BY <1>0, <2>1, <2>4, <3>1, <3>2, CreatedBlocks DEF NewSeal
  <2> QED BY <2>1, <2>2, <2>3, <2>4
<1>6. ASSUME NEW m \in AccessMessages, access_control(m)
      PROVE  /\ KeyKept /\ attested' = attested
             /\ \A b \in AllBlocks' : b \in AllBlocks \/ NewSeal(b.tee_sig)
  <2>1. attested' = attested /\ archive' = archive
    BY <1>6 DEF access_control
  <2>2. /\ KeyKept
        /\ \/ Refused
           \/ \E u \in UpdatesOf(m) : TornBy(m, u)
           \/ \E u \in UpdatesOf(m), tk \in StoredKey : SealedWith(tk) /\ AccessBy(m, u, tk)
    BY <1>0, <1>6, AccessStep
  <2>3. CASE Refused \/ \E u \in UpdatesOf(m) : TornBy(m, u)
    <3>1. ledger' = ledger
      BY <2>3 DEF Refused, TornBy, AccessFails
    <3> QED BY <1>2, <2>1, <2>2, <3>1
  <2>4. ASSUME NEW u \in UpdatesOf(m), NEW tk \in StoredKey, SealedWith(tk), AccessBy(m, u, tk)
        PROVE  \A b \in AllBlocks' : b \in AllBlocks \/ NewSeal(b.tee_sig)
    <3> DEFINE b == Signed(AccessBlock(m), tk)
    <3>1. tk = tee_key' /\ tk # 0
      BY <2>4 DEF SealedWith, CanFail, NewSeal
    <3>2. b.tee_sig.key = tk
      BY DEF Signed, AccessBlock, init_access_block
    <3>3. Grown(m.rep_id, b)
      BY <1>0, <2>4, AccessGrows
    <3> HIDE DEF b
    <3> QED BY <1>0, <2>1, <3>1, <3>2, <3>3, GrownBlocks DEF NewSeal
  <2> QED BY <2>1, <2>2, <2>3, <2>4
<1>7. ASSUME NEW m \in CommitMessages, commit(m)
      PROVE  /\ KeyKept /\ attested' = attested
             /\ \A b \in AllBlocks' : b \in AllBlocks \/ NewSeal(b.tee_sig)
  <2>1. attested' = attested /\ archive' = archive
    BY <1>7 DEF commit
  <2>2. KeyKept /\ (Refused \/ \E tk \in StoredKey : SealedWith(tk) /\ CommitBy(m, tk))
    BY <1>0, <1>7, CommitStep
  <2>3. CASE Refused
    BY <1>2, <2>1, <2>2, <2>3 DEF Refused
  <2>4. ASSUME NEW tk \in StoredKey, SealedWith(tk), CommitBy(m, tk)
        PROVE  \A b \in AllBlocks' : b \in AllBlocks \/ NewSeal(b.tee_sig)
    <3> DEFINE b == Signed(ContributionBlock(m), tk)
    <3>1. tk = tee_key' /\ tk # 0
      BY <2>4 DEF SealedWith, CanFail, NewSeal
    <3>2. b.tee_sig.key = tk
      BY DEF Signed, ContributionBlock, init_contribution_block
    <3>3. Grown(m.rep_id, b)
      BY <1>0, <2>4, CommitGrows
    <3> HIDE DEF b
    <3> QED BY <1>0, <2>1, <3>1, <3>2, <3>3, GrownBlocks DEF NewSeal
  <2> QED BY <2>1, <2>2, <2>3, <2>4
<1>8. ASSUME NEW r \in AnyId, NEW n \in Nonce, get_latest_hash(r, n)
      PROVE  /\ KeyKept /\ AllBlocks' = AllBlocks
             /\ \A a \in attested' : a \in attested \/ NewSeal(a.signature)
  <2>1. AllBlocks' = AllBlocks
    BY <1>2, <1>8 DEF get_latest_hash
  <2>2. CASE UNCHANGED <<tee_key, attested>>
    BY <2>1, <2>2 DEF KeyKept, Replaces
  <2>3. ASSUME NEW o \in tee_sign_data(tee_key), tee_key' = o.key,
               attested' = IF o.res = TEE_SUCCESS
                           THEN attested \cup {Answer(r, n, o.key)} ELSE attested
        PROVE  /\ KeyKept
               /\ \A a \in attested' : a \in attested \/ NewSeal(a.signature)
    <3>1. KeyKept /\ (o.res = TEE_SUCCESS => o.key # 0)
      BY <1>0, <2>3, SignOutcomes DEF KeyKept, OuterTypes
    <3>2. Answer(r, n, o.key).signature.key = o.key
      BY DEF Answer
    <3> QED BY <2>3, <3>1, <3>2 DEF NewSeal
  <2> QED BY <1>8, <2>1, <2>2, <2>3 DEF get_latest_hash
<1>9. ASSUME NEW size \in PemBufSize, get_tee_public_key(size)
      PROVE  UNCHANGED <<tee_key, attested>> /\ AllBlocks' = AllBlocks
  BY <1>2, <1>9 DEF get_tee_public_key
<1> QED BY <1>1, <1>3, <1>4, <1>5, <1>6, <1>7, <1>8, <1>9 DEF Next

\* While the open of a stored pair does not fail, every signature ever given
\* out verifies under the stored pair: any other call may fail, at any point.
THEOREM SignaturesAreStable ==
  ASSUME "open" \notin Faults
  PROVE  Spec => []SignaturesStayValid
<1>1. Init => Sealed
  <2>1. ASSUME Init PROVE attested = {} /\ \A b : ~Given(b, ledger, archive)
    BY <2>1 DEF Init, EverySlot, Given
  <2> QED BY <2>1, GivenBlocks DEF Sealed
<1>2. Sealed => SignaturesStayValid
  BY DEF Sealed, SignaturesStayValid
<1>3. IInv /\ Sealed /\ [Next]_vars => Sealed'
  BY SealStep DEF Sealed, NewSeal
<1> QED BY <1>1, <1>2, <1>3, Invariance, PTL DEF Spec
=============================================================================
