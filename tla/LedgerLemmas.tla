---------------------------- MODULE LedgerLemmas ----------------------------
(***************************************************************************)
(* Facts about ledgers that grow by one block: what Append keeps, and how  *)
(* the roles read off a ledger (LedgerRules) change with its last block.   *)
(***************************************************************************)
EXTENDS LedgerRules, TLAPS

\* The element-wise reading of Append.
LEMMA AppendElements ==
  ASSUME NEW L, IsLedger(L), NEW b
  PROVE  /\ Len(L) \in Nat
         /\ Len(Append(L, b)) = Len(L) + 1
         /\ \A i \in 1..Len(L) : Append(L, b)[i] = L[i]
         /\ Append(L, b)[Len(L) + 1] = b
         /\ IsLedger(Append(L, b))
<1> DEFINE S == {L[i] : i \in 1..Len(L)}
           M == Append(L, b)
           T == {M[i] : i \in 1..Len(M)}
<1>1. L \in Seq(S)
  BY DEF IsLedger
<1>2. L \in Seq(S \cup {b}) /\ b \in S \cup {b}
  <2>1. \A i \in 1..Len(L) : L[i] \in S \cup {b}
    OBVIOUS
  <2> QED BY <1>1, <2>1
<1>3. /\ Len(L) \in Nat
      /\ M \in Seq(S \cup {b})
      /\ Len(M) = Len(L) + 1
      /\ \A i \in 1..Len(L) : M[i] = L[i]
      /\ M[Len(L) + 1] = b
  <2> HIDE DEF S
  <2> QED BY <1>2
<1>4. M \in Seq(T)
  <2>1. \A i \in 1..Len(M) : M[i] \in T
    OBVIOUS
  <2> HIDE DEF M, T
  <2> QED BY <1>3, <2>1
<1> QED BY <1>3, <1>4 DEF IsLedger

\* A ledger of one block.
LEMMA SingletonLedger ==
  ASSUME NEW b
  PROVE  IsLedger(<<b>>) /\ Len(<<b>>) = 1 /\ <<b>>[1] = b
BY DEF IsLedger

\* The ledger of an id that is not in use.
LEMMA EmptyLedger == IsLedger(<<>>) /\ Len(<<>>) = 0
BY DEF IsLedger

\* What the first n blocks say of a key does not depend on what follows.
LEMMA RolesOfPrefix ==
  ASSUME NEW L, NEW M, NEW n \in Nat, \A i \in 1..n : M[i] = L[i]
  PROVE  \A k : /\ AdminAt(M, n, k)  <=> AdminAt(L, n, k)
                /\ WriterAt(M, n, k) <=> WriterAt(L, n, k)
<1>1. \A i \in 1..n : \A j \in (i+1)..n : j \in 1..n
  OBVIOUS
<1> QED BY <1>1 DEF AdminAt, WriterAt, Entry

\* The last block makes k an admin, or leaves an admin one unless it deletes it.
LEMMA AdminAfterAppend ==
  ASSUME NEW L, IsLedger(L), NEW b, NEW k
  PROVE  AdminAt(Append(L, b), Len(L) + 1, k) <=>
           \/ Entry(b, OP_ADD, ROLE_ADMIN, k)
           \/ AdminAt(L, Len(L), k) /\ ~Entry(b, OP_DELETE, ROLE_ADMIN, k)
<1> DEFINE n == Len(L)
           M == Append(L, b)
<1>1. n \in Nat /\ (\A i \in 1..n : M[i] = L[i]) /\ M[n + 1] = b
  BY AppendElements
<1> HIDE DEF n, M
<1>2. ASSUME Entry(b, OP_ADD, ROLE_ADMIN, k)
      PROVE  AdminAt(M, n + 1, k)
  <2>1. n + 1 \in 1..(n + 1) /\ ((n + 1) + 1)..(n + 1) = {}
    BY <1>1
  <2> QED BY <1>1, <1>2, <2>1 DEF AdminAt
<1>3. ASSUME AdminAt(L, n, k), ~Entry(b, OP_DELETE, ROLE_ADMIN, k)
      PROVE  AdminAt(M, n + 1, k)
  <2>1. PICK i \in 1..n : /\ Entry(L[i], OP_ADD, ROLE_ADMIN, k)
                          /\ \A j \in (i+1)..n : ~Entry(L[j], OP_DELETE, ROLE_ADMIN, k)
    BY <1>3 DEF AdminAt
  <2>2. i \in 1..(n + 1) /\ Entry(M[i], OP_ADD, ROLE_ADMIN, k)
    BY <1>1, <2>1
  <2>3. ASSUME NEW j \in (i+1)..(n + 1)
        PROVE  ~Entry(M[j], OP_DELETE, ROLE_ADMIN, k)
    <3>1. CASE j = n + 1
      BY <1>1, <1>3, <3>1
    <3>2. CASE j # n + 1
      <4>1. j \in (i+1)..n /\ j \in 1..n
        BY <1>1, <2>1, <3>2
      <4> QED BY <1>1, <2>1, <4>1
    <3> QED BY <3>1, <3>2
  <2> QED BY <2>2, <2>3 DEF AdminAt
<1>4. ASSUME AdminAt(M, n + 1, k), ~Entry(b, OP_ADD, ROLE_ADMIN, k)
      PROVE  AdminAt(L, n, k) /\ ~Entry(b, OP_DELETE, ROLE_ADMIN, k)
  <2>1. PICK i \in 1..(n + 1) :
          /\ Entry(M[i], OP_ADD, ROLE_ADMIN, k)
          /\ \A j \in (i+1)..(n + 1) : ~Entry(M[j], OP_DELETE, ROLE_ADMIN, k)
    BY <1>4 DEF AdminAt
  <2>2. i \in 1..n /\ n + 1 \in (i+1)..(n + 1)
    BY <1>1, <1>4, <2>1
  <2>3. \A j \in (i+1)..n : j \in (i+1)..(n + 1) /\ j \in 1..n
    BY <1>1, <2>2
  <2> QED BY <1>1, <2>1, <2>2, <2>3 DEF AdminAt
<1> QED BY <1>2, <1>3, <1>4 DEF n, M

\* The last block makes k a writer, or leaves a writer one unless it deletes or
\* promotes it.
LEMMA WriterAfterAppend ==
  ASSUME NEW L, IsLedger(L), NEW b, NEW k
  PROVE  WriterAt(Append(L, b), Len(L) + 1, k) <=>
           \/ Entry(b, OP_ADD, ROLE_WRITER, k)
           \/ /\ WriterAt(L, Len(L), k)
              /\ ~Entry(b, OP_DELETE, ROLE_WRITER, k)
              /\ ~Entry(b, OP_ADD, ROLE_ADMIN, k)
<1> DEFINE n == Len(L)
           M == Append(L, b)
           Ends(c) == Entry(c, OP_DELETE, ROLE_WRITER, k) \/ Entry(c, OP_ADD, ROLE_ADMIN, k)
<1>1. n \in Nat /\ (\A i \in 1..n : M[i] = L[i]) /\ M[n + 1] = b
  BY AppendElements
<1>2. \A N, l : WriterAt(N, l, k) <=>
        \E i \in 1..l : /\ Entry(N[i], OP_ADD, ROLE_WRITER, k)
                        /\ \A j \in (i+1)..l : ~Ends(N[j])
  BY DEF WriterAt
<1> HIDE DEF n, M, Ends
<1>3. ASSUME Entry(b, OP_ADD, ROLE_WRITER, k)
      PROVE  WriterAt(M, n + 1, k)
  <2>1. n + 1 \in 1..(n + 1) /\ ((n + 1) + 1)..(n + 1) = {}
    BY <1>1
  <2> QED BY <1>1, <1>2, <1>3, <2>1
<1>4. ASSUME WriterAt(L, n, k), ~Ends(b)
      PROVE  WriterAt(M, n + 1, k)
  <2>1. PICK i \in 1..n : /\ Entry(L[i], OP_ADD, ROLE_WRITER, k)
                          /\ \A j \in (i+1)..n : ~Ends(L[j])
    BY <1>2, <1>4
  <2>2. i \in 1..(n + 1) /\ Entry(M[i], OP_ADD, ROLE_WRITER, k)
    BY <1>1, <2>1
  <2>3. ASSUME NEW j \in (i+1)..(n + 1)
        PROVE  ~Ends(M[j])
    <3>1. CASE j = n + 1
      BY <1>1, <1>4, <3>1
    <3>2. CASE j # n + 1
      <4>1. j \in (i+1)..n /\ j \in 1..n
        BY <1>1, <2>1, <3>2
      <4> QED BY <1>1, <2>1, <4>1
    <3> QED BY <3>1, <3>2
  <2> QED BY <1>2, <2>2, <2>3
<1>5. ASSUME WriterAt(M, n + 1, k), ~Entry(b, OP_ADD, ROLE_WRITER, k)
      PROVE  WriterAt(L, n, k) /\ ~Ends(b)
  <2>1. PICK i \in 1..(n + 1) : /\ Entry(M[i], OP_ADD, ROLE_WRITER, k)
                                /\ \A j \in (i+1)..(n + 1) : ~Ends(M[j])
    BY <1>2, <1>5
  <2>2. i \in 1..n /\ n + 1 \in (i+1)..(n + 1)
    BY <1>1, <1>5, <2>1
  <2>3. \A j \in (i+1)..n : j \in (i+1)..(n + 1) /\ j \in 1..n
    BY <1>1, <2>2
  <2> QED BY <1>1, <1>2, <2>1, <2>2, <2>3
<1> QED BY <1>3, <1>4, <1>5 DEF n, M, Ends
=============================================================================
