---------------------------- MODULE ResumeProofs ----------------------------
(***************************************************************************)
(* LatestRequestInForce, NoDuplicates and NothingLost for every number of  *)
(* slots, payloads, nodes, requests and reconnections.                     *)
(*                                                                         *)
(* LatestRequestInForce has an inductive invariant of its own              *)
(* (RequestsInv, LatestInv).  NoDuplicates rests on StreamInv: what is on  *)
(* the way is known to the server, and the dedup state of a slot agrees    *)
(* with what the user has received of it.  NothingLost adds three parts:   *)
(* WholeInv (a BlockMeta comes after its payloads), PublishInv (the order  *)
(* of publication, and what the server has pruned) and OwedInv (what the   *)
(* checkpoint has passed was received, and everything else is on the way). *)
(***************************************************************************)
EXTENDS Resume, FiniteSetTheorems, SequenceTheorems, WellFoundedInduction, NaturalsInduction, TLAPS

-----------------------------------------------------------------------------
(* Numbers in order                                                        *)

LEMMA InOrderProperties ==
    ASSUME NEW S \in SUBSET Nat, IsFiniteSet(S)
    PROVE  /\ Cardinality(S) \in Nat
           /\ InOrder(S) \in [1..Cardinality(S) -> S]
           /\ Len(InOrder(S)) = Cardinality(S) /\ DOMAIN InOrder(S) = 1..Cardinality(S)
           /\ \A k, l \in 1..Cardinality(S) : k < l => InOrder(S)[k] < InOrder(S)[l]
           /\ \A n \in S : \E k \in 1..Cardinality(S) : InOrder(S)[k] = n
<1> DEFINE c == Cardinality(S)
           rank == [n \in S |-> Cardinality({m \in S : m < n})]
<1>0. c \in Nat
    BY FS_CardinalityType
<1>1. \A n \in S : IsFiniteSet({m \in S : m < n}) /\ rank[n] \in Nat /\ rank[n] < c
  <2> SUFFICES ASSUME NEW n \in S
               PROVE  IsFiniteSet({m \in S : m < n}) /\ rank[n] \in Nat /\ rank[n] < c
    OBVIOUS
  <2>1. {m \in S : m < n} \subseteq S \ {n}
    OBVIOUS
  <2>2. IsFiniteSet(S \ {n}) /\ Cardinality(S \ {n}) = c - 1
    BY FS_RemoveElement
  <2>3. IsFiniteSet({m \in S : m < n}) /\ rank[n] <= c - 1
    BY <2>1, <2>2, FS_Subset
  <2>4. rank[n] \in Nat
    BY <2>3, FS_CardinalityType
  <2> HIDE DEF rank, c
  <2> QED BY <1>0, <2>3, <2>4
<1>13. \A n \in S : rank[n] \in Nat /\ rank[n] < c
    BY <1>1
<1>2. \A m, n \in S : m < n => rank[m] < rank[n]
  <2> SUFFICES ASSUME NEW m \in S, NEW n \in S, m < n PROVE rank[m] < rank[n]
    OBVIOUS
  <2> DEFINE A == {k \in S : k < m}
             B == {k \in S : k < n}
  <2>0. rank[m] = Cardinality(A) /\ rank[n] = Cardinality(B) /\ IsFiniteSet(A) /\ IsFiniteSet(B)
    BY <1>1
  <2>1. m \in Nat /\ n \in Nat /\ \A k \in S : k \in Nat
    OBVIOUS
  <2>2. A \cup {m} \subseteq B /\ m \notin A
    <3>1. ASSUME NEW k \in A PROVE k \in B
      <4>1. k \in S /\ k < m /\ k \in Nat
        BY <2>1
      <4>2. k < n
        BY <4>1, <2>1
      <4> QED BY <4>1, <4>2
    <3>2. m \in B
        OBVIOUS
    <3>3. m \notin A
        BY <2>1
    <3> HIDE DEF A, B
    <3> QED BY <3>1, <3>2, <3>3
  <2> HIDE DEF A, B, rank, c
  <2>3. Cardinality(A \cup {m}) = Cardinality(A) + 1
    BY <2>0, <2>2, FS_AddElement
  <2>4. Cardinality(A \cup {m}) <= Cardinality(B)
    BY <2>0, <2>2, FS_Subset
  <2> QED BY <1>13, <2>0, <2>3, <2>4
<1> DEFINE G(k) == CHOOSE n \in S : Cardinality({m \in S : m < n}) = k - 1
<1>14. \A k : G(k) = CHOOSE i \in S : rank[i] = k - 1
    OBVIOUS
<1>15. InOrder(S) = [k \in 1..c |-> G(k)]
    BY DEF InOrder
<1> HIDE DEF G
<1>3. /\ DOMAIN InOrder(S) = 1..c
      /\ InOrder(S) = [k \in 1..c |-> InOrder(S)[k]]
      /\ \A k \in 1..c : InOrder(S)[k] = CHOOSE i \in S : rank[i] = k - 1
  <2> HIDE DEF rank, c
  <2> QED BY <1>14, <1>15
<1> HIDE DEF rank, c
<1>4. \A m, n \in S : rank[m] = rank[n] => m = n
  <2> SUFFICES ASSUME NEW m \in S, NEW n \in S, rank[m] = rank[n], m # n PROVE FALSE
    OBVIOUS
  <2>1. m < n \/ n < m
    OBVIOUS
  <2> QED BY <2>1, <1>13, <1>2
<1> DEFINE f == [n \in S |-> rank[n] + 1]
<1>5. f \in Injection(S, 1..c)
  <2>1. f \in [S -> 1..c]
    BY <1>0, <1>13
  <2>2. \A m, n \in S : f[m] = f[n] => m = n
    BY <1>13, <1>4
  <2> QED BY <2>1, <2>2 DEF Injection, IsInjective
<1>6. IsFiniteSet(1..c) /\ Cardinality(1..c) = c
    BY <1>0, FS_Interval
<1>7. f \in Surjection(S, 1..c)
  <2> HIDE DEF f
  <2>1. Cardinality(S) = Cardinality(1..c)
    BY <1>6 DEF c
  <2> QED BY <1>5, <1>6, <2>1, FS_Injection
<1>8. \A k \in 1..c : InOrder(S)[k] \in S /\ rank[InOrder(S)[k]] = k - 1
  <2> SUFFICES ASSUME NEW k \in 1..c
               PROVE  InOrder(S)[k] \in S /\ rank[InOrder(S)[k]] = k - 1
    OBVIOUS
  <2>1. PICK n \in S : f[n] = k
    <3> HIDE DEF f
    <3> QED BY <1>7 DEF Surjection
  <2>2. rank[n] = k - 1
    BY <2>1, <1>13, <1>0
  <2>3. InOrder(S)[k] = CHOOSE i \in S : rank[i] = k - 1
    BY <1>3, <2>1
  <2> QED BY <2>2, <2>3
<1>9. DOMAIN InOrder(S) = 1..c /\ InOrder(S) \in [1..c -> S]
    BY <1>3, <1>8
<1>10. Len(InOrder(S)) = c
    BY <1>0, <1>9
<1>11. \A k, l \in 1..c : k < l => InOrder(S)[k] < InOrder(S)[l]
  <2> SUFFICES ASSUME NEW k \in 1..c, NEW l \in 1..c, k < l
               PROVE  InOrder(S)[k] < InOrder(S)[l]
    OBVIOUS
  <2>1. PICK m \in S : m = InOrder(S)[k] /\ rank[m] = k - 1
    BY <1>8
  <2>2. PICK n \in S : n = InOrder(S)[l] /\ rank[n] = l - 1
    BY <1>8
  <2>3. ~(n < m) /\ n # m
    BY <2>1, <2>2, <1>2, <1>0
  <2> QED BY <2>1, <2>2, <2>3
<1>12. \A n \in S : \E k \in 1..c : InOrder(S)[k] = n
  <2> SUFFICES ASSUME NEW n \in S PROVE \E k \in 1..c : InOrder(S)[k] = n
    OBVIOUS
  <2>1. PICK k \in 1..c : k = rank[n] + 1
    BY <1>13, <1>0
  <2>2. rank[InOrder(S)[k]] = rank[n] /\ InOrder(S)[k] \in S
    BY <2>1, <1>8, <1>13
  <2> QED BY <2>2, <1>4
<1> QED BY <1>0, <1>9, <1>10, <1>11, <1>12 DEF c

\* The elements at some places, each once
LEMMA PickProperties ==
    ASSUME NEW T, NEW seq \in Seq(T), NEW places \in SUBSET DOMAIN seq
    PROVE  /\ Pick(seq, places) \in Seq(T)
           /\ \A k \in DOMAIN Pick(seq, places) : \E i \in places : Pick(seq, places)[k] = seq[i]
           /\ \A i \in places : \E k \in DOMAIN Pick(seq, places) : Pick(seq, places)[k] = seq[i]
           /\ \A k, l \in DOMAIN Pick(seq, places) :
                 k # l => \E i, j \in places : /\ i # j
                                               /\ Pick(seq, places)[k] = seq[i]
                                               /\ Pick(seq, places)[l] = seq[j]
<1>1. places \in SUBSET Nat /\ IsFiniteSet(places)
  <2>1. DOMAIN seq = 1..Len(seq) /\ Len(seq) \in Nat
    BY LenProperties
  <2>2. IsFiniteSet(1..Len(seq))
    BY <2>1, FS_Interval
  <2>3. IsFiniteSet(places)
    BY <2>1, <2>2, FS_Subset
  <2> QED BY <2>1, <2>3
<1> DEFINE order == InOrder(places)
           c == Cardinality(places)
           p == Pick(seq, places)
<1>2. /\ c \in Nat /\ order \in [1..c -> places] /\ DOMAIN order = 1..c
      /\ \A k, l \in 1..c : k < l => order[k] < order[l]
      /\ \A n \in places : \E k \in 1..c : order[k] = n
    BY <1>1, InOrderProperties
<1>3. p = [k \in 1..c |-> seq[order[k]]]
    BY <1>2 DEF Pick
<1> HIDE DEF order, c, p
<1>4. \A k \in 1..c : order[k] \in places /\ seq[order[k]] \in T
  <2>1. \A i \in places : seq[i] \in T
    BY ElementOfSeq, LenProperties
  <2> QED BY <2>1, <1>2
<1>5. p \in Seq(T)
    BY <1>2, <1>3, <1>4
<1>6. DOMAIN p = 1..c /\ \A k \in 1..c : p[k] = seq[order[k]]
    BY <1>3
<1>7. \A k, l \in 1..c : k # l => order[k] # order[l]
  <2> SUFFICES ASSUME NEW k \in 1..c, NEW l \in 1..c, k # l, order[k] = order[l] PROVE FALSE
    OBVIOUS
  <2>1. k < l \/ l < k
    BY <1>2
  <2>2. order[k] \in Nat
    BY <1>1, <1>4
  <2> QED BY <2>1, <2>2, <1>2
<1>8. \A i \in places : \E k \in DOMAIN p : p[k] = seq[i]
    BY <1>2, <1>6
<1>9. \A k, l \in DOMAIN p : k # l => \E i, j \in places : i # j /\ p[k] = seq[i] /\ p[l] = seq[j]
    BY <1>4, <1>6, <1>7
<1>10. \A k \in DOMAIN p : \E i \in places : p[k] = seq[i]
    BY <1>4, <1>6
<1> QED BY <1>5, <1>8, <1>9, <1>10 DEF p

-----------------------------------------------------------------------------
(* Blocks and their replay                                                 *)

DataMsg(s, a, n) == Msg("data", s, a, n)
MetaMsg(s, n) == Msg("meta", s, 0, n)
InternalMsg(s, n) == Msg("internal", s, 0, n)
StatusMsg(s) == Msg("status", s, 0, 0)
Payloads(s, n) == {DataMsg(s, a, n) : a \in Data}
BlockMsgs(s, n) == Payloads(s, n) \cup {MetaMsg(s, n), InternalMsg(s, n), StatusMsg(s)}

\* The node, where there is one only, and the messages of its stream
TheNode == CHOOSE n : n \in Nodes
Messages == (UNION {BlockMsgs(s, TheNode) : s \in Slots}) \cup {CreatedBank(s) : s \in Slots}

\* A request carries some blocks_meta.
Requested(request) == request.blocks_meta \in {"own", "injected", "absent"}

LEMMA BlockMsgFields ==
    ASSUME NEW s, NEW n, NEW m \in BlockMsgs(s, n)
    PROVE  m.slot = s /\ m.kind \in {"data", "meta", "internal", "status"}
<1>1. CASE m \in Payloads(s, n)
    BY <1>1 DEF Payloads, DataMsg, Msg
<1>2. CASE m \in {MetaMsg(s, n), InternalMsg(s, n), StatusMsg(s)}
    BY <1>2 DEF MetaMsg, InternalMsg, StatusMsg, Msg
<1> QED BY <1>1, <1>2 DEF BlockMsgs

PayloadSeq(s, n) == SetToSeq({Msg("data", s, a, n) : a \in Data})

LEMMA DataSequence ==
    ASSUME NEW s, NEW n, NEW data, data = PayloadSeq(s, n)
    PROVE  /\ Cardinality(Data) \in Nat
           /\ data \in Seq(Payloads(s, n)) /\ Len(data) = Cardinality(Data)
           /\ \A i, j \in 1..Cardinality(Data) : data[i] = data[j] => i = j
           /\ \A a \in Data : \E i \in 1..Cardinality(Data) : data[i] = DataMsg(s, a, n)
<1> DEFINE c == Cardinality(Data)
           S == Payloads(s, n)
           f == [a \in Data |-> DataMsg(s, a, n)]
<1>1. IsFiniteSet(Data)
    BY ResumeAssumption DEF ResumeAssumption
<1>2. f \in Bijection(Data, S)
  <2>1. f \in [Data -> S] /\ \A a, b \in Data : f[a] = f[b] => a = b
    BY DEF DataMsg, Msg, Payloads
  <2>2. \A m \in S : \E a \in Data : f[a] = m
    BY DEF Payloads
  <2> QED BY <2>1, <2>2 DEF Bijection, Injection, Surjection, IsInjective
<1>3. IsFiniteSet(S) /\ Cardinality(S) = c
  <2>1. ExistsBijection(Data, S)
    BY <1>2 DEF ExistsBijection
  <2> QED BY <1>1, <2>1, FS_Bijection
<1> HIDE DEF S
<1>4. c \in Nat /\ \E g : g \in Bijection(1..c, S)
    BY <1>3, FS_CardinalityType DEF ExistsBijection
<1>5. \E g \in [1..c -> S] : IsInjective(g)
    BY <1>4 DEF Bijection, Injection
<1>10. data = SetToSeq(S)
    BY DEF S, DataMsg, PayloadSeq, Payloads
<1> HIDE DEF c
<1>6. data \in [1..c -> S] /\ IsInjective(data)
    BY <1>3, <1>5, <1>10 DEF SetToSeq, c
<1>7. data \in Surjection(1..c, S)
  <2>1. data \in Injection(1..c, S)
    BY <1>6 DEF Injection
  <2>2. Cardinality(1..c) = c
    BY <1>4, FS_Interval
  <2> QED BY <1>3, <2>1, <2>2, FS_Injection
<1>8. data \in Seq(S) /\ Len(data) = c /\ \A i, j \in 1..c : data[i] = data[j] => i = j
  <2>1. data \in Seq(S)
    BY <1>4, <1>6
  <2>2. DOMAIN data = 1..c
    BY <1>6
  <2> QED BY <1>4, <1>6, <2>1, <2>2 DEF IsInjective
<1>9. \A m \in S : \E i \in 1..c : data[i] = m
    BY <1>7 DEF Surjection
<1>11. \A a \in Data : DataMsg(s, a, n) \in S
    BY DEF S, Payloads
<1> QED BY <1>4, <1>8, <1>9, <1>11 DEF c, S

LEMMA BlockShape ==
    ASSUME NEW s, NEW n, NEW request, Requested(request)
    PROVE  LET block == BlockOf(s, n, request)
               c == Cardinality(Data)
           IN  /\ c \in Nat /\ BlockLen(request) \in Nat
               /\ block \in Seq(BlockMsgs(s, n)) /\ Len(block) = BlockLen(request)
               /\ \A i, j \in 1..Len(block) : block[i] = block[j] => i = j
               /\ c <= Len(block)
               /\ \A a \in Data : \E i \in 1..c : block[i] = DataMsg(s, a, n)
               /\ request.blocks_meta = "own" => Len(block) > c /\ block[c + 1] = MetaMsg(s, n)
               /\ \A i \in 1..Len(block) : block[i].kind = "internal" => request.blocks_meta = "injected"
               /\ \A i \in 1..Len(block) : block[i].kind = "meta" => i = c + 1
<1> DEFINE c == Cardinality(Data)
           D == Payloads(s, n)
           M == BlockMsgs(s, n)
<1>1. PICK data : data = PayloadSeq(s, n)
    OBVIOUS
<1>2. /\ c \in Nat
      /\ data \in Seq(D) /\ Len(data) = c
      /\ \A i, j \in 1..c : data[i] = data[j] => i = j
      /\ \A a \in Data : \E i \in 1..c : data[i] = DataMsg(s, a, n)
    BY <1>1, DataSequence
<1>3. PICK meta : meta = IF request.blocks_meta = "own" THEN <<MetaMsg(s, n)>>
                         ELSE IF request.blocks_meta = "injected" THEN <<InternalMsg(s, n)>> ELSE <<>>
    OBVIOUS
<1>4. PICK status : status = IF "status" \in UserKinds THEN <<StatusMsg(s)>> ELSE <<>>
    OBVIOUS
<1>5. BlockOf(s, n, request) = data \o meta \o status
  <2>1. meta = CASE request.blocks_meta = "own"      -> <<Msg("meta", s, 0, n)>>
                 [] request.blocks_meta = "injected" -> <<Msg("internal", s, 0, n)>>
                 [] OTHER                            -> <<>>
    BY <1>3 DEF Requested, MetaMsg, InternalMsg
  <2> QED BY <1>1, <1>4, <2>1 DEF BlockOf, StatusMsg, PayloadSeq
<1>6. /\ D \subseteq M /\ MetaMsg(s, n) \in M /\ InternalMsg(s, n) \in M /\ StatusMsg(s) \in M
    BY DEF BlockMsgs
<1>7. /\ \A m \in D : m.kind = "data"
      /\ MetaMsg(s, n).kind = "meta" /\ InternalMsg(s, n).kind = "internal" /\ StatusMsg(s).kind = "status"
    BY DEF DataMsg, MetaMsg, InternalMsg, StatusMsg, Msg, Payloads
<1> HIDE DEF c, D, M
<1>8. data \in Seq(M) /\ \A i \in 1..c : data[i] \in D /\ data[i].kind = "data"
    BY <1>2, <1>6, <1>7
<1>9. /\ meta \in Seq(M) /\ Len(meta) = IF request.blocks_meta \in {"own", "injected"} THEN 1 ELSE 0
      /\ status \in Seq(M) /\ Len(status) = IF "status" \in UserKinds THEN 1 ELSE 0
    BY <1>3, <1>4, <1>6 DEF Requested
<1>10. PICK block : block = data \o meta \o status
    OBVIOUS
<1>11. PICK l \in {0, 1} : l = Len(meta)
    BY <1>9
<1>12. PICK k \in {0, 1} : k = Len(status)
    BY <1>9
<1>23. data \in Seq(M) /\ meta \in Seq(M) /\ status \in Seq(M) /\ Len(data) = c /\ c \in Nat
    BY <1>2, <1>8, <1>9
<1>13. block \in Seq(M) /\ Len(block) = c + l + k /\ BlockLen(request) = c + l + k
  <2>0. PICK front : front = data \o meta
    OBVIOUS
  <2>1. front \in Seq(M) /\ Len(front) = c + l
    BY ONLY <1>11, <1>23, <2>0, ConcatProperties
  <2>4. block = front \o status
    BY <1>10, <2>0
  <2>5. status \in Seq(M) /\ Len(status) = k
    BY ONLY <1>12, <1>23
  <2>6. block \in Seq(M) /\ Len(block) = Len(front) + Len(status)
    BY ONLY <2>1, <2>4, <2>5, ConcatProperties
  <2>2. block \in Seq(M) /\ Len(block) = c + l + k
    BY ONLY <2>1, <2>5, <2>6
  <2>3. BlockLen(request) = c + l + k
    BY <1>9, <1>11, <1>12 DEF BlockLen, c
  <2> QED BY <2>2, <2>3
<1>14. /\ \A i \in 1..c : block[i] = data[i]
       /\ l = 1 => block[c + 1] = meta[1]
       /\ k = 1 => block[c + l + 1] = status[1]
    BY <1>2, <1>8, <1>9, <1>10, <1>11, <1>12
<1>15. /\ l = 1 => meta[1].kind \in {"meta", "internal"}
       /\ k = 1 => status[1].kind = "status"
       /\ l = 1 /\ meta[1].kind = "internal" => request.blocks_meta = "injected"
    BY <1>3, <1>4, <1>7, <1>9, <1>11, <1>12
<1>16. \A i \in 1..(c + l + k) : i \in 1..c \/ (l = 1 /\ i = c + 1) \/ (k = 1 /\ i = c + l + 1)
    BY <1>2
<1>17. /\ \A i \in 1..c : block[i].kind = "data"
       /\ \A i \in 1..(c + l + k) : /\ block[i].kind = "internal" => request.blocks_meta = "injected"
                                    /\ block[i].kind = "meta" => i = c + 1
  <2>1. \A i \in 1..c : block[i].kind = "data"
    BY <1>8, <1>14
  <2> SUFFICES ASSUME NEW i \in 1..(c + l + k)
               PROVE  /\ block[i].kind = "internal" => request.blocks_meta = "injected"
                      /\ block[i].kind = "meta" => i = c + 1
    BY <2>1
  <2>2. CASE i \in 1..c
    BY <2>1, <2>2
  <2>3. CASE l = 1 /\ i = c + 1
    BY <2>3, <1>14, <1>15
  <2>4. CASE k = 1 /\ i = c + l + 1
    BY <2>4, <1>14, <1>15
  <2> QED BY <1>16, <2>2, <2>3, <2>4
<1>18. \A i, j \in 1..(c + l + k) : block[i] = block[j] => i = j
  <2> SUFFICES ASSUME NEW i \in 1..(c + l + k), NEW j \in 1..(c + l + k), block[i] = block[j]
               PROVE  i = j
    OBVIOUS
  <2>1. CASE i \in 1..c /\ j \in 1..c
    BY <2>1, <1>2, <1>14
  <2>2. /\ i \in 1..c <=> block[i].kind = "data"
        /\ j \in 1..c <=> block[j].kind = "data"
    BY <1>14, <1>15, <1>16, <1>17
  <2>3. CASE i \notin 1..c /\ j \notin 1..c
    BY <2>3, <1>14, <1>15, <1>16
  <2> QED BY <2>1, <2>2, <2>3
<1>19. request.blocks_meta = "own" => l = 1 /\ block[c + 1] = MetaMsg(s, n)
    BY <1>3, <1>9, <1>11, <1>14
<1>20. \A a \in Data : \E i \in 1..c : block[i] = DataMsg(s, a, n)
    BY <1>2, <1>14
<1>21. c + l + k \in Nat /\ c <= c + l + k /\ (l = 1 => c + l + k > c)
    BY <1>2
<1>22. BlockOf(s, n, request) = block
    BY <1>5, <1>10
<1> QED BY <1>2, <1>13, <1>17, <1>18, <1>19, <1>20, <1>21, <1>22 DEF c, M

LEMMA DivideBelow ==
    ASSUME NEW n \in Nat, NEW l \in Nat \ {0}, NEW b \in 1..(n * l)
    PROVE  /\ 1 + ((b - 1) \div l) \in 1..n
           /\ 1 + ((b - 1) % l) \in 1..l
           /\ b = ((b - 1) \div l) * l + (1 + ((b - 1) % l))
<1>1. b - 1 \in Nat /\ b - 1 < n * l
    OBVIOUS
<1>2. PICK q \in Int : q = (b - 1) \div l
    BY <1>1
<1>3. PICK r \in 0..(l - 1) : r = (b - 1) % l
    BY <1>1
<1>4. b - 1 = l * q + r
    BY <1>1, <1>2, <1>3
<1>5. q >= 0
    BY <1>1, <1>2
<1>6. q < n
  <2>1. CASE q >= n
    <3>1. l * (q - n) >= 0
        BY <2>1
    <3>2. l * q = l * n + l * (q - n)
        OBVIOUS
    <3> QED BY <3>1, <3>2, <1>1, <1>3, <1>4
  <2> QED BY <2>1
<1> QED BY <1>2, <1>3, <1>4, <1>5, <1>6

LEMMA DivideProduct ==
    ASSUME NEW m \in Nat, NEW b \in Nat \ {0}, NEW r \in 0..(b - 1)
    PROVE  (m * b + r) \div b = m /\ (m * b + r) % b = r
<1>1. m * b + r \in Nat
    OBVIOUS
<1>2. PICK q \in Int : q = (m * b + r) \div b
    OBVIOUS
<1>3. PICK s \in 0..(b - 1) : s = (m * b + r) % b
    BY <1>1
<1>4. m * b + r = b * q + s
    BY <1>1, <1>2, <1>3
<1>5. b * (m - q) = s - r
    BY <1>4
<1>6. ~(m - q >= 1)
    BY <1>5
<1>7. ~(m - q <= -1)
    BY <1>5
<1>8. m = q
    BY <1>6, <1>7
<1> QED BY <1>2, <1>3, <1>4, <1>8

\* The place of the j-th message of the k-th block
PlaceAt(k, l, j) == (k - 1) * l + j

LEMMA ProductPlace ==
    ASSUME NEW n \in Nat, NEW l \in Nat, NEW k \in 1..n, NEW j \in 1..l
    PROVE  /\ PlaceAt(k, l, j) \in Nat
           /\ PlaceAt(k, l, j) \in 1..(n * l)
           /\ 1 + ((PlaceAt(k, l, j) - 1) \div l) = k
           /\ 1 + ((PlaceAt(k, l, j) - 1) % l) = j
<1>1. k - 1 \in Nat /\ l \in Nat \ {0} /\ j - 1 \in 0..(l - 1)
    OBVIOUS
<1>2. PICK p \in Nat : p = (k - 1) * l
    BY <1>1
<1>3. PICK q \in Nat : q = (n - k) * l
    BY <1>1
<1>4. n * l = p + q + l
    BY <1>2, <1>3
<1>5. p + j \in 1..(n * l)
    BY <1>4
<1>6. PlaceAt(k, l, j) = p + j /\ (p + j) - 1 = (k - 1) * l + (j - 1)
    BY <1>2 DEF PlaceAt
<1>7. ((k - 1) * l + (j - 1)) \div l = k - 1 /\ ((k - 1) * l + (j - 1)) % l = j - 1
    BY <1>1, DivideProduct
<1> QED BY <1>2, <1>5, <1>6, <1>7

LEMMA PlaceOrder ==
    ASSUME NEW l \in Nat, NEW h \in Nat \ {0}, NEW k \in Nat \ {0}, NEW i \in 1..l, NEW j \in 1..l,
           h < k \/ (h = k /\ i < j)
    PROVE  PlaceAt(h, l, i) < PlaceAt(k, l, j)
<1>1. PICK p \in Nat : p = (h - 1) * l
    OBVIOUS
<1>2. PICK q \in Nat : q = (k - 1) * l
    OBVIOUS
<1>3. PlaceAt(h, l, i) = p + i /\ PlaceAt(k, l, j) = q + j
    BY <1>1, <1>2 DEF PlaceAt
<1>4. CASE h < k
  <2>1. PICK d \in Nat : k = h + 1 + d
    <3>1. k - h - 1 \in Nat /\ k = h + 1 + (k - h - 1)
        BY <1>4
    <3> QED BY <3>1
  <2>2. d * l >= 0 /\ q = p + l + d * l
    BY <1>1, <1>2, <2>1
  <2> QED BY <1>3, <2>2
<1>5. CASE h = k /\ i < j
    BY <1>1, <1>2, <1>3, <1>5
<1> QED BY <1>4, <1>5

\* The stored slots a replay covers
Covered == {s \in stored : s >= from}
ReplayMsgs == UNION {BlockMsgs(s, node) : s \in Covered}

LEMMA ReplayPlaces ==
    ASSUME stored \subseteq Slots, Requested(inforce), NEW slots, slots = InOrder(Covered),
           NEW n, n = Cardinality(Covered), NEW l, l = BlockLen(inforce)
    PROVE  /\ n \in Nat /\ l \in Nat
           /\ slots \in [1..n -> Covered]
           /\ \A s \in Covered : \E k \in 1..n : slots[k] = s
           /\ \A j, k \in 1..n : j < k => slots[j] < slots[k]
           /\ DOMAIN Replay = 1..(n * l)
           /\ Replay \in Seq(ReplayMsgs)
           /\ \A k \in 1..n, j \in 1..l :
                 Replay[PlaceAt(k, l, j)] = BlockOf(slots[k], node, inforce)[j]
           /\ \A b \in 1..(n * l) : \E k \in 1..n, j \in 1..l : b = PlaceAt(k, l, j)
<1>1. Covered \in SUBSET Nat /\ IsFiniteSet(Covered)
  <2>1. Slots \subseteq Nat /\ IsFiniteSet(Slots)
    BY ResumeAssumption DEF ResumeAssumption
  <2> QED BY <2>1, FS_Subset DEF Covered
<1>2. slots = InOrder(Covered)
    OBVIOUS
<1>3. n \in Nat /\ n = Cardinality(Covered)
    BY <1>1, FS_CardinalityType
<1>4. l \in Nat /\ l = BlockLen(inforce)
    BY BlockShape
<1> USE <1>3, <1>4
<1>5. /\ slots \in [1..n -> Covered] /\ Len(slots) = n
      /\ \A j, k \in 1..n : j < k => slots[j] < slots[k]
      /\ \A s \in Covered : \E k \in 1..n : slots[k] = s
    BY <1>1, <1>2, <1>3, InOrderProperties
<1>6. Replay = [b \in 1..(n * l) |->
                  BlockOf(slots[1 + ((b - 1) \div l)], node, inforce)[1 + ((b - 1) % l)]]
    BY <1>2, <1>4, <1>5 DEF Replay, Covered
<1>7. \A b \in 1..(n * l) : \E k \in 1..n, j \in 1..l :
         b = PlaceAt(k, l, j) /\ k = 1 + ((b - 1) \div l) /\ j = 1 + ((b - 1) % l)
  <2> SUFFICES ASSUME NEW b \in 1..(n * l)
               PROVE  \E k \in 1..n, j \in 1..l :
                         b = PlaceAt(k, l, j) /\ k = 1 + ((b - 1) \div l) /\ j = 1 + ((b - 1) % l)
    OBVIOUS
  <2>1. l # 0
    BY <1>3
  <2>2. PICK k \in 1..n : k = 1 + ((b - 1) \div l)
    BY <2>1, DivideBelow
  <2>3. PICK j \in 1..l : j = 1 + ((b - 1) % l)
    BY <2>1, DivideBelow
  <2>4. b = PlaceAt(k, l, j)
    <3>1. PICK q \in Int : q = (b - 1) \div l
        BY <2>1
    <3>2. b = q * l + j
        BY <2>1, <2>3, <3>1, DivideBelow
    <3>3. q = k - 1
        BY <2>2, <3>1
    <3> QED BY <3>2, <3>3 DEF PlaceAt
  <2> QED BY <2>2, <2>3, <2>4
<1>8. \A k \in 1..n, j \in 1..l :
         /\ PlaceAt(k, l, j) \in 1..(n * l)
         /\ Replay[PlaceAt(k, l, j)] = BlockOf(slots[k], node, inforce)[j]
  <2> SUFFICES ASSUME NEW k \in 1..n, NEW j \in 1..l
               PROVE  /\ PlaceAt(k, l, j) \in 1..(n * l)
                      /\ Replay[PlaceAt(k, l, j)] = BlockOf(slots[k], node, inforce)[j]
    OBVIOUS
  <2>1. PICK b : b = PlaceAt(k, l, j)
    OBVIOUS
  <2>2. b \in 1..(n * l) /\ 1 + ((b - 1) \div l) = k /\ 1 + ((b - 1) % l) = j
    BY <2>1, ProductPlace
  <2>3. Replay[b] = BlockOf(slots[1 + ((b - 1) \div l)], node, inforce)[1 + ((b - 1) % l)]
    BY <2>2, <1>6
  <2> QED BY <2>1, <2>2, <2>3
<1>9. \A k \in 1..n, j \in 1..l :
         BlockOf(slots[k], node, inforce)[j] \in ReplayMsgs
  <2> SUFFICES ASSUME NEW k \in 1..n, NEW j \in 1..l
               PROVE  BlockOf(slots[k], node, inforce)[j] \in BlockMsgs(slots[k], node)
    BY <1>5 DEF ReplayMsgs
  <2>1. PICK block : block = BlockOf(slots[k], node, inforce)
    OBVIOUS
  <2>2. block \in Seq(BlockMsgs(slots[k], node)) /\ Len(block) = l
    BY <1>4, <2>1, BlockShape
  <2> QED BY <2>1, <2>2
<1>10. Replay \in Seq(ReplayMsgs) /\ DOMAIN Replay = 1..(n * l)
  <2>1. PICK m \in Nat : m = n * l
    OBVIOUS
  <2>2. \A b \in 1..m : Replay[b] \in ReplayMsgs
    <3> SUFFICES ASSUME NEW b \in 1..(n * l) PROVE Replay[b] \in ReplayMsgs
        BY <2>1
    <3>1. PICK k \in 1..n, j \in 1..l : b = PlaceAt(k, l, j)
        BY <1>7
    <3> QED BY <3>1, <1>8, <1>9
  <2>3. DOMAIN Replay = 1..m /\ Replay = [b \in 1..m |-> Replay[b]]
    BY <2>1, <1>6
  <2>4. Replay \in [1..m -> ReplayMsgs]
    BY <2>2, <2>3
  <2> QED BY <2>1, <2>3, <2>4
<1>11. \A b \in 1..(n * l) : \E k \in 1..n, j \in 1..l : b = PlaceAt(k, l, j)
    BY <1>7
<1> QED BY <1>3, <1>4, <1>5, <1>8, <1>10, <1>11

\* A replay is made of the covered blocks in the order of their slots, each whole.
LEMMA ReplayShape ==
    ASSUME stored \subseteq Slots, Requested(inforce)
    PROVE  /\ Replay \in Seq(ReplayMsgs)
           /\ \A i \in DOMAIN Replay : Replay[i].kind = "internal" => inforce.blocks_meta = "injected"
           /\ \A i \in DOMAIN Replay, t \in Slots : Replay[i] = MetaMsg(t, node) =>
                 /\ t \in Covered
                 /\ \A a \in Data : \E j \in DOMAIN Replay : j < i /\ Replay[j] = DataMsg(t, a, node)
                 /\ inforce.blocks_meta = "own" =>
                       \A u \in Covered : u < t =>
                          \E j \in DOMAIN Replay : j < i /\ Replay[j] = MetaMsg(u, node)
           /\ inforce.blocks_meta = "own" =>
                 \A u \in Covered : \E i \in DOMAIN Replay : Replay[i] = MetaMsg(u, node)
<1>1. PICK slots : slots = InOrder(Covered)
    OBVIOUS
<1>2. PICK n : n = Cardinality(Covered)
    OBVIOUS
<1>3. PICK l : l = BlockLen(inforce)
    OBVIOUS
<1>4. PICK c : c = Cardinality(Data)
    OBVIOUS
<1>5. /\ n \in Nat /\ l \in Nat
      /\ slots \in [1..n -> Covered]
      /\ \A s \in Covered : \E k \in 1..n : slots[k] = s
      /\ \A j, k \in 1..n : j < k => slots[j] < slots[k]
      /\ DOMAIN Replay = 1..(n * l)
      /\ Replay \in Seq(ReplayMsgs)
    BY <1>1, <1>2, <1>3, ReplayPlaces
<1>6. \A k \in 1..n, j \in 1..l :
         /\ PlaceAt(k, l, j) \in DOMAIN Replay
         /\ Replay[PlaceAt(k, l, j)] = BlockOf(slots[k], node, inforce)[j]
  <2>1. \A k \in 1..n, j \in 1..l : PlaceAt(k, l, j) \in DOMAIN Replay
    BY <1>5, ProductPlace
  <2>2. \A k \in 1..n, j \in 1..l :
           Replay[PlaceAt(k, l, j)] = BlockOf(slots[k], node, inforce)[j]
    BY <1>1, <1>2, <1>3, ReplayPlaces
  <2> QED BY <2>1, <2>2
<1>7. \A b \in DOMAIN Replay : \E k \in 1..n, j \in 1..l : b = PlaceAt(k, l, j)
  <2>1. \A b \in 1..(n * l) : \E k \in 1..n, j \in 1..l : b = PlaceAt(k, l, j)
    BY <1>1, <1>2, <1>3, ReplayPlaces
  <2>2. PICK m : m = 1..(n * l)
    OBVIOUS
  <2> QED BY <1>5, <2>1, <2>2
<1>8. ASSUME NEW k \in 1..n
      PROVE  /\ c \in Nat /\ c <= l
             /\ \A j \in 1..l : /\ BlockOf(slots[k], node, inforce)[j] \in BlockMsgs(slots[k], node)
                                /\ BlockOf(slots[k], node, inforce)[j].kind = "internal"
                                      => inforce.blocks_meta = "injected"
                                /\ BlockOf(slots[k], node, inforce)[j].kind = "meta" => j = c + 1
             /\ \A a \in Data : \E j \in 1..c : BlockOf(slots[k], node, inforce)[j] = DataMsg(slots[k], a, node)
             /\ inforce.blocks_meta = "own" => /\ c + 1 \in 1..l
                                               /\ BlockOf(slots[k], node, inforce)[c + 1] = MetaMsg(slots[k], node)
  <2>1. PICK block : block = BlockOf(slots[k], node, inforce)
    OBVIOUS
  <2>2. /\ c \in Nat /\ block \in Seq(BlockMsgs(slots[k], node)) /\ Len(block) = l /\ c <= l
        /\ \A a \in Data : \E i \in 1..c : block[i] = DataMsg(slots[k], a, node)
        /\ inforce.blocks_meta = "own" => l > c /\ block[c + 1] = MetaMsg(slots[k], node)
        /\ \A i \in 1..l : block[i].kind = "internal" => inforce.blocks_meta = "injected"
        /\ \A i \in 1..l : block[i].kind = "meta" => i = c + 1
    BY <1>3, <1>4, <2>1, BlockShape
  <2>3. \A j \in 1..l : block[j] \in BlockMsgs(slots[k], node)
    BY <2>2, ElementOfSeq
  <2>4. l > c => c + 1 \in 1..l
    BY <2>2, <1>5
  <2> QED BY <2>1, <2>2, <2>3, <2>4
<1>9. \A s, t : \A m \in BlockMsgs(s, node) : m = MetaMsg(t, node) => s = t /\ m.kind = "meta"
  <2>1. \A t : MetaMsg(t, node).slot = t /\ MetaMsg(t, node).kind = "meta"
    BY DEF MetaMsg, Msg
  <2> QED BY <2>1, BlockMsgFields
<1>10. ASSUME NEW i \in DOMAIN Replay PROVE Replay[i].kind = "internal" => inforce.blocks_meta = "injected"
    BY <1>6, <1>7, <1>8
<1>11. ASSUME inforce.blocks_meta = "own", NEW u \in Covered
       PROVE  \E k \in 1..n : /\ slots[k] = u /\ c + 1 \in 1..l
                              /\ PlaceAt(k, l, c + 1) \in DOMAIN Replay
                              /\ Replay[PlaceAt(k, l, c + 1)] = MetaMsg(u, node)
  <2>1. PICK k \in 1..n : slots[k] = u
    BY <1>5
  <2>2. c + 1 \in 1..l /\ BlockOf(slots[k], node, inforce)[c + 1] = MetaMsg(slots[k], node)
    BY <1>8, <1>11
  <2> QED BY <1>6, <2>1, <2>2
<1>12. ASSUME NEW i \in DOMAIN Replay, NEW t \in Slots, Replay[i] = MetaMsg(t, node)
       PROVE  /\ t \in Covered
              /\ \A a \in Data : \E j \in DOMAIN Replay : j < i /\ Replay[j] = DataMsg(t, a, node)
              /\ inforce.blocks_meta = "own" =>
                    \A u \in Covered : u < t =>
                       \E j \in DOMAIN Replay : j < i /\ Replay[j] = MetaMsg(u, node)
  <2>1. PICK k \in 1..n, j \in 1..l : i = PlaceAt(k, l, j)
    BY <1>7
  <2>2. BlockOf(slots[k], node, inforce)[j] = MetaMsg(t, node)
    BY <1>6, <1>12, <2>1
  <2>a. slots[k] \in Covered
    BY <1>5
  <2>b. BlockOf(slots[k], node, inforce)[j] \in BlockMsgs(slots[k], node)
    BY <1>8
  <2>c. slots[k] = t /\ MetaMsg(t, node).kind = "meta"
    BY <1>9, <2>2, <2>b
  <2>d. j = c + 1
    BY <1>8, <2>2, <2>c
  <2>3. slots[k] = t /\ j = c + 1 /\ t \in Covered
    BY <2>a, <2>c, <2>d
  <2>4. ASSUME NEW a \in Data PROVE \E q \in DOMAIN Replay : q < i /\ Replay[q] = DataMsg(t, a, node)
    <3>1. PICK p \in 1..c : BlockOf(slots[k], node, inforce)[p] = DataMsg(t, a, node)
        BY <1>8, <2>3
    <3>2. p \in 1..l /\ p < j
        BY <1>5, <1>8, <2>3
    <3>3. PlaceAt(k, l, p) < i
      <4>1. k \in Nat \ {0}
        BY <1>5
      <4> QED BY <1>5, <2>1, <3>2, <4>1, PlaceOrder
    <3> QED BY <1>6, <3>1, <3>2, <3>3
  <2>5. ASSUME inforce.blocks_meta = "own", NEW u \in Covered, u < t
        PROVE  \E q \in DOMAIN Replay : q < i /\ Replay[q] = MetaMsg(u, node)
    <3>1. PICK h \in 1..n : /\ slots[h] = u /\ c + 1 \in 1..l
                            /\ PlaceAt(h, l, c + 1) \in DOMAIN Replay
                            /\ Replay[PlaceAt(h, l, c + 1)] = MetaMsg(u, node)
        BY <1>11, <2>5
    <3>2. u \in Nat /\ t \in Nat
        BY ResumeAssumption DEF ResumeAssumption, Covered
    <3>3. ~(k <= h)
      <4>1. k = h => u = t
        BY <2>3, <3>1
      <4>2. k < h => t < u
        BY <1>5, <2>3, <3>1
      <4> QED BY <4>1, <4>2, <2>5, <3>2, <1>5
    <3>4. h < k /\ h \in Nat \ {0} /\ k \in Nat \ {0}
        BY <3>3, <1>5
    <3>5. PlaceAt(h, l, c + 1) < i
        BY <1>5, <2>1, <3>1, <3>4, PlaceOrder
    <3> QED BY <3>1, <3>5
  <2> QED BY <2>3, <2>4, <2>5
<1> QED BY <1>5, <1>10, <1>11, <1>12

-----------------------------------------------------------------------------
(* The state of the deduplication                                          *)

LEMMA OneNode ==
    ASSUME SteadyServer
    PROVE  Nodes = {TheNode}
<1>1. Nodes # {} /\ \A m, n \in Nodes : m = n
    BY ResumeAssumption DEF ResumeAssumption, SteadyServer
<1>2. TheNode \in Nodes
    BY <1>1 DEF TheNode
<1> QED BY <1>1, <1>2

StatusKinds == {"created", "status"}
SlotStates == [keys : SUBSET Data, replaying : BOOLEAN, statuses : SUBSET StatusKinds]
SealedStates == [blockhash : Nodes, statuses : SUBSET StatusKinds]
IsMap(f, V) == DOMAIN f \subseteq Slots /\ f \in [DOMAIN f -> V]
Rec(fl, se, so, qu) == [inflight |-> fl, sealed |-> se, slot_order |-> so, quarantine |-> qu]

\* Every slot is at most once in slot_order, and only while it is tracked.
OrderShape(fl, se, so) ==
    /\ so \in Seq(Slots)
    /\ \A i, j \in DOMAIN so : so[i] = so[j] => i = j
    /\ \A i \in DOMAIN so : so[i] \in DOMAIN fl \cup DOMAIN se

\* What is remembered of a slot is what was handed on of it; its quarantine is in use only
\* while the slot is sealed or replayed.
SlotInv(fl, se, qu, o, s) ==
    /\ ~(s \in DOMAIN fl /\ s \in DOMAIN se)
    /\ \A a \in Data : DataMsg(s, a, TheNode) \in o => s \in DOMAIN se \/ (s \in DOMAIN fl /\ a \in fl[s].keys)
    /\ s \in DOMAIN fl => \A a \in fl[s].keys : DataMsg(s, a, TheNode) \in o
    /\ MetaMsg(s, TheNode) \in o <=> s \in DOMAIN se
    /\ \A k \in StatusKinds : Msg(k, s, 0, 0) \in o =>
          \/ s \in DOMAIN se /\ k \in se[s].statuses
          \/ s \in DOMAIN fl /\ k \in fl[s].statuses
    /\ \A i \in DOMAIN qu[s] : \E a \in Data : qu[s][i] = DataMsg(s, a, TheNode)
    /\ qu[s] # <<>> => s \in DOMAIN se \/ (s \in DOMAIN fl /\ fl[s].replaying)

PartsInv(fl, se, so, qu, o) ==
    /\ IsMap(fl, SlotStates) /\ IsMap(se, SealedStates)
    /\ qu \in [Slots -> Seq(Messages)]
    /\ OrderShape(fl, se, so)
    /\ \A s \in Slots : SlotInv(fl, se, qu, o, s)

DedupInv(d, o) ==
    /\ d = Rec(d.inflight, d.sealed, d.slot_order, d.quarantine)
    /\ PartsInv(d.inflight, d.sealed, d.slot_order, d.quarantine, o)

LEMMA RecFields ==
    ASSUME NEW fl, NEW se, NEW so, NEW qu, NEW x, NEW d, d = Rec(fl, se, so, qu)
    PROVE  /\ d.inflight = fl /\ d.sealed = se /\ d.slot_order = so /\ d.quarantine = qu
           /\ [d EXCEPT !.inflight = x] = Rec(x, se, so, qu)
           /\ [d EXCEPT !.sealed = x] = Rec(fl, x, so, qu)
           /\ [d EXCEPT !.slot_order = x] = Rec(fl, se, x, qu)
           /\ [d EXCEPT !.quarantine = x] = Rec(fl, se, so, x)
BY DEF Rec

\* The window is wide enough for all slots: nothing is pruned.
LEMMA PruneKeeps ==
    ASSUME SteadyServer, NEW fl, NEW se, NEW so, NEW qu,
           IsMap(fl, SlotStates), IsMap(se, SealedStates), OrderShape(fl, se, so)
    PROVE  Prune(Rec(fl, se, so, qu)) = Rec(fl, se, so, qu)
<1>1. SlotRetention \in Nat /\ IsFiniteSet(Slots) /\ Cardinality(Slots) <= SlotRetention
    BY ResumeAssumption DEF ResumeAssumption, SteadyServer
<1>2. PICK l \in Nat : l = Len(so) /\ DOMAIN so = 1..l /\ so \in [1..l -> Slots]
  <2>1. so \in Seq(Slots)
    BY DEF OrderShape
  <2> QED BY <2>1, LenProperties
<1>3. so \in Injection(1..l, Slots)
    BY <1>2 DEF OrderShape, Injection, IsInjective
<1>4. Cardinality(1..l) = l /\ Cardinality(Slots) \in Nat
  <2>1. Cardinality(1..l) = l
    BY FS_Interval
  <2> QED BY <1>1, <2>1, FS_CardinalityType
<1>5. l <= SlotRetention
    BY <1>1, <1>3, <1>4, FS_Injection
<1>6. PICK excess \in Int : excess = l - SlotRetention
    BY <1>1
<1>7. excess <= 0 /\ 1..excess = {}
    BY <1>1, <1>5, <1>6
<1>8. Drop(fl, {}) = fl /\ Drop(se, {}) = se
    BY DEF Drop, IsMap
<1>9. SubSeq(so, 0 + 1, Len(so)) = so
    BY DEF OrderShape
<1>10. PICK d : d = Rec(fl, se, so, qu)
    OBVIOUS
<1>11. Prune(d) = [d EXCEPT !.slot_order = SubSeq(@, 0 + 1, Len(@)),
                            !.inflight = Drop(@, {}), !.sealed = Drop(@, {})]
  <2>1. d.slot_order = so
    BY <1>10, RecFields
  <2>2. {so[i] : i \in 1..excess} = {} /\ (IF excess > 0 THEN excess ELSE 0) = 0
    BY <1>7
  <2>3. excess = Len(d.slot_order) - SlotRetention
    BY <1>2, <1>6, <2>1
  <2>4. Prune(d) = [d EXCEPT !.slot_order = SubSeq(@, (IF excess > 0 THEN excess ELSE 0) + 1, Len(@)),
                             !.inflight = Drop(@, {so[i] : i \in 1..excess}),
                             !.sealed = Drop(@, {so[i] : i \in 1..excess})]
    BY <2>1, <2>3 DEF Prune
  <2> QED BY <2>2, <2>4
<1>12. Prune(d) = Rec(fl, se, so, qu)
    BY <1>8, <1>9, <1>10, <1>11 DEF Rec
<1> QED BY <1>10, <1>12

LEMMA MessageFields ==
    /\ \A s, a, n : /\ DataMsg(s, a, n).slot = s /\ DataMsg(s, a, n).kind = "data"
                    /\ DataMsg(s, a, n).arg = a /\ DataMsg(s, a, n).node = n
    /\ \A s, n : /\ MetaMsg(s, n).slot = s /\ MetaMsg(s, n).kind = "meta" /\ MetaMsg(s, n).node = n
                 /\ InternalMsg(s, n).slot = s /\ InternalMsg(s, n).kind = "internal"
    /\ \A k, s : Msg(k, s, 0, 0).slot = s /\ Msg(k, s, 0, 0).kind = k
    /\ \A s : CreatedBank(s) = Msg("created", s, 0, 0) /\ StatusMsg(s) = Msg("status", s, 0, 0)
BY DEF DataMsg, MetaMsg, InternalMsg, StatusMsg, CreatedBank, Msg

\* The message of a kind, with one node
LEMMA MessageForms ==
    ASSUME SteadyServer, NEW m \in Messages
    PROVE  /\ m.slot \in Slots
           /\ \/ m.kind = "data" /\ \E a \in Data : m = DataMsg(m.slot, a, TheNode)
              \/ m.kind = "meta" /\ m = MetaMsg(m.slot, TheNode)
              \/ m.kind = "internal" /\ m = InternalMsg(m.slot, TheNode)
              \/ m.kind \in StatusKinds /\ m = Msg(m.kind, m.slot, 0, 0)
<1>1. CASE \E s \in Slots : m = CreatedBank(s)
    BY <1>1, MessageFields DEF StatusKinds
<1>2. CASE \E s \in Slots : m \in BlockMsgs(s, TheNode)
  <2>1. PICK s \in Slots : m \in BlockMsgs(s, TheNode)
    BY <1>2
  <2>2. CASE m \in Payloads(s, TheNode)
    BY <2>2, MessageFields DEF Payloads
  <2>3. CASE m \in {MetaMsg(s, TheNode), InternalMsg(s, TheNode), StatusMsg(s)}
    BY <2>3, MessageFields DEF StatusKinds
  <2> QED BY <2>1, <2>2, <2>3 DEF BlockMsgs
<1> QED BY <1>1, <1>2 DEF Messages

\* The new maps say of the other slots what the old ones said.
Agree(fl, se, qu, fl2, se2, qu2, s) ==
    \A t \in Slots \ {s} :
        /\ t \in DOMAIN fl2 <=> t \in DOMAIN fl
        /\ t \in DOMAIN fl => fl2[t] = fl[t]
        /\ t \in DOMAIN se2 <=> t \in DOMAIN se
        /\ t \in DOMAIN se => se2[t] = se[t]
        /\ qu2[t] = qu[t]

LEMMA OrderKept ==
    ASSUME NEW fl, NEW se, NEW so, NEW fl2, NEW se2, OrderShape(fl, se, so),
           DOMAIN fl \cup DOMAIN se \subseteq DOMAIN fl2 \cup DOMAIN se2
    PROVE  OrderShape(fl2, se2, so)
BY DEF OrderShape

LEMMA OrderAppend ==
    ASSUME NEW fl, NEW se, NEW so, NEW fl2, NEW s \in Slots, OrderShape(fl, se, so),
           s \notin DOMAIN fl \cup DOMAIN se, DOMAIN fl2 = DOMAIN fl \cup {s}
    PROVE  OrderShape(fl2, se, Append(so, s))
<1>1. so \in Seq(Slots)
    BY DEF OrderShape
<1>2. PICK l \in Nat : l = Len(so) /\ DOMAIN so = 1..l
    BY <1>1, LenProperties
<1>3. PICK so2 : so2 = Append(so, s)
    OBVIOUS
<1>4. so2 \in Seq(Slots) /\ DOMAIN so2 = 1..(l + 1) /\ so2[l + 1] = s /\ \A i \in 1..l : so2[i] = so[i]
    BY <1>1, <1>2, <1>3, AppendProperties, LenProperties
<1>5. \A i \in 1..l : so[i] # s /\ so[i] \in DOMAIN fl \cup DOMAIN se
    BY <1>2 DEF OrderShape
<1>6. \A i, j \in 1..l : so[i] = so[j] => i = j
    BY <1>2 DEF OrderShape
<1>7. \A i \in 1..(l + 1) : i \in 1..l \/ i = l + 1
    BY <1>2
<1>8. \A i, j \in 1..(l + 1) : so2[i] = so2[j] => i = j
    BY <1>4, <1>5, <1>6, <1>7
<1>9. \A i \in 1..(l + 1) : so2[i] \in DOMAIN fl2 \cup DOMAIN se
    BY <1>4, <1>5, <1>7
<1> QED BY <1>3, <1>4, <1>8, <1>9 DEF OrderShape

LEMMA PickNamed ==
    ASSUME NEW T, NEW seq \in Seq(T), NEW places \in SUBSET DOMAIN seq, NEW p, p = Pick(seq, places)
    PROVE  /\ p \in Seq(T)
           /\ \A k \in DOMAIN p : \E i \in places : p[k] = seq[i]
           /\ \A i \in places : \E k \in DOMAIN p : p[k] = seq[i]
           /\ \A k, l \in DOMAIN p :
                 k # l => \E i, j \in places : i # j /\ p[k] = seq[i] /\ p[l] = seq[j]
BY PickProperties

Others(so, s) == {i \in DOMAIN so : so[i] # s}

LEMMA OrderClear ==
    ASSUME NEW fl, NEW se, NEW so, NEW fl2, NEW se2, NEW s, NEW so2, OrderShape(fl, se, so),
           so2 = Pick(so, Others(so, s)),
           (DOMAIN fl \cup DOMAIN se) \ {s} \subseteq DOMAIN fl2 \cup DOMAIN se2
    PROVE  OrderShape(fl2, se2, so2)
<1>1. so \in Seq(Slots)
    BY DEF OrderShape
<1>2. PICK P \in SUBSET DOMAIN so : P = Others(so, s)
    BY DEF Others
<1>3. so2 = Pick(so, P)
    BY <1>2
<1> HIDE <1>2
<1>4. /\ so2 \in Seq(Slots)
      /\ \A k \in DOMAIN so2 : \E i \in P : so2[k] = so[i]
      /\ \A i \in P : \E k \in DOMAIN so2 : so2[k] = so[i]
      /\ \A k, l \in DOMAIN so2 :
            k # l => \E i, j \in P : i # j /\ so2[k] = so[i] /\ so2[l] = so[j]
    BY ONLY <1>1, <1>3, so \in Seq(Slots), P \in SUBSET DOMAIN so, PickNamed
<1>7. \A i \in P : i \in DOMAIN so /\ so[i] # s
    BY <1>2 DEF Others
<1>8. \A k, l \in DOMAIN so2 : so2[k] = so2[l] => k = l
    BY <1>4, <1>7 DEF OrderShape
<1>9. \A k \in DOMAIN so2 : so2[k] \in DOMAIN fl2 \cup DOMAIN se2
    BY <1>4, <1>7 DEF OrderShape
<1> QED BY <1>4, <1>8, <1>9 DEF OrderShape

LEMMA PartsStep ==
    ASSUME NEW fl, NEW se, NEW so, NEW qu, NEW o, NEW fl2, NEW se2, NEW so2, NEW qu2, NEW o2,
           NEW s \in Slots, PartsInv(fl, se, so, qu, o),
           IsMap(fl2, SlotStates), IsMap(se2, SealedStates), qu2 \in [Slots -> Seq(Messages)],
           OrderShape(fl2, se2, so2), Agree(fl, se, qu, fl2, se2, qu2, s),
           o \subseteq o2, \A m \in o2 : m \in o \/ m.slot = s,
           SlotInv(fl2, se2, qu2, o2, s)
    PROVE  PartsInv(fl2, se2, so2, qu2, o2)
<1>1. ASSUME NEW t \in Slots \ {s} PROVE SlotInv(fl2, se2, qu2, o2, t)
  <2>1. SlotInv(fl, se, qu, o, t)
    BY DEF PartsInv
  <2>2. /\ \A a : DataMsg(t, a, TheNode) \in o2 <=> DataMsg(t, a, TheNode) \in o
        /\ MetaMsg(t, TheNode) \in o2 <=> MetaMsg(t, TheNode) \in o
        /\ \A k : Msg(k, t, 0, 0) \in o2 <=> Msg(k, t, 0, 0) \in o
    <3>1. \A x : x.slot # s => (x \in o2 <=> x \in o)
        OBVIOUS
    <3>2. /\ \A a : DataMsg(t, a, TheNode).slot # s
          /\ MetaMsg(t, TheNode).slot # s
          /\ \A k : Msg(k, t, 0, 0).slot # s
        BY MessageFields
    <3> QED BY <3>1, <3>2
  <2>3. /\ t \in DOMAIN fl2 <=> t \in DOMAIN fl
        /\ t \in DOMAIN fl => fl2[t] = fl[t]
        /\ t \in DOMAIN se2 <=> t \in DOMAIN se
        /\ t \in DOMAIN se => se2[t] = se[t]
        /\ qu2[t] = qu[t]
    BY DEF Agree
  <2> QED BY <2>1, <2>2, <2>3 DEF SlotInv
<1>2. \A t \in Slots : SlotInv(fl2, se2, qu2, o2, t)
    BY <1>1
<1> QED BY <1>2 DEF PartsInv

LEMMA NewSlotFields ==
    /\ NewSlotState \in SlotStates
    /\ NewSlotState.keys = {} /\ NewSlotState.replaying = FALSE /\ NewSlotState.statuses = {}
BY DEF NewSlotState, SlotStates

Started(fl, s) == IF s \in DOMAIN fl THEN fl ELSE Put(fl, s, NewSlotState)
Listed(fl, se, so, s) == IF s \in DOMAIN fl \cup DOMAIN se THEN so ELSE Append(so, s)
Begun(fl, s) == IF s \in DOMAIN fl THEN fl[s] ELSE NewSlotState

\* slot_mut: the slot is tracked from now on.
LEMMA StartSlot ==
    ASSUME NEW fl, NEW se, NEW so, NEW qu, NEW o, NEW d, NEW s \in Slots, NEW fl1, NEW so1,
           PartsInv(fl, se, so, qu, o), d = Rec(fl, se, so, qu), s \notin DOMAIN se,
           fl1 = Started(fl, s), so1 = Listed(fl, se, so, s)
    PROVE  /\ SlotMut(d, s) = Rec(fl1, se, so1, qu)
           /\ PartsInv(fl1, se, so1, qu, o)
           /\ s \in DOMAIN fl1
           /\ fl1[s] = Begun(fl, s)
<1> USE DEF Started, Listed, Begun
<1>1. SlotMut(d, s) = Rec(fl1, se, so1, qu)
  <2>1. d.inflight = fl /\ d.sealed = se /\ d.slot_order = so
    BY RecFields
  <2>2. SlotMut(d, s) = [d EXCEPT !.slot_order = so1, !.inflight = fl1]
    BY <2>1 DEF SlotMut, Tracked
  <2> QED BY <2>2 DEF Rec
<1>2. CASE s \in DOMAIN fl
    BY <1>1, <1>2
<1>3. CASE s \notin DOMAIN fl
  <2>1. fl1 = Put(fl, s, NewSlotState) /\ so1 = Append(so, s)
    BY <1>3
  <2>2. IsMap(fl, SlotStates) /\ IsMap(se, SealedStates) /\ qu \in [Slots -> Seq(Messages)]
        /\ OrderShape(fl, se, so) /\ SlotInv(fl, se, qu, o, s)
    BY DEF PartsInv
  <2>3. /\ DOMAIN fl1 = DOMAIN fl \cup {s} /\ fl1[s] = NewSlotState
        /\ \A t \in DOMAIN fl : t # s => fl1[t] = fl[t]
    BY <2>1 DEF Put
  <2>4. IsMap(fl1, SlotStates)
    BY <2>1, <2>2, NewSlotFields DEF Put, IsMap
  <2>5. OrderShape(fl1, se, so1)
    BY <1>3, <2>1, <2>2, <2>3, OrderAppend
  <2>6. Agree(fl, se, qu, fl1, se, qu, s)
    BY <2>3 DEF Agree
  <2>7. SlotInv(fl1, se, qu, o, s)
    BY <1>3, <2>2, <2>3, NewSlotFields DEF SlotInv
  <2>8. PartsInv(fl1, se, so1, qu, o)
    BY <2>2, <2>4, <2>5, <2>6, <2>7, PartsStep
  <2> QED BY <1>1, <1>3, <2>3, <2>8
<1> QED BY <1>2, <1>3

\* An entry of a map changes.
LEMMA ChangeEntry ==
    ASSUME NEW f, NEW V, NEW s \in DOMAIN f, NEW v \in V, IsMap(f, V), NEW f2, f2 = [f EXCEPT ![s] = v]
    PROVE  /\ IsMap(f2, V) /\ DOMAIN f2 = DOMAIN f /\ f2[s] = v
           /\ \A t \in DOMAIN f : t # s => f2[t] = f[t]
BY DEF IsMap

-----------------------------------------------------------------------------
(* What DedupStream does with a message                                    *)

\* What is handed on is new to the user, belongs to the message's slot, and the state fits to it;
\* a payload is handed on or waits in quarantine, and what waited is handed on by the BlockMeta
\* that seals its slot.
GoodParts(qu, o, m, d2, msgs, o2) ==
    /\ DedupInv(d2, o2)
    /\ o2 = o \cup Range(msgs)
    /\ msgs \in Seq(Messages)
    /\ \A i \in DOMAIN msgs : msgs[i] \notin o /\ msgs[i].slot = m.slot
    /\ \A i, j \in DOMAIN msgs : msgs[i] = msgs[j] => i = j
    /\ \A i \in DOMAIN msgs : msgs[i] = m \/ m.kind = "meta"
    /\ m.kind = "meta" => m \in o2 /\ d2.quarantine[m.slot] = <<>>
    /\ m.kind = "data" => m \in o2 \/ m \in Range(d2.quarantine[m.slot])
    /\ \A t \in Slots : \A x \in Range(qu[t]) :
          \/ x \in o2 \/ x \in Range(d2.quarantine[t])
          \/ t = m.slot /\ m.kind = "meta" /\ MetaMsg(t, TheNode) \in o

LEMMA NothingHandedOn ==
    /\ Range(<<>>) = {} /\ DOMAIN <<>> = {} /\ <<>> \in Seq(Messages)
    /\ \A o : o \cup Range(<<>>) = o
<1>1. DOMAIN <<>> = {} /\ <<>> \in Seq(Messages)
    OBVIOUS
<1>2. Range(<<>>) = {}
    BY <1>1 DEF Range
<1> QED BY <1>1, <1>2

LEMMA OneHandedOn ==
    ASSUME NEW m \in Messages
    PROVE  /\ Range(<<m>>) = {m} /\ DOMAIN <<m>> = {1} /\ <<m>> \in Seq(Messages) /\ <<m>>[1] = m
<1>1. DOMAIN <<m>> = {1} /\ <<m>> \in Seq(Messages) /\ <<m>>[1] = m
    OBVIOUS
<1>2. Range(<<m>>) = {m}
    BY <1>1 DEF Range
<1> QED BY <1>1, <1>2

LEMMA HandedNothing ==
    ASSUME NEW qu, NEW o, NEW m, NEW d2, DedupInv(d2, o),
           m.kind = "meta" => m \in o /\ d2.quarantine[m.slot] = <<>>,
           m.kind = "data" => m \in o \/ m \in Range(d2.quarantine[m.slot]),
           \A t \in Slots : \A x \in Range(qu[t]) :
              \/ x \in Range(d2.quarantine[t])
              \/ t = m.slot /\ m.kind = "meta" /\ MetaMsg(t, TheNode) \in o
    PROVE  GoodParts(qu, o, m, d2, <<>>, o)
BY NothingHandedOn DEF GoodParts

LEMMA HandedOne ==
    ASSUME NEW qu, NEW o, NEW m \in Messages, NEW d2, DedupInv(d2, o \cup {m}), m \notin o,
           m.kind = "meta" => d2.quarantine[m.slot] = <<>>,
           \A t \in Slots : \A x \in Range(qu[t]) : x \in Range(d2.quarantine[t])
    PROVE  GoodParts(qu, o, m, d2, <<m>>, o \cup {m})
BY OneHandedOn DEF GoodParts

LEMMA PartsAreDedup ==
    ASSUME NEW fl, NEW se, NEW so, NEW qu, NEW o, NEW d, d = Rec(fl, se, so, qu)
    PROVE  PartsInv(fl, se, so, qu, o) <=> DedupInv(d, o)
<1>1. d.inflight = fl /\ d.sealed = se /\ d.slot_order = so /\ d.quarantine = qu
    BY RecFields
<1> QED BY <1>1 DEF DedupInv

\* A status of a slot that is not sealed
StatusResult(f, m) ==
    IF m.kind \in f.inflight[m.slot].statuses
    THEN Result(f, <<>>)
    ELSE Result(Prune([f EXCEPT !.inflight[m.slot].statuses = @ \cup {m.kind}]), <<m>>)

LEMMA StatusUnsealed ==
    ASSUME SteadyServer, NEW fl, NEW se, NEW so, NEW qu, NEW o, NEW d, NEW m \in Messages, NEW s,
           PartsInv(fl, se, so, qu, o), d = Rec(fl, se, so, qu), s = m.slot, s \notin DOMAIN se,
           m.kind \in StatusKinds, NEW r, r = StatusResult(SlotMut(d, s), m)
    PROVE  GoodParts(qu, o, m, r.d, r.msgs, o \cup Range(r.msgs))
<1>0. s \in Slots /\ m = Msg(m.kind, s, 0, 0) /\ m.kind # "meta" /\ m.kind # "data"
    BY MessageForms DEF StatusKinds
<1>1. PICK fl1 : fl1 = Started(fl, s)
    OBVIOUS
<1>2. PICK so1 : so1 = Listed(fl, se, so, s)
    OBVIOUS
<1>3. PICK f : f = SlotMut(d, s)
    OBVIOUS
<1>4. /\ f = Rec(fl1, se, so1, qu) /\ PartsInv(fl1, se, so1, qu, o) /\ s \in DOMAIN fl1
  <2>1. /\ SlotMut(d, s) = Rec(fl1, se, so1, qu)
        /\ PartsInv(fl1, se, so1, qu, o)
        /\ s \in DOMAIN fl1
        /\ fl1[s] = Begun(fl, s)
    BY <1>0, <1>1, <1>2, StartSlot
  <2> QED BY <1>3, <2>1
<1> HIDE <1>1, <1>2
<1>5. f.inflight = fl1 /\ f.quarantine = qu
    BY <1>4, RecFields
<1>6. CASE m.kind \in fl1[s].statuses
  <2>1. r = Result(f, <<>>)
    BY <1>3, <1>5, <1>6 DEF StatusResult
  <2>2. r.d = f /\ r.msgs = <<>>
    BY <2>1 DEF Result
  <2>3. DedupInv(f, o)
    BY <1>4, PartsAreDedup
  <2>4. GoodParts(qu, o, m, f, <<>>, o)
    BY <1>0, <1>5, <2>3, HandedNothing
  <2> QED BY <2>2, <2>4, NothingHandedOn
<1>7. CASE m.kind \notin fl1[s].statuses
  <2>1. PICK v : v = [fl1[s] EXCEPT !.statuses = @ \cup {m.kind}]
    OBVIOUS
  <2>2. PICK fl2 : fl2 = [fl1 EXCEPT ![s] = v]
    OBVIOUS
  <2>3. /\ IsMap(fl1, SlotStates) /\ IsMap(se, SealedStates) /\ qu \in [Slots -> Seq(Messages)]
        /\ OrderShape(fl1, se, so1) /\ SlotInv(fl1, se, qu, o, s)
    BY <1>0, <1>4 DEF PartsInv
  <2>4. /\ v \in SlotStates /\ v.keys = fl1[s].keys /\ v.replaying = fl1[s].replaying
        /\ v.statuses = fl1[s].statuses \cup {m.kind}
    <3>1. fl1[s] \in SlotStates
        BY <1>4, <2>3 DEF IsMap
    <3> QED BY <2>1, <3>1 DEF SlotStates
  <2>5. /\ IsMap(fl2, SlotStates) /\ DOMAIN fl2 = DOMAIN fl1 /\ fl2[s] = v
        /\ \A t \in DOMAIN fl1 : t # s => fl2[t] = fl1[t]
    BY <1>4, <2>2, <2>3, <2>4, ChangeEntry
  <2>6. OrderShape(fl2, se, so1)
    BY <2>3, <2>5, OrderKept
  <2>7. Agree(fl1, se, qu, fl2, se, qu, s)
    BY <2>5 DEF Agree
  <2>8. SlotInv(fl2, se, qu, o \cup {m}, s)
    <3>1. /\ \A a : DataMsg(s, a, TheNode) \in o \cup {m} <=> DataMsg(s, a, TheNode) \in o
          /\ MetaMsg(s, TheNode) \in o \cup {m} <=> MetaMsg(s, TheNode) \in o
          /\ \A k : Msg(k, s, 0, 0) \in o \cup {m} => Msg(k, s, 0, 0) \in o \/ k = m.kind
        BY <1>0, MessageFields
    <3> QED BY <2>3, <2>4, <2>5, <1>4, <3>1 DEF SlotInv
  <2>9. PartsInv(fl2, se, so1, qu, o \cup {m})
    BY <1>0, <1>4, <2>3, <2>5, <2>6, <2>7, <2>8, PartsStep
  <2>10. m \notin o
    BY <1>0, <1>4, <1>7, <2>3 DEF SlotInv
  <2>11. PICK g : g = Rec(fl2, se, so1, qu)
    OBVIOUS
  <2>12. r = Result(g, <<m>>)
    <3>1. [f EXCEPT !.inflight[s].statuses = @ \cup {m.kind}] = [f EXCEPT !.inflight = fl2]
        BY <1>5, <2>1, <2>2
    <3>2. [f EXCEPT !.inflight = fl2] = g
        BY <1>4, <2>11, RecFields
    <3>3. Prune(g) = g
        BY <2>3, <2>5, <2>6, <2>11, PruneKeeps
    <3> QED BY <1>3, <1>5, <1>7, <3>1, <3>2, <3>3 DEF StatusResult
  <2>13. r.d = g /\ r.msgs = <<m>> /\ g.quarantine = qu
    BY <2>11, <2>12, RecFields DEF Result
  <2>14. DedupInv(g, o \cup {m})
    BY <2>9, <2>11, PartsAreDedup
  <2>15. GoodParts(qu, o, m, g, <<m>>, o \cup {m})
    BY <1>0, <2>10, <2>13, <2>14, HandedOne
  <2> QED BY <2>13, <2>15, OneHandedOn
<1> QED BY <1>6, <1>7

Untouched(o, s) == \A x \in o : x.slot # s

\* A bank created for the first time: there is nothing to forget.
LEMMA ClearFresh ==
    ASSUME NEW fl, NEW se, NEW so, NEW qu, NEW o, NEW d, NEW s \in Slots,
           PartsInv(fl, se, so, qu, o), d = Rec(fl, se, so, qu), Untouched(o, s), ~Replaying(d, s),
           NEW fl2, fl2 = Drop(fl, {s}), NEW so2, so2 = Pick(so, Others(so, s))
    PROVE  /\ s \notin DOMAIN se
           /\ ClearSlot(d, s) = Rec(fl2, se, so2, qu)
           /\ PartsInv(fl2, se, so2, qu, o)
<1>1. d.inflight = fl /\ d.sealed = se /\ d.slot_order = so /\ d.quarantine = qu
    BY RecFields
<1>2. /\ IsMap(fl, SlotStates) /\ IsMap(se, SealedStates) /\ qu \in [Slots -> Seq(Messages)]
      /\ OrderShape(fl, se, so) /\ SlotInv(fl, se, qu, o, s)
    BY DEF PartsInv
<1>3. /\ \A a : DataMsg(s, a, TheNode) \notin o
      /\ MetaMsg(s, TheNode) \notin o
      /\ \A k : Msg(k, s, 0, 0) \notin o
    BY MessageFields DEF Untouched
<1>4. s \notin DOMAIN se /\ Drop(se, {s}) = se
    BY <1>2, <1>3 DEF SlotInv, Drop, IsMap
<1>5. ClearSlot(d, s) = [d EXCEPT !.inflight = fl2, !.sealed = se, !.slot_order = so2]
    BY <1>1, <1>4 DEF ClearSlot, Others
<1>6. ClearSlot(d, s) = Rec(fl2, se, so2, qu)
    BY <1>5 DEF Rec
<1>7. /\ IsMap(fl2, SlotStates) /\ DOMAIN fl2 = DOMAIN fl \ {s}
      /\ \A t \in DOMAIN fl : t # s => fl2[t] = fl[t]
    BY <1>2 DEF IsMap, Drop
<1>8. OrderShape(fl2, se, so2)
    BY <1>2, <1>7, OrderClear
<1>9. Agree(fl, se, qu, fl2, se, qu, s)
    BY <1>7 DEF Agree
<1>10. qu[s] = <<>>
    BY <1>1, <1>2, <1>4 DEF SlotInv, Replaying
<1>11. SlotInv(fl2, se, qu, o, s)
    BY <1>2, <1>3, <1>4, <1>7, <1>10 DEF SlotInv
<1>12. PartsInv(fl2, se, so2, qu, o)
    BY <1>2, <1>7, <1>8, <1>9, <1>11, PartsStep
<1> QED BY <1>4, <1>6, <1>12

\* A status of a sealed slot
\* A status of a sealed slot
SealedResult(d, m) ==
    Result([d EXCEPT !.sealed[m.slot].statuses = @ \cup {m.kind}],
           IF m.kind \in d.sealed[m.slot].statuses THEN <<>> ELSE <<m>>)

LEMMA StatusSealed ==
    ASSUME SteadyServer, NEW fl, NEW se, NEW so, NEW qu, NEW o, NEW d, NEW m \in Messages, NEW s,
           PartsInv(fl, se, so, qu, o), d = Rec(fl, se, so, qu), s = m.slot, s \in DOMAIN se,
           m.kind \in StatusKinds, NEW r, r = SealedResult(d, m)
    PROVE  GoodParts(qu, o, m, r.d, r.msgs, o \cup Range(r.msgs))
<1>0. s \in Slots /\ m = Msg(m.kind, s, 0, 0) /\ m.kind # "meta" /\ m.kind # "data"
    BY MessageForms DEF StatusKinds
<1>1. d.inflight = fl /\ d.sealed = se /\ d.slot_order = so /\ d.quarantine = qu
    BY RecFields
<1>2. /\ IsMap(fl, SlotStates) /\ IsMap(se, SealedStates) /\ qu \in [Slots -> Seq(Messages)]
      /\ OrderShape(fl, se, so) /\ SlotInv(fl, se, qu, o, s)
    BY <1>0 DEF PartsInv
<1>3. PICK v : v = [se[s] EXCEPT !.statuses = @ \cup {m.kind}]
    OBVIOUS
<1>4. PICK se2 : se2 = [se EXCEPT ![s] = v]
    OBVIOUS
<1>5. v \in SealedStates /\ v.statuses = se[s].statuses \cup {m.kind}
  <2>1. se[s] \in SealedStates
    BY <1>2 DEF IsMap
  <2> QED BY <1>3, <2>1 DEF SealedStates
<1>6. /\ IsMap(se2, SealedStates) /\ DOMAIN se2 = DOMAIN se /\ se2[s] = v
      /\ \A t \in DOMAIN se : t # s => se2[t] = se[t]
    BY <1>2, <1>4, <1>5, ChangeEntry
<1>7. OrderShape(fl, se2, so)
    BY <1>2, <1>6, OrderKept
<1>8. Agree(fl, se, qu, fl, se2, qu, s)
    BY <1>6 DEF Agree
<1>9. PICK g : g = Rec(fl, se2, so, qu)
    OBVIOUS
<1>10. r.d = g /\ g.quarantine = qu
  <2>1. [d EXCEPT !.sealed[s].statuses = @ \cup {m.kind}] = [d EXCEPT !.sealed = se2]
    BY <1>1, <1>3, <1>4
  <2>2. [d EXCEPT !.sealed = se2] = g
    BY <1>9, RecFields
  <2>3. r.d = [d EXCEPT !.sealed[s].statuses = @ \cup {m.kind}]
    BY DEF SealedResult, Result
  <2>4. g.quarantine = qu
    BY <1>9, RecFields
  <2> QED BY <2>1, <2>2, <2>3, <2>4
<1>11. CASE m.kind \in se[s].statuses
  <2>1. r.msgs = <<>>
    BY <1>1, <1>11 DEF SealedResult, Result
  <2>2. SlotInv(fl, se2, qu, o, s)
    BY <1>2, <1>5, <1>6 DEF SlotInv
  <2>3. PartsInv(fl, se2, so, qu, o)
    BY <1>0, <1>2, <1>6, <1>7, <1>8, <2>2, PartsStep
  <2>4. DedupInv(g, o)
    BY <1>9, <2>3, PartsAreDedup
  <2>5. GoodParts(qu, o, m, g, <<>>, o)
    BY <1>0, <1>10, <2>4, HandedNothing
  <2> QED BY <1>10, <2>1, <2>5, NothingHandedOn
<1>12. CASE m.kind \notin se[s].statuses
  <2>1. r.msgs = <<m>>
    BY <1>1, <1>12 DEF SealedResult, Result
  <2>2. SlotInv(fl, se2, qu, o \cup {m}, s)
    <3>1. /\ \A a : DataMsg(s, a, TheNode) \in o \cup {m} <=> DataMsg(s, a, TheNode) \in o
          /\ MetaMsg(s, TheNode) \in o \cup {m} <=> MetaMsg(s, TheNode) \in o
          /\ \A k : Msg(k, s, 0, 0) \in o \cup {m} => Msg(k, s, 0, 0) \in o \/ k = m.kind
        BY <1>0, MessageFields
    <3> QED BY <1>2, <1>5, <1>6, <3>1 DEF SlotInv
  <2>3. PartsInv(fl, se2, so, qu, o \cup {m})
    BY <1>0, <1>2, <1>6, <1>7, <1>8, <2>2, PartsStep
  <2>4. DedupInv(g, o \cup {m})
    BY <1>9, <2>3, PartsAreDedup
  <2>5. m \notin o
    BY <1>0, <1>2, <1>12 DEF SlotInv
  <2>6. GoodParts(qu, o, m, g, <<m>>, o \cup {m})
    BY <1>0, <1>10, <2>4, <2>5, HandedOne
  <2> QED BY <1>10, <2>1, <2>6, OneHandedOn
<1> QED BY <1>11, <1>12

LEMMA StatusObserved ==
    ASSUME SteadyServer, NEW fl, NEW se, NEW so, NEW qu, NEW o, NEW d, NEW m \in Messages,
           PartsInv(fl, se, so, qu, o), d = Rec(fl, se, so, qu), m.kind \in StatusKinds,
           m.kind = "created" => Untouched(o, m.slot), NEW r, r = ObserveStatus(d, m)
    PROVE  GoodParts(qu, o, m, r.d, r.msgs, o \cup Range(r.msgs))
<1>0. PICK s \in Slots : s = m.slot
    BY MessageForms
<1>1. d.inflight = fl /\ d.sealed = se
    BY RecFields
<1>2. CASE m.kind = "created" /\ ~Replaying(d, s)
  <2>1. PICK fl2 : fl2 = Drop(fl, {s})
    OBVIOUS
  <2>2. PICK so2 : so2 = Pick(so, Others(so, s))
    OBVIOUS
  <2>3. PICK e : e = ClearSlot(d, s)
    OBVIOUS
  <2>4. s \notin DOMAIN se /\ e = Rec(fl2, se, so2, qu) /\ PartsInv(fl2, se, so2, qu, o)
    <3>1. s \notin DOMAIN se /\ ClearSlot(d, s) = Rec(fl2, se, so2, qu) /\ PartsInv(fl2, se, so2, qu, o)
        BY <1>0, <1>2, <2>1, <2>2, ClearFresh
    <3> QED BY <2>3, <3>1
  <2>5. e.sealed = se
    BY <2>4, RecFields
  <2>6. r = StatusResult(SlotMut(e, s), m)
    BY <1>0, <1>2, <2>3, <2>4, <2>5 DEF ObserveStatus, StatusResult
  <2>7. s = m.slot /\ m.kind \in StatusKinds
    BY <1>0
  <2> QED BY ONLY <2>4, <2>6, <2>7, SteadyServer, m \in Messages, StatusUnsealed
<1>3. CASE ~(m.kind = "created" /\ ~Replaying(d, s)) /\ s \notin DOMAIN se
  <2>1. r = StatusResult(SlotMut(d, s), m)
    BY <1>0, <1>1, <1>3 DEF ObserveStatus, StatusResult
  <2>2. s = m.slot /\ s \notin DOMAIN se /\ PartsInv(fl, se, so, qu, o) /\ d = Rec(fl, se, so, qu)
        /\ m.kind \in StatusKinds
    BY <1>0, <1>3
  <2> QED BY ONLY <2>1, <2>2, SteadyServer, m \in Messages, StatusUnsealed
<1>4. CASE ~(m.kind = "created" /\ ~Replaying(d, s)) /\ s \in DOMAIN se
  <2>1. r = SealedResult(d, m)
    BY <1>0, <1>1, <1>4 DEF ObserveStatus, SealedResult
  <2>2. s = m.slot /\ s \in DOMAIN se /\ m.kind \in StatusKinds
    BY <1>0, <1>4
  <2>3. PartsInv(fl, se, so, qu, o) /\ d = Rec(fl, se, so, qu)
    OBVIOUS
  <2> QED BY ONLY <2>1, <2>2, <2>3, SteadyServer, m \in Messages, StatusSealed
<1> QED BY <1>2, <1>3, <1>4

LEMMA AppendedRange ==
    ASSUME NEW T, NEW q \in Seq(T), NEW x \in T
    PROVE  /\ Append(q, x) \in Seq(T) /\ x \in Range(Append(q, x))
           /\ \A y \in Range(q) : y \in Range(Append(q, x))
           /\ \A y \in Range(Append(q, x)) : y \in Range(q) \/ y = x
<1>1. PICK l \in Nat : l = Len(q) /\ DOMAIN q = 1..l
    BY LenProperties
<1>2. PICK p : p = Append(q, x)
    OBVIOUS
<1>3. p \in Seq(T) /\ DOMAIN p = 1..(l + 1) /\ p[l + 1] = x /\ \A i \in 1..l : p[i] = q[i]
    BY <1>1, <1>2, AppendProperties, LenProperties
<1>4. l + 1 \in DOMAIN p /\ \A i \in DOMAIN q : i \in DOMAIN p
    BY <1>1, <1>3
<1>5. \A i \in DOMAIN p : i \in DOMAIN q \/ i = l + 1
    BY <1>1, <1>3
<1>6. x \in Range(p) /\ \A y \in Range(q) : y \in Range(p)
    BY <1>1, <1>3, <1>4 DEF Range
<1>7. \A y \in Range(p) : y \in Range(q) \/ y = x
    BY <1>1, <1>3, <1>5 DEF Range
<1> QED BY <1>2, <1>3, <1>6, <1>7

\* A payload of a slot that is sealed or replayed waits.
Waits(fl, se, s) == s \in DOMAIN se \/ (s \in DOMAIN fl /\ fl[s].replaying)
WaitResult(d, m) == Result([d EXCEPT !.quarantine[m.slot] = Append(@, m)], <<>>)

LEMMA DataWaits ==
    ASSUME SteadyServer, NEW fl, NEW se, NEW so, NEW qu, NEW o, NEW d, NEW m \in Messages, NEW s,
           PartsInv(fl, se, so, qu, o), d = Rec(fl, se, so, qu), s = m.slot, m.kind = "data",
           Waits(fl, se, s), NEW r, r = WaitResult(d, m)
    PROVE  GoodParts(qu, o, m, r.d, r.msgs, o \cup Range(r.msgs))
<1>0. s \in Slots /\ \E a \in Data : m = DataMsg(s, a, TheNode)
    BY MessageForms DEF StatusKinds
<1>1. d.quarantine = qu
    BY RecFields
<1>2. /\ IsMap(fl, SlotStates) /\ IsMap(se, SealedStates) /\ qu \in [Slots -> Seq(Messages)]
      /\ OrderShape(fl, se, so) /\ SlotInv(fl, se, qu, o, s)
    BY <1>0 DEF PartsInv
<1>3. PICK q : q = Append(qu[s], m)
    OBVIOUS
<1>4. qu[s] \in Seq(Messages)
    BY <1>0, <1>2
<1>5. /\ q \in Seq(Messages) /\ m \in Range(q)
      /\ \A y \in Range(qu[s]) : y \in Range(q)
      /\ \A y \in Range(q) : y \in Range(qu[s]) \/ y = m
    BY <1>3, <1>4, AppendedRange
<1>6. PICK qu2 : qu2 = [qu EXCEPT ![s] = q]
    OBVIOUS
<1>7. qu2 \in [Slots -> Seq(Messages)] /\ qu2[s] = q /\ \A t \in Slots : t # s => qu2[t] = qu[t]
    BY <1>0, <1>2, <1>5, <1>6
<1>8. Agree(fl, se, qu, fl, se, qu2, s)
    BY <1>7 DEF Agree
<1>9. SlotInv(fl, se, qu2, o, s)
  <2>1. \A i \in DOMAIN q : \E a \in Data : q[i] = DataMsg(s, a, TheNode)
    <3>1. \A i \in DOMAIN q : q[i] \in Range(q)
        BY DEF Range
    <3>2. \A y \in Range(qu[s]) : \E a \in Data : y = DataMsg(s, a, TheNode)
        BY <1>2 DEF SlotInv, Range
    <3> QED BY <1>0, <1>5, <3>1, <3>2
  <2> QED BY <1>2, <1>7, <2>1 DEF SlotInv, Waits
<1>10. PartsInv(fl, se, so, qu2, o)
    BY <1>0, <1>2, <1>7, <1>8, <1>9, PartsStep
<1>11. PICK g : g = Rec(fl, se, so, qu2)
    OBVIOUS
<1>12. r.d = g /\ r.msgs = <<>> /\ g.quarantine = qu2
  <2>1. [d EXCEPT !.quarantine[s] = Append(@, m)] = [d EXCEPT !.quarantine = qu2]
    BY <1>1, <1>3, <1>6
  <2>2. [d EXCEPT !.quarantine = qu2] = g
    BY <1>11, RecFields
  <2>3. r.d = [d EXCEPT !.quarantine[s] = Append(@, m)] /\ r.msgs = <<>>
    BY DEF WaitResult, Result
  <2>4. g.quarantine = qu2
    BY <1>11, RecFields
  <2> QED BY <2>1, <2>2, <2>3, <2>4
<1>13. DedupInv(g, o)
    BY <1>10, <1>11, PartsAreDedup
<1>14. \A t \in Slots : \A x \in Range(qu[t]) : x \in Range(qu2[t])
    BY <1>5, <1>7
<1>15. GoodParts(qu, o, m, g, <<>>, o)
    BY <1>5, <1>7, <1>12, <1>13, <1>14, HandedNothing
<1> QED BY <1>12, <1>15, NothingHandedOn

\* A payload of a slot in flight
DataResult(e, m) ==
    IF m.arg \in e.inflight[m.slot].keys
    THEN Result(e, <<>>)
    ELSE Result(Prune([e EXCEPT !.inflight[m.slot].keys = @ \cup {m.arg}]), <<m>>)

LEMMA DataInflight ==
    ASSUME SteadyServer, NEW fl, NEW se, NEW so, NEW qu, NEW o, NEW d, NEW m \in Messages, NEW s,
           PartsInv(fl, se, so, qu, o), d = Rec(fl, se, so, qu), s = m.slot, s \notin DOMAIN se,
           m.kind = "data", NEW r, r = DataResult(SlotMut(d, s), m)
    PROVE  GoodParts(qu, o, m, r.d, r.msgs, o \cup Range(r.msgs))
<1>0. s \in Slots /\ m.arg \in Data /\ m = DataMsg(s, m.arg, TheNode)
    BY MessageForms, MessageFields DEF StatusKinds
<1>1. PICK fl1 : fl1 = Started(fl, s)
    OBVIOUS
<1>2. PICK so1 : so1 = Listed(fl, se, so, s)
    OBVIOUS
<1>3. PICK f : f = SlotMut(d, s)
    OBVIOUS
<1>4. /\ f = Rec(fl1, se, so1, qu) /\ PartsInv(fl1, se, so1, qu, o) /\ s \in DOMAIN fl1
  <2>1. /\ SlotMut(d, s) = Rec(fl1, se, so1, qu)
        /\ PartsInv(fl1, se, so1, qu, o)
        /\ s \in DOMAIN fl1
        /\ fl1[s] = Begun(fl, s)
    BY <1>0, <1>1, <1>2, StartSlot
  <2> QED BY <1>3, <2>1
<1> HIDE <1>1, <1>2
<1>5. f.inflight = fl1 /\ f.quarantine = qu
    BY <1>4, RecFields
<1>6. /\ IsMap(fl1, SlotStates) /\ IsMap(se, SealedStates) /\ qu \in [Slots -> Seq(Messages)]
      /\ OrderShape(fl1, se, so1) /\ SlotInv(fl1, se, qu, o, s)
    BY <1>0, <1>4 DEF PartsInv
<1>7. CASE m.arg \in fl1[s].keys
  <2>1. r = Result(f, <<>>)
    BY <1>3, <1>5, <1>7 DEF DataResult
  <2>2. r.d = f /\ r.msgs = <<>>
    BY <2>1 DEF Result
  <2>3. DedupInv(f, o)
    BY <1>4, PartsAreDedup
  <2>4. m \in o
    BY <1>0, <1>4, <1>6, <1>7 DEF SlotInv
  <2>5. GoodParts(qu, o, m, f, <<>>, o)
    BY <1>5, <2>3, <2>4, HandedNothing
  <2> QED BY <2>2, <2>5, NothingHandedOn
<1>8. CASE m.arg \notin fl1[s].keys
  <2>1. PICK v : v = [fl1[s] EXCEPT !.keys = @ \cup {m.arg}]
    OBVIOUS
  <2>2. PICK fl2 : fl2 = [fl1 EXCEPT ![s] = v]
    OBVIOUS
  <2>4. /\ v \in SlotStates /\ v.keys = fl1[s].keys \cup {m.arg} /\ v.replaying = fl1[s].replaying
        /\ v.statuses = fl1[s].statuses
    <3>1. fl1[s] \in SlotStates
        BY <1>4, <1>6 DEF IsMap
    <3> QED BY <1>0, <2>1, <3>1 DEF SlotStates
  <2>5. /\ IsMap(fl2, SlotStates) /\ DOMAIN fl2 = DOMAIN fl1 /\ fl2[s] = v
        /\ \A t \in DOMAIN fl1 : t # s => fl2[t] = fl1[t]
    BY <1>4, <1>6, <2>2, <2>4, ChangeEntry
  <2>6. OrderShape(fl2, se, so1)
    BY <1>6, <2>5, OrderKept
  <2>7. Agree(fl1, se, qu, fl2, se, qu, s)
    BY <2>5 DEF Agree
  <2>8. SlotInv(fl2, se, qu, o \cup {m}, s)
    <3>1. /\ \A a : DataMsg(s, a, TheNode) \in o \cup {m} <=> DataMsg(s, a, TheNode) \in o \/ a = m.arg
          /\ MetaMsg(s, TheNode) \in o \cup {m} <=> MetaMsg(s, TheNode) \in o
          /\ \A k \in StatusKinds : Msg(k, s, 0, 0) \in o \cup {m} => Msg(k, s, 0, 0) \in o
        BY <1>0, MessageFields DEF StatusKinds
    <3> QED BY <1>4, <1>6, <2>4, <2>5, <3>1 DEF SlotInv
  <2>9. PartsInv(fl2, se, so1, qu, o \cup {m})
    BY <1>0, <1>4, <1>6, <2>5, <2>6, <2>7, <2>8, PartsStep
  <2>10. m \notin o
    BY <1>0, <1>4, <1>6, <1>8 DEF SlotInv
  <2>11. PICK g : g = Rec(fl2, se, so1, qu)
    OBVIOUS
  <2>12. r = Result(g, <<m>>)
    <3>1. [f EXCEPT !.inflight[s].keys = @ \cup {m.arg}] = [f EXCEPT !.inflight = fl2]
        BY <1>5, <2>1, <2>2
    <3>2. [f EXCEPT !.inflight = fl2] = g
        BY <1>4, <2>11, RecFields
    <3>3. Prune(g) = g
        BY <1>6, <2>5, <2>6, <2>11, PruneKeeps
    <3> QED BY <1>3, <1>5, <1>8, <3>1, <3>2, <3>3 DEF DataResult
  <2>13. r.d = g /\ r.msgs = <<m>> /\ g.quarantine = qu
    BY <2>11, <2>12, RecFields DEF Result
  <2>14. DedupInv(g, o \cup {m})
    BY <2>9, <2>11, PartsAreDedup
  <2>15. GoodParts(qu, o, m, g, <<m>>, o \cup {m})
    BY <1>0, <2>10, <2>13, <2>14, HandedOne
  <2> QED BY <2>13, <2>15, OneHandedOn
<1> QED BY <1>7, <1>8

LEMMA DataObserved ==
    ASSUME SteadyServer, NEW fl, NEW se, NEW so, NEW qu, NEW o, NEW d, NEW m \in Messages,
           PartsInv(fl, se, so, qu, o), d = Rec(fl, se, so, qu), m.kind = "data",
           NEW r, r = ObserveData(d, m)
    PROVE  GoodParts(qu, o, m, r.d, r.msgs, o \cup Range(r.msgs))
<1>0. PICK s \in Slots : s = m.slot
    BY MessageForms
<1>1. d.inflight = fl /\ d.sealed = se
    BY RecFields
<1>2. CASE Waits(fl, se, s)
  <2>1. r = WaitResult(d, m)
    BY <1>0, <1>1, <1>2 DEF ObserveData, Replaying, Waits, WaitResult
  <2>2. s = m.slot /\ PartsInv(fl, se, so, qu, o) /\ d = Rec(fl, se, so, qu) /\ m.kind = "data"
    BY <1>0
  <2> QED BY ONLY <1>2, <2>1, <2>2, SteadyServer, m \in Messages, DataWaits
<1>3. CASE ~Waits(fl, se, s)
  <2>1. r = DataResult(SlotMut(d, s), m)
    BY <1>0, <1>1, <1>3 DEF ObserveData, Replaying, Waits, DataResult
  <2>2. s = m.slot /\ s \notin DOMAIN se /\ PartsInv(fl, se, so, qu, o) /\ d = Rec(fl, se, so, qu)
        /\ m.kind = "data"
    BY <1>0, <1>3 DEF Waits
  <2> QED BY ONLY <2>1, <2>2, SteadyServer, m \in Messages, DataInflight
<1> QED BY <1>2, <1>3

\* The places of a slot's quarantine that the user is still waiting for
Awaited(held, keys) ==
    {i \in DOMAIN held : held[i].arg \notin keys /\ \A j \in 1..(i - 1) : held[j].arg # held[i].arg}

PayloadsOnly(held, s) == \A i \in DOMAIN held : \E a \in Data : held[i] = DataMsg(s, a, TheNode)

\* reconcile hands on each awaited payload once.
LEMMA Reconciled ==
    ASSUME NEW s, NEW held \in Seq(Messages), NEW keys, NEW p, p = Pick(held, Awaited(held, keys)),
           PayloadsOnly(held, s)
    PROVE  /\ p \in Seq(Messages)
           /\ \A k \in DOMAIN p : \E a \in Data \ keys : p[k] = DataMsg(s, a, TheNode)
           /\ \A k, l \in DOMAIN p : p[k] = p[l] => k = l
           /\ \A i \in DOMAIN held : held[i].arg \in keys \/ \E k \in DOMAIN p : p[k] = held[i]
<1>1. PICK P : P = Awaited(held, keys)
    OBVIOUS
<1>2. P \in SUBSET DOMAIN held /\ p = Pick(held, P)
    BY <1>1 DEF Awaited
<1>3. /\ p \in Seq(Messages)
      /\ \A k \in DOMAIN p : \E i \in P : p[k] = held[i]
      /\ \A i \in P : \E k \in DOMAIN p : p[k] = held[i]
      /\ \A k, l \in DOMAIN p :
            k # l => \E i, j \in P : i # j /\ p[k] = held[i] /\ p[l] = held[j]
    BY ONLY <1>2, held \in Seq(Messages), PickNamed
<1>4. PICK n \in Nat : DOMAIN held = 1..n
    BY LenProperties
<1>5. \A i \in P : i \in 1..n /\ held[i].arg \notin keys /\ \A j \in 1..(i - 1) : held[j].arg # held[i].arg
    BY <1>1, <1>4 DEF Awaited
<1>6. \A i \in 1..n : \E a \in Data : held[i] = DataMsg(s, a, TheNode) /\ held[i].arg = a
    BY <1>4, MessageFields DEF PayloadsOnly
<1>7. \A i, j \in P : held[i] = held[j] => i = j
  <2> SUFFICES ASSUME NEW i \in P, NEW j \in P, held[i] = held[j], i < j PROVE FALSE
    BY <1>5
  <2>1. i \in 1..(j - 1)
    BY <1>5
  <2> QED BY <1>5, <2>1
<1>8. \A k, l \in DOMAIN p : p[k] = p[l] => k = l
  <2> SUFFICES ASSUME NEW k \in DOMAIN p, NEW l \in DOMAIN p, p[k] = p[l], k # l PROVE FALSE
    OBVIOUS
  <2>1. PICK i \in P, j \in P : i # j /\ p[k] = held[i] /\ p[l] = held[j]
    BY <1>3
  <2> QED BY <1>7, <2>1
<1>9. \A k \in DOMAIN p : \E a \in Data \ keys : p[k] = DataMsg(s, a, TheNode)
  <2> SUFFICES ASSUME NEW k \in DOMAIN p PROVE \E a \in Data \ keys : p[k] = DataMsg(s, a, TheNode)
    OBVIOUS
  <2>1. PICK i \in P : p[k] = held[i]
    BY <1>3
  <2>2. i \in 1..n /\ held[i].arg \notin keys
    BY <1>5
  <2> QED BY <1>6, <2>1, <2>2
<1>10. ASSUME NEW i \in 1..n, held[i].arg \notin keys PROVE \E k \in DOMAIN p : p[k] = held[i]
  <2>1. PICK S : S = {j \in Nat : j \in 1..n /\ held[j].arg = held[i].arg}
    OBVIOUS
  <2>2. i \in S /\ S \subseteq Nat
    BY <2>1
  <2>3. PICK j \in S : \A h \in S : ~(<<h, j>> \in OpToRel(<, Nat))
    BY <2>2, WFMin, NatLessThanWellFounded
  <2>4. j \in 1..n /\ held[j].arg = held[i].arg
    BY <2>1
  <2>5. \A h \in 1..(j - 1) : held[h].arg # held[j].arg
    <3> SUFFICES ASSUME NEW h \in 1..(j - 1), held[h].arg = held[j].arg PROVE FALSE
        OBVIOUS
    <3>1. h \in S /\ h < j
        BY <2>1, <2>4
    <3> QED BY <2>2, <2>3, <3>1 DEF OpToRel
  <2>6. j \in P
    BY <1>1, <1>4, <1>10, <2>4, <2>5 DEF Awaited
  <2>7. held[j] = held[i]
    BY <1>6, <2>4
  <2> QED BY <1>3, <2>6, <2>7
<1> QED BY <1>3, <1>4, <1>8, <1>9, <1>10

\* The BlockMeta of a sealed slot ends its quarantine.
LEMMA MetaSealed ==
    ASSUME SteadyServer, NEW fl, NEW se, NEW so, NEW qu, NEW o, NEW d, NEW m \in Messages, NEW s,
           PartsInv(fl, se, so, qu, o), d = Rec(fl, se, so, qu), s = m.slot, s \in DOMAIN se,
           m.kind = "meta", NEW r, r = ObserveMeta(d, m)
    PROVE  GoodParts(qu, o, m, r.d, r.msgs, o \cup Range(r.msgs))
<1>0. s \in Slots /\ m = MetaMsg(s, TheNode) /\ m.node = TheNode
    BY MessageForms, MessageFields DEF StatusKinds
<1>1. d.inflight = fl /\ d.sealed = se /\ d.slot_order = so /\ d.quarantine = qu
    BY RecFields
<1>2. /\ IsMap(fl, SlotStates) /\ IsMap(se, SealedStates) /\ qu \in [Slots -> Seq(Messages)]
      /\ OrderShape(fl, se, so) /\ SlotInv(fl, se, qu, o, s)
    BY <1>0 DEF PartsInv
<1>3. se[s] \in SealedStates /\ se[s].blockhash = TheNode
  <2>1. se[s] \in SealedStates
    BY <1>2 DEF IsMap
  <2> QED BY <2>1, OneNode DEF SealedStates
<1>4. PICK v : v = [se[s] EXCEPT !.blockhash = m.node]
    OBVIOUS
<1>5. v = se[s]
    BY <1>0, <1>3, <1>4 DEF SealedStates
<1>6. PICK qu2 : qu2 = [qu EXCEPT ![s] = <<>>]
    OBVIOUS
<1>7. qu2 \in [Slots -> Seq(Messages)] /\ qu2[s] = <<>> /\ \A t \in Slots : t # s => qu2[t] = qu[t]
    BY ONLY <1>0, <1>2, <1>6, NothingHandedOn
<1>8. PICK g : g = Rec(fl, se, so, qu2)
    OBVIOUS
<1>9. r.d = g /\ r.msgs = <<>> /\ g.quarantine = qu2
  <2>1. SameBlock(d, m)
    BY <1>0, <1>1, <1>3 DEF SameBlock
  <2>2. r = Result([d EXCEPT !.sealed[s].blockhash = m.node, !.quarantine[s] = <<>>], <<>>)
    BY <1>1, <2>1 DEF ObserveMeta
  <2>3. [se EXCEPT ![s] = v] = se
    BY <1>2, <1>5 DEF IsMap
  <2>4. PICK h : h = [d EXCEPT !.sealed = [se EXCEPT ![s] = v]]
    OBVIOUS
  <2>5. h = d
    <3>1. h = [d EXCEPT !.sealed = se]
        BY <2>3, <2>4
    <3>2. [d EXCEPT !.sealed = se] = Rec(fl, se, so, qu)
        BY RecFields
    <3> QED BY <3>1, <3>2
  <2>8. [d EXCEPT !.sealed[s].blockhash = m.node, !.quarantine[s] = <<>>] = [h EXCEPT !.quarantine = qu2]
    BY <1>1, <1>4, <1>6, <2>4
  <2>9. [d EXCEPT !.quarantine = qu2] = g
    BY <1>8, RecFields
  <2>6. r.d = [d EXCEPT !.sealed[s].blockhash = m.node, !.quarantine[s] = <<>>] /\ r.msgs = <<>>
    BY <2>2 DEF Result
  <2>7. g.quarantine = qu2
    BY <1>8, RecFields
  <2> QED BY <2>5, <2>6, <2>7, <2>8, <2>9
<1>10. Agree(fl, se, qu, fl, se, qu2, s)
    BY <1>7 DEF Agree
<1>11. SlotInv(fl, se, qu2, o, s)
    BY <1>2, <1>7 DEF SlotInv
<1>12. PartsInv(fl, se, so, qu2, o)
    BY <1>0, <1>2, <1>7, <1>10, <1>11, PartsStep
<1>13. DedupInv(g, o)
    BY <1>8, <1>12, PartsAreDedup
<1>14. m \in o
    BY <1>0, <1>2 DEF SlotInv
<1>15. \A t \in Slots : \A x \in Range(qu[t]) :
          x \in Range(g.quarantine[t]) \/ (t = m.slot /\ m.kind = "meta" /\ MetaMsg(t, TheNode) \in o)
    BY <1>0, <1>7, <1>9, <1>14
<1>16. GoodParts(qu, o, m, g, <<>>, o)
    BY <1>7, <1>9, <1>13, <1>14, <1>15, HandedNothing
<1> QED BY <1>9, <1>16, NothingHandedOn

\* r is q followed by x.
ThenJust(q, x, r, T) ==
    /\ r \in Seq(T) /\ Range(r) = Range(q) \cup {x}
    /\ \E l \in Nat : /\ DOMAIN q = 1..l /\ DOMAIN r = 1..(l + 1) /\ r[l + 1] = x
                      /\ \A i \in 1..l : r[i] = q[i]

LEMMA ThenOne ==
    ASSUME NEW T, NEW q \in Seq(T), NEW x \in T, NEW p, p = q \o <<x>>
    PROVE  ThenJust(q, x, p, T)
<1>1. PICK l \in Nat : l = Len(q) /\ DOMAIN q = 1..l
    BY LenProperties
<1>2. p = Append(q, x)
    OBVIOUS
<1>3. p \in Seq(T) /\ DOMAIN p = 1..(l + 1) /\ p[l + 1] = x /\ \A i \in 1..l : p[i] = q[i]
    BY <1>1, <1>2, AppendProperties, LenProperties
<1>4. Range(p) = Range(q) \cup {x}
  <2>1. l + 1 \in DOMAIN p /\ \A i \in DOMAIN q : i \in DOMAIN p
    BY <1>1, <1>3
  <2>2. \A i \in DOMAIN p : i \in DOMAIN q \/ i = l + 1
    BY <1>1, <1>3
  <2>3. \A y \in Range(q) \cup {x} : y \in Range(p)
    BY <1>1, <1>3, <2>1 DEF Range
  <2>4. \A y \in Range(p) : y \in Range(q) \cup {x}
    BY <1>1, <1>3, <2>2 DEF Range
  <2> QED BY <2>3, <2>4
<1> QED BY <1>1, <1>3, <1>4 DEF ThenJust

\* Besides the BlockMeta, only payloads of its slot are handed on.
Released(o, o2, m, s) ==
    /\ o \subseteq o2 /\ m \in o2
    /\ \A x \in o2 : x \in o \/ x = m \/ \E a \in Data : x = DataMsg(s, a, TheNode)

\* The slot's state before its first BlockMeta, and what it becomes
Seal(fl, s) == [blockhash |-> TheNode, statuses |-> Begun(fl, s).statuses]

LEMMA SealSlot ==
    ASSUME SteadyServer, NEW fl, NEW se, NEW so, NEW qu, NEW o, NEW d, NEW m \in Messages, NEW s,
           PartsInv(fl, se, so, qu, o), d = Rec(fl, se, so, qu), s = m.slot, s \notin DOMAIN se,
           m.kind = "meta", NEW fl2, fl2 = Drop(fl, {s}), NEW se2, se2 = Put(se, s, Seal(fl, s)),
           NEW qu2, qu2 = [qu EXCEPT ![s] = <<>>], NEW o2, Released(o, o2, m, s)
    PROVE  PartsInv(fl2, se2, so, qu2, o2)
<1>0. s \in Slots /\ m = MetaMsg(s, TheNode)
    BY MessageForms DEF StatusKinds
<1>1. /\ IsMap(fl, SlotStates) /\ IsMap(se, SealedStates) /\ qu \in [Slots -> Seq(Messages)]
      /\ OrderShape(fl, se, so) /\ SlotInv(fl, se, qu, o, s)
    BY <1>0 DEF PartsInv
<1>2. Begun(fl, s) \in SlotStates
    BY <1>1, NewSlotFields DEF Begun, IsMap
<1>3. PICK v \in SealedStates : v = Seal(fl, s) /\ v.statuses = Begun(fl, s).statuses
    BY <1>2, OneNode DEF Seal, SlotStates, SealedStates
<1>4. /\ IsMap(fl2, SlotStates) /\ DOMAIN fl2 = DOMAIN fl \ {s}
      /\ \A t \in DOMAIN fl : t # s => fl2[t] = fl[t]
    BY <1>1 DEF IsMap, Drop
<1>5. /\ IsMap(se2, SealedStates) /\ DOMAIN se2 = DOMAIN se \cup {s} /\ se2[s] = v
      /\ \A t \in DOMAIN se : t # s => se2[t] = se[t]
  <2>1. se2 = Put(se, s, v)
    BY <1>3
  <2> HIDE <1>3
  <2> QED BY <1>0, <1>1, <2>1 DEF IsMap, Put
<1>6. qu2 \in [Slots -> Seq(Messages)] /\ qu2[s] = <<>> /\ \A t \in Slots : t # s => qu2[t] = qu[t]
    BY ONLY <1>0, <1>1, qu2 = [qu EXCEPT ![s] = <<>>], NothingHandedOn
<1>7. OrderShape(fl2, se2, so)
    BY <1>1, <1>4, <1>5, OrderKept
<1>8. Agree(fl, se, qu, fl2, se2, qu2, s)
    BY <1>4, <1>5, <1>6 DEF Agree
<1>9. o \subseteq o2 /\ \A x \in o2 : x \in o \/ x.slot = s
    BY MessageFields DEF Released
<1>10. SlotInv(fl2, se2, qu2, o2, s)
  <2>1. \A k \in StatusKinds : Msg(k, s, 0, 0) \in o2 => k \in v.statuses
    <3> SUFFICES ASSUME NEW k \in StatusKinds, Msg(k, s, 0, 0) \in o2 PROVE k \in Begun(fl, s).statuses
        BY <1>3
    <3>1. Msg(k, s, 0, 0) \in o
        BY <1>0, MessageFields DEF StatusKinds, Released
    <3> QED BY <1>1, <3>1 DEF SlotInv, Begun
  <2>2. MetaMsg(s, TheNode) \in o2
    BY <1>0 DEF Released
  <2>3. s \in DOMAIN se2 /\ s \notin DOMAIN fl2 /\ se2[s].statuses = v.statuses
    BY <1>4, <1>5
  <2>4. DOMAIN qu2[s] = {}
    BY <1>6
  <2> QED BY <1>6, <2>1, <2>2, <2>3, <2>4 DEF SlotInv
<1>11. /\ s \in Slots /\ PartsInv(fl, se, so, qu, o)
       /\ IsMap(fl2, SlotStates) /\ IsMap(se2, SealedStates) /\ qu2 \in [Slots -> Seq(Messages)]
       /\ OrderShape(fl2, se2, so) /\ Agree(fl, se, qu, fl2, se2, qu2, s)
       /\ o \subseteq o2 /\ (\A x \in o2 : x \in o \/ x.slot = s) /\ SlotInv(fl2, se2, qu2, o2, s)
    BY ONLY <1>0, <1>4, <1>5, <1>6, <1>7, <1>8, <1>9, <1>10, PartsInv(fl, se, so, qu, o)
<1> QED BY ONLY <1>11, PartsStep

\* The first BlockMeta of a slot seals it, and a replayed slot is reconciled.
LEMMA MetaUnsealed ==
    ASSUME SteadyServer, NEW fl, NEW se, NEW so, NEW qu, NEW o, NEW d, NEW m \in Messages, NEW s,
           PartsInv(fl, se, so, qu, o), d = Rec(fl, se, so, qu), s = m.slot, s \notin DOMAIN se,
           m.kind = "meta", NEW r, r = ObserveMeta(d, m)
    PROVE  GoodParts(qu, o, m, r.d, r.msgs, o \cup Range(r.msgs))
<1>0. s \in Slots /\ m = MetaMsg(s, TheNode) /\ m.node = TheNode
    BY MessageForms, MessageFields DEF StatusKinds
<1>1. d.inflight = fl /\ d.sealed = se /\ d.slot_order = so /\ d.quarantine = qu
    BY RecFields
<1>2. /\ IsMap(fl, SlotStates) /\ IsMap(se, SealedStates) /\ qu \in [Slots -> Seq(Messages)]
      /\ OrderShape(fl, se, so) /\ SlotInv(fl, se, qu, o, s)
    BY <1>0 DEF PartsInv
<1>3. PICK fl2 : fl2 = Drop(fl, {s})
    OBVIOUS
<1>4. PICK se2 : se2 = Put(se, s, Seal(fl, s))
    OBVIOUS
<1>5. PICK qu2 : qu2 = [qu EXCEPT ![s] = <<>>]
    OBVIOUS
<1>6. qu2 \in [Slots -> Seq(Messages)] /\ qu2[s] = <<>> /\ \A t \in Slots : t # s => qu2[t] = qu[t]
    BY ONLY <1>0, <1>2, <1>5, NothingHandedOn
<1>7. PICK old : old = Begun(fl, s)
    OBVIOUS
<1>8. PICK e : e = Rec(fl2, se2, so, qu)
    OBVIOUS
<1>9. Prune([d EXCEPT !.inflight = Drop(@, {s}), !.sealed = Put(@, s, Seal(fl, s))]) = e
  <2>1. PICK h : h = [d EXCEPT !.inflight = fl2]
    OBVIOUS
  <2>2. h = Rec(fl2, se, so, qu) /\ h.sealed = se
    BY <2>1, RecFields
  <2>3. [d EXCEPT !.inflight = Drop(@, {s}), !.sealed = Put(@, s, Seal(fl, s))] = [h EXCEPT !.sealed = se2]
    BY <1>1, <1>3, <1>4, <2>1
  <2>4. [h EXCEPT !.sealed = se2] = e
    BY <1>8, <2>2, RecFields
  <2>5. Begun(fl, s) \in SlotStates
    BY <1>2, NewSlotFields DEF Begun, IsMap
  <2>6. Seal(fl, s) \in SealedStates
    BY <2>5, OneNode DEF Seal, SlotStates, SealedStates
  <2>7. IsMap(fl2, SlotStates) /\ DOMAIN fl2 = DOMAIN fl \ {s}
    BY <1>2, <1>3 DEF IsMap, Drop
  <2>8. IsMap(se2, SealedStates) /\ DOMAIN se2 = DOMAIN se \cup {s}
    BY <1>0, <1>2, <1>4, <2>6 DEF IsMap, Put
  <2>9. OrderShape(fl2, se2, so)
    BY <1>2, <2>7, <2>8, OrderKept
  <2>10. Prune(e) = e
    BY <1>8, <2>7, <2>8, <2>9, PruneKeeps
  <2> QED BY <2>3, <2>4, <2>10
<1>10. [blockhash |-> m.node, statuses |-> old.statuses] = Seal(fl, s)
    BY <1>0, <1>7 DEF Seal
<1>11. r = IF old.replaying
           THEN Result([e EXCEPT !.quarantine[s] = <<>>], Reconcile(d, s, old.keys) \o <<m>>)
           ELSE Result(e, <<m>>)
    BY <1>1, <1>7, <1>9, <1>10 DEF ObserveMeta, Begun
<1>12. PICK g : g = Rec(fl2, se2, so, qu2)
    OBVIOUS
<1>13. g.quarantine = qu2
    BY <1>12, RecFields
<1>14. m \notin o
    BY <1>0, <1>2 DEF SlotInv
<1>15. CASE ~old.replaying
  <2>1. qu[s] = <<>> /\ qu2 = qu
    BY <1>0, <1>2, <1>5, <1>7, <1>15 DEF SlotInv, Begun
  <2>2. r.d = g /\ r.msgs = <<m>>
    BY <1>8, <1>11, <1>12, <1>15, <2>1 DEF Result
  <2>3. PartsInv(fl2, se2, so, qu2, o \cup {m})
    <3>1. Released(o, o \cup {m}, m, s)
        BY DEF Released
    <3> QED BY <1>3, <1>4, <1>5, <3>1, SealSlot
  <2>4. DedupInv(g, o \cup {m})
    BY <1>12, <2>3, PartsAreDedup
  <2>5. GoodParts(qu, o, m, g, <<m>>, o \cup {m})
    BY <1>6, <1>13, <1>14, <2>1, <2>4, HandedOne
  <2> QED BY <2>2, <2>5, OneHandedOn
<1>16. CASE old.replaying
  <2>1. PICK p : p = Reconcile(d, s, old.keys)
    OBVIOUS
  <2>2. PICK msgs : msgs = p \o <<m>>
    OBVIOUS
  <2>3. r.d = g /\ r.msgs = msgs
    <3>1. r = Result([e EXCEPT !.quarantine[s] = <<>>], msgs)
        BY <1>11, <1>16, <2>1, <2>2
    <3>2. e.quarantine = qu
        BY <1>8, RecFields
    <3>3. [e EXCEPT !.quarantine[s] = <<>>] = [e EXCEPT !.quarantine = qu2]
        BY <1>5, <3>2
    <3>4. [e EXCEPT !.quarantine = qu2] = g
        BY <1>8, <1>12, RecFields
    <3> QED BY <3>1, <3>3, <3>4 DEF Result
  <2>4. PICK held \in Seq(Messages) : held = qu[s]
    BY <1>0, <1>2
  <2>5. PICK keys : keys = old.keys
    OBVIOUS
  <2>6. p = Pick(held, Awaited(held, keys))
    BY <1>1, <2>1, <2>4, <2>5 DEF Reconcile, Awaited
  <2>7. \A i \in DOMAIN held : \E a \in Data : held[i] = DataMsg(s, a, TheNode)
    BY <1>2, <2>4 DEF SlotInv
  <2>8. s \in DOMAIN fl /\ keys = fl[s].keys
    BY <1>7, <1>16, <2>5, NewSlotFields DEF Begun
  <2> HIDE <2>1, <2>4, <2>5
  <2>9. /\ p \in Seq(Messages)
        /\ \A k \in DOMAIN p : \E a \in Data \ keys : p[k] = DataMsg(s, a, TheNode)
        /\ \A k, l \in DOMAIN p : p[k] = p[l] => k = l
        /\ \A i \in DOMAIN held : held[i].arg \in keys \/ \E k \in DOMAIN p : p[k] = held[i]
    <3>1. PayloadsOnly(held, s)
        BY <2>7 DEF PayloadsOnly
    <3> QED BY ONLY <2>6, <3>1, held \in Seq(Messages), Reconciled
  <2>24. p \in Seq(Messages)
    BY <2>9
  <2>25. /\ msgs \in Seq(Messages)
         /\ \E l \in Nat : /\ DOMAIN p = 1..l /\ DOMAIN msgs = 1..(l + 1) /\ msgs[l + 1] = m
                           /\ \A i \in 1..l : msgs[i] = p[i]
         /\ Range(msgs) = Range(p) \cup {m}
    <3>1. PICK T : T = Messages
        OBVIOUS
    <3>2. p \in Seq(T) /\ m \in T
        BY ONLY <2>24, <3>1, m \in Messages
    <3>3. ThenJust(p, m, msgs, T)
        BY ONLY <2>2, <3>2, ThenOne
    <3> QED BY ONLY <3>1, <3>3 DEF ThenJust
  <2>10. PICK l \in Nat : /\ DOMAIN p = 1..l /\ DOMAIN msgs = 1..(l + 1) /\ msgs[l + 1] = m
                          /\ \A i \in 1..l : msgs[i] = p[i]
    BY ONLY <2>25
  <2>11. msgs \in Seq(Messages) /\ Range(msgs) = Range(p) \cup {m}
    BY ONLY <2>25
  <2>12. PICK o2 : o2 = o \cup Range(msgs)
    OBVIOUS
  <2>13. \A x \in Range(p) : x \notin o /\ \E a \in Data : x = DataMsg(s, a, TheNode)
    <3> SUFFICES ASSUME NEW k \in DOMAIN p PROVE p[k] \notin o /\ \E a \in Data : p[k] = DataMsg(s, a, TheNode)
        BY DEF Range
    <3>1. PICK a \in Data \ keys : p[k] = DataMsg(s, a, TheNode)
        BY <2>9
    <3>2. DataMsg(s, a, TheNode) \notin o
        BY <1>2, <2>8 DEF SlotInv
    <3> QED BY <3>1, <3>2
  <2>14. m \in o2 /\ o \subseteq o2
         /\ \A x \in o2 : x \in o \/ x = m \/ \E a \in Data : x = DataMsg(s, a, TheNode)
    BY <2>11, <2>12, <2>13
  <2>15. PartsInv(fl2, se2, so, qu2, o2)
    <3>1. Released(o, o2, m, s)
        BY <2>14 DEF Released
    <3> HIDE <2>12
    <3> QED BY <1>3, <1>4, <1>5, <3>1, SealSlot
  <2>16. DedupInv(g, o2)
    BY <1>12, <2>15, PartsAreDedup
  <2>17. \A i \in 1..(l + 1) : i \in 1..l \/ i = l + 1
    OBVIOUS
  <2>18. \A i \in 1..l : msgs[i] \in Range(p)
    BY <2>10 DEF Range
  <2>19. \A i \in DOMAIN msgs : msgs[i] \notin o /\ msgs[i].slot = s
    BY <1>0, <1>14, <2>10, <2>13, <2>17, <2>18, MessageFields
  <2>20. \A i, j \in DOMAIN msgs : msgs[i] = msgs[j] => i = j
    <3>1. \A i \in 1..l : msgs[i] # m
        BY <1>0, <2>13, <2>18, MessageFields
    <3>2. \A i, j \in 1..l : msgs[i] = msgs[j] => i = j
        BY <2>9, <2>10
    <3> QED BY <2>10, <2>17, <3>1, <3>2
  <2>21. \A x \in Range(qu[s]) : x \in o2
    <3> SUFFICES ASSUME NEW i \in DOMAIN held PROVE held[i] \in o2
        BY <2>4 DEF Range
    <3>1. PICK a \in Data : held[i] = DataMsg(s, a, TheNode) /\ held[i].arg = a
        BY <2>7, MessageFields
    <3>2. CASE a \in keys
        BY <1>2, <2>8, <2>14, <3>1, <3>2 DEF SlotInv
    <3>3. CASE \E k \in DOMAIN p : p[k] = held[i]
        BY <2>11, <2>12, <3>3 DEF Range
    <3> QED BY <2>9, <3>1, <3>2, <3>3
  <2>22. \A t \in Slots : \A x \in Range(qu[t]) : x \in o2 \/ x \in Range(g.quarantine[t])
    BY <1>6, <1>13, <2>21
  <2>23. GoodParts(qu, o, m, g, msgs, o2)
    BY <1>6, <1>13, <2>11, <2>12, <2>14, <2>16, <2>19, <2>20, <2>22 DEF GoodParts
  <2> QED BY <2>3, <2>12, <2>23
<1> QED BY <1>15, <1>16

\* What DedupStream does with a message that AutoReconnect lets through
LEMMA Observed ==
    ASSUME SteadyServer, NEW o, NEW d, NEW m \in Messages, DedupInv(d, o), m.kind # "internal",
           m.kind = "created" => Untouched(o, m.slot), NEW r, r = Observe(d, m)
    PROVE  GoodParts(d.quarantine, o, m, r.d, r.msgs, o \cup Range(r.msgs))
<1>1. PICK fl : fl = d.inflight
    OBVIOUS
<1>2. PICK se : se = d.sealed
    OBVIOUS
<1>3. PICK so : so = d.slot_order
    OBVIOUS
<1>4. PICK qu : qu = d.quarantine
    OBVIOUS
<1>5. PartsInv(fl, se, so, qu, o) /\ d = Rec(fl, se, so, qu)
    BY <1>1, <1>2, <1>3, <1>4 DEF DedupInv
<1> HIDE <1>1, <1>2, <1>3, <1>4
<1>6. CASE m.kind \in StatusKinds
  <2>1. r = ObserveStatus(d, m)
    BY <1>6 DEF Observe, StatusKinds
  <2> QED BY <1>4, <1>5, <1>6, <2>1, StatusObserved
<1>7. CASE m.kind = "meta"
  <2>1. r = ObserveMeta(d, m)
    BY <1>7 DEF Observe
  <2> QED BY <1>4, <1>5, <1>7, <2>1, MetaSealed, MetaUnsealed
<1>8. CASE m.kind = "data"
  <2>1. r = ObserveData(d, m)
    BY <1>8 DEF Observe
  <2> QED BY <1>4, <1>5, <1>8, <2>1, DataObserved
<1> QED BY <1>6, <1>7, <1>8, MessageForms

-----------------------------------------------------------------------------
(* The steps, and the request in force                                     *)

Open == conn \in {"up", "handshake"}

\* An open stream ends by an error that is retried, or for good.
LEMMA ResumeSteps ==
    ASSUME ResumeNext
    PROVE  \/ \E s \in Slots : conn # "stopped" /\ (CreateBank(s) \/ PublishBlock(s))
           \/ PruneOldest \/ ServeReplay \/ ReadRequest \/ Connected \/ Receive
           \/ Open /\ \E c \in {NoSlot, last_checkpoint} : Reconnect(c)
           \/ Open /\ Stop
           \/ \E error : ConnectFails(error)
           \/ \E meta \in UserMeta : StartSend(meta)
<1>1. \A code : Status(code) => (\E c \in {NoSlot, last_checkpoint} : Reconnect(c)) \/ Stop
    BY DEF Status
<1>2. CASE Cluster
    BY <1>2 DEF Cluster
<1>3. CASE Progress
  <2>1. CASE ServerError
    BY <1>1, <2>1 DEF ServerError, Open
  <2> QED BY <1>3, <2>1 DEF Progress
<1>4. CASE StreamEnd
    BY <1>4 DEF StreamEnd, Open
<1>5. CASE \E code \in Codes : StreamFails(code)
    BY <1>1, <1>5 DEF StreamFails, Open
<1> QED BY <1>2, <1>3, <1>4, <1>5 DEF ResumeNext

RequestRecords == [v : Nat, blocks_meta : {"own", "injected", "absent"}]

\* The request the server will have once it has read its channel
Upcoming == IF pending = <<>> THEN inforce ELSE Last(pending)

RequestsInv ==
    /\ conn \in {"up", "handshake", "connecting", "stopped"}
    /\ inforce \in RequestRecords /\ shared \in RequestRecords /\ base \in RequestRecords
    /\ pending \in Seq(RequestRecords)

\* An open stream is about to serve the user's latest request; between two connections it is
\* the request the next one is made with.
LatestInv ==
    /\ (Open /\ ~missed) => Upcoming = shared
    /\ conn = "connecting" => pending = <<>> /\ (~missed => base = shared)

LEMMA InjectType ==
    ASSUME NEW r \in RequestRecords
    PROVE  Inject(r) \in RequestRecords
BY DEF Inject, RequestRecords

LEMMA RequestType ==
    ASSUME NEW v \in Nat, NEW meta \in UserMeta
    PROVE  Request(v, meta) \in RequestRecords
<1>1. UserMeta \subseteq {"own", "absent"}
    BY ResumeAssumption DEF ResumeAssumption
<1> QED BY <1>1 DEF Request, RequestRecords

LEMMA RequestsStart == ResumeInit => RequestsInv /\ LatestInv
<1> SUFFICES ASSUME ResumeInit PROVE RequestsInv /\ LatestInv
    OBVIOUS
<1>1. inforce \in RequestRecords
  <2>1. PICK meta \in UserMeta :
           inforce = IF policy = "recover" THEN Inject(Request(0, meta)) ELSE Request(0, meta)
    BY DEF ResumeInit
  <2> QED BY <2>1, RequestType, InjectType
<1>2. pending \in Seq(RequestRecords)
    BY DEF ResumeInit
<1> QED BY <1>1, <1>2 DEF ResumeInit, RequestsInv, LatestInv, Upcoming

LEMMA RequestsStep ==
    ASSUME RequestsInv, LatestInv, [ResumeNext]_resumeVars
    PROVE  RequestsInv' /\ LatestInv'
<1> USE DEF RequestsInv, LatestInv, Upcoming, Open
<1>1. CASE UNCHANGED resumeVars
    BY <1>1 DEF resumeVars, serverVars, connectionVars, clientVars, requestVars
<1>2. CASE \E s \in Slots : CreateBank(s) \/ PublishBlock(s)
    BY <1>2 DEF CreateBank, PublishBlock, requestVars
<1>3. CASE PruneOldest
    BY <1>3 DEF PruneOldest, connectionVars, requestVars
<1>4. CASE ServeReplay
    BY <1>4 DEF ServeReplay, requestVars
<1>5. CASE ReadRequest
  <2>1. Last(pending) \in RequestRecords
    BY <1>5 DEF ReadRequest, Last
  <2>2. conn = "up" \/ conn = "handshake"
    BY <1>5 DEF ReadRequest
  <2>3. ~missed => Last(pending) = shared
    BY <1>5, <2>2 DEF ReadRequest
  <2>4. inforce' = Last(pending) /\ pending' = <<>> /\ conn' = "up"
        /\ shared' = shared /\ base' = base /\ missed' = missed
    BY <1>5 DEF ReadRequest
  <2> QED BY <2>1, <2>3, <2>4
<1>6. CASE Connected
  <2>1. inforce' = base /\ conn' \in {"up", "handshake"} /\ conn = "connecting"
        /\ pending' = pending /\ shared' = shared /\ base' = base /\ missed' = missed
    BY <1>6 DEF Connected
  <2> QED BY <2>1
<1>7. CASE Receive
    BY <1>7 DEF Receive, requestVars
<1>8. CASE \E c \in {NoSlot, last_checkpoint} : Reconnect(c)
    BY <1>8 DEF Reconnect, RequestToOpen
<1>9. CASE Stop
    BY <1>9 DEF Stop, requestVars
<1>10. CASE \E error : ConnectFails(error)
  <2>1. PICK error : ConnectFails(error)
    BY <1>10
  <2>2. conn = "connecting" /\ conn' \in {"connecting", "stopped"} /\ UNCHANGED requestVars
    BY <2>1 DEF ConnectFails
  <2> QED BY <2>2 DEF requestVars
<1>11. CASE \E meta \in UserMeta : StartSend(meta)
  <2>1. PICK meta \in UserMeta : StartSend(meta)
    BY <1>11
  <2>2. PICK own : own = Request(shared.v + 1, meta)
    OBVIOUS
  <2>3. PICK item : item = IF shared.blocks_meta = "injected" THEN Inject(own) ELSE own
    OBVIOUS
  <2>4. shared.v + 1 \in Nat
    BY DEF RequestRecords
  <2>5. item \in RequestRecords
    BY <2>2, <2>3, <2>4, RequestType, InjectType
  <2>6. /\ shared' = item /\ pending' = IF conn = "connecting" THEN pending ELSE Append(pending, item)
        /\ missed' = (missed \/ conn = "connecting")
        /\ conn' = conn /\ base' = base /\ inforce' = inforce
    BY <2>1, <2>2, <2>3 DEF StartSend, connectionVars
  <2>7. PICK longer : longer = Append(pending, item)
    OBVIOUS
  <2>8. longer \in Seq(RequestRecords) /\ longer # <<>> /\ Last(longer) = item
    BY <2>5, <2>7 DEF Last
  <2> HIDE <2>2, <2>3
  <2>9. CASE conn = "connecting"
    BY <2>5, <2>6, <2>9
  <2>10. CASE conn # "connecting"
    BY <2>5, <2>6, <2>7, <2>8, <2>10
  <2> QED BY <2>9, <2>10
<1> QED BY <1>1, <1>2, <1>3, <1>4, <1>5, <1>6, <1>7, <1>8, <1>9, <1>10, <1>11, ResumeSteps

\* An open stream whose server has read all requests serves the user's latest one, however often
\* the client reconnects; only a request the sink took between two connections may be missed.
THEOREM AlwaysLatestRequest == ResumeSpec => []LatestRequestInForce
<1>1. RequestsInv /\ LatestInv => LatestRequestInForce
    BY DEF LatestInv, Upcoming, LatestRequestInForce, Open
<1> QED BY <1>1, RequestsStart, RequestsStep, PTL DEF ResumeSpec

-----------------------------------------------------------------------------
(* Sequences                                                               *)

\* r is q, of length l, followed by p.
Joined(q, p, r, l, T) ==
    /\ r \in Seq(T) /\ DOMAIN q = 1..l
    /\ \A i \in DOMAIN q : i \in DOMAIN r /\ r[i] = q[i]
    /\ \A j \in DOMAIN p : l + j \in DOMAIN r /\ r[l + j] = p[j]
    /\ \A i \in DOMAIN r : i \in DOMAIN q \/ \E j \in DOMAIN p : i = l + j

LEMMA ConcatPlaces ==
    ASSUME NEW T, NEW q \in Seq(T), NEW p \in Seq(T), NEW r, r = q \o p
    PROVE  \E l \in Nat : Joined(q, p, r, l, T)
<1>1. PICK l \in Nat : l = Len(q) /\ DOMAIN q = 1..l
    BY LenProperties
<1>2. PICK n \in Nat : n = Len(p) /\ DOMAIN p = 1..n
    BY LenProperties
<1>3. r \in Seq(T) /\ DOMAIN r = 1..(l + n)
    BY <1>1, <1>2, ConcatProperties, LenProperties
<1>4. \A i \in 1..(l + n) : r[i] = IF i <= l THEN q[i] ELSE p[i - l]
    BY <1>1, <1>2, ConcatProperties
<1>5. \A i \in 1..l : i \in 1..(l + n) /\ r[i] = q[i]
    BY ONLY <1>4, l \in Nat, n \in Nat
<1>6. \A j \in 1..n : l + j \in 1..(l + n) /\ r[l + j] = p[j]
  <2>1. \A j \in 1..n : l + j \in 1..(l + n) /\ ~(l + j <= l) /\ (l + j) - l = j
    OBVIOUS
  <2> QED BY ONLY <1>4, <2>1
<1>7. ASSUME NEW i \in 1..(l + n) PROVE i \in 1..l \/ \E j \in 1..n : i = l + j
  <2>1. i > l => i - l \in 1..n /\ i = l + (i - l)
    OBVIOUS
  <2> QED BY <2>1
<1>8. Joined(q, p, r, l, T)
  <2>1. \A i \in DOMAIN q : i \in DOMAIN r /\ r[i] = q[i]
    BY ONLY <1>1, <1>3, <1>5
  <2>2. \A j \in DOMAIN p : l + j \in DOMAIN r /\ r[l + j] = p[j]
    BY ONLY <1>2, <1>3, <1>6
  <2>3. \A i \in DOMAIN r : i \in DOMAIN q \/ \E j \in DOMAIN p : i = l + j
    <3>1. DOMAIN q = 1..l /\ DOMAIN p = 1..n /\ DOMAIN r = 1..(l + n)
        BY ONLY <1>1, <1>2, <1>3
    <3>2. \A i \in 1..(l + n) : i \in 1..l \/ \E j \in 1..n : i = l + j
        BY <1>7
    <3> QED BY <3>1, <3>2, Zenon
  <2>4. r \in Seq(T) /\ DOMAIN q = 1..l
    BY ONLY <1>1, <1>3
  <2> QED BY ONLY <2>1, <2>2, <2>3, <2>4 DEF Joined
<1> QED BY <1>8

LEMMA TailPlaces ==
    ASSUME NEW T, NEW q \in Seq(T), q # <<>>, NEW r, r = Tail(q)
    PROVE  /\ r \in Seq(T) /\ 1 \in DOMAIN q /\ Head(q) = q[1]
           /\ \A i \in DOMAIN r : i \in Nat \ {0} /\ i + 1 \in DOMAIN q /\ r[i] = q[i + 1]
           /\ \A i \in DOMAIN q : i \in Nat \ {0} /\ (i # 1 => i - 1 \in DOMAIN r /\ r[i - 1] = q[i])
<1>1. PICK l \in Nat : l = Len(q) /\ DOMAIN q = 1..l
    BY LenProperties
<1>2. l > 0
    BY <1>1, EmptySeq
<1>3. r \in Seq(T) /\ DOMAIN r = 1..(l - 1) /\ Head(q) = q[1] /\ \A i \in 1..(l - 1) : r[i] = q[i + 1]
    BY <1>1, <1>2, HeadTailProperties, LenProperties
<1> QED BY <1>1, <1>2, <1>3

Before(q, i, x) == \E j \in 1..(i - 1) : q[j] = x

-----------------------------------------------------------------------------
(* The messages on the way                                                 *)

ServerErrors == {Error("OutOfRange"), Error("Internal")}
IsError(m) == m.kind \in {"OutOfRange", "Internal"}

\* Only slots of the server are on the way, and blocks only once they are published; an error of
\* the server comes first; and the status of a new bank precedes everything else of its slot.
Known(m, bk, dn) == m.slot \in bk /\ (m.kind # "created" => m.slot \in dn)
OthersBefore(q, i) == \A j \in 1..(i - 1) : IsError(q[j]) \/ q[j].slot # q[i].slot
GoodQueue(q, bk, dn, o) ==
    /\ q \in Seq(Messages \cup ServerErrors)
    /\ \A i \in DOMAIN q :
          /\ IsError(q[i]) => i = 1
          /\ ~IsError(q[i]) => q[i] \in Messages /\ Known(q[i], bk, dn)
          /\ q[i].kind = "created" => OthersBefore(q, i) /\ Untouched(o, q[i].slot)

LEMMA ErrorKinds ==
    ASSUME SteadyServer
    PROVE  /\ \A m \in Messages : ~IsError(m)
           /\ \A m \in ServerErrors : IsError(m) /\ m.kind # "created"
<1>1. \A m \in Messages : m.kind \in {"data", "meta", "internal", "created", "status"}
    BY MessageForms DEF StatusKinds
<1>2. \A m \in ServerErrors : m.kind \in {"OutOfRange", "Internal"}
    BY DEF ServerErrors, Error, Msg
<1> QED BY <1>1, <1>2 DEF IsError

LEMMA GoodEmpty ==
    ASSUME NEW bk, NEW dn, NEW o
    PROVE  GoodQueue(<<>>, bk, dn, o)
BY DEF GoodQueue

LEMMA GoodLater ==
    ASSUME NEW q, NEW bk, NEW dn, NEW o, NEW bk2, NEW dn2, GoodQueue(q, bk, dn, o),
           bk \subseteq bk2, dn \subseteq dn2
    PROVE  GoodQueue(q, bk2, dn2, o)
BY DEF GoodQueue, Known

\* The banks created in p are new to q.
BanksNew(q, p) ==
    \A i \in DOMAIN p, j \in DOMAIN q : p[i].kind = "created" => IsError(q[j]) \/ q[j].slot # p[i].slot

LEMMA GoodConcat ==
    ASSUME SteadyServer, NEW q, NEW p \in Seq(Messages), NEW bk, NEW dn, NEW o, NEW r,
           GoodQueue(q, bk, dn, o), GoodQueue(p, bk, dn, o), r = q \o p, BanksNew(q, p)
    PROVE  GoodQueue(r, bk, dn, o)
<1>1. PICK T : T = Messages \cup ServerErrors
    OBVIOUS
<1>2. q \in Seq(T) /\ p \in Seq(T)
    BY <1>1 DEF GoodQueue
<1>3. r = q \o p
    OBVIOUS
<1>4a. PICK l \in Nat : Joined(q, p, r, l, T)
    BY <1>2, <1>3, ConcatPlaces
<1>4. /\ r \in Seq(T) /\ DOMAIN q = 1..l
      /\ \A i \in DOMAIN q : i \in DOMAIN r /\ r[i] = q[i]
      /\ \A j \in DOMAIN p : l + j \in DOMAIN r /\ r[l + j] = p[j]
      /\ \A i \in DOMAIN r : i \in DOMAIN q \/ \E j \in DOMAIN p : i = l + j
    BY <1>4a DEF Joined
<1>5. \A j \in DOMAIN p : j \in Nat \ {0} /\ p[j] \in Messages /\ ~IsError(p[j])
    BY LenProperties, ElementOfSeq, ErrorKinds
<1>6. ASSUME NEW i \in DOMAIN q
      PROVE  /\ IsError(r[i]) => i = 1
             /\ ~IsError(r[i]) => r[i] \in Messages /\ Known(r[i], bk, dn)
             /\ r[i].kind = "created" => OthersBefore(r, i) /\ Untouched(o, r[i].slot)
  <2>1. r[i] = q[i]
    BY <1>4
  <2>2. \A j \in 1..(i - 1) : j \in DOMAIN q /\ r[j] = q[j]
    BY <1>4
  <2>3. OthersBefore(q, i) => OthersBefore(r, i)
    BY <2>1, <2>2 DEF OthersBefore
  <2> QED BY <2>1, <2>3 DEF GoodQueue
<1>7. ASSUME NEW k \in DOMAIN p, NEW i, i = l + k
      PROVE  /\ IsError(r[i]) => i = 1
             /\ ~IsError(r[i]) => r[i] \in Messages /\ Known(r[i], bk, dn)
             /\ r[i].kind = "created" => OthersBefore(r, i) /\ Untouched(o, r[i].slot)
  <2>a. k \in Nat
    BY <1>5
  <2>b. i \in Nat
    BY <1>4, <1>7, <2>a
  <2>c. r[i] = p[k]
    BY <1>4, <1>7
  <2>1. r[i] = p[k] /\ i \in Nat
    BY <2>b, <2>c
  <2>2. \A j \in 1..(i - 1) : \/ j \in DOMAIN q /\ r[j] = q[j]
                              \/ \E h \in 1..(k - 1) : h \in DOMAIN p /\ r[j] = p[h]
    <3> SUFFICES ASSUME NEW j \in 1..(i - 1), j \notin DOMAIN q
                 PROVE  \E h \in 1..(k - 1) : h \in DOMAIN p /\ r[j] = p[h]
        BY <1>4
    <3>1. j - l \in 1..(k - 1) /\ j = l + (j - l)
        BY <1>4, <1>5, <1>7
    <3>2. DOMAIN p = 1..Len(p) /\ Len(p) \in Nat
        BY LenProperties
    <3>3. j - l \in DOMAIN p
        BY <3>1, <3>2
    <3> QED BY <1>4, <3>1, <3>3
  <2>3. p[k].kind = "created" => OthersBefore(r, i)
    <3> SUFFICES ASSUME p[k].kind = "created", NEW j \in 1..(i - 1)
                 PROVE  IsError(r[j]) \/ r[j].slot # p[k].slot
        BY <2>1 DEF OthersBefore
    <3>1. OthersBefore(p, k)
        BY DEF GoodQueue
    <3> QED BY <2>2, <3>1 DEF OthersBefore, BanksNew
  <2> QED BY <1>5, <2>1, <2>3 DEF GoodQueue
<1> QED BY <1>1, <1>4, <1>6, <1>7 DEF GoodQueue

\* The head of the queue is handed on.
LEMMA GoodTail ==
    ASSUME NEW q, NEW bk, NEW dn, NEW o, NEW o2, NEW r, GoodQueue(q, bk, dn, o), q # <<>>,
           ~IsError(q[1]), r = Tail(q), \A x \in o2 : x \in o \/ x.slot = q[1].slot
    PROVE  GoodQueue(r, bk, dn, o2) /\ \A i \in DOMAIN r : ~IsError(r[i])
<1>1. PICK T : T = Messages \cup ServerErrors
    OBVIOUS
<1>2. q \in Seq(T)
    BY <1>1 DEF GoodQueue
<1>3. /\ r \in Seq(T) /\ 1 \in DOMAIN q /\ Head(q) = q[1]
      /\ \A i \in DOMAIN r : i \in Nat \ {0} /\ i + 1 \in DOMAIN q /\ r[i] = q[i + 1]
    BY <1>2, TailPlaces
<1>4. ASSUME NEW i \in DOMAIN r
      PROVE  /\ ~IsError(r[i])
             /\ ~IsError(r[i]) => r[i] \in Messages /\ Known(r[i], bk, dn)
             /\ r[i].kind = "created" => OthersBefore(r, i) /\ Untouched(o2, r[i].slot)
  <2>1. i \in Nat \ {0} /\ i + 1 \in DOMAIN q /\ r[i] = q[i + 1]
    BY <1>3
  <2>2. ASSUME r[i].kind = "created" PROVE OthersBefore(r, i) /\ Untouched(o2, r[i].slot)
    <3>1. OthersBefore(q, i + 1) /\ Untouched(o, q[i + 1].slot)
        BY <2>1, <2>2 DEF GoodQueue
    <3>2. q[1].slot # q[i + 1].slot
        BY <2>1, <3>1 DEF OthersBefore
    <3>3. Untouched(o2, r[i].slot)
        BY <2>1, <3>1, <3>2 DEF Untouched
    <3>4. \A j \in 1..(i - 1) : j + 1 \in 1..((i + 1) - 1) /\ r[j] = q[j + 1]
      <4>1. DOMAIN r = 1..Len(r) /\ Len(r) \in Nat
        BY <1>3, LenProperties
      <4>2. \A j \in 1..(i - 1) : j \in DOMAIN r
        BY <2>1, <4>1
      <4> QED BY <1>3, <2>1, <4>2
    <3>5. OthersBefore(r, i)
        BY <2>1, <3>1, <3>4 DEF OthersBefore
    <3> QED BY <3>3, <3>5
  <2>3. ~IsError(r[i])
    BY <2>1 DEF GoodQueue
  <2> QED BY <2>1, <2>2, <2>3 DEF GoodQueue
<1> QED BY <1>1, <1>3, <1>4 DEF GoodQueue

Distinct(q) == \A i, j \in DOMAIN q : q[i] = q[j] => i = j

LEMMA DistinctConcat ==
    ASSUME NEW T, NEW q \in Seq(T), NEW p \in Seq(T), NEW r, r = q \o p, Distinct(q), Distinct(p),
           \A i \in DOMAIN q, j \in DOMAIN p : q[i] # p[j]
    PROVE  Distinct(r)
<1>1. PICK l \in Nat : Joined(q, p, r, l, T)
    BY ConcatPlaces
<1>2. /\ \A i \in DOMAIN q : i \in DOMAIN r /\ r[i] = q[i]
      /\ \A j \in DOMAIN p : l + j \in DOMAIN r /\ r[l + j] = p[j]
      /\ \A i \in DOMAIN r : i \in DOMAIN q \/ \E j \in DOMAIN p : i = l + j
    BY <1>1 DEF Joined
<1> SUFFICES ASSUME NEW i \in DOMAIN r, NEW j \in DOMAIN r, r[i] = r[j] PROVE i = j
    BY DEF Distinct
<1>3. CASE i \in DOMAIN q /\ j \in DOMAIN q
    BY <1>2, <1>3 DEF Distinct
<1>4. CASE i \in DOMAIN q /\ j \notin DOMAIN q
    BY <1>2, <1>4
<1>5. CASE i \notin DOMAIN q /\ j \in DOMAIN q
    BY <1>2, <1>5
<1>6. CASE i \notin DOMAIN q /\ j \notin DOMAIN q
  <2>1. PICK h \in DOMAIN p : i = l + h
    BY <1>2, <1>6
  <2>2. PICK k \in DOMAIN p : j = l + k
    BY <1>2, <1>6
  <2> QED BY <1>2, <2>1, <2>2 DEF Distinct
<1> QED BY <1>3, <1>4, <1>5, <1>6

\* A block as it is sent: its payloads, then its BlockMeta, if the request asks for it
LEMMA BlockQueue ==
    ASSUME SteadyServer, NEW s \in Slots, Requested(inforce), node = TheNode,
           NEW block, block = BlockOf(s, node, inforce)
    PROVE  /\ block \in Seq(Messages) /\ Distinct(block)
           /\ \A i \in DOMAIN block : block[i].slot = s /\ block[i].kind # "created"
           /\ \A i \in DOMAIN block, t \in Slots, a \in Data :
                 block[i] = MetaMsg(t, TheNode) => Before(block, i, DataMsg(t, a, TheNode))
           /\ inforce.blocks_meta = "own" => \E i \in DOMAIN block : block[i] = MetaMsg(s, TheNode)
           /\ \A i \in DOMAIN block : block[i].kind = "internal" => inforce.blocks_meta = "injected"
<1>1. PICK c : c = Cardinality(Data)
    OBVIOUS
<1>2. PICK l : l = Len(block)
    OBVIOUS
<1>3. /\ c \in Nat /\ block \in Seq(BlockMsgs(s, node))
      /\ \A i, j \in 1..l : block[i] = block[j] => i = j
      /\ c <= l
      /\ \A a \in Data : \E i \in 1..c : block[i] = DataMsg(s, a, node)
      /\ inforce.blocks_meta = "own" => l > c /\ block[c + 1] = MetaMsg(s, node)
      /\ \A i \in 1..l : block[i].kind = "internal" => inforce.blocks_meta = "injected"
      /\ \A i \in 1..l : block[i].kind = "meta" => i = c + 1
    BY <1>1, <1>2, BlockShape
<1>4. l \in Nat /\ DOMAIN block = 1..l
    BY <1>2, <1>3, LenProperties
<1>5. \A i \in 1..l : block[i] \in BlockMsgs(s, node)
    BY <1>2, <1>3, <1>4, ElementOfSeq
<1>6. \A i \in 1..l : block[i].slot = s /\ block[i].kind # "created"
    BY <1>5, BlockMsgFields
<1>7. block \in Seq(Messages)
  <2>1. BlockMsgs(s, node) \subseteq Messages
    BY DEF Messages
  <2> QED BY <1>3, <2>1
<1>8. ASSUME NEW i \in 1..l, NEW t \in Slots, NEW a \in Data, block[i] = MetaMsg(t, TheNode)
      PROVE  Before(block, i, DataMsg(t, a, TheNode))
  <2>1. i = c + 1 /\ t = s
    BY <1>3, <1>6, <1>8, MessageFields
  <2>2. PICK j \in 1..c : block[j] = DataMsg(s, a, node)
    BY <1>3
  <2>3. j \in 1..(i - 1)
    BY <1>3, <2>1
  <2> QED BY <2>1, <2>2, <2>3 DEF Before
<1>9. inforce.blocks_meta = "own" => \E i \in 1..l : block[i] = MetaMsg(s, TheNode)
  <2>1. l > c => c + 1 \in 1..l
    BY <1>3, <1>4
  <2> QED BY <1>3, <2>1
<1> QED BY <1>3, <1>4, <1>6, <1>7, <1>8, <1>9 DEF Distinct

ServerInv ==
    /\ node \in Nodes
    /\ stored \subseteq done /\ done \subseteq banks /\ banks \subseteq Slots

\* What is on the way, and when: a reconnection starts with nothing, a replay request holds back
\* the broadcast, and a bank whose status it holds back is not published before the replay.
QueuesInv ==
    /\ conn # "up" => wire = <<>>
    /\ conn # "handshake" => live = <<>>
    /\ GoodQueue(wire, banks, done, out)
    /\ GoodQueue(live, banks, done, out) /\ live \in Seq(Messages)
    /\ \A i \in DOMAIN live : live[i].kind = "created" => live[i].slot \notin done
    /\ out \subseteq Messages /\ \A x \in out : Known(x, banks, done)

\* Without DedupStream there is no replay, and nothing is sent twice.
PlainInv ==
    policy # "recover" =>
        /\ from = NoSlot /\ conn # "handshake"
        /\ wire \in Seq(Messages) /\ Distinct(wire)
        /\ \A i \in DOMAIN wire : wire[i] \notin out

RecoverInv == policy = "recover" => DedupInv(dedup, out)

StreamInv == ServerInv /\ QueuesInv /\ PlainInv /\ RecoverInv /\ twice = {}

\* What the server sends next is new to the stream.
NewToStream(q, o, msgs) ==
    /\ \A i \in DOMAIN msgs : msgs[i] \notin o
    /\ \A i \in DOMAIN q, j \in DOMAIN msgs : q[i] # msgs[j]
    /\ BanksNew(q, msgs)

LEMMA SendKeepsQueues ==
    ASSUME SteadyServer, QueuesInv, PlainInv, NEW msgs \in Seq(Messages), Send(msgs),
           NEW bk, NEW dn, banks \subseteq bk, done \subseteq dn, Distinct(msgs),
           GoodQueue(msgs, bk, dn, out), NewToStream(wire, out, msgs), NewToStream(live, out, msgs),
           \A i \in DOMAIN live : live[i].kind = "created" => live[i].slot \notin dn,
           \A i \in DOMAIN msgs : msgs[i].kind = "created" => msgs[i].slot \notin dn,
           banks' = bk, done' = dn, UNCHANGED <<conn, out, from, policy>>
    PROVE  QueuesInv' /\ PlainInv'
<1>1. GoodQueue(wire, bk, dn, out) /\ GoodQueue(live, bk, dn, out) /\ live \in Seq(Messages)
    BY GoodLater DEF QueuesInv
<1>2. PICK w : w = wire \o msgs
    OBVIOUS
<1>3. PICK v : v = live \o msgs
    OBVIOUS
<1>4. GoodQueue(w, bk, dn, out)
    BY <1>1, <1>2, GoodConcat DEF NewToStream
<1>5. GoodQueue(v, bk, dn, out)
    BY <1>1, <1>3, GoodConcat DEF NewToStream
<1>6. v \in Seq(Messages)
    BY <1>1, <1>3, ConcatProperties
<1>7. \A i \in DOMAIN v : v[i].kind = "created" => v[i].slot \notin dn
  <2>1. PICK l \in Nat : Joined(live, msgs, v, l, Messages)
    BY <1>1, <1>3, ConcatPlaces
  <2> QED BY <2>1 DEF Joined
<1>8. \A x \in out : Known(x, bk, dn)
    BY DEF QueuesInv, Known
<1>9. QueuesInv'
  <2>1. wire' = (IF conn = "up" THEN w ELSE wire) /\ live' = (IF conn = "handshake" THEN v ELSE live)
    BY <1>2, <1>3 DEF Send
  <2> QED BY <1>1, <1>4, <1>5, <1>6, <1>7, <1>8, <2>1 DEF QueuesInv
<1>10. PlainInv'
  <2> SUFFICES ASSUME policy # "recover"
               PROVE  /\ from = NoSlot /\ conn # "handshake"
                      /\ wire' \in Seq(Messages) /\ Distinct(wire')
                      /\ \A i \in DOMAIN wire' : wire'[i] \notin out
    BY DEF PlainInv
  <2>1. /\ from = NoSlot /\ conn # "handshake" /\ wire \in Seq(Messages) /\ Distinct(wire)
        /\ \A i \in DOMAIN wire : wire[i] \notin out
    BY DEF PlainInv
  <2>2. w \in Seq(Messages)
    BY <1>2, <2>1, ConcatProperties
  <2>3. Distinct(w)
    BY <1>2, <2>1, DistinctConcat DEF NewToStream
  <2>4. \A i \in DOMAIN w : w[i] \notin out
    <3>1. PICK l \in Nat : Joined(wire, msgs, w, l, Messages)
        BY <1>2, <2>1, ConcatPlaces
    <3> QED BY <2>1, <3>1 DEF Joined, NewToStream
  <2> QED BY <1>2, <2>1, <2>2, <2>3, <2>4 DEF Send
<1> QED BY <1>9, <1>10

LEMMA BankCreated ==
    ASSUME SteadyServer, StreamInv, NEW s \in Slots, CreateBank(s)
    PROVE  StreamInv'
<1> USE DEF StreamInv
<1>1. PICK bk : bk = banks \cup {s}
    OBVIOUS
<1>2. PICK msgs : msgs = IF "created" \in UserKinds THEN <<CreatedBank(s)>> ELSE <<>>
    OBVIOUS
<1>3. CreatedBank(s) \in Messages /\ CreatedBank(s).slot = s /\ CreatedBank(s).kind = "created"
    BY MessageFields DEF Messages
<1>4. msgs \in Seq(Messages) /\ \A i \in DOMAIN msgs : i = 1 /\ msgs[i] = CreatedBank(s)
    BY <1>2, <1>3
<1>5. Distinct(msgs)
    BY <1>4 DEF Distinct
<1>6. s \notin banks /\ s \notin done
    BY DEF CreateBank, ServerInv
<1>7. Untouched(out, s)
    BY <1>6 DEF QueuesInv, Known, Untouched
<1>8. GoodQueue(msgs, bk, done, out)
  <2>1. OthersBefore(msgs, 1)
    BY DEF OthersBefore
  <2>2. msgs \in Seq(Messages \cup ServerErrors)
    BY <1>4
  <2>3. Known(CreatedBank(s), bk, done) /\ ~IsError(CreatedBank(s))
    BY <1>1, <1>3 DEF Known, IsError
  <2> QED BY <1>3, <1>4, <1>7, <2>1, <2>2, <2>3 DEF GoodQueue
<1>9. ASSUME NEW q, GoodQueue(q, banks, done, out) PROVE NewToStream(q, out, msgs)
  <2>1. \A j \in DOMAIN q : IsError(q[j]) \/ q[j].slot # s
    BY <1>6, <1>9 DEF GoodQueue, Known
  <2>2. ~IsError(CreatedBank(s))
    BY <1>3 DEF IsError
  <2> QED BY <1>3, <1>4, <1>7, <2>1, <2>2 DEF NewToStream, BanksNew, Untouched
<1>10. NewToStream(wire, out, msgs) /\ NewToStream(live, out, msgs)
    BY <1>9 DEF QueuesInv
<1>11. Send(msgs) /\ banks' = bk /\ done' = done /\ UNCHANGED <<conn, out, from, policy>>
       /\ UNCHANGED <<stored, node, dedup, twice>>
    BY <1>1, <1>2 DEF CreateBank, clientVars, requestVars
<1>12. \A i \in DOMAIN msgs : msgs[i].kind = "created" => msgs[i].slot \notin done
    BY <1>3, <1>4, <1>6
<1>13. \A i \in DOMAIN live : live[i].kind = "created" => live[i].slot \notin done
    BY DEF QueuesInv
<1>14. banks \subseteq bk /\ done \subseteq done
    BY <1>1
<1> HIDE <1>1, <1>2
<1>15. QueuesInv' /\ PlainInv'
    BY <1>4, <1>5, <1>8, <1>10, <1>11, <1>12, <1>13, <1>14, SendKeepsQueues
<1>16. ServerInv'
    BY <1>1, <1>11 DEF ServerInv
<1>17. RecoverInv' /\ twice' = {}
    BY <1>11 DEF RecoverInv
<1> QED BY <1>15, <1>16, <1>17

LEMMA BlockPublished ==
    ASSUME SteadyServer, StreamInv, Requested(inforce), NEW s \in Slots, PublishBlock(s)
    PROVE  StreamInv'
<1> USE DEF StreamInv
<1>1. PICK dn : dn = done \cup {s}
    OBVIOUS
<1>2. PICK msgs : msgs = BlockOf(s, node, inforce)
    OBVIOUS
<1>3. node = TheNode
    BY OneNode DEF ServerInv
<1>4. /\ msgs \in Seq(Messages) /\ Distinct(msgs)
      /\ \A i \in DOMAIN msgs : msgs[i].slot = s /\ msgs[i].kind # "created"
    BY <1>2, <1>3, BlockQueue
<1>5. s \in banks /\ s \notin done
    BY DEF PublishBlock
<1>6. \A i \in DOMAIN msgs : msgs[i] \in Messages /\ ~IsError(msgs[i])
    BY <1>4, ElementOfSeq, LenProperties, ErrorKinds
<1>7. GoodQueue(msgs, banks, dn, out)
  <2>1. msgs \in Seq(Messages \cup ServerErrors)
    BY <1>4
  <2> QED BY <1>1, <1>4, <1>5, <1>6, <2>1 DEF GoodQueue, Known
<1>8. ASSUME NEW q, GoodQueue(q, banks, done, out) PROVE NewToStream(q, out, msgs)
  <2>1. \A j \in DOMAIN q : IsError(q[j]) \/ q[j].slot # s \/ q[j].kind = "created"
    BY <1>5, <1>8 DEF GoodQueue, Known
  <2>2. \A x \in out : x.slot # s \/ x.kind = "created"
    BY <1>5 DEF QueuesInv, Known
  <2> QED BY <1>4, <1>6, <2>1, <2>2 DEF NewToStream, BanksNew
<1>9. NewToStream(wire, out, msgs) /\ NewToStream(live, out, msgs)
    BY <1>8 DEF QueuesInv
<1>10. Send(msgs) /\ banks' = banks /\ done' = dn /\ UNCHANGED <<conn, out, from, policy>>
       /\ UNCHANGED <<node, dedup, twice>> /\ stored' = stored \cup {s}
    BY <1>1, <1>2 DEF PublishBlock, clientVars, requestVars
<1>11. \A i \in DOMAIN msgs : msgs[i].kind = "created" => msgs[i].slot \notin dn
    BY <1>4
<1>12. \A i \in DOMAIN live : live[i].kind = "created" => live[i].slot \notin dn
  <2> SUFFICES ASSUME NEW i \in DOMAIN live, live[i].kind = "created", live[i].slot = s PROVE FALSE
    BY <1>1 DEF QueuesInv
  <2>1. live \in Seq(Messages) /\ DOMAIN live = 1..Len(live) /\ live[i] \in Messages
    BY LenProperties, ElementOfSeq DEF QueuesInv
  <2>2. live[i] = CreatedBank(s)
    BY <2>1, MessageForms, MessageFields DEF StatusKinds
  <2>3. Contains(live, CreatedBank(s))
    BY <2>1, <2>2 DEF Contains
  <2> QED BY <2>3 DEF PublishBlock, SteadyServer
<1>13. banks \subseteq banks /\ done \subseteq dn
    BY <1>1
<1> HIDE <1>1, <1>2
<1>14. QueuesInv' /\ PlainInv'
    BY <1>4, <1>7, <1>9, <1>10, <1>11, <1>12, <1>13, SendKeepsQueues
<1>15. ServerInv'
    BY <1>1, <1>5, <1>10 DEF ServerInv
<1>16. RecoverInv' /\ twice' = {}
    BY <1>10 DEF RecoverInv
<1> QED BY <1>14, <1>15, <1>16

LEMMA ReplayQueue ==
    ASSUME SteadyServer, StreamInv, Requested(inforce), NEW replay, replay = Replay
    PROVE  /\ replay \in Seq(Messages)
           /\ \A i \in DOMAIN replay : /\ replay[i] \in Messages /\ ~IsError(replay[i])
                                       /\ replay[i].slot \in stored /\ replay[i].kind # "created"
           /\ GoodQueue(replay, banks, done, out)
<1> USE DEF StreamInv
<1>1. node = TheNode /\ stored \subseteq Slots
    BY OneNode DEF ServerInv
<1>2. replay \in Seq(ReplayMsgs)
    BY <1>1, ReplayShape
<1>3. \A m \in ReplayMsgs : m \in Messages /\ m.slot \in stored /\ m.kind # "created"
  <2> SUFFICES ASSUME NEW s \in Covered, NEW m \in BlockMsgs(s, node)
               PROVE  m \in Messages /\ m.slot \in stored /\ m.kind # "created"
    BY DEF ReplayMsgs
  <2>1. s \in stored /\ s \in Slots
    BY <1>1 DEF Covered
  <2>2. m.slot = s /\ m.kind # "created"
    BY BlockMsgFields
  <2> QED BY <1>1, <2>1, <2>2 DEF Messages
<1>4. replay \in Seq(Messages)
  <2>1. ReplayMsgs \subseteq Messages
    BY <1>3
  <2> QED BY <1>2, <2>1
<1>5. \A i \in DOMAIN replay : replay[i] \in ReplayMsgs
    BY <1>2, ElementOfSeq, LenProperties
<1>6. \A i \in DOMAIN replay : /\ replay[i] \in Messages /\ ~IsError(replay[i])
                               /\ replay[i].slot \in stored /\ replay[i].kind # "created"
    BY <1>3, <1>5, ErrorKinds
<1>7. GoodQueue(replay, banks, done, out)
  <2>1. replay \in Seq(Messages \cup ServerErrors)
    BY <1>4
  <2>2. \A i \in DOMAIN replay : Known(replay[i], banks, done)
    BY <1>6 DEF Known, ServerInv
  <2> QED BY <1>6, <2>1, <2>2 DEF GoodQueue
<1> QED BY <1>4, <1>6, <1>7

\* The server's answer to a replay request: a single error, or the replay and what waited behind it
LEMMA ReplayServed ==
    ASSUME SteadyServer, StreamInv, Requested(inforce), ServeReplay
    PROVE  StreamInv'
<1> USE DEF StreamInv
<1>1. PICK replay : replay = Replay
    OBVIOUS
<1>2. /\ replay \in Seq(Messages)
      /\ \A i \in DOMAIN replay : /\ replay[i] \in Messages /\ ~IsError(replay[i])
                                  /\ replay[i].slot \in stored /\ replay[i].kind # "created"
      /\ GoodQueue(replay, banks, done, out)
    BY <1>1, ReplayQueue
<1>3. policy = "recover"
    BY DEF PlainInv, ServeReplay
<1>4. /\ conn' = "up" /\ live' = <<>>
      /\ UNCHANGED <<banks, stored, done, node, out, dedup, twice, policy>>
      /\ wire' \in {<<Error("OutOfRange")>>, <<Error("Internal")>>, replay \o live}
    BY <1>1 DEF ServeReplay, serverVars, clientVars, requestVars
<1>5. ASSUME NEW code \in {"OutOfRange", "Internal"}, NEW q, q = <<Error(code)>>
      PROVE  GoodQueue(q, banks, done, out)
  <2>1. Error(code) \in ServerErrors /\ Error(code).kind = code
    BY DEF ServerErrors, Error, Msg
  <2>2. q \in Seq(Messages \cup ServerErrors) /\ \A i \in DOMAIN q : i = 1 /\ q[i] = Error(code)
    BY <1>5, <2>1
  <2> QED BY <2>1, <2>2 DEF GoodQueue, IsError
<1>6. PICK w : w = replay \o live
    OBVIOUS
<1>7. GoodQueue(w, banks, done, out)
  <2>1. BanksNew(replay, live)
    BY <1>2 DEF BanksNew, QueuesInv, ServerInv
  <2> QED BY <1>2, <1>6, <2>1, GoodConcat DEF QueuesInv
<1>8. GoodQueue(wire', banks, done, out)
    BY <1>4, <1>5, <1>6, <1>7
<1>9. QueuesInv'
    BY <1>4, <1>8, GoodEmpty DEF QueuesInv
<1> QED BY <1>3, <1>4, <1>9 DEF ServerInv, PlainInv, RecoverInv

LEMMA QuarantineKept ==
    ASSUME NEW d, NEW o, DedupInv(d, o)
    PROVE  PruneQuarantine(d) = d
<1>1. PICK fl : fl = d.inflight
    OBVIOUS
<1>2. PICK se : se = d.sealed
    OBVIOUS
<1>3. PICK so : so = d.slot_order
    OBVIOUS
<1>4. PICK qu : qu = d.quarantine
    OBVIOUS
<1>5. PartsInv(fl, se, so, qu, o) /\ d = Rec(fl, se, so, qu)
    BY <1>1, <1>2, <1>3, <1>4 DEF DedupInv
<1>6. qu \in [Slots -> Seq(Messages)]
      /\ \A s \in Slots : qu[s] # <<>> => s \in DOMAIN se \/ s \in DOMAIN fl
    BY <1>5 DEF PartsInv, SlotInv
<1>7. [s \in Slots |-> IF s \in Tracked(d) THEN qu[s] ELSE <<>>] = qu
    BY <1>1, <1>2, <1>6 DEF Tracked
<1>8. PruneQuarantine(d) = [d EXCEPT !.quarantine = qu]
    BY <1>4, <1>7 DEF PruneQuarantine
<1>9. [d EXCEPT !.quarantine = qu] = Rec(fl, se, so, qu)
    BY <1>5, RecFields
<1> QED BY <1>5, <1>8, <1>9

LEMMA ReplayPrepared ==
    ASSUME NEW d, NEW o, DedupInv(d, o)
    PROVE  DedupInv(PrepareForReplay(d), o)
<1>1. PICK fl : fl = d.inflight
    OBVIOUS
<1>2. PICK se : se = d.sealed
    OBVIOUS
<1>3. PICK so : so = d.slot_order
    OBVIOUS
<1>4. PICK qu : qu = d.quarantine
    OBVIOUS
<1>5. PartsInv(fl, se, so, qu, o) /\ d = Rec(fl, se, so, qu)
    BY <1>1, <1>2, <1>3, <1>4 DEF DedupInv
<1>6. PICK qu2 : qu2 = [s \in Slots |-> <<>>]
    OBVIOUS
<1>7. PICK fl2 : fl2 = [s \in DOMAIN fl |-> [fl[s] EXCEPT !.replaying = TRUE]]
    OBVIOUS
<1>8. PICK e : e = Rec(fl2, se, so, qu2)
    OBVIOUS
<1>9. PrepareForReplay(d) = e
  <2>1. PICK h : h = [d EXCEPT !.quarantine = qu2]
    OBVIOUS
  <2>2. h = Rec(fl, se, so, qu2) /\ h.inflight = fl
    BY <1>5, <2>1, RecFields
  <2>3. PrepareForReplay(d) = [h EXCEPT !.inflight = fl2]
    BY <1>1, <1>6, <1>7, <2>1, <2>2 DEF PrepareForReplay
  <2> QED BY <1>8, <2>2, <2>3, RecFields
<1>10. /\ IsMap(fl, SlotStates) /\ IsMap(se, SealedStates) /\ OrderShape(fl, se, so)
       /\ \A s \in Slots : SlotInv(fl, se, qu, o, s)
    BY <1>5 DEF PartsInv
<1>11. \A s \in DOMAIN fl : /\ fl2[s] \in SlotStates
                            /\ fl2[s].keys = fl[s].keys /\ fl2[s].statuses = fl[s].statuses
  <2> SUFFICES ASSUME NEW s \in DOMAIN fl
               PROVE  /\ fl2[s] \in SlotStates
                      /\ fl2[s].keys = fl[s].keys /\ fl2[s].statuses = fl[s].statuses
    OBVIOUS
  <2>1. fl[s] \in SlotStates
    BY <1>10 DEF IsMap
  <2>2. fl2[s] = [fl[s] EXCEPT !.replaying = TRUE]
    BY <1>7
  <2> QED BY <2>1, <2>2 DEF SlotStates
<1>12. DOMAIN fl2 = DOMAIN fl /\ IsMap(fl2, SlotStates)
  <2>1. DOMAIN fl2 = DOMAIN fl /\ fl2 = [s \in DOMAIN fl |-> fl2[s]]
    BY <1>7
  <2> QED BY <1>10, <1>11, <2>1 DEF IsMap
<1>13. OrderShape(fl2, se, so)
    BY <1>10, <1>12, OrderKept
<1>14. qu2 \in [Slots -> Seq(Messages)] /\ \A s \in Slots : qu2[s] = <<>> /\ DOMAIN qu2[s] = {}
  <2>1. \A s \in Slots : qu2[s] = <<>>
    BY <1>6
  <2> QED BY <1>6, <2>1, NothingHandedOn
<1>15. ASSUME NEW s \in Slots PROVE SlotInv(fl2, se, qu2, o, s)
  <2>1. SlotInv(fl, se, qu, o, s)
    BY <1>10
  <2> QED BY <1>11, <1>12, <1>14, <2>1 DEF SlotInv
<1>16. PartsInv(fl2, se, so, qu2, o)
    BY <1>10, <1>12, <1>13, <1>14, <1>15 DEF PartsInv
<1> QED BY <1>8, <1>9, <1>16, PartsAreDedup

\* A payload that waits for the BlockMeta of its slot
Quarantined(x) ==
    /\ policy = "recover" /\ reconnect_count = last_reconnect_count
    /\ x.slot \in Slots /\ x \in Range(dedup.quarantine[x.slot])

LEMMA HandOnFresh ==
    ASSUME NEW msgs \in Seq(Messages), HandOn(msgs), twice = {}, Distinct(msgs),
           \A i \in DOMAIN msgs : msgs[i] \notin out
    PROVE  out' = out \cup Range(msgs) /\ twice' = {}
<1>1. \A i \in DOMAIN msgs : Cardinality({j \in DOMAIN msgs : msgs[j] = msgs[i]}) = 1
  <2> SUFFICES ASSUME NEW i \in DOMAIN msgs PROVE Cardinality({j \in DOMAIN msgs : msgs[j] = msgs[i]}) = 1
    OBVIOUS
  <2>1. {j \in DOMAIN msgs : msgs[j] = msgs[i]} = {i}
    BY DEF Distinct
  <2> QED BY <2>1, FS_Singleton
<1>2. \A m \in Range(msgs) : ~(m \in out \/ Cardinality({j \in DOMAIN msgs : msgs[j] = m}) > 1)
    BY <1>1 DEF Range
<1> QED BY <1>2 DEF HandOn

\* What a received message changes
Taken(m) ==
    /\ out \subseteq out' /\ out' \subseteq Messages
    /\ \A x \in out' : x \in out \/ x.slot = m.slot
    /\ twice' = {}
    /\ policy # "recover" => out' \subseteq out \cup {m}
    /\ m.kind = "meta" => m \in out' /\ \A x : Quarantined(x)' => x.slot # m.slot
    /\ \A x \in out' : x \in out \/ x = m \/ m.kind = "meta"
    /\ m.kind = "data" => m \in out' \/ Quarantined(m)'
    /\ \A x : Quarantined(x) => \/ x \in out' \/ Quarantined(x)'
                                \/ x.slot = m.slot /\ m.kind = "meta" /\ MetaMsg(m.slot, TheNode) \in out

LEMMA ReceiveTakes ==
    ASSUME SteadyServer, StreamInv, Receive, NEW m, m = wire[1]
    PROVE  /\ wire # <<>> /\ conn = "up" /\ ~IsError(m) /\ m \in Messages /\ m = Head(wire)
           /\ Taken(m) /\ RecoverInv'
<1> USE DEF StreamInv
<1>1. wire # <<>> /\ conn = "up" /\ wire \in Seq(Messages \cup ServerErrors)
    BY DEF Receive, QueuesInv, GoodQueue
<1>2. Head(wire) = m /\ 1 \in DOMAIN wire
  <2>1. PICK T : T = Messages \cup ServerErrors
    OBVIOUS
  <2>2. PICK tl : tl = Tail(wire)
    OBVIOUS
  <2> QED BY <1>1, <2>1, <2>2, TailPlaces
<1>3. ~IsError(m) /\ m \in Messages
    BY <1>2 DEF Receive, IsError, QueuesInv, GoodQueue
<1>4. out \subseteq Messages /\ twice = {}
    BY DEF QueuesInv
<1>5. UNCHANGED <<policy, reconnect_count>>
    BY DEF Receive, requestVars
<1>6. CASE m.kind = "internal"
  <2>1. UNCHANGED <<dedup, last_reconnect_count, out, twice>>
    BY <1>2, <1>6 DEF Receive, InternalOnly
  <2>2. Taken(m)
    BY <1>4, <1>5, <1>6, <2>1 DEF Taken, Quarantined
  <2> QED BY <1>1, <1>2, <1>3, <1>5, <2>1, <2>2 DEF RecoverInv
<1>7. CASE m.kind # "internal" /\ policy # "recover"
  <2>1. PICK msgs : msgs = <<m>>
    OBVIOUS
  <2>2. HandOn(msgs) /\ UNCHANGED <<dedup, last_reconnect_count>>
    BY <1>2, <1>7, <2>1 DEF Receive, InternalOnly
  <2>3. Range(msgs) = {m} /\ DOMAIN msgs = {1} /\ msgs \in Seq(Messages) /\ msgs[1] = m
    BY <1>3, <2>1, OneHandedOn
  <2>4. m \notin out
    BY <1>2, <1>7 DEF PlainInv
  <2>5. out' = out \cup Range(msgs) /\ twice' = {}
    BY <1>4, <2>2, <2>3, <2>4, HandOnFresh DEF Distinct
  <2>6. Taken(m)
    BY <1>3, <1>4, <1>5, <1>7, <2>3, <2>5 DEF Taken, Quarantined
  <2> QED BY <1>1, <1>2, <1>3, <1>5, <1>7, <2>6 DEF RecoverInv
<1>8. CASE m.kind # "internal" /\ policy = "recover"
  <2>1. PICK d : d = IF reconnect_count # last_reconnect_count THEN PrepareForReplay(dedup) ELSE dedup
    OBVIOUS
  <2>2. PICK r : r = Observe(d, m) /\ dedup' = PruneQuarantine(r.d)
                 /\ last_reconnect_count' = reconnect_count /\ HandOn(r.msgs)
    BY <1>2, <1>8, <2>1 DEF Receive, InternalOnly
  <2>3. DedupInv(dedup, out)
    BY <1>8 DEF RecoverInv
  <2>4. DedupInv(d, out)
    BY <2>1, <2>3, ReplayPrepared
  <2>5. m.kind = "created" => Untouched(out, m.slot)
    BY <1>2 DEF QueuesInv, GoodQueue
  <2>6. PICK o2 : o2 = out \cup Range(r.msgs)
    OBVIOUS
  <2>7. GoodParts(d.quarantine, out, m, r.d, r.msgs, o2)
    <3>1. r = Observe(d, m)
        BY <2>2
    <3> QED BY <1>3, <1>8, <2>4, <2>5, <2>6, <3>1, Observed
  <2>8. PICK msgs : msgs = r.msgs
    OBVIOUS
  <2>9. PICK e : e = r.d
    OBVIOUS
  <2>10. GoodParts(d.quarantine, out, m, e, msgs, o2) /\ HandOn(msgs) /\ dedup' = PruneQuarantine(e)
         /\ last_reconnect_count' = reconnect_count
    BY <2>2, <2>7, <2>8, <2>9
  <2> HIDE <2>6, <2>8, <2>9
  <2>11. msgs \in Seq(Messages) /\ Distinct(msgs) /\ \A i \in DOMAIN msgs : msgs[i] \notin out
    BY <2>10 DEF GoodParts, Distinct
  <2>12. out' = out \cup Range(msgs) /\ twice' = {}
    BY <1>4, <2>10, <2>11, HandOnFresh
  <2>13. out' = o2 /\ DedupInv(e, o2)
    BY <2>10, <2>12 DEF GoodParts
  <2>14. dedup' = e
    BY <2>10, <2>13, QuarantineKept
  <2>15. \A x \in Range(msgs) : x \in Messages /\ x.slot = m.slot /\ (x = m \/ m.kind = "meta")
    <3>1. \A i \in DOMAIN msgs : msgs[i] \in Messages
        BY <2>11, ElementOfSeq, LenProperties
    <3> QED BY <2>10, <3>1 DEF GoodParts, Range
  <2>16. m.slot \in Slots
    BY <1>3, MessageForms
  <2>17. m.kind = "data" => m \in out' \/ Quarantined(m)'
    BY <1>5, <1>8, <2>10, <2>13, <2>14, <2>16 DEF GoodParts, Quarantined
  <2>18. ASSUME NEW x, Quarantined(x)
         PROVE  \/ x \in out' \/ Quarantined(x)'
                \/ x.slot = m.slot /\ m.kind = "meta" /\ MetaMsg(m.slot, TheNode) \in out
    <3>1. d = dedup
        BY <2>1, <2>18 DEF Quarantined
    <3>2. x.slot \in Slots /\ x \in Range(d.quarantine[x.slot])
        BY <2>18, <3>1 DEF Quarantined
    <3>3. \/ x \in o2 \/ x \in Range(e.quarantine[x.slot])
          \/ x.slot = m.slot /\ m.kind = "meta" /\ MetaMsg(x.slot, TheNode) \in out
        BY <2>10, <3>2 DEF GoodParts
    <3> QED BY <1>5, <1>8, <2>10, <2>13, <2>14, <3>2, <3>3 DEF Quarantined
  <2>19. m.kind = "meta" => m \in out' /\ \A x : Quarantined(x)' => x.slot # m.slot
    BY <2>10, <2>13, <2>14, NothingHandedOn DEF GoodParts, Quarantined
  <2>20. Taken(m)
    BY <1>4, <1>8, <2>12, <2>15, <2>17, <2>18, <2>19 DEF Taken
  <2>21. RecoverInv'
    BY <2>13, <2>14 DEF RecoverInv
  <2> QED BY <1>1, <1>2, <1>3, <2>20, <2>21
<1> QED BY <1>1, <1>2, <1>3, <1>6, <1>7, <1>8

LEMMA MessageReceived ==
    ASSUME SteadyServer, StreamInv, Receive
    PROVE  StreamInv'
<1> USE DEF StreamInv
<1>1. PICK m : m = wire[1]
    OBVIOUS
<1>2. /\ wire # <<>> /\ conn = "up" /\ ~IsError(m) /\ m \in Messages
      /\ Taken(m) /\ RecoverInv'
    BY <1>1, ReceiveTakes
<1>3. wire' = Tail(wire) /\ UNCHANGED <<banks, stored, done, node, conn, live, from, policy>>
    BY DEF Receive, serverVars, requestVars
<1>4. \A x \in out' : x \in out \/ x.slot = m.slot
    BY <1>2 DEF Taken
<1>5. PICK tl : tl = Tail(wire)
    OBVIOUS
<1>6. GoodQueue(tl, banks, done, out')
    BY <1>1, <1>2, <1>4, <1>5, GoodTail DEF QueuesInv
<1>7. live = <<>>
    BY <1>2 DEF QueuesInv
<1>8. m.slot \in banks /\ (m.kind # "created" => m.slot \in done)
  <2>1. 1 \in DOMAIN wire
    BY <1>2, EmptySeq, LenProperties DEF QueuesInv, GoodQueue
  <2> QED BY <1>1, <1>2, <2>1 DEF QueuesInv, GoodQueue, Known
<1>9. out' \subseteq Messages /\ \A x \in out' : Known(x, banks, done)
  <2> SUFFICES ASSUME NEW x \in out', x \notin out PROVE Known(x, banks, done)
    BY <1>2 DEF Taken, QueuesInv
  <2>1. x.slot = m.slot
    BY <1>4
  <2>2. CASE m.kind # "created"
    BY <1>8, <2>1, <2>2 DEF Known
  <2>3. CASE m.kind = "created" /\ x.kind = "created"
    BY <1>8, <2>1, <2>3 DEF Known
  <2>4. x.kind = "created" \/ m.kind # "created"
    BY <1>2 DEF Taken
  <2> QED BY <2>2, <2>3, <2>4
<1>10. QueuesInv'
    BY <1>2, <1>3, <1>5, <1>6, <1>7, <1>9, GoodEmpty DEF QueuesInv
<1>11. PlainInv'
  <2> SUFFICES ASSUME policy # "recover"
               PROVE  /\ from = NoSlot /\ conn # "handshake"
                      /\ tl \in Seq(Messages) /\ Distinct(tl)
                      /\ \A i \in DOMAIN tl : tl[i] \notin out'
    BY <1>3, <1>5 DEF PlainInv
  <2>1. /\ from = NoSlot /\ conn # "handshake" /\ wire \in Seq(Messages) /\ Distinct(wire)
        /\ \A i \in DOMAIN wire : wire[i] \notin out
    BY DEF PlainInv
  <2>2. /\ tl \in Seq(Messages) /\ 1 \in DOMAIN wire
        /\ \A i \in DOMAIN tl : i \in Nat \ {0} /\ i + 1 \in DOMAIN wire /\ tl[i] = wire[i + 1]
    BY <1>2, <1>5, <2>1, TailPlaces
  <2>3. Distinct(tl)
    BY <2>1, <2>2 DEF Distinct
  <2>4. \A i \in DOMAIN tl : tl[i] # m
    BY <1>1, <2>1, <2>2 DEF Distinct
  <2> QED BY <1>2, <2>1, <2>2, <2>3, <2>4 DEF Taken
<1> QED BY <1>2, <1>3, <1>10, <1>11 DEF ServerInv, Taken

LEMMA RequestsAreRequested ==
    ASSUME RequestsInv
    PROVE  Requested(inforce)
BY DEF RequestsInv, RequestRecords, Requested

LEMMA StreamStart ==
    ASSUME SteadyServer, ResumeInit
    PROVE  StreamInv
<1>1. StoredBefore \subseteq Slots
    BY ResumeAssumption DEF ResumeAssumption
<1>2. ServerInv
    BY <1>1 DEF ResumeInit, ServerInv
<1>3. QueuesInv
    BY GoodEmpty DEF ResumeInit, QueuesInv
<1>4. PlainInv
  <2>1. <<>> \in Seq(Messages) /\ Distinct(<<>>)
    BY DEF Distinct
  <2> QED BY <2>1 DEF ResumeInit, PlainInv
<1>5. DedupInv(NewDedup, {})
  <2>1. PICK f : f = [s \in {} |-> s]
    OBVIOUS
  <2>2. PICK qu : qu = [s \in Slots |-> <<>>]
    OBVIOUS
  <2>3. DOMAIN f = {}
    BY <2>1
  <2>4. IsMap(f, SlotStates) /\ IsMap(f, SealedStates)
    BY <2>1 DEF IsMap
  <2>5. qu \in [Slots -> Seq(Messages)] /\ \A s \in Slots : qu[s] = <<>> /\ DOMAIN qu[s] = {}
    <3>1. \A s \in Slots : qu[s] = <<>>
        BY <2>2
    <3> QED BY <2>2, <3>1, NothingHandedOn
  <2>6. OrderShape(f, f, <<>>)
    BY DEF OrderShape
  <2>7. \A s \in Slots : SlotInv(f, f, qu, {}, s)
    BY <2>3, <2>5 DEF SlotInv
  <2>8. PartsInv(f, f, <<>>, qu, {})
    BY <2>4, <2>5, <2>6, <2>7 DEF PartsInv
  <2>9. NewDedup = Rec(f, f, <<>>, qu)
    BY <2>1, <2>2 DEF NewDedup, Rec
  <2> HIDE <2>1, <2>2
  <2> QED BY <2>8, <2>9, PartsAreDedup
<1>6. RecoverInv /\ twice = {}
    BY <1>5 DEF ResumeInit, RecoverInv
<1> QED BY <1>2, <1>3, <1>4, <1>6 DEF StreamInv

\* The stream breaks: everything on the way is lost.
LEMMA StreamBroken ==
    ASSUME SteadyServer, StreamInv, wire' = <<>>, live' = <<>>, conn' # "handshake",
           policy # "recover" => from' = NoSlot,
           UNCHANGED <<banks, stored, done, out, twice, dedup, policy>>, node' \in Nodes
    PROVE  StreamInv'
<1>1. ServerInv'
    BY DEF StreamInv, ServerInv
<1>2. QueuesInv'
    BY GoodEmpty DEF StreamInv, QueuesInv
<1>3. PlainInv'
  <2>1. <<>> \in Seq(Messages) /\ Distinct(<<>>)
    BY DEF Distinct
  <2> QED BY <2>1 DEF PlainInv
<1> QED BY <1>1, <1>2, <1>3 DEF StreamInv, RecoverInv

LEMMA StreamStep ==
    ASSUME SteadyServer, RequestsInv, StreamInv, [ResumeNext]_resumeVars
    PROVE  StreamInv'
<1>0. Requested(inforce)
    BY RequestsAreRequested
<1>1. ASSUME UNCHANGED <<banks, done, node, conn, wire, live, from, out, twice, dedup, policy>>,
             stored' \subseteq stored
      PROVE  StreamInv'
    BY <1>1 DEF StreamInv, ServerInv, QueuesInv, PlainInv, RecoverInv
<1>2. CASE UNCHANGED resumeVars
    BY <1>1, <1>2 DEF resumeVars, serverVars, connectionVars, clientVars, requestVars
<1>3. CASE \E s \in Slots : CreateBank(s) \/ PublishBlock(s)
    BY <1>0, <1>3, BankCreated, BlockPublished
<1>4. CASE PruneOldest
    BY <1>1, <1>4 DEF PruneOldest, connectionVars, clientVars, requestVars
<1>5. CASE ServeReplay
    BY <1>0, <1>5, ReplayServed
<1>6. CASE ReadRequest
  <2>1. /\ conn' = "up" /\ live' = <<>> /\ wire' = wire
        /\ UNCHANGED <<banks, stored, done, node, from, out, twice, dedup, policy>>
    BY <1>6 DEF ReadRequest, serverVars, clientVars
  <2>2. QueuesInv'
    BY <2>1, GoodEmpty DEF StreamInv, QueuesInv
  <2> QED BY <2>1, <2>2 DEF StreamInv, ServerInv, PlainInv, RecoverInv
<1>7. CASE Connected
  <2>1. /\ conn = "connecting" /\ conn' = (IF from = NoSlot THEN "up" ELSE "handshake")
        /\ node' \in Nodes
        /\ UNCHANGED <<wire, live, banks, stored, done, from, out, twice, dedup, policy>>
    BY <1>7 DEF Connected, serverVars
  <2>2. wire = <<>> /\ live = <<>>
    BY <2>1 DEF StreamInv, QueuesInv
  <2>3. QueuesInv'
    BY <2>1, <2>2 DEF StreamInv, QueuesInv
  <2> QED BY <2>1, <2>3 DEF StreamInv, ServerInv, PlainInv, RecoverInv
<1>8. CASE Receive
    BY <1>8, MessageReceived
<1>9. CASE \E c \in {NoSlot, last_checkpoint} : Reconnect(c)
  <2>1. PICK c : Reconnect(c)
    BY <1>9
  <2>2. /\ wire' = <<>> /\ live' = <<>> /\ conn' # "handshake" /\ (policy # "recover" => from' = NoSlot)
        /\ UNCHANGED <<banks, stored, done, out, twice, dedup, policy, node>>
    BY <2>1 DEF Reconnect, serverVars
  <2> QED BY <2>2, StreamBroken DEF StreamInv, ServerInv
<1>10. CASE Stop
  <2>1. /\ wire' = <<>> /\ live' = <<>> /\ conn' # "handshake"
        /\ UNCHANGED <<banks, stored, done, out, twice, dedup, policy, node, from>>
    BY <1>10 DEF Stop, serverVars, clientVars, requestVars
  <2> QED BY <2>1, StreamBroken DEF StreamInv, ServerInv, PlainInv
<1>11. CASE \E error : ConnectFails(error)
  <2>1. PICK error : ConnectFails(error)
    BY <1>11
  <2>2. /\ conn = "connecting" /\ conn' # "handshake"
        /\ UNCHANGED <<wire, live, banks, stored, done, out, twice, dedup, policy, node, from>>
    BY <2>1 DEF ConnectFails, serverVars, clientVars, requestVars
  <2> QED BY <2>2, StreamBroken DEF StreamInv, ServerInv, PlainInv, QueuesInv
<1>12. CASE \E meta \in UserMeta : StartSend(meta)
    BY <1>1, <1>12 DEF StartSend, serverVars, connectionVars, clientVars
<1> QED BY <1>2, <1>3, <1>4, <1>5, <1>6, <1>7, <1>8, <1>9, <1>10, <1>11, <1>12, ResumeSteps

\* The user never receives an update twice: what a replay repeats is held back or recognised, for
\* any number of slots, payloads and reconnections and any order of the client's and the server's
\* steps.  The hypothesis excludes what really lets an update through again: another node's block
\* of the same slot, a bank published before the replay it was created behind, a slot the dedup
\* state has dropped.
THEOREM NeverTwice ==
    ASSUME SteadyServer
    PROVE  ResumeSpec => []NoDuplicates
<1>1. StreamInv => NoDuplicates
    BY DEF StreamInv, NoDuplicates
<1>2. ResumeInit => RequestsInv /\ LatestInv /\ StreamInv
    BY RequestsStart, StreamStart
<1>3. RequestsInv /\ LatestInv /\ StreamInv /\ [ResumeNext]_resumeVars
         => (RequestsInv /\ LatestInv /\ StreamInv)'
    BY RequestsStep, StreamStep
<1> QED BY <1>1, <1>2, <1>3, PTL DEF ResumeSpec

-----------------------------------------------------------------------------
(* Every BlockMeta comes after the payloads of its block.                  *)

Whole(q, X) ==
    \A i \in DOMAIN q, s \in Slots, a \in Data :
        q[i] = MetaMsg(s, TheNode) =>
            DataMsg(s, a, TheNode) \in X \/ Before(q, i, DataMsg(s, a, TheNode))

\* The payloads the user has received, or that wait for their BlockMeta
Held == {x \in Messages : x \in out \/ Quarantined(x)}

WholeInv ==
    /\ \A s \in Slots, a \in Data : MetaMsg(s, TheNode) \in out => DataMsg(s, a, TheNode) \in out
    /\ Whole(wire, Held)
    /\ Whole(live, {})

LEMMA WholeMore ==
    ASSUME NEW q, NEW X, NEW Y, Whole(q, X), X \subseteq Y
    PROVE  Whole(q, Y)
BY DEF Whole

LEMMA WholeEmpty ==
    ASSUME NEW X
    PROVE  Whole(<<>>, X)
BY DEF Whole

LEMMA BeforeInFront ==
    ASSUME NEW T, NEW q \in Seq(T), NEW p \in Seq(T), NEW r, r = q \o p, NEW l \in Nat, Joined(q, p, r, l, T)
    PROVE  /\ \A x : \A i \in DOMAIN q : Before(q, i, x) => Before(r, i, x)
           /\ \A x : \A i \in DOMAIN p : Before(p, i, x) => Before(r, l + i, x)
           /\ \A i \in DOMAIN p, j \in DOMAIN q : Before(r, l + i, q[j])
<1>1. /\ \A i \in DOMAIN q : i \in DOMAIN r /\ r[i] = q[i]
      /\ \A j \in DOMAIN p : l + j \in DOMAIN r /\ r[l + j] = p[j]
      /\ DOMAIN q = 1..l
    BY DEF Joined
<1>2. PICK n \in Nat : DOMAIN p = 1..n
    BY LenProperties
<1>3. ASSUME NEW i \in DOMAIN q, NEW x, Before(q, i, x) PROVE Before(r, i, x)
  <2>1. PICK j \in 1..(i - 1) : q[j] = x
    BY <1>3 DEF Before
  <2>2. j \in DOMAIN q
    BY <1>1
  <2> QED BY <1>1, <2>1, <2>2 DEF Before
<1>4. ASSUME NEW i \in DOMAIN p, NEW x, Before(p, i, x) PROVE Before(r, l + i, x)
  <2>1. PICK j \in 1..(i - 1) : p[j] = x
    BY <1>4 DEF Before
  <2>2. j \in DOMAIN p /\ l + j \in 1..((l + i) - 1)
    BY <1>2
  <2>3. r[l + j] = x
    BY <1>1, <2>1, <2>2
  <2> QED BY <2>2, <2>3 DEF Before
<1>5. ASSUME NEW i \in DOMAIN p, NEW j \in DOMAIN q PROVE Before(r, l + i, q[j])
  <2>1. j \in 1..((l + i) - 1)
    BY <1>1, <1>2
  <2> QED BY <1>1, <2>1 DEF Before
<1> QED BY <1>3, <1>4, <1>5

LEMMA WholeConcat ==
    ASSUME NEW T, NEW q \in Seq(T), NEW p \in Seq(T), NEW r, r = q \o p, NEW X, Whole(q, X), Whole(p, X)
    PROVE  Whole(r, X)
<1>1. PICK l \in Nat : Joined(q, p, r, l, T)
    BY ConcatPlaces
<1>2. /\ \A i \in DOMAIN q : i \in DOMAIN r /\ r[i] = q[i]
      /\ \A j \in DOMAIN p : l + j \in DOMAIN r /\ r[l + j] = p[j]
      /\ \A i \in DOMAIN r : i \in DOMAIN q \/ \E j \in DOMAIN p : i = l + j
    BY <1>1 DEF Joined
<1>3. /\ \A x : \A i \in DOMAIN q : Before(q, i, x) => Before(r, i, x)
      /\ \A x : \A i \in DOMAIN p : Before(p, i, x) => Before(r, l + i, x)
    BY <1>1, BeforeInFront
<1> SUFFICES ASSUME NEW i \in DOMAIN r, NEW s \in Slots, NEW a \in Data, r[i] = MetaMsg(s, TheNode)
             PROVE  DataMsg(s, a, TheNode) \in X \/ Before(r, i, DataMsg(s, a, TheNode))
    BY DEF Whole
<1>4. CASE i \in DOMAIN q
    BY <1>2, <1>3, <1>4 DEF Whole
<1>5. CASE \E j \in DOMAIN p : i = l + j
  <2>1. PICK j \in DOMAIN p : i = l + j
    BY <1>5
  <2>2. p[j] = MetaMsg(s, TheNode)
    BY <1>2, <2>1
  <2> QED BY <1>3, <2>1, <2>2 DEF Whole
<1> QED BY <1>2, <1>4, <1>5

LEMMA BeforeInTail ==
    ASSUME NEW T, NEW q \in Seq(T), q # <<>>, NEW r, r = Tail(q), NEW i \in DOMAIN r, NEW x,
           Before(q, i + 1, x)
    PROVE  x = q[1] \/ Before(r, i, x)
<1>1. PICK l \in Nat : DOMAIN r = 1..l
  <2>1. r \in Seq(T)
    BY TailPlaces
  <2> QED BY <2>1, LenProperties
<1>2. /\ \A j \in DOMAIN r : j \in Nat \ {0} /\ r[j] = q[j + 1]
    BY TailPlaces
<1>3. PICK j \in 1..((i + 1) - 1) : q[j] = x
    BY DEF Before
<1>4. CASE j # 1
  <2>1. j - 1 \in 1..(i - 1) /\ j - 1 \in DOMAIN r /\ (j - 1) + 1 = j
    BY <1>1, <1>4
  <2>2. r[j - 1] = x
    BY <1>2, <1>3, <2>1
  <2> QED BY <2>1, <2>2 DEF Before
<1> QED BY <1>3, <1>4

LEMMA WholeTail ==
    ASSUME NEW T, NEW q \in Seq(T), q # <<>>, NEW r, r = Tail(q), NEW X, NEW Y, Whole(q, X),
           \A s \in Slots, a \in Data :
              DataMsg(s, a, TheNode) \in X \/ DataMsg(s, a, TheNode) = q[1] => DataMsg(s, a, TheNode) \in Y
    PROVE  Whole(r, Y)
<1> SUFFICES ASSUME NEW i \in DOMAIN r, NEW s \in Slots, NEW a \in Data, r[i] = MetaMsg(s, TheNode)
             PROVE  DataMsg(s, a, TheNode) \in Y \/ Before(r, i, DataMsg(s, a, TheNode))
    BY DEF Whole
<1>1. i \in Nat \ {0} /\ i + 1 \in DOMAIN q /\ q[i + 1] = MetaMsg(s, TheNode)
    BY TailPlaces
<1>2. DataMsg(s, a, TheNode) \in X \/ Before(q, i + 1, DataMsg(s, a, TheNode))
    BY <1>1 DEF Whole
<1>3. Before(q, i + 1, DataMsg(s, a, TheNode)) =>
         DataMsg(s, a, TheNode) = q[1] \/ Before(r, i, DataMsg(s, a, TheNode))
    BY BeforeInTail
<1> QED BY <1>2, <1>3

LEMMA ReplayWhole ==
    ASSUME SteadyServer, StreamInv, Requested(inforce), NEW replay, replay = Replay
    PROVE  Whole(replay, {})
<1>1. node = TheNode /\ stored \subseteq Slots
    BY OneNode DEF StreamInv, ServerInv
<1>2. replay \in Seq(ReplayMsgs)
    BY <1>1, ReplayShape
<1>3. PICK l \in Nat : DOMAIN replay = 1..l
    BY <1>2, LenProperties
<1>4. ASSUME NEW i \in DOMAIN replay, NEW t \in Slots, NEW a \in Data, replay[i] = MetaMsg(t, TheNode)
      PROVE  Before(replay, i, DataMsg(t, a, TheNode))
  <2>1. PICK j \in DOMAIN replay : j < i /\ replay[j] = DataMsg(t, a, node)
    BY <1>1, <1>4, ReplayShape
  <2>2. j \in 1..(i - 1)
    BY <1>3, <2>1
  <2> QED BY <1>1, <2>1, <2>2 DEF Before
<1> QED BY <1>4 DEF Whole

LEMMA SendKeepsWhole ==
    ASSUME StreamInv, WholeInv, NEW msgs \in Seq(Messages), Send(msgs), Whole(msgs, {}),
           UNCHANGED <<out, policy, reconnect_count, last_reconnect_count, dedup>>
    PROVE  WholeInv'
<1>1. Held' = Held
    BY DEF Held, Quarantined
<1>2. PICK T : T = Messages \cup ServerErrors
    OBVIOUS
<1>3. wire \in Seq(T) /\ live \in Seq(T) /\ msgs \in Seq(T)
    BY <1>2 DEF StreamInv, QueuesInv, GoodQueue
<1>4. PICK w : w = wire \o msgs
    OBVIOUS
<1>5. PICK v : v = live \o msgs
    OBVIOUS
<1>6. Whole(msgs, Held)
    BY WholeMore
<1>7. Whole(w, Held)
    BY <1>3, <1>4, <1>6, WholeConcat DEF WholeInv
<1>8. Whole(v, {})
    BY <1>3, <1>5, WholeConcat DEF WholeInv
<1>9. wire' = (IF conn = "up" THEN w ELSE wire) /\ live' = (IF conn = "handshake" THEN v ELSE live)
    BY <1>4, <1>5 DEF Send
<1>10. Whole(wire', Held) /\ Whole(live', {})
    BY <1>7, <1>8, <1>9 DEF WholeInv
<1> QED BY <1>1, <1>10 DEF WholeInv

LEMMA WholeReceived ==
    ASSUME SteadyServer, StreamInv, WholeInv, Receive
    PROVE  WholeInv'
<1>1. PICK m : m = wire[1]
    OBVIOUS
<1>2. wire # <<>> /\ conn = "up" /\ m \in Messages /\ Taken(m)
    BY <1>1, ReceiveTakes
<1>3. wire' = Tail(wire) /\ live' = <<>>
    BY <1>2 DEF Receive, StreamInv, QueuesInv
<1>4. PICK T : T = Messages \cup ServerErrors
    OBVIOUS
<1>5. wire \in Seq(T) /\ 1 \in DOMAIN wire
  <2>1. wire \in Seq(T)
    BY <1>4 DEF StreamInv, QueuesInv, GoodQueue
  <2> QED BY <1>2, <2>1, EmptySeq, LenProperties
<1>6. ASSUME NEW s \in Slots, NEW a \in Data, MetaMsg(s, TheNode) \in out'
      PROVE  DataMsg(s, a, TheNode) \in out'
  <2>1. CASE MetaMsg(s, TheNode) \in out
    BY <1>2, <2>1 DEF WholeInv, Taken
  <2>2. CASE MetaMsg(s, TheNode) \notin out
    <3>1. m.kind = "meta" /\ m.slot = s
        BY <1>2, <1>6, <2>2, MessageFields DEF Taken
    <3>2. m = MetaMsg(s, TheNode)
        BY <1>2, <3>1, MessageForms DEF StatusKinds
    <3>3. ~Before(wire, 1, DataMsg(s, a, TheNode))
        BY DEF Before
    <3>4. DataMsg(s, a, TheNode) \in Held
        BY <1>1, <1>5, <3>2, <3>3 DEF WholeInv, Whole
    <3>5. DataMsg(s, a, TheNode).slot = m.slot
        BY <3>1, MessageFields
    <3>6. ~(Quarantined(DataMsg(s, a, TheNode))')
        BY <1>2, <3>1, <3>5 DEF Taken
    <3> QED BY <1>2, <2>2, <3>1, <3>4, <3>6 DEF Taken, Held
  <2> QED BY <2>1, <2>2
<1>7. ASSUME NEW s \in Slots, NEW a \in Data,
             DataMsg(s, a, TheNode) \in Held \/ DataMsg(s, a, TheNode) = m
      PROVE  DataMsg(s, a, TheNode) \in Held'
  <2>1. PICK x : x = DataMsg(s, a, TheNode)
    OBVIOUS
  <2>2. x.kind = "data" /\ x.slot = s
    BY <2>1, MessageFields
  <2>3. x \in Messages
    BY <1>2, <1>7, <2>1 DEF Held
  <2>4. x \in out' \/ Quarantined(x)'
    <3>1. CASE x = m
        BY <1>2, <2>2, <3>1 DEF Taken
    <3>2. CASE x \in out
        BY <1>2, <3>2 DEF Taken
    <3>3. CASE Quarantined(x) /\ x.slot = m.slot /\ MetaMsg(m.slot, TheNode) \in out
        BY <1>2, <2>1, <2>2, <3>3 DEF WholeInv, Taken
    <3>4. CASE Quarantined(x) /\ ~(x.slot = m.slot /\ MetaMsg(m.slot, TheNode) \in out)
        BY <1>2, <3>4 DEF Taken
    <3> QED BY <1>7, <2>1, <3>1, <3>2, <3>3, <3>4 DEF Held
  <2> QED BY <2>1, <2>3, <2>4 DEF Held
<1>8. PICK Y : Y = Held'
    OBVIOUS
<1>9. PICK tl : tl = Tail(wire)
    OBVIOUS
<1>10. Whole(tl, Y)
  <2>1. \A s \in Slots, a \in Data :
           DataMsg(s, a, TheNode) \in Held \/ DataMsg(s, a, TheNode) = wire[1] => DataMsg(s, a, TheNode) \in Y
    BY <1>1, <1>7, <1>8
  <2> QED BY <1>2, <1>5, <1>9, <2>1, WholeTail DEF WholeInv
<1> QED BY <1>3, <1>6, <1>8, <1>9, <1>10, WholeEmpty DEF WholeInv

LEMMA WholeStep ==
    ASSUME SteadyServer, RequestsInv, StreamInv, WholeInv, [ResumeNext]_resumeVars
    PROVE  WholeInv'
<1>0. Requested(inforce)
    BY RequestsAreRequested
<1>1. ASSUME UNCHANGED <<out, wire, policy, reconnect_count, last_reconnect_count, dedup>>,
             live' = live \/ live' = <<>>
      PROVE  WholeInv'
  <2>1. Held' = Held
    BY <1>1 DEF Held, Quarantined
  <2> QED BY <1>1, <2>1, WholeEmpty DEF WholeInv
<1>2. ASSUME out' = out, wire' = <<>>, live' = <<>>
      PROVE  WholeInv'
    BY <1>2, WholeEmpty DEF WholeInv
<1>3. CASE UNCHANGED resumeVars
    BY <1>1, <1>3 DEF resumeVars, serverVars, connectionVars, clientVars, requestVars
<1>4. CASE \E s \in Slots : CreateBank(s)
  <2>1. PICK s \in Slots : CreateBank(s)
    BY <1>4
  <2>2. PICK msgs : msgs = IF "created" \in UserKinds THEN <<CreatedBank(s)>> ELSE <<>>
    OBVIOUS
  <2>3. CreatedBank(s) \in Messages /\ CreatedBank(s).kind = "created"
    BY MessageFields DEF Messages
  <2>4. msgs \in Seq(Messages) /\ \A i \in DOMAIN msgs : msgs[i] = CreatedBank(s)
    BY <2>2, <2>3
  <2>5. Whole(msgs, {})
    BY <2>3, <2>4, MessageFields DEF Whole
  <2>6. Send(msgs) /\ UNCHANGED <<out, policy, reconnect_count, last_reconnect_count, dedup>>
    BY <2>1, <2>2 DEF CreateBank, clientVars, requestVars
  <2> QED BY <2>4, <2>5, <2>6, SendKeepsWhole
<1>5. CASE \E s \in Slots : PublishBlock(s)
  <2>1. PICK s \in Slots : PublishBlock(s)
    BY <1>5
  <2>2. PICK msgs : msgs = BlockOf(s, node, inforce)
    OBVIOUS
  <2>3. node = TheNode
    BY OneNode DEF StreamInv, ServerInv
  <2>4. msgs \in Seq(Messages)
    BY <1>0, <2>2, <2>3, BlockQueue
  <2>5. Whole(msgs, {})
    BY <1>0, <2>2, <2>3, BlockQueue DEF Whole
  <2>6. Send(msgs) /\ UNCHANGED <<out, policy, reconnect_count, last_reconnect_count, dedup>>
    BY <2>1, <2>2 DEF PublishBlock, clientVars, requestVars
  <2> QED BY <2>4, <2>5, <2>6, SendKeepsWhole
<1>6. CASE PruneOldest
    BY <1>1, <1>6 DEF PruneOldest, connectionVars, clientVars, requestVars
<1>7. CASE ServeReplay
  <2>1. PICK replay : replay = Replay
    OBVIOUS
  <2>2. replay \in Seq(Messages) /\ Whole(replay, {})
    BY <1>0, <2>1, ReplayQueue, ReplayWhole
  <2>3. live \in Seq(Messages) /\ Whole(live, {})
    BY DEF StreamInv, QueuesInv, WholeInv
  <2>4. PICK w : w = replay \o live
    OBVIOUS
  <2>5. Whole(w, {})
    BY <2>2, <2>3, <2>4, WholeConcat
  <2>6. Whole(w, Held)
    BY <2>5, WholeMore
  <2>7. ASSUME NEW code \in {"OutOfRange", "Internal"}, NEW q, q = <<Error(code)>>
        PROVE  Whole(q, Held)
    <3>1. \A i \in DOMAIN q : q[i].kind # "meta"
        BY <2>7 DEF Error, Msg
    <3> QED BY <3>1, MessageFields DEF Whole
  <2>8. /\ live' = <<>> /\ wire' \in {<<Error("OutOfRange")>>, <<Error("Internal")>>, w}
        /\ UNCHANGED <<out, policy, reconnect_count, last_reconnect_count, dedup>>
    BY <1>7, <2>1, <2>4 DEF ServeReplay, clientVars, requestVars
  <2>9. Whole(wire', Held)
    BY <2>6, <2>7, <2>8
  <2>10. Held' = Held
    BY <2>8 DEF Held, Quarantined
  <2> QED BY <2>8, <2>9, <2>10, WholeEmpty DEF WholeInv
<1>8. CASE ReadRequest
    BY <1>1, <1>8 DEF ReadRequest, clientVars
<1>9. CASE Connected
  <2>1. conn = "connecting" /\ UNCHANGED <<wire, live, out>>
    BY <1>9 DEF Connected
  <2>2. wire = <<>> /\ live = <<>>
    BY <2>1 DEF StreamInv, QueuesInv
  <2> QED BY <1>2, <2>1, <2>2
<1>10. CASE Receive
    BY <1>10, WholeReceived
<1>11. CASE \E c \in {NoSlot, last_checkpoint} : Reconnect(c)
    BY <1>2, <1>11 DEF Reconnect
<1>12. CASE Stop
    BY <1>2, <1>12 DEF Stop, clientVars
<1>13. CASE \E error : ConnectFails(error)
    BY <1>1, <1>13 DEF ConnectFails, clientVars, requestVars
<1>14. CASE \E meta \in UserMeta : StartSend(meta)
    BY <1>1, <1>14 DEF StartSend, connectionVars, clientVars
<1> QED BY <1>3, <1>4, <1>5, <1>6, <1>7, <1>8, <1>9, <1>10, <1>11, <1>12, <1>13, <1>14, ResumeSteps

-----------------------------------------------------------------------------
(* The server's order of publication and its window                        *)

PublishInv ==
    /\ \A z \in done, t \in Slots : t < z - MaxDisorder => t \in done
    /\ \A p \in done \ stored : /\ \A s \in stored : p < s
                                /\ \A t \in Slots : t < p => t \in done
    /\ stored = {} => done = {}

LEMMA OldestIs ==
    ASSUME NEW S \in SUBSET Nat, S # {}
    PROVE  Oldest(S) \in S /\ \A t \in S : Oldest(S) <= t
<1>1. PICK e \in S : \A t \in S : ~(<<t, e>> \in OpToRel(<, Nat))
    BY NatLessThanWellFounded, WFMin
<1>2. \A t \in S : ~(t < e)
    BY <1>1 DEF OpToRel
<1>3. \A t \in S : e <= t
    BY <1>2
<1> QED BY <1>3 DEF Oldest

\* A set with more members than w reaches w beyond its least one.
LEMMA ReachesBeyond ==
    ASSUME NEW S \in SUBSET Nat, NEW w \in Nat, IsFiniteSet(S), Cardinality(S) > w,
           NEW e \in S, \A t \in S : e <= t
    PROVE  \E z \in S : z >= e + w
<1> SUFFICES ASSUME \A z \in S : z < e + w PROVE FALSE
    OBVIOUS
<1>1. S \subseteq e..(e + w - 1)
    OBVIOUS
<1>2. PICK h \in Nat : h = e + w - 1 \/ w = 0
    OBVIOUS
<1>3. CASE w = 0
    BY <1>3
<1>4. CASE w # 0
  <2>1. IsFiniteSet(e..h) /\ Cardinality(e..h) = h - e + 1
    BY <1>2, <1>4, FS_Interval
  <2>2. Cardinality(S) <= Cardinality(e..h)
    BY <1>1, <1>2, <1>4, <2>1, FS_Subset
  <2>3. Cardinality(S) \in Nat
    BY FS_CardinalityType
  <2> QED BY <1>2, <1>4, <2>1, <2>2, <2>3
<1> QED BY <1>3, <1>4

LEMMA PublishStart ==
    ASSUME WithinReach, ResumeInit
    PROVE  PublishInv
BY DEF WithinReach, ResumeInit, PublishInv

LEMMA PublishStep ==
    ASSUME WithinReach, StreamInv, PublishInv, [ResumeNext]_resumeVars
    PROVE  PublishInv'
<1>0. /\ Slots \subseteq Nat /\ IsFiniteSet(Slots) /\ MaxDisorder \in Nat
      /\ Window \in Nat /\ Window # 0 /\ MaxDisorder <= Window
    BY ResumeAssumption DEF ResumeAssumption, WithinReach
<1>1. stored \subseteq done /\ done \subseteq Slots
    BY DEF StreamInv, ServerInv
<1>2. ASSUME UNCHANGED <<stored, done>> PROVE PublishInv'
    BY <1>2 DEF PublishInv
<1>3. CASE \E s \in Slots : PublishBlock(s)
  <2>1. PICK s \in Slots : PublishBlock(s)
    BY <1>3
  <2>2. /\ s \notin done /\ \A t \in Slots : t < s - MaxDisorder => t \in done
        /\ stored' = stored \cup {s} /\ done' = done \cup {s}
    BY <2>1 DEF PublishBlock
  <2>3. \A p \in done \ stored : p < s
    BY <1>0, <1>1, <2>2 DEF PublishInv
  <2> QED BY <2>2, <2>3 DEF PublishInv
<1>4. CASE PruneOldest
  <2>1. PICK e : e = Oldest(stored)
    OBVIOUS
  <2>2. Cardinality(stored) > Window /\ stored' = stored \ {e} /\ done' = done
    BY <1>4, <2>1 DEF PruneOldest
  <2>3. stored \in SUBSET Nat /\ IsFiniteSet(stored)
    BY <1>0, <1>1, FS_Subset
  <2>4. stored # {} /\ stored # {e}
    BY <1>0, <2>2, FS_EmptySet, FS_Singleton
  <2>5. e \in stored /\ \A t \in stored : e <= t
    BY <2>1, <2>3, <2>4, OldestIs
  <2>6. PICK z \in stored : z >= e + Window
    BY <1>0, <2>2, <2>3, <2>5, ReachesBeyond
  <2>7. \A t \in Slots : t < e => t \in done
    <3> SUFFICES ASSUME NEW t \in Slots, t < e PROVE t \in done
        OBVIOUS
    <3>1. z \in Nat /\ e \in Nat /\ t \in Nat /\ z \in done
        BY <1>0, <1>1, <2>5, <2>6
    <3>2. t < z - MaxDisorder
        BY <1>0, <2>6, <3>1
    <3> QED BY <3>1, <3>2 DEF PublishInv
  <2>8. \A s \in stored \ {e} : e < s
    BY <2>3, <2>5
  <2>9. stored \ {e} # {}
    BY <2>4, <2>5
  <2> QED BY <2>2, <2>7, <2>8, <2>9 DEF PublishInv
<1>5. CASE UNCHANGED resumeVars
    BY <1>2, <1>5 DEF resumeVars, serverVars
<1>6. CASE \E s \in Slots : CreateBank(s)
    BY <1>2, <1>6 DEF CreateBank
<1>7. CASE ServeReplay \/ ReadRequest \/ Connected \/ Receive
    BY <1>2, <1>7 DEF ServeReplay, ReadRequest, Connected, Receive, serverVars
<1>8. CASE \E c \in {NoSlot, last_checkpoint} : Reconnect(c)
    BY <1>2, <1>8 DEF Reconnect, serverVars
<1>9. CASE Stop
    BY <1>2, <1>9 DEF Stop, serverVars
<1>10. CASE \E error : ConnectFails(error)
    BY <1>2, <1>10 DEF ConnectFails, serverVars
<1>11. CASE \E meta \in UserMeta : StartSend(meta)
    BY <1>2, <1>11 DEF StartSend, serverVars
<1> QED BY <1>3, <1>4, <1>5, <1>6, <1>7, <1>8, <1>9, <1>10, <1>11, ResumeSteps

-----------------------------------------------------------------------------
(* What a stream that had every replay it needed still owes the user       *)

NewSlots == Slots \ StoredBefore
Meta(s) == MetaMsg(s, TheNode)
Sealing == ~gap /\ ~unsealed
Intact(q) == \A i \in DOMAIN q : ~IsError(q[i])
NoInternal(q) == \A i \in DOMAIN q : q[i].kind # "internal"

\* The blocks below a checkpoint have been received.
Passed(c, o) == \A s \in NewSlots : s < c => Meta(s) \in o
MetaIn(q, s) == \E i \in DOMAIN q : q[i] = Meta(s)
\* Every block of dn has been received, or is still to come.
Reaches(q, dn, o) == \A s \in dn \cap NewSlots : Meta(s) \in o \/ MetaIn(q, s)
\* A BlockMeta comes after those of the slots below the checkpoint it sets.
InTurn(q, o) ==
    \A i \in DOMAIN q, t \in Slots : q[i] = Meta(t) =>
        \A u \in NewSlots : u < t - CheckpointSlotBuffer => Meta(u) \in o \/ Before(q, i, Meta(u))
\* The slots below the checkpoints of q are in dn.
After(q, dn) ==
    \A i \in DOMAIN q, t \in Slots : q[i] = Meta(t) =>
        \A u \in NewSlots : u < t - CheckpointSlotBuffer => u \in dn

MarksInv ==
    /\ last_checkpoint \in Nat \cup {NoSlot} /\ from \in Nat \cup {NoSlot}
    /\ conn = "handshake" => from # NoSlot
OwnMeta == inforce.blocks_meta = "own" /\ NoInternal(wire) /\ NoInternal(live)
Checks == Passed(last_checkpoint, out) /\ (conn \in {"connecting", "handshake"} => Passed(from, out))
Comes == conn = "up" /\ Intact(wire) => Reaches(wire, done, out) /\ InTurn(wire, out)
OwedInv == MarksInv /\ (Sealing => OwnMeta /\ Checks /\ Comes)

LEMMA NothingBelowNoSlot ==
    ASSUME NEW o
    PROVE  Passed(NoSlot, o) /\ Passed(0, o)
<1>1. \A s \in NewSlots : s \in Nat
    BY ResumeAssumption DEF ResumeAssumption, NewSlots
<1> QED BY <1>1 DEF Passed, NoSlot

LEMMA PassedLater ==
    ASSUME NEW c, NEW o, NEW o2, Passed(c, o), o \subseteq o2
    PROVE  Passed(c, o2)
BY DEF Passed

LEMMA ComingEmpty ==
    ASSUME NEW o
    PROVE  Reaches(<<>>, StoredBefore, o) /\ InTurn(<<>>, o) /\ NoInternal(<<>>) /\ Intact(<<>>)
BY DEF Reaches, InTurn, NoInternal, Intact, NewSlots

LEMMA ComingConcat ==
    ASSUME NEW T, NEW q \in Seq(T), NEW p \in Seq(T), NEW r, r = q \o p,
           NEW dn, NEW dn2, NEW o, After(p, dn), Reaches(q, dn, o), InTurn(q, o),
           \A s \in dn2 \cap NewSlots : s \in dn \/ MetaIn(p, s)
    PROVE  Reaches(r, dn2, o) /\ InTurn(r, o)
<1>1. PICK l \in Nat : Joined(q, p, r, l, T)
    BY ConcatPlaces
<1>2. /\ \A i \in DOMAIN q : i \in DOMAIN r /\ r[i] = q[i]
      /\ \A j \in DOMAIN p : l + j \in DOMAIN r /\ r[l + j] = p[j]
      /\ \A i \in DOMAIN r : i \in DOMAIN q \/ \E j \in DOMAIN p : i = l + j
    BY <1>1 DEF Joined
<1>3. /\ \A x : \A i \in DOMAIN q : Before(q, i, x) => Before(r, i, x)
      /\ \A i \in DOMAIN p, j \in DOMAIN q : Before(r, l + i, q[j])
    BY <1>1, BeforeInFront
<1>4. Reaches(r, dn2, o)
  <2> SUFFICES ASSUME NEW s \in dn2 \cap NewSlots PROVE Meta(s) \in o \/ MetaIn(r, s)
    BY DEF Reaches
  <2>1. CASE s \in dn
    <3>1. Meta(s) \in o \/ MetaIn(q, s)
        BY <2>1 DEF Reaches
    <3> QED BY <1>2, <3>1 DEF MetaIn
  <2>2. CASE MetaIn(p, s)
    BY <1>2, <2>2 DEF MetaIn
  <2> QED BY <2>1, <2>2
<1>5. InTurn(r, o)
  <2> SUFFICES ASSUME NEW i \in DOMAIN r, NEW t \in Slots, r[i] = Meta(t),
                      NEW u \in NewSlots, u < t - CheckpointSlotBuffer
               PROVE  Meta(u) \in o \/ Before(r, i, Meta(u))
    BY DEF InTurn
  <2>1. CASE i \in DOMAIN q
    <3>1. Meta(u) \in o \/ Before(q, i, Meta(u))
        BY <1>2, <2>1 DEF InTurn
    <3> QED BY <1>3, <2>1, <3>1
  <2>2. CASE \E j \in DOMAIN p : i = l + j
    <3>1. PICK j \in DOMAIN p : i = l + j
        BY <2>2
    <3>2. p[j] = Meta(t)
        BY <1>2, <3>1
    <3>3. u \in dn
        BY <3>2 DEF After
    <3>4. Meta(u) \in o \/ \E k \in DOMAIN q : q[k] = Meta(u)
        BY <3>3 DEF Reaches, MetaIn
    <3> QED BY <1>3, <3>1, <3>4
  <2> QED BY <1>2, <2>1, <2>2
<1> QED BY <1>4, <1>5

LEMMA ComingTail ==
    ASSUME NEW T, NEW q \in Seq(T), q # <<>>, NEW r, r = Tail(q), NEW dn, NEW o, NEW o2,
           Reaches(q, dn, o), InTurn(q, o), o \subseteq o2,
           \A s \in Slots : q[1] = Meta(s) => Meta(s) \in o2
    PROVE  Reaches(r, dn, o2) /\ InTurn(r, o2)
<1>1. /\ \A i \in DOMAIN r : i + 1 \in DOMAIN q /\ r[i] = q[i + 1]
      /\ \A i \in DOMAIN q : i # 1 => i - 1 \in DOMAIN r /\ r[i - 1] = q[i]
    BY TailPlaces
<1>2. NewSlots \subseteq Slots
    BY DEF NewSlots
<1>3. Reaches(r, dn, o2)
  <2> SUFFICES ASSUME NEW s \in dn \cap NewSlots, Meta(s) \notin o2 PROVE MetaIn(r, s)
    BY DEF Reaches
  <2>1. PICK i \in DOMAIN q : q[i] = Meta(s)
    BY DEF Reaches, MetaIn
  <2>2. i # 1
    BY <1>2, <2>1
  <2> QED BY <1>1, <2>1, <2>2 DEF MetaIn
<1>4. InTurn(r, o2)
  <2> SUFFICES ASSUME NEW i \in DOMAIN r, NEW t \in Slots, r[i] = Meta(t),
                      NEW u \in NewSlots, u < t - CheckpointSlotBuffer
               PROVE  Meta(u) \in o2 \/ Before(r, i, Meta(u))
    BY DEF InTurn
  <2>1. Meta(u) \in o \/ Before(q, i + 1, Meta(u))
    BY <1>1 DEF InTurn
  <2>2. Before(q, i + 1, Meta(u)) => Meta(u) = q[1] \/ Before(r, i, Meta(u))
    BY BeforeInTail
  <2> QED BY <1>2, <2>1, <2>2
<1> QED BY <1>3, <1>4

\* A block is published only when those below its checkpoint have been.
LEMMA AfterPublished ==
    ASSUME WithinReach, PublishInv, done \subseteq Slots, NEW q, \A i \in DOMAIN q, t \in Slots : q[i] = Meta(t) => t \in done
    PROVE  After(q, done)
<1>1. Slots \subseteq Nat /\ MaxDisorder \in Nat /\ CheckpointSlotBuffer \in Nat /\ MaxDisorder <= CheckpointSlotBuffer
    BY ResumeAssumption DEF ResumeAssumption, WithinReach
<1> SUFFICES ASSUME NEW i \in DOMAIN q, NEW t \in Slots, q[i] = Meta(t),
                    NEW u \in NewSlots, u < t - CheckpointSlotBuffer
             PROVE  u \in done
    BY DEF After
<1>2. u \in Slots /\ t \in done
    BY DEF NewSlots
<1>3. u < t - MaxDisorder
    BY <1>1, <1>2
<1> QED BY <1>2, <1>3 DEF PublishInv

LEMMA OwedStart ==
    ASSUME SteadyServer, ResumeInit
    PROVE  OwedInv
<1>1. MarksInv
    BY DEF ResumeInit, MarksInv
<1>2. ~unsealed => inforce.blocks_meta = "own"
    BY DEF ResumeInit
<1> QED BY <1>1, <1>2, NothingBelowNoSlot, ComingEmpty DEF ResumeInit, OwedInv, OwnMeta, Checks, Comes, Sealing

\* The server sends more.
LEMMA SendKeepsOwed ==
    ASSUME StreamInv, OwedInv, NEW msgs \in Seq(Messages), Send(msgs), NoInternal(msgs) \/ ~Sealing,
           After(msgs, done), \A s \in done' \cap NewSlots : s \in done \/ MetaIn(msgs, s) \/ ~Sealing,
           UNCHANGED <<conn, out, inforce, last_checkpoint, from, gap, unsealed>>
    PROVE  OwedInv'
<1>1. MarksInv'
    BY DEF OwedInv, MarksInv
<1>2. CASE ~Sealing
    BY <1>1, <1>2 DEF OwedInv, Sealing
<1>3. CASE Sealing
  <2>1. PICK T : T = Messages \cup ServerErrors
    OBVIOUS
  <2>2. wire \in Seq(T) /\ live \in Seq(T) /\ msgs \in Seq(T)
    BY <2>1 DEF StreamInv, QueuesInv, GoodQueue
  <2>3. PICK w : w = wire \o msgs
    OBVIOUS
  <2>4. PICK v : v = live \o msgs
    OBVIOUS
  <2>5. wire' = (IF conn = "up" THEN w ELSE wire) /\ live' = (IF conn = "handshake" THEN v ELSE live)
    BY <2>3, <2>4 DEF Send
  <2>6. OwnMeta /\ Checks /\ Comes
    BY <1>3 DEF OwedInv
  <2>7. NoInternal(w) /\ (Intact(w) => Intact(wire))
    <3>1. PICK l \in Nat : Joined(wire, msgs, w, l, T)
        BY <2>2, <2>3, ConcatPlaces
    <3> QED BY <1>3, <2>6, <3>1 DEF Joined, NoInternal, Intact, OwnMeta
  <2>8. NoInternal(v)
    <3>1. PICK l \in Nat : Joined(live, msgs, v, l, T)
        BY <2>2, <2>4, ConcatPlaces
    <3> QED BY <1>3, <2>6, <3>1 DEF Joined, NoInternal, OwnMeta
  <2>9. OwnMeta'
    BY <2>5, <2>6, <2>7, <2>8 DEF OwnMeta
  <2>10. Checks'
    BY <2>6 DEF Checks
  <2>11. ASSUME conn = "up", Intact(w) PROVE Reaches(w, done', out) /\ InTurn(w, out)
    <3>1. Reaches(wire, done, out) /\ InTurn(wire, out)
        BY <2>6, <2>7, <2>11 DEF Comes
    <3>2. \A s \in done' \cap NewSlots : s \in done \/ MetaIn(msgs, s)
        BY <1>3
    <3> QED BY <2>2, <2>3, <3>1, <3>2, ComingConcat
  <2>12. Comes'
    BY <2>5, <2>11 DEF Comes
  <2> QED BY <1>1, <2>9, <2>10, <2>12 DEF OwedInv
<1> QED BY <1>2, <1>3

\* A replay covers what the request's slot leaves open.
LEMMA ReplayOwed ==
    ASSUME SteadyServer, WithinReach, RequestsInv, StreamInv, PublishInv, OwedInv, ServeReplay
    PROVE  OwedInv'
<1>0. PICK replay : replay = Replay
    OBVIOUS
<1>1. PICK w : w = replay \o live
    OBVIOUS
<1>2. /\ conn = "handshake" /\ conn' = "up" /\ live' = <<>>
      /\ wire' = IF stored # {} /\ from < Oldest(stored) THEN <<Error("OutOfRange")>>
                 ELSE IF replay = <<>> THEN <<Error("Internal")>> ELSE w
      /\ UNCHANGED <<banks, stored, done, from, out, last_checkpoint, inforce, gap, unsealed>>
    BY <1>0, <1>1 DEF ServeReplay, serverVars, clientVars, requestVars
<1>3. MarksInv'
    BY <1>2 DEF OwedInv, MarksInv
<1>4. ASSUME Sealing PROVE OwnMeta' /\ Checks' /\ Comes'
  <2>1. OwnMeta /\ Checks
    BY <1>4 DEF OwedInv
  <2>2. Checks'
    BY <1>2, <2>1 DEF Checks
  <2>3. ASSUME NEW code \in {"OutOfRange", "Internal"}, wire' = <<Error(code)>>
        PROVE  OwnMeta' /\ Comes'
    <3>1. PICK q : q = wire'
        OBVIOUS
    <3>2. DOMAIN q = {1} /\ q[1].kind = code
        BY <2>3, <3>1 DEF Error, Msg
    <3>3. NoInternal(q) /\ ~Intact(q)
        BY <3>2 DEF NoInternal, Intact, IsError
    <3> QED BY <1>2, <2>1, <3>1, <3>3, ComingEmpty DEF OwnMeta, Comes
  <2>4. CASE replay = <<>> \/ (stored # {} /\ from < Oldest(stored))
    BY <1>2, <2>2, <2>3, <2>4
  <2>5. CASE replay # <<>> /\ ~(stored # {} /\ from < Oldest(stored))
    <3>1. wire' = w
        BY <1>2, <2>5
    <3>2. Requested(inforce) /\ node = TheNode /\ stored \subseteq Slots /\ done \subseteq Slots /\ stored \subseteq done
        BY RequestsAreRequested, OneNode DEF StreamInv, ServerInv
    <3>3. replay \in Seq(Messages)
        BY <1>0, <3>2, ReplayQueue
    <3>4. PICK T : T = Messages
        OBVIOUS
    <3>5. replay \in Seq(T) /\ live \in Seq(T)
        BY <3>3, <3>4 DEF StreamInv, QueuesInv
    <3>6. /\ \A i \in DOMAIN replay : replay[i].kind = "internal" => inforce.blocks_meta = "injected"
          /\ \A i \in DOMAIN replay, t \in Slots : replay[i] = Meta(t) =>
                /\ t \in Covered
                /\ \A u \in Covered : u < t => \E j \in DOMAIN replay : j < i /\ replay[j] = Meta(u)
          /\ \A u \in Covered : \E i \in DOMAIN replay : replay[i] = Meta(u)
        BY <1>0, <2>1, <3>2, ReplayShape DEF OwnMeta, Meta
    <3>7. NoInternal(w)
        <4>1. PICK l \in Nat : Joined(replay, live, w, l, T)
            BY <1>1, <3>5, ConcatPlaces
        <4>2. inforce.blocks_meta = "own" /\ NoInternal(live)
            BY <2>1 DEF OwnMeta
        <4> QED BY <3>6, <4>1, <4>2 DEF Joined, NoInternal
    <3>8. ASSUME NEW s \in done \cap NewSlots, Meta(s) \notin out PROVE s \in Covered
        <4>1. ~(s < from) /\ s \in Nat /\ from \in Nat \cup {NoSlot}
            <5>1. Slots \subseteq Nat
                BY ResumeAssumption DEF ResumeAssumption
            <5> QED BY <1>2, <2>1, <3>2, <3>8, <5>1 DEF Checks, Passed, OwedInv, MarksInv
        <4>2. s >= from
            BY <4>1 DEF NoSlot
        <4>3. s \in stored
            <5>1. SUFFICES ASSUME s \notin stored PROVE FALSE
                OBVIOUS
            <5>2. stored # {} /\ \A z \in stored : s < z
                BY <5>1 DEF PublishInv
            <5>3. Oldest(stored) \in stored
                <6>1. stored \in SUBSET Nat
                    BY <3>2, ResumeAssumption DEF ResumeAssumption
                <6> QED BY <5>2, <6>1, OldestIs
            <5>4. PICK o : o = Oldest(stored)
                OBVIOUS
            <5>5. o \in Nat /\ s < o /\ ~(from < o)
                BY <2>5, <3>2, <5>2, <5>3, <5>4, ResumeAssumption DEF ResumeAssumption
            <5> QED BY <4>1, <4>2, <5>5 DEF NoSlot
        <4> QED BY <4>2, <4>3 DEF Covered
    <3>9. Reaches(replay, done, out)
        BY <3>6, <3>8 DEF Reaches, MetaIn
    <3>10. PICK n \in Nat : DOMAIN replay = 1..n
        BY <3>3, LenProperties
    <3>11. InTurn(replay, out)
        <4> SUFFICES ASSUME NEW i \in DOMAIN replay, NEW t \in Slots, replay[i] = Meta(t),
                            NEW u \in NewSlots, u < t - CheckpointSlotBuffer, Meta(u) \notin out
                     PROVE  Before(replay, i, Meta(u))
            BY DEF InTurn
        <4>1. \A k \in DOMAIN replay, x \in Slots : replay[k] = Meta(x) => x \in done
            BY <3>2, <3>6 DEF Covered
        <4>2. u \in done
            <5>1. After(replay, done)
                BY <3>2, <4>1, AfterPublished
            <5> QED BY <5>1 DEF After
        <4>3. u \in Covered
            BY <3>8, <4>2
        <4>4. u < t
            <5>1. u \in Nat /\ t \in Nat /\ CheckpointSlotBuffer \in Nat
                BY <3>2, <4>2, ResumeAssumption DEF ResumeAssumption
            <5> QED BY <5>1
        <4>5. PICK j \in DOMAIN replay : j < i /\ replay[j] = Meta(u)
            BY <3>6, <4>3, <4>4
        <4>6. j \in 1..(i - 1)
            BY <3>10, <4>5
        <4> QED BY <4>5, <4>6 DEF Before
    <3>12. After(live, done)
        <4>1. \A i \in DOMAIN live : Known(live[i], banks, done)
            <5>1. \A i \in DOMAIN live : live[i] \in Messages
                BY ElementOfSeq, LenProperties DEF StreamInv, QueuesInv
            <5>2. GoodQueue(live, banks, done, out)
                BY DEF StreamInv, QueuesInv
            <5> QED BY <5>1, <5>2, ErrorKinds DEF GoodQueue
        <4>2. \A i \in DOMAIN live, t \in Slots : live[i] = Meta(t) => t \in done
            BY <4>1, MessageFields DEF Known, Meta
        <4> QED BY <3>2, <4>2, AfterPublished
    <3>13. Reaches(w, done, out) /\ InTurn(w, out)
        <4>1. \A s \in done \cap NewSlots : s \in done \/ MetaIn(live, s)
            OBVIOUS
        <4> QED BY <1>1, <3>5, <3>9, <3>11, <3>12, <4>1, ComingConcat
    <3>14. OwnMeta' /\ Comes'
        BY <1>2, <2>1, <3>1, <3>7, <3>13, ComingEmpty DEF OwnMeta, Comes
    <3> QED BY <2>2, <3>14
  <2> QED BY <2>4, <2>5
<1>5. Sealing' => Sealing
    BY <1>2 DEF Sealing
<1> QED BY <1>3, <1>4, <1>5 DEF OwedInv

LEMMA ReceivedOwed ==
    ASSUME SteadyServer, StreamInv, OwedInv, Receive
    PROVE  OwedInv'
<1>1. PICK m : m = wire[1]
    OBVIOUS
<1>2. wire # <<>> /\ conn = "up" /\ m \in Messages /\ m = Head(wire) /\ Taken(m)
    BY <1>1, ReceiveTakes
<1>3. /\ wire' = Tail(wire) /\ last_checkpoint' = Checkpoint(m)
      /\ UNCHANGED <<banks, stored, done, from, conn, live, inforce, gap, unsealed>>
    BY <1>2 DEF Receive, serverVars, requestVars
<1>4. PICK T : T = Messages \cup ServerErrors
    OBVIOUS
<1>5. wire \in Seq(T)
    BY <1>4 DEF StreamInv, QueuesInv, GoodQueue
<1>6. PICK r : r = Tail(wire)
    OBVIOUS
<1>7. 1 \in DOMAIN wire /\ \A i \in DOMAIN r : i + 1 \in DOMAIN wire /\ r[i] = wire[i + 1]
    BY <1>2, <1>5, <1>6, TailPlaces
<1>8. /\ Slots \subseteq Nat /\ CheckpointSlotBuffer \in Nat /\ m.slot \in Slots
    BY <1>2, MessageForms, ResumeAssumption DEF ResumeAssumption
<1>9. MarksInv'
  <2>1. last_checkpoint' \in Nat \cup {NoSlot}
    <3>1. last_checkpoint \in Nat \cup {NoSlot} /\ m.slot \in Nat
        BY <1>8 DEF OwedInv, MarksInv
    <3>2. m.slot < CheckpointSlotBuffer \/ m.slot - CheckpointSlotBuffer \in Nat
        BY <1>8, <3>1
    <3> QED BY <1>3, <3>1, <3>2 DEF Checkpoint
  <2> QED BY <1>3, <2>1 DEF OwedInv, MarksInv
<1>10. ASSUME Sealing PROVE OwnMeta' /\ Checks' /\ Comes'
  <2>1. OwnMeta /\ Checks /\ Comes
    BY <1>10 DEF OwedInv
  <2>2. NoInternal(r)
    BY <1>7, <2>1 DEF OwnMeta, NoInternal
  <2>3. OwnMeta'
    BY <1>3, <1>6, <2>1, <2>2 DEF OwnMeta
  <2>4. out \subseteq out' /\ (m.kind = "meta" => m \in out')
    BY <1>2 DEF Taken
  <2>5. m.kind # "internal" /\ Intact(wire)
    <3>1. m.kind # "internal"
        BY <1>1, <1>7, <2>1 DEF OwnMeta, NoInternal
    <3>2. ~IsError(m)
        BY <1>2, ErrorKinds
    <3>3. Intact(wire)
        BY <1>1, <3>2 DEF StreamInv, QueuesInv, GoodQueue, Intact
    <3> QED BY <3>1, <3>3
  <2>6. Reaches(wire, done, out) /\ InTurn(wire, out)
    BY <1>2, <2>1, <2>5 DEF Comes
  <2>7. Comes'
    <3>1. \A s \in Slots : wire[1] = Meta(s) => Meta(s) \in out'
        BY <1>1, <2>4, MessageFields DEF Meta
    <3>2. PICK o2 : o2 = out'
        OBVIOUS
    <3>3. Reaches(r, done, o2) /\ InTurn(r, o2)
        BY <1>2, <1>5, <1>6, <2>4, <2>6, <3>1, <3>2, ComingTail
    <3> QED BY <1>3, <1>6, <3>2, <3>3 DEF Comes
  <2>8. Passed(last_checkpoint', out')
    <3>1. CASE m.kind # "meta"
        BY <1>3, <2>1, <2>4, <2>5, <3>1, PassedLater DEF Checks, Checkpoint
    <3>2. CASE m.kind = "meta"
        <4>1. m = Meta(m.slot)
            BY <1>2, <3>2, MessageForms DEF StatusKinds, Meta
        <4>2. \A u \in NewSlots : u < m.slot - CheckpointSlotBuffer => Meta(u) \in out
            <5>1. \A x : ~Before(wire, 1, x)
                BY DEF Before
            <5> QED BY <1>1, <1>7, <1>8, <2>6, <4>1, <5>1 DEF InTurn
        <4>3. CASE m.slot < CheckpointSlotBuffer
            BY <1>3, <3>2, <4>3, NothingBelowNoSlot DEF Checkpoint
        <4>4. CASE ~(m.slot < CheckpointSlotBuffer)
            BY <1>3, <2>4, <3>2, <4>2, <4>4 DEF Checkpoint, Passed
        <4> QED BY <4>3, <4>4
    <3> QED BY <3>1, <3>2
  <2>9. Checks'
    BY <1>2, <1>3, <2>8 DEF Checks
  <2> QED BY <2>3, <2>7, <2>9
<1>11. Sealing' => Sealing
    BY <1>3 DEF Sealing
<1> QED BY <1>9, <1>10, <1>11 DEF OwedInv

LEMMA OwedStep ==
    ASSUME SteadyServer, WithinReach, RequestsInv, StreamInv, PublishInv, OwedInv, [ResumeNext]_resumeVars
    PROVE  OwedInv'
<1>0. Requested(inforce) /\ node = TheNode /\ done \subseteq Slots
    BY RequestsAreRequested, OneNode DEF StreamInv, ServerInv
<1>1. ASSUME UNCHANGED <<conn, wire, live, done, out, from, last_checkpoint, inforce, gap, unsealed>>
      PROVE  OwedInv'
    BY <1>1 DEF OwedInv, MarksInv, OwnMeta, Checks, Comes, Sealing
<1>2. CASE UNCHANGED resumeVars
    BY <1>1, <1>2 DEF resumeVars, serverVars, connectionVars, clientVars, requestVars
<1>3. CASE \E s \in Slots : CreateBank(s)
  <2>1. PICK s \in Slots : CreateBank(s)
    BY <1>3
  <2>2. PICK msgs : msgs = IF "created" \in UserKinds THEN <<CreatedBank(s)>> ELSE <<>>
    OBVIOUS
  <2>3. CreatedBank(s) \in Messages /\ CreatedBank(s).kind = "created"
    BY MessageFields DEF Messages
  <2>4. msgs \in Seq(Messages) /\ \A i \in DOMAIN msgs : msgs[i] = CreatedBank(s)
    BY <2>2, <2>3
  <2>5. NoInternal(msgs) /\ After(msgs, done)
    BY <2>3, <2>4, MessageFields DEF NoInternal, After, Meta
  <2>6. /\ Send(msgs) /\ done' = done
        /\ UNCHANGED <<conn, out, inforce, last_checkpoint, from, gap, unsealed>>
    BY <2>1, <2>2 DEF CreateBank, clientVars, requestVars
  <2>7. \A s2 \in done' \cap NewSlots : s2 \in done \/ MetaIn(msgs, s2) \/ ~Sealing
    BY <2>6
  <2> QED BY <2>4, <2>5, <2>6, <2>7, SendKeepsOwed
<1>4. CASE \E s \in Slots : PublishBlock(s)
  <2>1. PICK s \in Slots : PublishBlock(s)
    BY <1>4
  <2>2. PICK msgs : msgs = BlockOf(s, node, inforce)
    OBVIOUS
  <2>3. /\ msgs \in Seq(Messages)
        /\ \A i \in DOMAIN msgs : msgs[i].slot = s
        /\ inforce.blocks_meta = "own" => \E i \in DOMAIN msgs : msgs[i] = MetaMsg(s, TheNode)
        /\ \A i \in DOMAIN msgs : msgs[i].kind = "internal" => inforce.blocks_meta = "injected"
    BY <1>0, <2>2, BlockQueue
  <2>4. /\ \A t \in Slots : t < s - MaxDisorder => t \in done
        /\ Send(msgs) /\ done' = done \cup {s}
        /\ UNCHANGED <<conn, out, inforce, last_checkpoint, from, gap, unsealed>>
    BY <2>1, <2>2 DEF PublishBlock, clientVars, requestVars
  <2>5. Sealing => inforce.blocks_meta = "own"
    BY DEF OwedInv, OwnMeta
  <2>6. NoInternal(msgs) \/ ~Sealing
    BY <2>3, <2>5 DEF NoInternal
  <2>7. After(msgs, done)
    <3> SUFFICES ASSUME NEW i \in DOMAIN msgs, NEW t \in Slots, msgs[i] = Meta(t),
                        NEW u \in NewSlots, u < t - CheckpointSlotBuffer
                 PROVE  u \in done
        BY DEF After
    <3>1. t = s
        BY <2>3, MessageFields DEF Meta
    <3>2. u \in Slots /\ Slots \subseteq Nat /\ MaxDisorder \in Nat /\ CheckpointSlotBuffer \in Nat
          /\ MaxDisorder <= CheckpointSlotBuffer
        BY ResumeAssumption DEF ResumeAssumption, NewSlots, WithinReach
    <3>3. u < s - MaxDisorder
        BY <3>1, <3>2
    <3> QED BY <2>4, <3>2, <3>3
  <2>8. \A s2 \in done' \cap NewSlots : s2 \in done \/ MetaIn(msgs, s2) \/ ~Sealing
    BY <2>3, <2>4, <2>5 DEF MetaIn, Meta
  <2> QED BY <2>3, <2>4, <2>6, <2>7, <2>8, SendKeepsOwed
<1>5. CASE PruneOldest
    BY <1>1, <1>5 DEF PruneOldest, connectionVars, clientVars, requestVars
<1>6. CASE ServeReplay
    BY <1>6, ReplayOwed
<1>7. CASE ReadRequest
  <2>1. /\ conn' = "up" /\ live' = <<>> /\ wire' = wire
        /\ gap' = (gap \/ conn = "handshake") /\ unsealed' = (unsealed \/ inforce'.blocks_meta # "own")
        /\ conn \in {"up", "handshake"}
        /\ UNCHANGED <<done, from, out, last_checkpoint>>
    BY <1>7 DEF ReadRequest, serverVars, clientVars
  <2>2. MarksInv'
    BY <2>1 DEF OwedInv, MarksInv
  <2>3. Sealing' => Sealing /\ conn = "up" /\ inforce'.blocks_meta = "own"
    BY <2>1 DEF Sealing
  <2> QED BY <2>1, <2>2, <2>3, ComingEmpty DEF OwedInv, OwnMeta, Checks, Comes
<1>8. CASE Connected
  <2>1. /\ conn = "connecting" /\ conn' = (IF from = NoSlot THEN "up" ELSE "handshake")
        /\ gap' = (gap \/ from = NoSlot) /\ unsealed' = (unsealed \/ base.blocks_meta # "own")
        /\ inforce' = base /\ UNCHANGED <<wire, live, done, from, out, last_checkpoint>>
    BY <1>8 DEF Connected, serverVars
  <2>2. MarksInv'
    BY <2>1 DEF OwedInv, MarksInv
  <2>3. Sealing' => Sealing /\ conn' = "handshake" /\ inforce'.blocks_meta = "own"
    BY <2>1 DEF Sealing
  <2> QED BY <2>1, <2>2, <2>3 DEF OwedInv, OwnMeta, Checks, Comes
<1>9. CASE Receive
    BY <1>9, ReceivedOwed
<1>10. CASE \E c \in {NoSlot, last_checkpoint} : Reconnect(c)
  <2>1. PICK c \in {NoSlot, last_checkpoint} : Reconnect(c)
    BY <1>10
  <2>2. /\ wire' = <<>> /\ live' = <<>> /\ conn' \in {"stopped", "connecting"}
        /\ from' \in {NoSlot, c} /\ last_checkpoint' = c
        /\ UNCHANGED <<done, out, inforce, gap, unsealed>>
    BY <2>1 DEF Reconnect, serverVars
  <2>3. MarksInv'
    BY <2>2 DEF OwedInv, MarksInv
  <2>4. Sealing => Passed(c, out) /\ Passed(NoSlot, out)
    BY NothingBelowNoSlot DEF OwedInv, Checks
  <2> QED BY <2>2, <2>3, <2>4, ComingEmpty DEF OwedInv, OwnMeta, Checks, Comes, Sealing
<1>11. CASE Stop
  <2>1. /\ wire' = <<>> /\ live' = <<>> /\ conn' = "stopped"
        /\ UNCHANGED <<done, from, out, last_checkpoint, inforce, gap, unsealed>>
    BY <1>11 DEF Stop, serverVars, clientVars, requestVars
  <2> QED BY <2>1, ComingEmpty DEF OwedInv, MarksInv, OwnMeta, Checks, Comes, Sealing
<1>12. CASE \E error : ConnectFails(error)
  <2>1. PICK error : ConnectFails(error)
    BY <1>12
  <2>2. /\ conn = "connecting" /\ conn' \in {"connecting", "stopped"}
        /\ UNCHANGED <<wire, live, done, from, out, last_checkpoint, inforce, gap, unsealed>>
    BY <2>1 DEF ConnectFails, serverVars, clientVars, requestVars
  <2> QED BY <2>2 DEF OwedInv, MarksInv, OwnMeta, Checks, Comes, Sealing
<1>13. CASE \E meta \in UserMeta : StartSend(meta)
    BY <1>1, <1>13 DEF StartSend, serverVars, connectionVars, clientVars
<1> QED BY <1>2, <1>3, <1>4, <1>5, <1>6, <1>7, <1>8, <1>9, <1>10, <1>11, <1>12, <1>13, ResumeSteps

LEMMA WholeStart ==
    ASSUME SteadyServer, ResumeInit
    PROVE  WholeInv
BY WholeEmpty DEF ResumeInit, WholeInv

\* Reconnections lose nothing: a BlockMeta the user holds has all its payloads with it, and once
\* the client has read all there was it holds every block published since it subscribed.  The two
\* hypotheses are those under which the checkpoint is far enough back, the server still stores
\* what was missed, and a replayed block is the one that was broadcast.
THEOREM NothingIsLost ==
    ASSUME SteadyServer, WithinReach
    PROVE  ResumeSpec => []NothingLost
<1> DEFINE IInv == RequestsInv /\ LatestInv /\ StreamInv /\ WholeInv /\ PublishInv /\ OwedInv
<1>1. ASSUME IInv PROVE NothingLost
  <2>1. ASSUME NEW m \in out, m.kind = "meta", NEW d \in Data
        PROVE  Msg("data", m.slot, d, m.node) \in out
    <3>1. m \in Messages
        BY <1>1 DEF StreamInv, QueuesInv
    <3>2. m.slot \in Slots /\ m = MetaMsg(m.slot, TheNode)
        BY <2>1, <3>1, MessageForms DEF StatusKinds
    <3>3. m.node = TheNode
        BY <3>2, MessageFields
    <3> QED BY <1>1, <3>2, <3>3 DEF WholeInv, DataMsg
  <2>2. ASSUME conn = "up", wire = <<>>, ~gap, ~unsealed, NEW s \in done \ StoredBefore
        PROVE  Delivered(s)
    <3>1. s \in Slots /\ s \in done \cap NewSlots /\ TheNode \in Nodes
        BY <1>1, OneNode DEF StreamInv, ServerInv, NewSlots
    <3>2. Intact(wire) /\ \A i \in DOMAIN wire : FALSE
        BY <2>2, ComingEmpty
    <3>3. Reaches(wire, done, out)
        BY <1>1, <2>2, <3>2 DEF OwedInv, Sealing, Comes
    <3>4. MetaMsg(s, TheNode) \in out
        BY <3>1, <3>2, <3>3 DEF Reaches, MetaIn, Meta
    <3>5. \A d \in Data : DataMsg(s, d, TheNode) \in out
        BY <1>1, <3>1, <3>4 DEF WholeInv
    <3> QED BY <3>1, <3>4, <3>5 DEF Delivered, DataMsg, MetaMsg
  <2> QED BY <2>1, <2>2 DEF NothingLost
<1>2. ResumeInit => IInv
    BY RequestsStart, StreamStart, WholeStart, PublishStart, OwedStart
<1>3. IInv /\ [ResumeNext]_resumeVars => IInv'
    BY RequestsStep, StreamStep, WholeStep, PublishStep, OwedStep
<1> QED BY <1>1, <1>2, <1>3, PTL DEF ResumeSpec
=============================================================================
