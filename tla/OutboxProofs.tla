---------------------------- MODULE OutboxProofs ----------------------------
(***************************************************************************)
(* Two things about the outbox, for every number of messages and attempts. *)
(* Paging through it misses nothing, whatever is written between two       *)
(* pages.  And what the deliveries of an occurrence record, send, mark and *)
(* report agree, in the outbox, on the row and towards the host, however   *)
(* many attempts, rounds, retries, failures and crashes there are.         *)
(***************************************************************************)
EXTENDS Fire, OutboxPull, FiniteSetTheorems, TLAPS

Recorded == {id \in Id : outbox[id] # NULL}

-----------------------------------------------------------------------------
(* The inductive invariant                                                 *)

(* Rows are numbered 1, 2, ... as they come.                               *)
Numbered ==
    /\ seq = Cardinality(Recorded)
    /\ \A id \in Recorded : outbox[id].seq <= seq
    /\ \A id, other \in Recorded : outbox[id].seq = outbox[other].seq => id = other

(* What is still owed lies beyond the cursor.                              *)
StillAhead ==
    \A id \in pull.owed :
        /\ id \in Recorded
        /\ \/ outbox[id].acked
           \/ id \in pull.got
           \/ pull.on /\ outbox[id].seq > pull.cursor

Paging == PullTypeOK /\ Numbered /\ StillAhead

-----------------------------------------------------------------------------
(* Counting                                                                *)

LEMMA FiniteIds == IsFiniteSet(Id) /\ Cardinality(Id) \in Nat
<1>1. IsFiniteSet({"plain"} \cup {"hook"})
    BY FS_Singleton, FS_Union
<1>2. {"plain"} \cup {"hook"} = {"plain", "hook"}
    OBVIOUS
<1>3. IsFiniteSet(Path)
    BY <1>1, <1>2, FS_Subset, OutboxConstants
<1>4. IsFiniteSet(1..MaxPush)
    BY FS_Interval, OutboxConstants
<1>5. QED BY <1>3, <1>4, FS_Product, FS_CardinalityType DEF Id

(* Numbers distinguish the elements of S; the rank of an element is how    *)
(* many come before it.  Ranks are 0, 1, ..., so that the first n elements *)
(* are n elements if anything comes after them, and have a last one.       *)
LEMMA FirstOnes ==
    ASSUME NEW S, IsFiniteSet(S), NEW number \in [S -> Nat],
           \A x, y \in S : number[x] = number[y] => x = y,
           NEW n \in Nat \ {0}
    PROVE  LET Before(x) == {z \in S : number[z] < number[x]}
               First == {x \in S : Cardinality(Before(x)) < n}
           IN  /\ IsFiniteSet(First)
               /\ \A y \in S \ First :
                     Cardinality(First) = n /\ \A x \in First : number[x] < number[y]
               /\ First # {} => \E last \in First : \A x \in First : number[x] <= number[last]
<1> DEFINE Before(x) == {z \in S : number[z] < number[x]}
           First == {x \in S : Cardinality(Before(x)) < n}
           N == Cardinality(S)
           rank == [x \in S |-> Cardinality(Before(x))]
<1>1. IsFiniteSet(First)
    BY FS_Subset
<1>2. N \in Nat
    BY FS_CardinalityType
<1>3. ASSUME NEW x \in S
      PROVE  IsFiniteSet(Before(x)) /\ rank[x] \in Nat /\ rank[x] < N
    <2>1. IsFiniteSet(S \ {x}) /\ Cardinality(S \ {x}) = N - 1
        BY FS_RemoveElement
    <2>2. Before(x) \in SUBSET (S \ {x})
        BY number[x] \in Nat
    <2>3. rank[x] = Cardinality(Before(x))
        OBVIOUS
    <2> HIDE DEF Before, rank
    <2>4. IsFiniteSet(Before(x)) /\ Cardinality(Before(x)) <= N - 1
        BY <2>1, <2>2, FS_Subset
    <2>5. Cardinality(Before(x)) \in Nat
        BY <2>4, FS_CardinalityType
    <2>6. QED BY <1>2, <2>3, <2>4, <2>5
<1>4. ASSUME NEW x \in S, NEW y \in S, number[x] < number[y]
      PROVE  rank[x] < rank[y]
    <2>1. Before(x) \cup {x} \in SUBSET Before(y) /\ x \notin Before(x)
        BY <1>4, \A z \in S : number[z] \in Nat
    <2>2. rank[x] = Cardinality(Before(x)) /\ rank[y] = Cardinality(Before(y))
        OBVIOUS
    <2>3. IsFiniteSet(Before(x)) /\ IsFiniteSet(Before(y)) /\ rank[x] \in Nat /\ rank[y] \in Nat
        BY <1>3
    <2> HIDE DEF Before, rank
    <2>4. Cardinality(Before(x) \cup {x}) = Cardinality(Before(x)) + 1
        BY <2>1, <2>3, FS_AddElement
    <2>5. Cardinality(Before(x) \cup {x}) <= Cardinality(Before(y))
        BY <2>1, <2>3, FS_Subset
    <2>6. QED BY <2>2, <2>3, <2>4, <2>5
<1>5. \A x : x \in First <=> x \in S /\ rank[x] < n
    OBVIOUS
<1>6. rank \in [S -> Nat] /\ \A x \in S : rank[x] < N
    BY <1>3
<1> HIDE DEF First, rank, Before, N
<1>7. \A x, y \in S : rank[x] <= rank[y] => number[x] <= number[y]
    <2> SUFFICES ASSUME NEW x \in S, NEW y \in S, rank[x] <= rank[y], ~(number[x] <= number[y])
                 PROVE  FALSE
        OBVIOUS
    <2>1. number[y] < number[x]
        BY number[x] \in Nat, number[y] \in Nat
    <2>2. rank[y] < rank[x]
        BY <1>4, <2>1
    <2>3. rank[x] \in Nat /\ rank[y] \in Nat
        BY <1>6
    <2>4. QED BY <2>2, <2>3
<1>8. \A x, y \in S : rank[x] = rank[y] => x = y
    <2> SUFFICES ASSUME NEW x \in S, NEW y \in S, rank[x] = rank[y] PROVE x = y
        OBVIOUS
    <2>1. number[x] <= number[y] /\ number[y] <= number[x]
        BY <1>6, <1>7
    <2>2. QED BY <2>1, number[x] \in Nat, number[y] \in Nat
<1>9. ASSUME NEW k \in Nat, k < N
      PROVE  \E x \in S : rank[x] = k
    <2>1. IsFiniteSet(0..(N - 1)) /\ Cardinality(0..(N - 1)) = N
        <3>1. 0 \in Int /\ N - 1 \in Int /\ ~(0 > N - 1) /\ N - 1 - 0 + 1 = N
            BY <1>2, <1>9
        <3>2. QED BY <3>1, FS_Interval
    <2>2. rank \in [S -> 0..(N - 1)]
        BY <1>2, <1>6
    <2>3. rank \in Injection(S, 0..(N - 1))
        BY <2>2, <1>8 DEF Injection, IsInjective
    <2>4. rank \in Surjection(S, 0..(N - 1))
        BY <2>1, <2>3, FS_Injection DEF N
    <2>5. k \in 0..(N - 1)
        BY <1>2, <1>9
    <2>6. QED BY <2>4, <2>5 DEF Surjection
<1>10. ASSUME NEW y \in S \ First
       PROVE  Cardinality(First) = n /\ \A x \in First : number[x] < number[y]
    <2>1. rank[y] \in Nat /\ n <= rank[y] /\ rank[y] < N
        BY <1>5, <1>6
    <2>2. \A x \in First : x \in S /\ rank[x] \in Nat /\ rank[x] < n
        BY <1>5, <1>6
    <2>3. \A x \in First : number[x] < number[y]
        <3> SUFFICES ASSUME NEW x \in First PROVE number[x] < number[y]
            OBVIOUS
        <3>1. x \in S /\ rank[x] < rank[y] /\ rank[x] \in Nat
            BY <2>1, <2>2
        <3>2. number[x] <= number[y]
            BY <3>1, <2>1, <1>7
        <3>3. number[x] # number[y]
            BY <3>1, <2>1
        <3>4. QED BY <3>1, <3>2, <3>3, number[x] \in Nat, number[y] \in Nat
    <2> DEFINE cut == [x \in First |-> rank[x]]
    <2>4. cut \in [First -> 0..(n - 1)]
        BY <2>2
    <2>5. ASSUME NEW k \in 0..(n - 1)
          PROVE  \E x \in First : cut[x] = k
        <3>1. k \in Nat /\ k < N /\ k < n
            BY <2>1, <1>2
        <3>2. PICK x \in S : rank[x] = k
            BY <1>9, <3>1
        <3>3. x \in First
            BY <3>1, <3>2, <1>5
        <3>4. QED BY <3>2, <3>3
    <2>6. \A x, z \in First : cut[x] = cut[z] => x = z
        BY <2>2, <1>8
    <2> HIDE DEF cut
    <2>7. cut \in Bijection(First, 0..(n - 1))
        BY <2>4, <2>5, <2>6 DEF Bijection, Injection, Surjection, IsInjective
    <2>8. Cardinality(0..(n - 1)) = Cardinality(First)
        BY <2>7, <1>1, FS_Bijection DEF ExistsBijection
    <2>9. QED BY <2>3, <2>8, FS_Interval
<1>11. ASSUME First # {}
       PROVE  \E last \in First : \A x \in First : number[x] <= number[last]
    <2>1. PICK y \in First : TRUE
        BY <1>11
    <2>2. y \in S /\ rank[y] \in Nat /\ rank[y] < N
        BY <1>5, <1>6
    <2>3. PICK k \in Nat : k < N /\ k < n /\ (k = n - 1 \/ k = N - 1)
        <3>1. CASE n <= N
            <4>1. n - 1 \in Nat /\ n - 1 < N /\ n - 1 < n
                BY <3>1, <1>2
            <4>2. QED BY <4>1
        <3>2. CASE N < n
            <4>1. N - 1 \in Nat /\ N - 1 < N /\ N - 1 < n
                BY <3>2, <2>2, <1>2
            <4>2. QED BY <4>1
        <3>3. QED BY <3>1, <3>2, <1>2
    <2>4. PICK last \in S : rank[last] = k
        BY <1>9, <2>3
    <2>5. last \in First
        BY <1>5, <2>3, <2>4
    <2>6. \A x \in First : x \in S /\ rank[x] \in Nat /\ rank[x] <= k
        BY <1>5, <1>6, <1>2, <2>3
    <2>7. QED BY <1>7, <2>4, <2>5, <2>6
<1>12. QED BY <1>1, <1>10, <1>11 DEF First, Before
-----------------------------------------------------------------------------
(* Recording                                                               *)

(* The fresh messages of a batch get the numbers after seq, one each.      *)
LEMMA NumbersOfBatch ==
    ASSUME OutboxTypeOK, Numbered, NEW path \in Path, NEW n \in 1..MaxPush
    PROVE  LET number(i) == Cardinality({j \in Fresh(path, n) : j <= i})
               all == Cardinality(Fresh(path, n))
           IN  /\ \A i \in Fresh(path, n) : number(i) \in 1..all
               /\ \A i, j \in Fresh(path, n) : number(i) = number(j) => i = j
               /\ seq + all = Cardinality(Recorded \cup ({path} \X Fresh(path, n)))
               /\ seq + all <= Cardinality(Id)
               /\ all \in Nat
<1> DEFINE F == Fresh(path, n)
           upto(i) == {j \in F : j <= i}
           number(i) == Cardinality(upto(i))
<1>1. IsFiniteSet(F) /\ F \subseteq 1..n /\ n \in Nat
    <2>1. n \in Nat /\ 1 \in Int /\ n \in Int
        BY OutboxConstants
    <2>2. IsFiniteSet(1..n)
        BY <2>1, FS_Interval
    <2>3. F \in SUBSET (1..n)
        BY DEF Fresh
    <2>4. QED BY <2>1, <2>2, <2>3, FS_Subset
<1>2. ASSUME NEW i \in F
      PROVE  IsFiniteSet(upto(i)) /\ upto(i) \in SUBSET F /\ i \in upto(i)
    BY <1>1, FS_Subset
<1> HIDE DEF F
<1>3. ASSUME NEW i \in F
      PROVE  number(i) \in 1..Cardinality(F)
    <2>1. number(i) \in Nat /\ Cardinality(F) \in Nat /\ number(i) <= Cardinality(F)
        BY <1>1, <1>2, FS_CardinalityType, FS_Subset
    <2>2. number(i) # 0
        BY <1>2, FS_EmptySet
    <2> HIDE DEF number
    <2>3. QED BY <2>1, <2>2
<1>4. ASSUME NEW i \in F, NEW j \in F, i < j
      PROVE  number(i) < number(j)
    <2>1. upto(i) \cup {j} \in SUBSET upto(j) /\ j \notin upto(i)
        <3>1. \A k \in F : k \in Int
            BY <1>1
        <3>2. QED BY <1>4, <3>1
    <2>2. number(i) \in Nat /\ number(j) \in Nat
        BY <1>2, FS_CardinalityType
    <2>3. number(i) = Cardinality(upto(i)) /\ number(j) = Cardinality(upto(j))
        OBVIOUS
    <2> HIDE DEF upto, number
    <2>4. Cardinality(upto(i) \cup {j}) = Cardinality(upto(i)) + 1
        BY <1>2, <2>1, FS_AddElement
    <2>5. Cardinality(upto(i) \cup {j}) <= Cardinality(upto(j))
        BY <1>2, <2>1, FS_Subset
    <2>6. QED BY <2>2, <2>3, <2>4, <2>5
<1>5. \A i, j \in F : number(i) = number(j) => i = j
    <2> SUFFICES ASSUME NEW i \in F, NEW j \in F, number(i) = number(j), i # j PROVE FALSE
        OBVIOUS
    <2>1. i \in Int /\ j \in Int /\ number(i) \in Nat /\ number(j) \in Nat
        BY <1>1, <1>3
    <2>2. i < j \/ j < i
        BY <2>1
    <2> HIDE DEF number
    <2>3. QED BY <1>4, <2>1, <2>2
<1>6. /\ IsFiniteSet(Recorded) /\ IsFiniteSet({path} \X F)
      /\ Cardinality({path} \X F) = Cardinality(F)
      /\ Recorded \cap ({path} \X F) = {}
      /\ Recorded \cup ({path} \X F) \in SUBSET Id
    <2>1. IsFiniteSet(Recorded)
        BY FiniteIds, FS_Subset DEF Recorded
    <2>2. IsFiniteSet({path} \X F) /\ Cardinality({path} \X F) = 1 * Cardinality(F)
        <3>1. IsFiniteSet({path}) /\ Cardinality({path}) = 1
            BY FS_Singleton
        <3>2. QED BY <1>1, <3>1, FS_Product
    <2>3. Cardinality(F) \in Nat
        BY <1>1, FS_CardinalityType
    <2>4. Recorded \cap ({path} \X F) = {} /\ Recorded \cup ({path} \X F) \in SUBSET Id
        BY OutboxConstants DEF Recorded, F, Fresh, Id
    <2>5. QED BY <2>1, <2>2, <2>3, <2>4
<1>7. /\ Cardinality(Recorded \cup ({path} \X F)) = Cardinality(Recorded) + Cardinality(F)
      /\ Cardinality(Recorded \cup ({path} \X F)) <= Cardinality(Id)
    <2>1. Cardinality(Recorded \cup ({path} \X F)) =
              Cardinality(Recorded) + Cardinality({path} \X F) - Cardinality({})
        BY <1>6, FS_Union
    <2>2. Cardinality(Recorded) \in Nat /\ Cardinality(F) \in Nat /\ Cardinality({}) = 0
        BY <1>1, <1>6, FS_CardinalityType, FS_EmptySet
    <2>3. Cardinality(Recorded \cup ({path} \X F)) <= Cardinality(Id)
        BY <1>6, FiniteIds, FS_Subset
    <2>4. QED BY <1>6, <2>1, <2>2, <2>3
<1>8. Cardinality(F) \in Nat
    BY <1>1, FS_CardinalityType
<1>9. QED BY <1>3, <1>5, <1>7, <1>8 DEF F, Numbered

(* What a statement does to a row that is there: it keeps its number and   *)
(* its confirmation, and once confirmed its payload.                       *)
Kept(id) ==
    /\ outbox'[id] # NULL
    /\ outbox'[id].seq = outbox[id].seq
    /\ outbox[id].acked => outbox'[id].acked /\ outbox'[id].by = outbox[id].by

LEMMA AppendKeeps ==
    ASSUME OutboxTypeOK, Numbered, NEW a \in Attempt, NEW path \in Path, NEW n \in 1..MaxPush,
           AppendOutboxMessages(a, path, n)
    PROVE  /\ OutboxTypeOK' /\ Numbered' /\ \A id \in Recorded : Kept(id)
           /\ Batch(path, n) \subseteq Recorded'
<1> DEFINE F == Fresh(path, n)
           number(i) == Cardinality({j \in F : j <= i})
           new(i) == [seq |-> seq + number(i), by |-> a, delivered |-> FALSE, acked |-> FALSE]
<1>1. /\ \A i \in F : number(i) \in 1..Cardinality(F)
      /\ \A i, j \in F : number(i) = number(j) => i = j
      /\ seq' = Cardinality(Recorded \cup ({path} \X F))
      /\ seq' <= Cardinality(Id)
      /\ seq' = seq + Cardinality(F)
      /\ Cardinality(F) \in Nat
    BY NumbersOfBatch DEF AppendOutboxMessages
<1>2. \A id \in Id :
        outbox'[id] = IF id \notin Batch(path, n) THEN outbox[id]
                      ELSE IF outbox[id] # NULL THEN Rewritten(outbox[id], a)
                      ELSE new(id[2])
    BY DEF AppendOutboxMessages
<1>3. outbox \in [Id -> Row \cup {NULL}] /\ seq \in Nat /\ Cardinality(Id) \in Nat
    BY FiniteIds DEF OutboxTypeOK
<1>4. \A i \in F : i \in 1..MaxPush /\ <<path, i>> \in Id /\ outbox[<<path, i>>] = NULL
    BY OutboxConstants DEF Fresh, Id
<1>5. ASSUME NEW id \in Id, id \notin {path} \X F
      PROVE  /\ outbox[id] = NULL => outbox'[id] = NULL
             /\ outbox[id] # NULL => Kept(id) /\ outbox'[id] \in Row
    <2>1. id \in Batch(path, n) => outbox[id] # NULL
        BY <1>5 DEF Batch, Fresh
    <2>2. outbox[id] # NULL => outbox[id] \in Row
        BY <1>3
    <2>3. CASE id \notin Batch(path, n)
        BY <1>2, <2>2, <2>3 DEF Kept
    <2>4. CASE id \in Batch(path, n)
        <3>1. outbox'[id] = Rewritten(outbox[id], a)
            BY <1>2, <2>1, <2>4
        <3>2. outbox[id] # NULL /\ outbox[id] \in Row
            BY <2>1, <2>2, <2>4
        <3>3. CASE outbox[id].acked
            <4>1. outbox'[id] = outbox[id]
                BY <3>1, <3>3 DEF Rewritten
            <4>2. QED BY <3>2, <4>1 DEF Kept
        <3>4. CASE ~outbox[id].acked
            <4>1. outbox'[id] = [outbox[id] EXCEPT !.by = a, !.delivered = FALSE]
                BY <3>1, <3>4 DEF Rewritten
            <4>2. outbox'[id] \in Row /\ outbox'[id].seq = outbox[id].seq
                BY <3>2, <4>1 DEF Row
            <4>3. QED BY <3>2, <3>4, <4>2, NullIsNoRow DEF Kept
        <3>5. QED BY <3>3, <3>4
    <2>5. QED BY <2>3, <2>4
<1>6. ASSUME NEW i \in F
      PROVE  /\ outbox'[<<path, i>>] = new(i)
             /\ outbox'[<<path, i>>] \in Row
             /\ outbox'[<<path, i>>].seq = seq + number(i)
    <2>1. outbox'[<<path, i>>] = new(i)
        <3>1. <<path, i>> \in Batch(path, n) /\ <<path, i>>[2] = i
            BY DEF Batch, Fresh
        <3> HIDE DEF new
        <3>2. QED BY <1>2, <1>4, <3>1
    <2>2. number(i) \in 1..Cardinality(F)
        BY <1>1
    <2> HIDE DEF number, F
    <2>3. seq + number(i) \in 1..Cardinality(Id)
        BY <1>1, <1>3, <2>2
    <2>4. QED BY <2>1, <2>3 DEF Row
<1>7. Recorded' = Recorded \cup ({path} \X F)
    <2>1. \A id \in Id : outbox'[id] # NULL <=> outbox[id] # NULL \/ id \in {path} \X F
        <3> SUFFICES ASSUME NEW id \in Id
                     PROVE  outbox'[id] # NULL <=> outbox[id] # NULL \/ id \in {path} \X F
            OBVIOUS
        <3>1. CASE id \in {path} \X F
            <4>1. id = <<path, id[2]>> /\ id[2] \in F
                BY <3>1
            <4>2. outbox'[id] \in Row
                BY <1>6, <4>1
            <4>3. QED BY <3>1, <4>2, NullIsNoRow
        <3>2. CASE id \notin {path} \X F
            BY <1>5, <3>2 DEF Kept
        <3>3. QED BY <3>1, <3>2
    <2>2. {path} \X F \subseteq Id
        BY <1>4
    <2>3. QED BY <2>1, <2>2 DEF Recorded
<1>8. OutboxTypeOK'
    <2>1. outbox' = [id \in Id |-> outbox'[id]]
        BY DEF AppendOutboxMessages
    <2>2. \A id \in Id : outbox'[id] \in Row \cup {NULL}
        <3> SUFFICES ASSUME NEW id \in Id PROVE outbox'[id] \in Row \cup {NULL}
            OBVIOUS
        <3>1. CASE id \in {path} \X F
            <4>1. id = <<path, id[2]>> /\ id[2] \in F
                BY <3>1
            <4>2. QED BY <1>6, <4>1
        <3>2. CASE id \notin {path} \X F
            BY <1>5, <3>2
        <3>3. QED BY <3>1, <3>2
    <2>3. seq' \in 0..Cardinality(Id)
        <3> HIDE DEF F
        <3>1. QED BY <1>1, <1>3
    <2>4. QED BY <2>1, <2>2, <2>3 DEF OutboxTypeOK
<1>9. \A id \in Recorded : Kept(id) /\ outbox[id].seq \in Nat
    BY <1>4, <1>5, <1>3 DEF Recorded, Row
<1>10. ASSUME NEW id \in Recorded'
       PROVE  \/ id \in Recorded /\ outbox'[id].seq = outbox[id].seq /\ outbox[id].seq \in Nat
                     /\ outbox[id].seq <= seq
              \/ \E i \in F : id = <<path, i>> /\ outbox'[id].seq = seq + number(i)
    <2>1. CASE id \in Recorded
        BY <1>9, <2>1 DEF Kept, Numbered
    <2>2. CASE id \in {path} \X F
        <3>1. id = <<path, id[2]>> /\ id[2] \in F
            BY <2>2
        <3>2. QED BY <1>6, <3>1
    <2>3. QED BY <1>7, <2>1, <2>2
<1>11. Numbered'
    <2> HIDE DEF F, number
    <2>1. seq' = Cardinality(Recorded')
        BY <1>1, <1>7
    <2>2. \A id \in Recorded' : outbox'[id].seq <= seq'
        BY <1>1, <1>3, <1>10
    <2>3. ASSUME NEW id \in Recorded', NEW other \in Recorded', outbox'[id].seq = outbox'[other].seq
          PROVE  id = other
        <3>1. CASE id \in Recorded /\ outbox'[id].seq = outbox[id].seq /\ outbox[id].seq \in Nat
                      /\ outbox[id].seq <= seq
            <4>1. CASE other \in Recorded /\ outbox'[other].seq = outbox[other].seq
                BY <2>3, <3>1, <4>1 DEF Numbered
            <4>2. CASE \E i \in F : other = <<path, i>> /\ outbox'[other].seq = seq + number(i)
                <5>1. PICK i \in F : outbox'[other].seq = seq + number(i)
                    BY <4>2
                <5>2. number(i) \in Nat /\ number(i) > 0
                    BY <1>1
                <5>3. seq + number(i) > seq
                    BY <1>3, <5>2
                <5>4. outbox[id].seq = seq + number(i) /\ outbox[id].seq <= seq /\ outbox[id].seq \in Nat
                    BY <2>3, <3>1, <5>1
                <5>5. QED BY <1>3, <5>3, <5>4
            <4>3. QED BY <1>10, <4>1, <4>2
        <3>2. CASE \E i \in F : id = <<path, i>> /\ outbox'[id].seq = seq + number(i)
            <4>1. CASE other \in Recorded /\ outbox'[other].seq = outbox[other].seq
                          /\ outbox[other].seq \in Nat /\ outbox[other].seq <= seq
                <5>1. PICK i \in F : outbox'[id].seq = seq + number(i)
                    BY <3>2
                <5>2. number(i) \in Nat /\ number(i) > 0
                    BY <1>1
                <5>3. QED BY <1>3, <2>3, <4>1, <5>1, <5>2
            <4>2. CASE \E i \in F : other = <<path, i>> /\ outbox'[other].seq = seq + number(i)
                <5>1. PICK i \in F : id = <<path, i>> /\ outbox'[id].seq = seq + number(i)
                    BY <3>2
                <5>2. PICK j \in F : other = <<path, j>> /\ outbox'[other].seq = seq + number(j)
                    BY <4>2
                <5>3. number(i) \in Int /\ number(j) \in Int
                    BY <1>1
                <5>4. number(i) = number(j)
                    BY <1>3, <2>3, <5>1, <5>2, <5>3
                <5>5. QED BY <1>1, <5>1, <5>2, <5>4
            <4>3. QED BY <1>10, <4>1, <4>2
        <3>3. QED BY <1>10, <3>1, <3>2
    <2>4. QED BY <2>1, <2>2, <2>3 DEF Numbered
<1>12. Batch(path, n) \subseteq Recorded'
    <2> SUFFICES ASSUME NEW id \in Batch(path, n) PROVE id \in Recorded \cup ({path} \X F)
        BY <1>7
    <2>1. id \in Id /\ id = <<path, id[2]>> /\ id[2] \in 1..n
        BY OutboxConstants DEF Batch, Id
    <2>2. QED BY <2>1 DEF Recorded, Fresh
<1>13. QED BY <1>8, <1>9, <1>11, <1>12

LEMMA MarkKeeps ==
    ASSUME OutboxTypeOK, Numbered, NEW ids,
           MarkOutboxDelivered(ids) \/ AckOutboxMessages(ids)
    PROVE  OutboxTypeOK' /\ Numbered' /\ \A id \in Recorded : Kept(id)
<1>1. outbox \in [Id -> Row \cup {NULL}] /\ seq' = seq /\ seq \in 0..Cardinality(Id)
    BY DEF OutboxTypeOK, MarkOutboxDelivered, AckOutboxMessages
<1>2. outbox' = [id \in Id |-> outbox'[id]]
    BY DEF MarkOutboxDelivered, AckOutboxMessages
<1>3. ASSUME NEW id \in Id
      PROVE  \/ outbox'[id] = outbox[id]
             \/ outbox[id] # NULL /\ outbox'[id] = [outbox[id] EXCEPT !.delivered = TRUE]
             \/ outbox[id] # NULL /\ outbox'[id] = [outbox[id] EXCEPT !.acked = TRUE]
    <2>1. CASE MarkOutboxDelivered(ids)
        BY <2>1 DEF MarkOutboxDelivered
    <2>2. CASE AckOutboxMessages(ids)
        BY <2>2 DEF AckOutboxMessages
    <2>3. QED BY <2>1, <2>2
<1>4. ASSUME NEW id \in Id
      PROVE  /\ outbox[id] = NULL => outbox'[id] = NULL
             /\ outbox[id] # NULL => Kept(id) /\ outbox'[id] \in Row
    <2>1. outbox[id] # NULL => outbox[id] \in Row
        BY <1>1
    <2>2. CASE outbox'[id] = outbox[id]
        BY <2>1, <2>2 DEF Kept
    <2>3. CASE outbox[id] # NULL /\ outbox'[id] = [outbox[id] EXCEPT !.delivered = TRUE]
        <3>1. outbox'[id] \in Row /\ outbox'[id].seq = outbox[id].seq
              /\ outbox'[id].acked = outbox[id].acked /\ outbox'[id].by = outbox[id].by
            BY <2>1, <2>3 DEF Row
        <3>2. QED BY <2>3, <3>1, NullIsNoRow DEF Kept
    <2>4. CASE outbox[id] # NULL /\ outbox'[id] = [outbox[id] EXCEPT !.acked = TRUE]
        <3>1. outbox'[id] \in Row /\ outbox'[id].seq = outbox[id].seq
              /\ outbox'[id].acked /\ outbox'[id].by = outbox[id].by
            BY <2>1, <2>4 DEF Row
        <3>2. QED BY <2>4, <3>1, NullIsNoRow DEF Kept
    <2>5. QED BY <1>3, <2>2, <2>3, <2>4
<1>5. Recorded' = Recorded
    BY <1>4 DEF Recorded, Kept
<1>6. \A id \in Recorded : Kept(id) /\ outbox'[id].seq = outbox[id].seq
    BY <1>4 DEF Recorded, Kept
<1>7. OutboxTypeOK'
    BY <1>1, <1>2, <1>4 DEF OutboxTypeOK
<1>8. Numbered'
    BY <1>1, <1>5, <1>6 DEF Numbered
<1>9. QED BY <1>6, <1>7, <1>8

-----------------------------------------------------------------------------
(* Paging                                                                  *)

(* What a page passes over lies behind all of it, and the page is full.    *)
LEMMA PageOfBeyond ==
    ASSUME PullTypeOK, Numbered, pull.on
    PROVE  LET page == Page(pull.cursor)
           IN  /\ page \subseteq Id
               /\ \A id \in Beyond(pull.cursor) \ page :
                      HasMore(page) /\ Cursor(page) < outbox[id].seq
               /\ Cursor(page) \in 0..Cardinality(Id)
<1> DEFINE S == Beyond(pull.cursor)
           number == [id \in S |-> outbox[id].seq]
           page == Page(pull.cursor)
<1>1. S \subseteq Id /\ S \subseteq Recorded /\ IsFiniteSet(S)
    BY FiniteIds, FS_Subset DEF Beyond, Unacked, Recorded
<1>2. \A id \in S : outbox[id].seq \in 1..Cardinality(Id) /\ pull.cursor < outbox[id].seq
    <2>1. \A id \in S : outbox[id] \in Row
        BY <1>1 DEF PullTypeOK, OutboxTypeOK, Recorded
    <2>2. pull.cursor \in Int /\ \A id \in S : outbox[id].seq > pull.cursor
        BY FiniteIds DEF PullTypeOK, Pull, Beyond
    <2>3. QED BY <2>1, <2>2, FiniteIds DEF Row
<1>3. number \in [S -> Nat] /\ \A x, y \in S : number[x] = number[y] => x = y
    BY <1>1, <1>2, FiniteIds DEF Numbered
<1>4. page = {x \in S : Cardinality({z \in S : number[z] < number[x]}) < PageSize}
    <2>1. \A x \in S : {z \in S : number[z] < number[x]} = {z \in S : outbox[z].seq < outbox[x].seq}
        OBVIOUS
    <2>2. QED BY <2>1 DEF Page
<1> HIDE DEF S, number, page
<1>5. /\ \A y \in S \ page : Cardinality(page) = PageSize /\ \A x \in page : number[x] < number[y]
      /\ page # {} => \E last \in page : \A x \in page : number[x] <= number[last]
    BY <1>1, <1>3, <1>4, FirstOnes, PageSizePositive
<1>6. page \subseteq S /\ \A x \in S : number[x] = outbox[x].seq
    BY <1>4 DEF number
<1> DEFINE top == {pull.cursor} \cup {outbox[id].seq : id \in page}
<1>7. Cursor(page) \in top
    <2>1. \E c \in top : \A id \in page : outbox[id].seq <= c
        <3>1. CASE page = {}
            BY <3>1
        <3>2. CASE page # {}
            BY <1>5, <1>6, <3>2
        <3>3. QED BY <3>1, <3>2
    <2>2. QED BY <2>1 DEF Cursor
<1>8. Cursor(page) \in 0..Cardinality(Id)
    <2>1. pull.cursor \in 0..Cardinality(Id)
        BY DEF PullTypeOK, Pull
    <2>2. \A c \in top : c \in 0..Cardinality(Id)
        BY <1>2, <1>6, <2>1, FiniteIds
    <2>3. QED BY <1>7, <2>2
<1>9. ASSUME NEW id \in S \ page
      PROVE  HasMore(page) /\ Cursor(page) < outbox[id].seq
    <2>1. HasMore(page)
        BY <1>5, <1>9 DEF HasMore
    <2>2. \A c \in top : c < outbox[id].seq
        BY <1>2, <1>5, <1>6, <1>9
    <2>3. QED BY <1>7, <2>1, <2>2
<1>10. QED BY <1>1, <1>6, <1>8, <1>9 DEF S, page

-----------------------------------------------------------------------------
(* Every step                                                              *)

LEMMA PagingInit == ASSUME PullInit PROVE Paging
<1>1. Recorded = {}
    BY DEF PullInit, OutboxInit, Recorded
<1>2. 0 \in 0..Cardinality(Id)
    BY FiniteIds
<1>3. PullTypeOK
    BY <1>2 DEF PullInit, OutboxInit, NotPulling, PullTypeOK, OutboxTypeOK, Pull
<1>4. Numbered
    BY <1>1, FS_EmptySet DEF PullInit, OutboxInit, Numbered
<1>5. StillAhead
    BY DEF PullInit, NotPulling, StillAhead
<1>6. QED BY <1>3, <1>4, <1>5 DEF Paging

(* A writer or a confirmation takes nothing from what is owed.             *)
LEMMA TableStep ==
    ASSUME Paging, Writes \/ Acks
    PROVE  Paging' /\ \A id \in Recorded : Kept(id)
<1>1. OutboxTypeOK' /\ Numbered' /\ \A id \in Recorded : Kept(id)
    <2>1. CASE Writes
        <3>1. PICK a \in Attempt, path \in Path, n \in 1..MaxPush :
                 \/ AppendOutboxMessages(a, path, n)
                 \/ \E k \in 1..n : MarkOutboxDelivered(Batch(path, k))
            BY <2>1 DEF Writes, RecordOrMark
        <3>2. QED BY <3>1, AppendKeeps, MarkKeeps DEF Paging, PullTypeOK
    <2>2. CASE Acks
        BY <2>2, MarkKeeps DEF Acks, Confirm, Paging, PullTypeOK
    <2>3. QED BY <2>1, <2>2
<1>2. pull' = pull
    BY DEF Writes, Acks
<1>3. PullTypeOK'
    BY <1>1, <1>2 DEF Paging, PullTypeOK
<1>4. \A id \in Recorded : id \in Recorded'
    BY <1>1 DEF Recorded, Kept
<1>5. StillAhead'
    BY <1>1, <1>2, <1>4 DEF Paging, StillAhead, Kept
<1>6. QED BY <1>1, <1>3, <1>5 DEF Paging

LEMMA StartStep == ASSUME Paging, StartPull PROVE Paging'
<1>1. UNCHANGED outboxVars /\ Recorded' = Recorded
    BY DEF StartPull, outboxVars, Recorded
<1>2. pull' = [on |-> TRUE, cursor |-> 0, got |-> {}, owed |-> {id \in Id : Unacked(id)}]
    BY DEF StartPull, NotPulling
<1>3. PullTypeOK'
    BY <1>1, <1>2, FiniteIds DEF Paging, PullTypeOK, OutboxTypeOK, outboxVars, Pull
<1>4. Numbered'
    BY <1>1 DEF Paging, Numbered, outboxVars
<1>5. \A id \in Recorded : outbox[id].seq > 0
    BY FiniteIds DEF Recorded, Paging, PullTypeOK, OutboxTypeOK, Row
<1>6. StillAhead'
    BY <1>1, <1>2, <1>5 DEF StillAhead, Unacked, Recorded, outboxVars
<1>7. QED BY <1>3, <1>4, <1>6 DEF Paging

LEMMA PageStep == ASSUME Paging, GetPage PROVE Paging'
<1> DEFINE page == Page(pull.cursor)
<1>1. UNCHANGED outboxVars /\ Recorded' = Recorded
    BY DEF GetPage, outboxVars, Recorded
<1>2. /\ page \subseteq Id
      /\ \A id \in Beyond(pull.cursor) \ page : HasMore(page) /\ Cursor(page) < outbox[id].seq
      /\ Cursor(page) \in 0..Cardinality(Id)
    BY PageOfBeyond DEF Paging, GetPage
<1>3. pull' = [pull EXCEPT !.on = HasMore(page), !.cursor = Cursor(page), !.got = @ \cup page]
    BY DEF GetPage
<1>4. HasMore(page) \in BOOLEAN /\ pull \in Pull
    BY DEF HasMore, Paging, PullTypeOK
<1> HIDE DEF page
<1>5. pull' \in Pull /\ pull'.on = HasMore(page) /\ pull'.cursor = Cursor(page)
      /\ pull'.got = pull.got \cup page /\ pull'.owed = pull.owed
    BY <1>2, <1>3, <1>4 DEF Pull
<1>6. PullTypeOK'
    BY <1>1, <1>5 DEF Paging, PullTypeOK, OutboxTypeOK, outboxVars
<1>7. Numbered'
    BY <1>1 DEF Paging, Numbered, outboxVars
<1>8. ASSUME NEW id \in pull.owed
      PROVE  /\ id \in Recorded
             /\ outbox[id].acked \/ id \in pull'.got \/ (pull'.on /\ outbox[id].seq > pull'.cursor)
    <2>1. id \in Recorded /\ id \in Id
        BY <1>8 DEF Paging, StillAhead, Recorded
    <2>2. CASE outbox[id].acked \/ id \in pull.got \/ id \in page
        BY <1>5, <2>1, <2>2
    <2>3. CASE ~outbox[id].acked /\ id \notin pull.got /\ id \notin page
        <3>1. id \in Beyond(pull.cursor)
            BY <1>8, <2>1, <2>3 DEF Paging, StillAhead, Beyond, Unacked, Recorded
        <3>2. HasMore(page) /\ Cursor(page) < outbox[id].seq
            BY <1>2, <2>3, <3>1
        <3>3. Cursor(page) \in Int /\ outbox[id].seq \in Int
            BY <1>2, <2>1, FiniteIds DEF Paging, PullTypeOK, OutboxTypeOK, Row, Recorded
        <3>4. QED BY <1>5, <2>1, <3>2, <3>3
    <2>4. QED BY <2>2, <2>3
<1>9. StillAhead'
    BY <1>1, <1>5, <1>8 DEF StillAhead, outboxVars
<1>10. QED BY <1>6, <1>7, <1>9 DEF Paging

LEMMA PagingStep == ASSUME Paging, [PullNext]_pullVars PROVE Paging'
<1>1. CASE PullNext
    BY <1>1, TableStep, StartStep, PageStep DEF PullNext
<1>2. CASE UNCHANGED pullVars
    BY <1>2 DEF pullVars, Paging, PullTypeOK, OutboxTypeOK, Numbered, StillAhead, Recorded
<1>3. QED BY <1>1, <1>2

LEMMA PagingAlways == PullSpec => []Paging
<1>1. QED BY PagingInit, PagingStep, PTL DEF PullSpec

-----------------------------------------------------------------------------
(* Every reachable state of the outbox and of a paging client is well      *)
(* typed; in particular the table numbers no more rows than there are.     *)
THEOREM PullTypeCorrect == PullSpec => []PullTypeOK
<1>1. Paging => PullTypeOK
    BY DEF Paging
<1>2. QED BY <1>1, PagingAlways, PTL

(* A client that has paged until hasMore is false has missed nothing that  *)
(* was waiting when it began (GET of handlers/outbox.js).                  *)
THEOREM NothingMissed == PullSpec => []PullComplete
<1>1. Paging => PullComplete
    BY DEF Paging, StillAhead, PullComplete
<1>2. QED BY <1>1, PagingAlways, PTL

(* A confirmed message stays confirmed, with the text the client has read  *)
(* (the condition of ON CONFLICT in appendOutboxMessages).                 *)
THEOREM ConfirmedForGood == PullSpec => AckIsFinal
<1>1. ASSUME Paging, [PullNext]_pullVars
      PROVE  [\A id \in Id :
                 outbox[id] # NULL /\ outbox[id].acked =>
                     outbox'[id] # NULL /\ outbox'[id].acked /\ outbox'[id].by = outbox[id].by]_pullVars
    <2>1. CASE Writes \/ Acks
        BY <1>1, <2>1, TableStep DEF Recorded, Kept
    <2>2. CASE UNCHANGED outbox
        BY <2>2
    <2>3. QED BY <1>1, <2>1, <2>2 DEF PullNext, StartPull, GetPage, outboxVars, pullVars
<1>2. QED BY <1>1, PagingAlways, PTL DEF PullSpec, AckIsFinal
-----------------------------------------------------------------------------
(* What the fires of a task do to the table                                *)

(* The n-th push of a batch is recorded under the n-th id; nothing else is *)
(* written by an attempt, and the client confirms what is recorded.        *)
LEMMA EmptyBatch ==
    ASSUME NEW a, NEW path
    PROVE  /\ AppendOutboxMessages(a, path, 0) /\ OutboxTypeOK => UNCHANGED outboxVars
           /\ MarkOutboxDelivered(Batch(path, 0)) /\ OutboxTypeOK => UNCHANGED outboxVars
<1>1. Batch(path, 0) = {} /\ Fresh(path, 0) = {}
    BY DEF Batch, Fresh
<1>2. ASSUME AppendOutboxMessages(a, path, 0), OutboxTypeOK PROVE UNCHANGED outboxVars
    <2>1. outbox' = [id \in Id |-> outbox[id]]
        BY <1>1, <1>2 DEF AppendOutboxMessages
    <2>2. seq' = seq + 0 /\ seq \in Nat
        BY <1>1, <1>2, FS_EmptySet, FiniteIds DEF AppendOutboxMessages, OutboxTypeOK
    <2>3. QED BY <1>2, <2>1, <2>2 DEF OutboxTypeOK, outboxVars
<1>3. ASSUME MarkOutboxDelivered(Batch(path, 0)), OutboxTypeOK PROVE UNCHANGED outboxVars
    <2>1. outbox' = [id \in Id |-> outbox[id]]
        BY <1>1, <1>3 DEF MarkOutboxDelivered
    <2>2. QED BY <1>3, <2>1 DEF OutboxTypeOK, outboxVars, MarkOutboxDelivered
<1>4. QED BY <1>2, <1>3

LEMMA FireTable ==
    ASSUME TypeOK, [Next]_vars
    PROVE  RecordOrMark \/ Confirm \/ UNCHANGED outboxVars
<1>1. ASSUME NEW a \in Attempt, AppendPushes(a)
      PROVE  RecordOrMark \/ UNCHANGED outboxVars
    <2>1. job[a] \in Job /\ AppendOutboxMessages(a, job[a].path, job[a].n)
        BY <1>1 DEF AppendPushes, TypeOK
    <2>2. job[a].path \in Path /\ job[a].n \in 0..MaxPush
        BY <2>1 DEF Job
    <2>3. CASE job[a].n = 0
        BY <2>1, <2>3, EmptyBatch DEF TypeOK
    <2>4. CASE job[a].n # 0
        <3>1. job[a].n \in 1..MaxPush
            BY <2>2, <2>4, OutboxConstants
        <3>2. QED BY <2>1, <2>2, <3>1 DEF RecordOrMark
    <2>5. QED BY <2>3, <2>4
<1>2. ASSUME NEW a \in Attempt, MarkPushesDelivered(a)
      PROVE  RecordOrMark \/ UNCHANGED outboxVars
    <2>1. job[a] \in Job /\ MarkOutboxDelivered(Batch(job[a].path, job[a].sent))
        BY <1>2 DEF MarkPushesDelivered, SentIds, TypeOK
    <2>2. job[a].path \in Path /\ job[a].sent \in 0..MaxPush
        BY <2>1 DEF Job
    <2>3. CASE job[a].sent = 0
        BY <2>1, <2>3, EmptyBatch DEF TypeOK
    <2>4. CASE job[a].sent # 0
        <3>1. job[a].sent \in 1..MaxPush /\ job[a].sent \in 1..job[a].sent
            BY <2>2, <2>4, OutboxConstants
        <3>2. QED BY <1>2, <2>1, <2>2, <3>1 DEF RecordOrMark
    <2>5. QED BY <2>3, <2>4
<1>3. ASSUME NEW a \in Attempt, Fires(a), ~AppendPushes(a), ~MarkPushesDelivered(a)
      PROVE  UNCHANGED outboxVars
    BY <1>3 DEF Fires, NoFire, BeforeFire, Round, NoMoreRounds, Compose, NoSubscription,
                AppendFails, SendPush, PushFails, AllSent, MarkFails, NotifyFireSettled, Quiet
<1>4. ASSUME NEW a \in Attempt, StartCron(a) \/ StartRequest(a) \/ Closes(a) \/ Crash(a)
      PROVE  UNCHANGED outboxVars
    BY <1>4 DEF StartCron, StartRequest, Start, Closes, CloseDelivered, CloseForRetry,
                CloseFailed, Closed, Crash
<1>5. CASE Client
    BY <1>5 DEF Client, Confirm
<1>6. CASE RequestFindsNothing \/ UNCHANGED vars
    BY <1>6 DEF RequestFindsNothing, vars, outboxVars
<1>7. QED BY <1>1, <1>2, <1>3, <1>4, <1>5, <1>6 DEF Next

-----------------------------------------------------------------------------
(* The stages of an attempt                                                *)

(* The pushes of an attempt that are of its fire.                          *)
HookPushes(j) == IF j.path = "hook" THEN j.sent ELSE 0

(* What onFireSettled was told is so.                                      *)
ToldTruly(j) ==
    /\ Len(j.settled) <= 1
    /\ Len(j.settled) = 1 =>
          LET told == j.settled[1] IN
          /\ told.sent = HookPushes(j)
          /\ told.status = "sent" => told.sent = j.n
          /\ told.status \in {"skipped", "not-handled"} => told.sent = 0

Unfired == {"idle", "begin"}
Composing == {"idle", "begin", "round", "compose"}
Sending == {"append", "send", "mark"}

(* What the stage of an attempt says about it.                             *)
Staged(j) ==
    /\ j.sent <= j.n
    /\ j.pc \in Composing \cup {"append"} => j.sent = 0
    /\ j.pc \in Composing => j.path = "plain"
    /\ j.pc \in Composing \cup {"append", "send"} => j.fate = "none"
    /\ j.pc \in Unfired => ~j.fired
    /\ j.pc \in {"round", "settle"} => j.fired
    /\ j.pc \in Unfired \cup {"round", "settle"} => j.settled = <<>>
    /\ j.pc \in Sending /\ j.path = "hook" => j.fired /\ j.settled = <<>>
    /\ j.pc \in Sending \cup {"compose"} /\ j.path = "plain" =>
          IF j.fired THEN Len(j.settled) = 1 /\ j.settled[1].status = "not-handled"
          ELSE j.settled = <<>>
    /\ j.pc = "mark" => j.fate \in {"sent", "failed"}
    /\ j.pc \in {"mark", "settle"} /\ j.fate = "sent" => j.sent = j.n
    /\ j.pc = "settle" => IF j.path = "hook" THEN j.fate \in {"sent", "failed"}
                          ELSE j.sent = 0 /\ j.fate # "sent"
    /\ j.pc \in {"close", "done"} /\ j.fired => Len(j.settled) = 1

Sound(j) == j \in Job /\ Staged(j) /\ ToldTruly(j)

LEMMA StepEffect ==
    ASSUME job \in [Attempt -> Job], NEW a \in Attempt, NEW from, NEW upd, Step(a, from, upd)
    PROVE  /\ job[a].pc = from /\ job'[a] = upd
           /\ \A b \in Attempt \ {a} : job'[b] = job[b]
           /\ upd \in Job => job' \in [Attempt -> Job]
           /\ UNCHANGED <<row, request, overlapped>>
BY DEF Step

(* A record that agrees with a sound one in what onFireSettled was told    *)
(* about is sound if its own stage is.                                     *)
LEMMA SoundAlike ==
    ASSUME NEW j, Sound(j), NEW m \in Job, Staged(m),
           m.path = j.path, m.n = j.n, m.sent = j.sent, m.settled = j.settled
    PROVE  Sound(m)
BY DEF Sound, ToldTruly, HookPushes

LEMMA NoFireSound ==
    ASSUME NEW j \in Job, Sound(j), j.pc = "begin"
    PROVE  Sound([j EXCEPT !.pc = "compose"])
<1> DEFINE m == [j EXCEPT !.pc = "compose"]
<1>1. m \in Job
    BY DEF Job
<1>2. /\ m.pc = "compose" /\ m.fate = j.fate /\ m.fired = j.fired /\ m.path = j.path
      /\ m.sent = j.sent /\ m.n = j.n /\ m.settled = j.settled
    BY DEF Job
<1> HIDE DEF m
<1>3. Staged(m)
    BY <1>2 DEF Sound, Staged, Unfired, Composing, Sending
<1>4. QED BY <1>1, <1>2, <1>3, SoundAlike DEF m

LEMMA BeforeFireSound ==
    ASSUME NEW j \in Job, Sound(j), j.pc = "begin"
    PROVE  /\ \A fate \in {"not-handled", "skipped", "failed"} :
                 Sound(ToSettle([j EXCEPT !.fired = TRUE], fate))
           /\ Sound([[j EXCEPT !.fired = TRUE] EXCEPT !.pc = "round"])
<1>1. ASSUME NEW fate \in {"not-handled", "skipped", "failed"}
      PROVE  Sound(ToSettle([j EXCEPT !.fired = TRUE], fate))
    <2> DEFINE m == ToSettle([j EXCEPT !.fired = TRUE], fate)
    <2>1. m = [j EXCEPT !.fired = TRUE, !.pc = "settle", !.fate = fate]
        BY DEF ToSettle
    <2>2. fate \in Fate
        BY DEF Fate
    <2>3. m \in Job
        BY <2>1, <2>2 DEF Job
    <2>4. /\ m.pc = "settle" /\ m.fate = fate /\ m.fired /\ m.path = j.path
          /\ m.sent = j.sent /\ m.n = j.n /\ m.settled = j.settled
        BY <2>1 DEF Job
    <2>5. j.path = "plain" /\ j.sent = 0 /\ j.settled = <<>> /\ j.sent <= j.n
        BY DEF Sound, Staged, Unfired, Composing
    <2> HIDE DEF m
    <2>6. Staged(m)
        BY <2>4, <2>5 DEF Staged, Unfired, Composing, Sending
    <2>7. QED BY <2>3, <2>4, <2>6, SoundAlike DEF m
<1>2. Sound([[j EXCEPT !.fired = TRUE] EXCEPT !.pc = "round"])
    <2> DEFINE m == [[j EXCEPT !.fired = TRUE] EXCEPT !.pc = "round"]
    <2>1. m \in Job
        BY DEF Job
    <2>2. /\ m.pc = "round" /\ m.fate = j.fate /\ m.fired /\ m.path = j.path
          /\ m.sent = j.sent /\ m.n = j.n /\ m.settled = j.settled
        BY DEF Job
    <2> HIDE DEF m
    <2>3. Staged(m)
        BY <2>2 DEF Sound, Staged, Unfired, Composing, Sending
    <2>4. QED BY <2>1, <2>2, <2>3, SoundAlike DEF m
<1>3. QED BY <1>1, <1>2

LEMMA ToSettleSound ==
    ASSUME NEW j \in Job, Sound(j), j.pc = "round", NEW fate \in {"skipped", "failed"}
    PROVE  Sound(ToSettle(j, fate))
<1> DEFINE m == ToSettle(j, fate)
<1>1. fate \in Fate
    BY DEF Fate
<1>2. m \in Job
    BY <1>1 DEF Job, ToSettle
<1>3. /\ m.pc = "settle" /\ m.fate = fate /\ m.fired = j.fired /\ m.path = j.path
      /\ m.sent = j.sent /\ m.n = j.n /\ m.settled = j.settled
    BY DEF Job, ToSettle
<1>4. j.path = "plain" /\ j.sent = 0 /\ j.settled = <<>> /\ j.fired /\ j.sent <= j.n
    BY DEF Sound, Staged, Unfired, Composing
<1> HIDE DEF m
<1>5. Staged(m)
    BY <1>3, <1>4 DEF Staged, Unfired, Composing, Sending
<1>6. QED BY <1>2, <1>3, <1>5, SoundAlike DEF m

LEMMA RoundSound ==
    ASSUME NEW j \in Job, Sound(j), j.pc = "round", j.rounds < MaxRounds
    PROVE  LET k == [j EXCEPT !.rounds = @ + 1]
           IN  /\ Sound(k)
               /\ \A fate \in {"skipped", "failed"} : Sound(ToSettle(k, fate))
               /\ \A n \in 0..MaxPush :
                     Sound([k EXCEPT !.pc = "append", !.path = "hook", !.n = n])
<1> DEFINE k == [j EXCEPT !.rounds = @ + 1]
<1>1. j.rounds + 1 \in 0..MaxRounds
    BY j.rounds \in 0..MaxRounds, FireConstants DEF Job
<1>2. k \in Job
    BY <1>1 DEF Job
<1>3. /\ k.pc = "round" /\ k.fate = j.fate /\ k.fired = j.fired /\ k.path = j.path
      /\ k.sent = j.sent /\ k.n = j.n /\ k.settled = j.settled
    BY DEF Job
<1> HIDE DEF k
<1>4. Staged(k)
    BY <1>3 DEF Sound, Staged, Unfired, Composing, Sending
<1>5. Sound(k)
    BY <1>2, <1>3, <1>4, SoundAlike
<1>6. \A fate \in {"skipped", "failed"} : Sound(ToSettle(k, fate))
    BY <1>2, <1>3, <1>5, ToSettleSound
<1>7. ASSUME NEW n \in 0..MaxPush
      PROVE  Sound([k EXCEPT !.pc = "append", !.path = "hook", !.n = n])
    <2> DEFINE m == [k EXCEPT !.pc = "append", !.path = "hook", !.n = n]
    <2>1. m \in Job
        BY <1>2, FireConstants DEF Job
    <2>2. /\ m.pc = "append" /\ m.fate = k.fate /\ m.fired = k.fired /\ m.path = "hook"
          /\ m.sent = k.sent /\ m.n = n /\ m.settled = k.settled
        BY <1>2 DEF Job
    <2>3. k.sent = 0 /\ k.settled = <<>> /\ k.fired /\ k.fate = "none" /\ Len(<<>>) = 0
        BY <1>3, <1>4 DEF Staged, Unfired, Composing
    <2>4. 0 <= n
        BY OutboxConstants
    <2> HIDE DEF m
    <2>5. Staged(m)
        BY <2>2, <2>3, <2>4 DEF Staged, Unfired, Composing, Sending
    <2>6. ToldTruly(m)
        BY <2>2, <2>3 DEF ToldTruly
    <2>7. QED BY <2>1, <2>5, <2>6 DEF Sound, m
<1>8. QED BY <1>5, <1>6, <1>7 DEF k

LEMMA ComposeSound ==
    ASSUME NEW j \in Job, Sound(j), j.pc = "compose"
    PROVE  /\ \A n \in 1..MaxPush :
                 Sound([j EXCEPT !.pc = "append", !.path = "plain", !.n = n])
           /\ Sound([j EXCEPT !.pc = "close", !.fate = "failed"])
<1>1. /\ j.path = "plain" /\ j.sent = 0 /\ j.sent <= j.n /\ j.fate = "none"
      /\ IF j.fired THEN Len(j.settled) = 1 /\ j.settled[1].status = "not-handled"
         ELSE j.settled = <<>>
    BY DEF Sound, Staged, Composing
<1>2. ASSUME NEW n \in 1..MaxPush
      PROVE  Sound([j EXCEPT !.pc = "append", !.path = "plain", !.n = n])
    <2> DEFINE m == [j EXCEPT !.pc = "append", !.path = "plain", !.n = n]
    <2>1. n \in 0..MaxPush /\ 0 <= n
        BY OutboxConstants
    <2>2. m \in Job
        BY <2>1, FireConstants DEF Job
    <2>3. /\ m.pc = "append" /\ m.fate = j.fate /\ m.fired = j.fired /\ m.path = j.path
          /\ m.sent = j.sent /\ m.n = n /\ m.settled = j.settled
        BY <1>1 DEF Job
    <2> HIDE DEF m
    <2>4. Staged(m)
        BY <1>1, <2>1, <2>3 DEF Staged, Unfired, Composing, Sending
    <2>5. Len(m.settled) <= 1
        BY <2>3 DEF Sound, ToldTruly
    <2>6. Len(m.settled) = 1 =>
              /\ m.settled[1].sent = HookPushes(m)
              /\ m.settled[1].status = "not-handled" /\ m.settled[1].sent = 0
        BY <1>1, <2>3 DEF Sound, ToldTruly, HookPushes
    <2>7. ToldTruly(m)
        BY <2>5, <2>6 DEF ToldTruly
    <2>8. QED BY <2>2, <2>4, <2>7 DEF Sound, m
<1>3. Sound([j EXCEPT !.pc = "close", !.fate = "failed"])
    <2> DEFINE m == [j EXCEPT !.pc = "close", !.fate = "failed"]
    <2>1. m \in Job
        BY DEF Job, Fate
    <2>2. /\ m.pc = "close" /\ m.fired = j.fired /\ m.path = j.path
          /\ m.sent = j.sent /\ m.n = j.n /\ m.settled = j.settled
        BY DEF Job
    <2> HIDE DEF m
    <2>3. Staged(m)
        BY <1>1, <2>2 DEF Staged, Unfired, Composing, Sending
    <2>4. QED BY <2>1, <2>2, <2>3, SoundAlike DEF m
<1>4. QED BY <1>2, <1>3

LEMMA SendingSound ==
    ASSUME NEW j \in Job, Sound(j)
    PROVE  /\ j.pc = "append" => /\ Sound([j EXCEPT !.pc = "send"])
                                 /\ Sound([j EXCEPT !.pc = "send", !.recorded = FALSE])
           /\ j.pc \in {"append", "send"} => Sound(Failed(j))
           /\ j.pc = "send" /\ j.sent < j.n => Sound([j EXCEPT !.sent = @ + 1])
           /\ j.pc = "send" /\ j.sent = j.n => Sound([j EXCEPT !.pc = "mark", !.fate = "sent"])
<1>1. ASSUME NEW m \in Job, m.path = j.path, m.n = j.n, m.settled = j.settled,
             m.fired = j.fired, m.sent <= m.n, j.pc \in {"append", "send"},
             \/ m.pc = "send" /\ m.fate = j.fate
             \/ m.pc = "mark" /\ m.fate \in {"sent", "failed"} /\ (m.fate = "sent" => m.sent = m.n)
      PROVE  Staged(m)
    <2>1. /\ j.fate = "none"
          /\ j.path = "hook" => j.fired /\ j.settled = <<>>
          /\ j.path = "plain" =>
                IF j.fired THEN Len(j.settled) = 1 /\ j.settled[1].status = "not-handled"
                ELSE j.settled = <<>>
        BY <1>1 DEF Sound, Staged, Sending
    <2>2. QED BY <1>1, <2>1 DEF Staged, Unfired, Composing, Sending
<1>2. j.sent <= j.n
    BY DEF Sound, Staged
<1>3. ASSUME j.pc = "append"
      PROVE  /\ Sound([j EXCEPT !.pc = "send"])
             /\ Sound([j EXCEPT !.pc = "send", !.recorded = FALSE])
    <2>1. ASSUME NEW m \in {[j EXCEPT !.pc = "send"], [j EXCEPT !.pc = "send", !.recorded = FALSE]}
          PROVE  Sound(m)
        <3>1. /\ m \in Job /\ m.pc = "send" /\ m.fate = j.fate /\ m.fired = j.fired
              /\ m.path = j.path /\ m.sent = j.sent /\ m.n = j.n /\ m.settled = j.settled
            BY DEF Job
        <3>2. Staged(m)
            BY <1>1, <1>2, <1>3, <3>1
        <3>3. QED BY <3>1, <3>2, SoundAlike
    <2>2. QED BY <2>1
<1>4. ASSUME j.pc \in {"append", "send"} PROVE Sound(Failed(j))
    <2> DEFINE m == Failed(j)
    <2>1. /\ m \in Job /\ m.pc = "mark" /\ m.fate = "failed" /\ m.fired = j.fired
          /\ m.path = j.path /\ m.sent = j.sent /\ m.n = j.n /\ m.settled = j.settled
        BY DEF Job, Failed, Fate
    <2> HIDE DEF m
    <2>2. Staged(m)
        BY <1>1, <1>2, <1>4, <2>1
    <2>3. QED BY <2>1, <2>2, SoundAlike DEF m
<1>5. ASSUME j.pc = "send", j.sent < j.n PROVE Sound([j EXCEPT !.sent = @ + 1])
    <2> DEFINE m == [j EXCEPT !.sent = @ + 1]
    <2>1. j.sent + 1 \in 0..MaxPush /\ j.sent + 1 <= j.n
        BY <1>5, OutboxConstants DEF Job
    <2>2. /\ m \in Job /\ m.pc = "send" /\ m.fate = j.fate /\ m.fired = j.fired
          /\ m.path = j.path /\ m.sent = j.sent + 1 /\ m.n = j.n /\ m.settled = j.settled
        BY <1>5, <2>1 DEF Job
    <2> HIDE DEF m
    <2>3. Staged(m)
        BY <1>1, <1>5, <2>1, <2>2
    <2>4. CASE j.path = "hook"
        <3>1. j.settled = <<>> /\ Len(<<>>) = 0
            BY <1>5, <2>4 DEF Sound, Staged, Sending
        <3>2. QED BY <2>2, <2>3, <3>1 DEF Sound, ToldTruly, m
    <2>5. CASE j.path # "hook"
        <3>1. j.path = "plain"
            BY <2>5, FireConstants DEF Job
        <3>2. Len(j.settled) = 1 => j.settled[1].status = "not-handled"
            BY <1>5, <3>1 DEF Sound, Staged, Sending
        <3>3. HookPushes(m) = 0 /\ HookPushes(j) = 0
            BY <2>2, <2>5 DEF HookPushes
        <3>4. ToldTruly(m)
            BY <2>2, <3>2, <3>3 DEF Sound, ToldTruly
        <3>5. QED BY <2>2, <2>3, <3>4 DEF Sound, m
    <2>6. QED BY <2>4, <2>5
<1>6. ASSUME j.pc = "send", j.sent = j.n
      PROVE  Sound([j EXCEPT !.pc = "mark", !.fate = "sent"])
    <2> DEFINE m == [j EXCEPT !.pc = "mark", !.fate = "sent"]
    <2>1. /\ m \in Job /\ m.pc = "mark" /\ m.fate = "sent" /\ m.fired = j.fired
          /\ m.path = j.path /\ m.sent = j.sent /\ m.n = j.n /\ m.settled = j.settled
        BY DEF Job, Fate
    <2> HIDE DEF m
    <2>2. Staged(m)
        BY <1>1, <1>2, <1>6, <2>1
    <2>3. QED BY <2>1, <2>2, SoundAlike DEF m
<1>7. QED BY <1>3, <1>4, <1>5, <1>6

LEMMA MarkSound ==
    ASSUME NEW j \in Job, Sound(j), j.pc = "mark"
    PROVE  Sound(Told(j)) /\ Sound(Told([j EXCEPT !.marked = FALSE]))
<1>1. ASSUME NEW m \in {Told(j), Told([j EXCEPT !.marked = FALSE])} PROVE Sound(m)
    <2>1. /\ m \in Job /\ m.fate = j.fate /\ m.fired = j.fired /\ m.path = j.path
          /\ m.sent = j.sent /\ m.n = j.n /\ m.settled = j.settled
          /\ m.pc = IF j.path = "hook" THEN "settle" ELSE "close"
        BY DEF Job, Told
    <2>2. /\ j.sent <= j.n /\ j.fate \in {"sent", "failed"} /\ (j.fate = "sent" => j.sent = j.n)
          /\ j.path = "hook" => j.fired /\ j.settled = <<>>
          /\ j.path = "plain" /\ j.fired => Len(j.settled) = 1
        BY DEF Sound, Staged, Sending
    <2>3. j.path = "plain" \/ j.path = "hook"
        BY FireConstants DEF Job
    <2>4. Staged(m)
        BY <2>1, <2>2, <2>3 DEF Staged, Unfired, Composing, Sending
    <2>5. QED BY <2>1, <2>4, SoundAlike
<1>2. QED BY <1>1

LEMMA SettleSound ==
    ASSUME NEW j \in Job, Sound(j), j.pc = "settle"
    PROVE  LET told == [j EXCEPT !.settled = Append(@, [status |-> j.fate, sent |-> j.sent])]
           IN  /\ j.fate = "not-handled" => Sound([told EXCEPT !.pc = "compose", !.fate = "none"])
               /\ j.fate # "not-handled" => Sound([told EXCEPT !.pc = "close"])
<1> DEFINE report == [status |-> j.fate, sent |-> j.sent]
           told == [j EXCEPT !.settled = Append(@, report)]
<1>1. j.settled = <<>>
    BY DEF Sound, Staged, Unfired
<1>2. j.fate \in Fate /\ j.sent \in 0..MaxPush /\ report \in [status : Fate, sent : 0..MaxPush]
    BY DEF Job
<1>3. /\ report.status = j.fate /\ report.sent = j.sent
      /\ \A s : s = <<report>> => Append(<<>>, report) = s /\ Len(s) = 1 /\ s[1] = report
    OBVIOUS
<1> HIDE DEF report
<1> DEFINE s == <<report>>
<1>4. s \in Seq([status : Fate, sent : 0..MaxPush])
    BY <1>2
<1>5. Len(s) = 1 /\ s[1] = report
    BY <1>3
<1>6. told = [j EXCEPT !.settled = s]
    BY <1>1, <1>3
<1> HIDE DEF s, told
<1>7. told \in Job
    BY <1>4, <1>6 DEF Job
<1>8. ASSUME j.fate = "not-handled" PROVE Sound([told EXCEPT !.pc = "compose", !.fate = "none"])
    <2> DEFINE m == [told EXCEPT !.pc = "compose", !.fate = "none"]
    <2>1. m \in Job
        BY <1>7 DEF Job, Fate
    <2>2. j.path = "plain" /\ j.sent = 0 /\ j.fired /\ j.sent <= j.n
        BY <1>8, FireConstants DEF Sound, Staged, Job
    <2>3. /\ m.pc = "compose" /\ m.path = "plain" /\ m.sent = 0 /\ m.n = j.n /\ m.fired
          /\ m.fate = "none" /\ m.settled = s
        BY <1>6, <2>2 DEF Job
    <2> HIDE DEF m
    <2>4. Staged(m)
        BY <1>3, <1>5, <1>8, <2>2, <2>3 DEF Staged, Unfired, Composing, Sending
    <2>5. Len(m.settled) = 1 /\ m.settled[1].status = "not-handled" /\ m.settled[1].sent = 0
        BY <1>3, <1>5, <1>8, <2>2, <2>3
    <2>6. ToldTruly(m)
        BY <2>3, <2>5 DEF ToldTruly, HookPushes
    <2>7. QED BY <2>1, <2>4, <2>6 DEF Sound, m
<1>9. ASSUME j.fate # "not-handled" PROVE Sound([told EXCEPT !.pc = "close"])
    <2> DEFINE m == [told EXCEPT !.pc = "close"]
    <2>1. m \in Job
        BY <1>7 DEF Job
    <2>2. /\ j.fired /\ j.sent <= j.n
          /\ j.fate = "sent" => j.sent = j.n
          /\ IF j.path = "hook" THEN j.fate \in {"sent", "failed"}
             ELSE j.sent = 0 /\ j.fate # "sent"
        BY DEF Sound, Staged
    <2>3. /\ m.pc = "close" /\ m.path = j.path /\ m.sent = j.sent /\ m.n = j.n
          /\ m.settled = s
        BY <1>6 DEF Job
    <2> HIDE DEF m
    <2>4. Staged(m)
        BY <1>5, <2>2, <2>3 DEF Sound, Staged, Unfired, Composing, Sending
    <2>5. Len(m.settled) = 1 /\ m.settled[1].status = j.fate /\ m.settled[1].sent = j.sent
        BY <1>3, <1>5, <2>3
    <2>6. ToldTruly(m)
        BY <1>9, <2>2, <2>3, <2>5 DEF ToldTruly, HookPushes
    <2>7. QED BY <2>1, <2>4, <2>6 DEF Sound, m
<1>10. QED BY <1>8, <1>9 DEF told, report

-----------------------------------------------------------------------------
(* The steps of an attempt under way                                       *)

Going == {"begin", "round", "compose", "append", "send", "mark", "settle", "close"}

Others(a) ==
    /\ \A b \in Attempt \ {a} : job'[b] = job[b]
    /\ UNCHANGED <<row, request, overlapped>>

(* A step that neither records nor sends nor marks.                        *)
Talks(a) ==
    \/ NoFire(a) \/ BeforeFire(a) \/ Round(a) \/ NoMoreRounds(a) \/ Compose(a)
    \/ NoSubscription(a) \/ PushFails(a) \/ AllSent(a) \/ NotifyFireSettled(a)

(* What such a step changes in the record of the attempt.                  *)
Moved(j, k) ==
    /\ Sound(k) /\ j.pc \in Going /\ k.pc \in Going \ {"send"}
    /\ k.sent = j.sent /\ (k.path = j.path \/ j.sent = 0)
    /\ k.recorded = j.recorded /\ k.marked = j.marked
    /\ k.pc \in {"settle", "close"} => j.pc = "settle" \/ j.sent = 0

LEMMA TalksEffect ==
    ASSUME job \in [Attempt -> Job], NEW a \in Attempt, Sound(job[a]), Talks(a)
    PROVE  Moved(job[a], job'[a]) /\ Others(a) /\ Quiet
<1> DEFINE j == job[a]
<1>0. j \in Job /\ Sound(j)
    BY DEF Sound
<1> USE DEF Others
<1>1. ASSUME NEW upd, NEW from, Step(a, from, upd),
             from \in Going \ {"mark"} /\ Sound(upd) /\ upd.pc \in Going \ {"send"},
             upd.sent = j.sent, upd.path = j.path \/ j.sent = 0,
             upd.recorded = j.recorded, upd.marked = j.marked,
             upd.pc \in {"settle", "close"} => from = "settle" \/ j.sent = 0
      PROVE  Moved(j, job'[a]) /\ Others(a)
    BY <1>1, StepEffect DEF Moved
<1> HIDE DEF j, Others
<1>2. CASE NoFire(a)
    <2>1. Step(a, "begin", [j EXCEPT !.pc = "compose"])
        BY <1>2 DEF NoFire, j
    <2>2. j.pc = "begin"
        BY <2>1, StepEffect DEF j
    <2>3. Sound([j EXCEPT !.pc = "compose"])
        BY <1>0, <2>2, NoFireSound
    <2>4. QED BY <1>0, <1>1, <1>2, <2>1, <2>3 DEF Job, Going, NoFire, j
<1>3. CASE BeforeFire(a)
    <2> DEFINE k == [j EXCEPT !.fired = TRUE]
    <2>1. j.pc = "begin" /\ j.sent = 0 /\ j.path = "plain" /\ Quiet
        BY <1>0, <1>3, StepEffect DEF BeforeFire, Step, Sound, Staged, Composing, j
    <2>2. CASE Step(a, "begin", [k EXCEPT !.pc = "round"])
        <3>1. Sound([k EXCEPT !.pc = "round"])
            BY <1>0, <2>1, BeforeFireSound
        <3>2. QED BY <1>0, <1>1, <2>1, <2>2, <3>1 DEF Job, Going, j
    <2>3. ASSUME NEW fate \in {"not-handled", "skipped", "failed"},
                 Step(a, "begin", ToSettle(k, fate))
          PROVE  Moved(j, job'[a]) /\ Others(a)
        <3>1. Sound(ToSettle(k, fate))
            BY <1>0, <2>1, BeforeFireSound
        <3>2. QED BY <1>0, <1>1, <2>1, <2>3, <3>1 DEF Job, Going, ToSettle, j
    <2>4. QED BY <1>3, <2>1, <2>2, <2>3 DEF BeforeFire, j
<1>4. CASE Round(a)
    <2> DEFINE k == [j EXCEPT !.rounds = @ + 1]
    <2>1. /\ j.pc = "round" /\ j.sent = 0 /\ j.path = "plain" /\ Quiet
          /\ j.rounds < MaxRounds
        BY <1>0, <1>4, StepEffect DEF Round, Step, Sound, Staged, Composing, j
    <2>2. CASE Step(a, "round", k)
        <3>1. Sound(k)
            BY <1>0, <2>1, RoundSound
        <3>2. QED BY <1>0, <1>1, <2>1, <2>2, <3>1 DEF Job, Going, j
    <2>3. ASSUME NEW fate \in {"skipped", "failed"}, Step(a, "round", ToSettle(k, fate))
          PROVE  Moved(j, job'[a]) /\ Others(a)
        <3>1. Sound(ToSettle(k, fate))
            BY <1>0, <2>1, RoundSound
        <3>2. QED BY <1>0, <1>1, <2>1, <2>3, <3>1 DEF Job, Going, ToSettle, j
    <2>4. ASSUME NEW n \in 0..MaxPush,
                 Step(a, "round", [k EXCEPT !.pc = "append", !.path = "hook", !.n = n])
          PROVE  Moved(j, job'[a]) /\ Others(a)
        <3>1. Sound([k EXCEPT !.pc = "append", !.path = "hook", !.n = n])
            BY <1>0, <2>1, RoundSound
        <3>2. QED BY <1>0, <1>1, <2>1, <2>4, <3>1 DEF Job, Going, j
    <2>5. QED BY <1>4, <2>1, <2>2, <2>3, <2>4 DEF Round, j
<1>5. CASE NoMoreRounds(a)
    <2>1. Step(a, "round", ToSettle(j, "failed")) /\ Quiet
        BY <1>5 DEF NoMoreRounds, j
    <2>2. j.pc = "round" /\ j.sent = 0
        BY <1>0, <2>1 DEF Step, Sound, Staged, Composing, j
    <2>3. Sound(ToSettle(j, "failed"))
        BY <1>0, <2>2, ToSettleSound
    <2>4. QED BY <1>0, <1>1, <2>1, <2>2, <2>3 DEF Job, Going, ToSettle, j
<1>6. CASE Compose(a)
    <2>1. j.pc = "compose" /\ j.sent = 0 /\ Quiet
        BY <1>0, <1>6 DEF Compose, Step, Sound, Staged, Composing, j
    <2>2. ASSUME NEW n \in 1..MaxPush,
                 Step(a, "compose", [j EXCEPT !.pc = "append", !.path = "plain", !.n = n])
          PROVE  Moved(j, job'[a]) /\ Others(a)
        <3>1. Sound([j EXCEPT !.pc = "append", !.path = "plain", !.n = n])
            BY <1>0, <2>1, ComposeSound
        <3>2. QED BY <1>0, <1>1, <2>1, <2>2, <3>1 DEF Job, Going, j
    <2>3. CASE Step(a, "compose", [j EXCEPT !.pc = "close", !.fate = "failed"])
        <3>1. Sound([j EXCEPT !.pc = "close", !.fate = "failed"])
            BY <1>0, <2>1, ComposeSound
        <3>2. QED BY <1>0, <1>1, <2>1, <2>3, <3>1 DEF Job, Going, j
    <2>4. QED BY <1>6, <2>1, <2>2, <2>3 DEF Compose, j
<1>7. ASSUME NEW from \in {"append", "send"}, Step(a, from, Failed(j))
      PROVE  Moved(j, job'[a]) /\ Others(a)
    <2>1. j.pc = from
        BY <1>7 DEF Step, j
    <2>2. Sound(Failed(j))
        BY <1>0, <1>7, <2>1, SendingSound
    <2>3. QED BY <1>0, <1>1, <1>7, <2>2 DEF Job, Going, Failed, j
<1>8. CASE AllSent(a)
    <2>1. j.pc = "send" /\ j.sent = j.n /\ Quiet
        BY <1>8 DEF AllSent, Step, j
    <2>2. Step(a, "send", [j EXCEPT !.pc = "mark", !.fate = "sent"])
        BY <1>8 DEF AllSent, j
    <2>3. Sound([j EXCEPT !.pc = "mark", !.fate = "sent"])
        BY <1>0, <2>1, SendingSound
    <2>4. QED BY <1>0, <1>1, <2>1, <2>2, <2>3 DEF Job, Going, j
<1>9. CASE NotifyFireSettled(a)
    <2> DEFINE told == [j EXCEPT !.settled = Append(@, [status |-> j.fate, sent |-> j.sent])]
    <2>1. /\ j.pc = "settle" /\ Quiet
          /\ Step(a, "settle", IF j.fate = "not-handled"
                               THEN [told EXCEPT !.pc = "compose", !.fate = "none"]
                               ELSE [told EXCEPT !.pc = "close"])
        BY <1>9 DEF NotifyFireSettled, Step, j
    <2>2. /\ j.fate = "not-handled" => Sound([told EXCEPT !.pc = "compose", !.fate = "none"])
          /\ j.fate # "not-handled" => Sound([told EXCEPT !.pc = "close"])
        BY <1>0, <2>1, SettleSound
    <2>3. CASE j.fate = "not-handled"
        BY <1>0, <1>1, <2>1, <2>2, <2>3 DEF Job, Going, j
    <2>4. CASE j.fate # "not-handled"
        BY <1>0, <1>1, <2>1, <2>2, <2>4 DEF Job, Going, j
    <2>5. QED BY <2>1, <2>3, <2>4 DEF j
<1>10. CASE NoSubscription(a) \/ PushFails(a)
    BY <1>7, <1>10 DEF NoSubscription, PushFails, j
<1>11. QED
    BY <1>2, <1>3, <1>4, <1>5, <1>6, <1>8, <1>9, <1>10 DEF Talks, j

(* What the other steps of a fire change in the record of the attempt.     *)
LEMMA AppendEffect ==
    ASSUME job \in [Attempt -> Job], NEW a \in Attempt, Sound(job[a]),
           AppendPushes(a) \/ AppendFails(a)
    PROVE  LET j == job[a] k == job'[a] IN
           /\ Sound(k) /\ Others(a) /\ pushed' = pushed
           /\ j.pc = "append" /\ k.pc = "send" /\ j.sent = 0
           /\ k.path = j.path /\ k.n = j.n /\ k.sent = j.sent /\ k.marked = j.marked
           /\ \/ /\ AppendOutboxMessages(a, j.path, j.n)
                 /\ k.recorded = j.recorded /\ faults' = faults
              \/ UNCHANGED outboxVars /\ ~k.recorded /\ Fault
<1> DEFINE j == job[a]
<1>0. j \in Job /\ Sound(j)
    BY DEF Sound
<1>1. j.pc = "append" /\ j.sent = 0 /\ pushed' = pushed
    BY <1>0 DEF AppendPushes, AppendFails, Step, Sound, Staged
<1>2. CASE AppendPushes(a)
    <2>1. Step(a, "append", [j EXCEPT !.pc = "send"])
        BY <1>2 DEF AppendPushes
    <2>2. job'[a] = [j EXCEPT !.pc = "send"] /\ Others(a)
        BY <2>1, StepEffect DEF Others
    <2>3. Sound(job'[a])
        BY <1>0, <1>1, <2>2, SendingSound
    <2>4. AppendOutboxMessages(a, j.path, j.n) /\ faults' = faults
        BY <1>2 DEF AppendPushes
    <2> HIDE DEF j
    <2>5. QED BY <1>0, <1>1, <2>2, <2>3, <2>4 DEF Job, j
<1>3. CASE AppendFails(a)
    <2>1. Step(a, "append", [j EXCEPT !.pc = "send", !.recorded = FALSE])
        BY <1>3 DEF AppendFails
    <2>2. job'[a] = [j EXCEPT !.pc = "send", !.recorded = FALSE] /\ Others(a)
        BY <2>1, StepEffect DEF Others
    <2>3. Sound(job'[a])
        BY <1>0, <1>1, <2>2, SendingSound
    <2>4. UNCHANGED outboxVars /\ Fault
        BY <1>3 DEF AppendFails
    <2> HIDE DEF j
    <2>5. QED BY <1>0, <1>1, <2>2, <2>3, <2>4 DEF Job, j
<1>4. QED BY <1>2, <1>3

LEMMA SendEffect ==
    ASSUME job \in [Attempt -> Job], NEW a \in Attempt, Sound(job[a]), SendPush(a)
    PROVE  LET j == job[a] k == job'[a] IN
           /\ Sound(k) /\ Others(a) /\ UNCHANGED <<faults, outboxVars>>
           /\ j.pc = "send" /\ k.pc = "send" /\ k.sent = j.sent + 1 /\ k.sent \in 1..j.n
           /\ k.path = j.path /\ k.n = j.n /\ k.recorded = j.recorded /\ k.marked = j.marked
           /\ pushed' = pushed \cup {<<a, <<j.path, k.sent>>>>}
<1> DEFINE j == job[a]
<1>0. j \in Job /\ Sound(j)
    BY DEF Sound
<1>1. /\ Step(a, "send", [j EXCEPT !.sent = @ + 1]) /\ j.pc = "send" /\ j.sent < j.n
      /\ UNCHANGED <<faults, outboxVars>> /\ pushed' = pushed \cup {<<a, <<j.path, j.sent + 1>>>>}
    BY DEF SendPush, Step
<1>2. job'[a] = [j EXCEPT !.sent = @ + 1] /\ Others(a)
    BY <1>1, StepEffect DEF Others
<1>3. Sound(job'[a])
    BY <1>0, <1>1, <1>2, SendingSound
<1> HIDE DEF j
<1>4. j.sent + 1 \in 1..j.n
    BY <1>0, <1>1, OutboxConstants DEF Job
<1>5. QED BY <1>0, <1>1, <1>2, <1>3, <1>4 DEF Job, j

LEMMA MarkEffect ==
    ASSUME job \in [Attempt -> Job], NEW a \in Attempt, Sound(job[a]),
           MarkPushesDelivered(a) \/ MarkFails(a)
    PROVE  LET j == job[a] k == job'[a] IN
           /\ Sound(k) /\ Others(a) /\ pushed' = pushed
           /\ j.pc = "mark" /\ k.pc \in {"settle", "close"}
           /\ k.path = j.path /\ k.n = j.n /\ k.sent = j.sent /\ k.recorded = j.recorded
           /\ \/ /\ MarkOutboxDelivered(Batch(j.path, j.sent))
                 /\ k.marked = j.marked /\ faults' = faults
              \/ UNCHANGED outboxVars /\ ~k.marked /\ Fault
<1> DEFINE j == job[a]
<1>0. j \in Job /\ Sound(j)
    BY DEF Sound
<1>1. j.pc = "mark" /\ pushed' = pushed
    BY DEF MarkPushesDelivered, MarkFails, Step
<1>2. CASE MarkPushesDelivered(a)
    <2>1. Step(a, "mark", Told(j))
        BY <1>2 DEF MarkPushesDelivered
    <2>2. job'[a] = Told(j) /\ Others(a)
        BY <2>1, StepEffect DEF Others
    <2>3. Sound(job'[a])
        BY <1>0, <1>1, <2>2, MarkSound
    <2>4. MarkOutboxDelivered(Batch(j.path, j.sent)) /\ faults' = faults
        BY <1>2 DEF MarkPushesDelivered, SentIds
    <2> HIDE DEF j
    <2>5. QED BY <1>0, <1>1, <2>2, <2>3, <2>4 DEF Job, Told, j
<1>3. CASE MarkFails(a)
    <2>1. Step(a, "mark", Told([j EXCEPT !.marked = FALSE]))
        BY <1>3 DEF MarkFails
    <2>2. job'[a] = Told([j EXCEPT !.marked = FALSE]) /\ Others(a)
        BY <2>1, StepEffect DEF Others
    <2>3. Sound(job'[a])
        BY <1>0, <1>1, <2>2, MarkSound
    <2>4. UNCHANGED outboxVars /\ Fault
        BY <1>3 DEF MarkFails
    <2> HIDE DEF j
    <2>5. QED BY <1>0, <1>1, <2>2, <2>3, <2>4 DEF Job, Told, j
<1>4. QED BY <1>2, <1>3

LEMMA FiresKinds ==
    ASSUME NEW a, Fires(a)
    PROVE  \/ Talks(a) \/ SendPush(a)
           \/ AppendPushes(a) \/ AppendFails(a)
           \/ MarkPushesDelivered(a) \/ MarkFails(a)
BY DEF Fires, Talks

LEMMA FiresEffect ==
    ASSUME TypeOK, NEW a \in Attempt, Sound(job[a]), Fires(a)
    PROVE  /\ Sound(job'[a]) /\ Others(a)
           /\ job[a].pc \in Going /\ job'[a].pc \in Going
           /\ faults' \in 0..MaxFaults /\ faults' >= faults
           /\ pushed' \subseteq Attempt \X Id
<1>0. /\ job \in [Attempt -> Job] /\ faults \in 0..MaxFaults
      /\ pushed \subseteq Attempt \X Id /\ MaxFaults \in Nat
    BY FireConstants DEF TypeOK
<1>1. Fault => faults' \in 0..MaxFaults /\ faults' >= faults
    BY <1>0 DEF Fault
<1>2. CASE Talks(a)
    BY <1>0, <1>2, TalksEffect DEF Quiet, Moved
<1>3. CASE SendPush(a)
    <2>1. /\ job[a].path \in Path /\ job'[a].sent \in 1..job[a].n /\ job[a].n \in 0..MaxPush
          /\ pushed' = pushed \cup {<<a, <<job[a].path, job'[a].sent>>>>}
        BY <1>0, <1>3, SendEffect DEF Job
    <2>2. job'[a].sent \in 1..MaxPush
        BY <2>1, OutboxConstants
    <2>3. pushed' \subseteq Attempt \X Id
        BY <1>0, <2>1, <2>2 DEF Id
    <2>4. QED BY <1>0, <1>3, <2>3, SendEffect DEF Going
<1>4. CASE AppendPushes(a) \/ AppendFails(a)
    BY <1>0, <1>1, <1>4, AppendEffect DEF Going
<1>5. CASE MarkPushesDelivered(a) \/ MarkFails(a)
    BY <1>0, <1>1, <1>5, MarkEffect DEF Going
<1>6. QED BY <1>2, <1>3, <1>4, <1>5, FiresKinds

-----------------------------------------------------------------------------
(* The inductive invariant of the deliveries                               *)

Started(a) == job[a].pc # "idle"

(* Attempts start in their order; without an overlap each one ends before  *)
(* the next.                                                               *)
InTurn == \A a, b \in Attempt : a < b /\ Started(b) => Started(a)

Alone == ~overlapped => \A a, b \in Attempt : a < b /\ Started(b) => ~Alive(a)

(* Only the last attempt can have delivered the occurrence, as long as     *)
(* nothing overlaps and nothing fails.                                     *)
Undelivered ==
    ~overlapped /\ faults = 0 =>
        \A a, b \in Attempt : a < b /\ Started(b) => job[a].pc = "done" /\ ~Finished(a)

RowTold ==
    /\ row \in {"gone", "sent"} => \E a \in Attempt : Finished(a)
    /\ faults = 0 => \A a \in Attempt : job[a].pc # "dead" /\ (Finished(a) => row = "gone")

Lives == InTurn /\ Alone /\ Undelivered /\ RowTold

(* What an attempt has sent are the first pushes of its batch.             *)
Counted(a) ==
    \A id \in Id : <<a, id>> \in pushed <=> id \in Batch(job[a].path, job[a].sent)

Authors == \A id \in Id : outbox[id] # NULL => Started(outbox[id].by)

(* The row of a push that is out, or about to be sent.                     *)
OnRecord(a) ==
    job[a].recorded =>
        \A id \in Id :
            \/ <<a, id>> \in pushed
            \/ job[a].pc = "send" /\ id \in Batch(job[a].path, job[a].n)
            => /\ outbox[id] # NULL
               /\ outbox[id].by >= a \/ outbox[id].acked \/ overlapped

Sender(c, id) == <<c, id>> \in pushed

MarkEarned(id) ==
    outbox[id].delivered =>
        \/ overlapped
        \/ \E c \in Attempt :
              Sender(c, id) /\ (c = outbox[id].by \/ outbox[id].acked \/ ~job[c].recorded)

MarkMade(id) ==
    LET by == outbox[id].by IN
    /\ Sender(by, id) /\ job[by].pc \in {"settle", "close", "done"} /\ job[by].marked
    => outbox[id].delivered

Marks == \A id \in Id : outbox[id] # NULL => MarkEarned(id) /\ MarkMade(id)

Books == (\A a \in Attempt : Counted(a) /\ OnRecord(a)) /\ Authors /\ Marks

Sounds == \A a \in Attempt : Sound(job[a])

Delivering == TypeOK /\ Numbered /\ Sounds /\ Lives /\ Books

-----------------------------------------------------------------------------
(* Who lives and what becomes of the row                                   *)

LEMMA SoundStart ==
    ASSUME NEW j \in Job, Sound(j), j.pc = "idle", NEW who \in {"cron", "request"}
    PROVE  Sound([[j EXCEPT !.who = who] EXCEPT !.pc = "begin"])
<1> DEFINE m == [[j EXCEPT !.who = who] EXCEPT !.pc = "begin"]
<1>1. m \in Job
    BY DEF Job
<1>2. /\ m.pc = "begin" /\ m.fate = j.fate /\ m.fired = j.fired /\ m.path = j.path
      /\ m.sent = j.sent /\ m.n = j.n /\ m.settled = j.settled
    BY DEF Job
<1> HIDE DEF m
<1>3. Staged(m)
    BY <1>2 DEF Sound, Staged, Unfired, Composing, Sending
<1>4. QED BY <1>1, <1>2, <1>3, SoundAlike DEF m

LEMMA SoundEnd ==
    ASSUME NEW j \in Job, Sound(j), NEW end \in {"done", "dead"}, end = "done" => j.pc = "close"
    PROVE  Sound([j EXCEPT !.pc = end])
<1> DEFINE m == [j EXCEPT !.pc = end]
<1>1. m \in Job
    BY DEF Job
<1>2. /\ m.pc = end /\ m.fate = j.fate /\ m.fired = j.fired /\ m.path = j.path
      /\ m.sent = j.sent /\ m.n = j.n /\ m.settled = j.settled
    BY DEF Job
<1> HIDE DEF m
<1>3. /\ j.sent <= j.n
      /\ j.pc \in {"close", "done"} /\ j.fired => Len(j.settled) = 1
    BY DEF Sound, Staged
<1>4. Staged(m)
    BY <1>2, <1>3 DEF Staged, Unfired, Composing, Sending
<1>5. QED BY <1>1, <1>2, <1>4, SoundAlike DEF m

LEMMA StartEffect ==
    ASSUME TypeOK, Sounds, NEW a \in Attempt, StartCron(a) \/ StartRequest(a)
    PROVE  /\ job[a].pc = "idle" /\ job'[a].pc = "begin" /\ Sound(job'[a])
           /\ job'[a].sent = job[a].sent /\ job'[a].path = job[a].path
           /\ job'[a].recorded = job[a].recorded /\ job'[a].marked = job[a].marked
           /\ \A b \in Attempt \ {a} : job'[b] = job[b]
           /\ row = "pending" /\ UNCHANGED <<row, pushed, faults, outboxVars>>
           /\ overlapped' = (overlapped \/ \E b \in Attempt : Alive(b))
           /\ \A b \in Attempt : b < a => job[b].pc # "idle"
           /\ request' \in Request /\ job' \in [Attempt -> Job]
<1>1. PICK who \in {"cron", "request"} : Start(a, who)
    BY DEF StartCron, StartRequest
<1>2. /\ job \in [Attempt -> Job] /\ request \in Request
      /\ job[a] \in Job /\ Sound(job[a])
    BY DEF TypeOK, Sounds
<1>3. job[a].pc = "idle" /\ \A b \in Attempt : b < a => job[b].pc # "idle"
    BY <1>1 DEF Start, NextAttempt
<1>4. /\ job' = [job EXCEPT ![a] = [[@ EXCEPT !.who = who] EXCEPT !.pc = "begin"]]
      /\ job' = [job EXCEPT ![a] = job'[a]]
      /\ job'[a] = [[job[a] EXCEPT !.who = who] EXCEPT !.pc = "begin"]
    BY <1>1, <1>2 DEF Start
<1>5. /\ Sound(job'[a]) /\ job'[a].pc = "begin" /\ job'[a].sent = job[a].sent
      /\ job'[a].path = job[a].path
      /\ job'[a].recorded = job[a].recorded /\ job'[a].marked = job[a].marked
    <2> DEFINE j == job[a]
    <2>1. j \in Job /\ Sound(j) /\ j.pc = "idle"
        BY <1>2, <1>3
    <2>2. job'[a] = [[j EXCEPT !.who = who] EXCEPT !.pc = "begin"]
        BY <1>4
    <2> HIDE DEF j
    <2>3. Sound(job'[a])
        BY <2>1, <2>2, SoundStart
    <2>4. /\ job'[a].pc = "begin" /\ job'[a].sent = j.sent /\ job'[a].path = j.path
          /\ job'[a].recorded = j.recorded /\ job'[a].marked = j.marked
        BY <2>1, <2>2 DEF Job
    <2>5. QED BY <2>3, <2>4 DEF j
<1>6. /\ \A b \in Attempt \ {a} : job'[b] = job[b]
      /\ job' \in [Attempt -> Job]
    BY <1>2, <1>4, <1>5 DEF Sound
<1>7. request' \in Request
    BY <1>2 DEF StartCron, StartRequest, Request
<1>8. row = "pending"
    BY DEF StartCron, StartRequest, RowThere
<1>9. QED BY <1>1, <1>3, <1>5, <1>6, <1>7, <1>8 DEF Start

LEMMA ClosesEffect ==
    ASSUME TypeOK, Sounds, NEW a \in Attempt, Closes(a)
    PROVE  /\ job[a].pc = "close" /\ job'[a] = [job[a] EXCEPT !.pc = "done"]
           /\ Sound(job'[a])
           /\ \A b \in Attempt \ {a} : job'[b] = job[b]
           /\ UNCHANGED <<pushed, overlapped, outboxVars>>
           /\ \/ Succeeded(a) /\ row' = "gone" /\ faults' = faults
              \/ Succeeded(a) /\ row' = Become("sent") /\ Fault
              \/ ~Succeeded(a) /\ row' = Become("failed") /\ faults' = faults
              \/ row' = row /\ Fault
              \/ ~Succeeded(a) /\ row' = row /\ faults' = faults
           /\ faults' \in 0..MaxFaults
           /\ request' \in Request /\ job' \in [Attempt -> Job]
<1>0. job \in [Attempt -> Job] /\ request \in Request /\ Sound(job[a])
    BY DEF TypeOK, Sounds
<1>1. Closed(a)
    BY DEF Closes, CloseDelivered, CloseForRetry, CloseFailed
<1>2. /\ job[a].pc = "close" /\ job'[a] = [job[a] EXCEPT !.pc = "done"]
      /\ \A b \in Attempt \ {a} : job'[b] = job[b]
      /\ job' = [job EXCEPT ![a] = job'[a]]
      /\ UNCHANGED <<pushed, overlapped, outboxVars>>
    BY <1>0, <1>1 DEF Closed
<1>3. Sound(job'[a]) /\ job' \in [Attempt -> Job]
    BY <1>0, <1>2, SoundEnd DEF Sound
<1>4. request' \in Request
    <2>1. TriesAgain => request' \in Request
        <3>1. ASSUME TriesAgain PROVE request.tries + 1 \in 0..MaxRetries
            BY <1>0, <3>1, FireConstants DEF TriesAgain, Request
        <3>2. QED BY <3>1 DEF TriesAgain, Request
    <2>2. Answered \/ UNCHANGED request => request' \in Request
        BY <1>0 DEF Answered, Request
    <2>3. QED BY <2>1, <2>2 DEF Closes, CloseDelivered, CloseForRetry, CloseFailed, Answers
<1>5. faults' = faults \/ Fault
    BY DEF Closes, CloseDelivered, CloseForRetry, CloseFailed
<1>6. faults' \in 0..MaxFaults
    BY <1>5, FireConstants DEF TypeOK, Fault
<1>7. QED
    BY <1>2, <1>3, <1>4, <1>6 DEF Closes, CloseDelivered, CloseForRetry, CloseFailed

LEMMA CrashEffect ==
    ASSUME TypeOK, Sounds, NEW a \in Attempt, Crash(a)
    PROVE  /\ Alive(a) /\ job'[a] = [job[a] EXCEPT !.pc = "dead"] /\ Sound(job'[a])
           /\ \A b \in Attempt \ {a} : job'[b] = job[b]
           /\ UNCHANGED <<row, pushed, overlapped, outboxVars>>
           /\ Fault /\ faults' \in 0..MaxFaults
           /\ request' \in Request /\ job' \in [Attempt -> Job]
<1>0. job \in [Attempt -> Job] /\ request \in Request /\ Sound(job[a])
    BY DEF TypeOK, Sounds
<1>1. /\ job'[a] = [job[a] EXCEPT !.pc = "dead"] /\ job' = [job EXCEPT ![a] = job'[a]]
      /\ \A b \in Attempt \ {a} : job'[b] = job[b]
    BY <1>0 DEF Crash
<1>2. Sound(job'[a]) /\ job' \in [Attempt -> Job]
    BY <1>0, <1>1, SoundEnd DEF Sound
<1>3. request' \in Request
    BY <1>0 DEF Crash, Request
<1>4. Fault /\ faults' \in 0..MaxFaults
    BY FireConstants DEF TypeOK, Crash, Fault
<1>5. QED BY <1>1, <1>2, <1>3, <1>4 DEF Crash

LEMMA BeginLives ==
    ASSUME TypeOK, Sounds, Lives, NEW a \in Attempt, StartCron(a) \/ StartRequest(a)
    PROVE  Lives'
<1>1. /\ job[a].pc = "idle" /\ job'[a].pc = "begin"
      /\ \A b \in Attempt \ {a} : job'[b] = job[b]
      /\ row = "pending" /\ row' = row /\ faults' = faults
      /\ overlapped' = (overlapped \/ \E b \in Attempt : Alive(b))
      /\ \A b \in Attempt : b < a => job[b].pc # "idle"
    BY StartEffect
<1>2. InTurn'
    BY <1>1 DEF Lives, InTurn, Started
<1>3. Alone'
    <2> SUFFICES ASSUME ~overlapped', NEW b \in Attempt, NEW c \in Attempt, b < c, Started(c)'
                 PROVE  ~Alive(b)'
        BY DEF Alone
    <2>1. \A d \in Attempt : ~Alive(d)
        BY <1>1
    <2>2. b # a
        <3>1. ASSUME b = a PROVE FALSE
            <4>1. c # a /\ Started(c)
                BY <1>1, <3>1 DEF Started, Attempt
            <4>2. QED BY <1>1, <3>1, <4>1 DEF Lives, InTurn, Started
        <3>2. QED BY <3>1
    <2>3. QED BY <1>1, <2>1, <2>2 DEF Alive
<1>4. Undelivered'
    <2> SUFFICES ASSUME ~overlapped', faults' = 0, NEW b \in Attempt, NEW c \in Attempt,
                        b < c, Started(c)'
                 PROVE  job'[b].pc = "done" /\ ~Finished(b)'
        BY DEF Undelivered
    <2>1. Started(b)'
        BY <1>2 DEF InTurn
    <2>2. ~Alive(b)'
        BY <1>3 DEF Alone
    <2>3. b # a
        BY <1>1, <2>2 DEF Alive
    <2>4. job'[b] = job[b] /\ job[b].pc # "dead" /\ ~Finished(b)
        BY <1>1, <2>3 DEF Lives, RowTold
    <2>5. QED BY <2>1, <2>2, <2>4 DEF Started, Alive, Finished
<1>5. RowTold'
    BY <1>1 DEF Lives, RowTold, Finished
<1>6. QED BY <1>2, <1>3, <1>4, <1>5 DEF Lives

LEMMA FiresLives ==
    ASSUME TypeOK, Sounds, Lives, NEW a \in Attempt, Fires(a)
    PROVE  Lives'
<1>1. /\ \A b \in Attempt \ {a} : job'[b] = job[b]
      /\ row' = row /\ overlapped' = overlapped
      /\ job[a].pc \in Going /\ job'[a].pc \in Going
      /\ faults \in Nat /\ faults' \in Nat /\ faults' >= faults
    BY FiresEffect, FireConstants DEF Others, Sounds, TypeOK
<1>2. \A b \in Attempt : /\ Started(b)' <=> Started(b)
                         /\ Alive(b)' <=> Alive(b)
                         /\ Finished(b)' <=> Finished(b)
                         /\ job'[b].pc = "dead" <=> job[b].pc = "dead"
                         /\ job'[b].pc = "done" <=> job[b].pc = "done"
    BY <1>1 DEF Started, Alive, Finished, Going
<1>3. faults' = 0 => faults = 0
    BY <1>1
<1>4. InTurn' /\ Alone'
    BY <1>1, <1>2 DEF Lives, InTurn, Alone
<1>5. Undelivered' /\ RowTold'
    BY <1>1, <1>2, <1>3 DEF Lives, Undelivered, RowTold
<1>6. QED BY <1>4, <1>5 DEF Lives

LEMMA ClosesLives ==
    ASSUME TypeOK, Sounds, Lives, NEW a \in Attempt, Closes(a)
    PROVE  Lives'
<1>0. job[a] \in Job /\ faults \in Nat
    BY FireConstants DEF TypeOK
<1>1. /\ job[a].pc = "close" /\ job'[a] = [job[a] EXCEPT !.pc = "done"]
      /\ \A b \in Attempt \ {a} : job'[b] = job[b]
      /\ overlapped' = overlapped
      /\ \/ Succeeded(a) /\ row' = "gone" /\ faults' = faults
         \/ Succeeded(a) /\ row' = Become("sent") /\ Fault
         \/ ~Succeeded(a) /\ row' = Become("failed") /\ faults' = faults
         \/ row' = row /\ Fault
         \/ ~Succeeded(a) /\ row' = row /\ faults' = faults
    BY ClosesEffect
<1>2. job'[a].pc = "done" /\ job'[a].fate = job[a].fate
    BY <1>0, <1>1 DEF Job
<1>3. \A b \in Attempt \ {a} : /\ Started(b)' <=> Started(b)
                               /\ Alive(b)' <=> Alive(b)
                               /\ Finished(b)' <=> Finished(b)
    BY <1>1 DEF Started, Alive, Finished
<1>4. Started(a) /\ Started(a)' /\ Alive(a) /\ ~Alive(a)' /\ ~Finished(a)
    BY <1>1, <1>2 DEF Started, Alive, Finished
<1>5. Finished(a)' <=> Succeeded(a)
    BY <1>2 DEF Finished, Succeeded
<1>6. Fault => faults' # 0
    BY <1>0 DEF Fault
<1>7. \A b \in Attempt : Started(b)' => Started(b)
    BY <1>3, <1>4
<1>8. InTurn'
    <2>1. \A b \in Attempt : Started(b) => Started(b)'
        BY <1>3, <1>4
    <2>2. QED BY <1>7, <2>1 DEF Lives, InTurn
<1>9. Alone'
    <2>1. \A b \in Attempt : Alive(b)' => Alive(b)
        BY <1>3, <1>4
    <2>2. QED BY <1>1, <1>7, <2>1 DEF Lives, Alone
<1>10. Undelivered'
    <2> SUFFICES ASSUME ~overlapped', faults' = 0, NEW b \in Attempt, NEW c \in Attempt,
                        b < c, Started(c)'
                 PROVE  job'[b].pc = "done" /\ ~Finished(b)'
        BY DEF Undelivered
    <2>1. ~overlapped /\ faults = 0 /\ Started(c)
        BY <1>1, <1>6, <1>7
    <2>2. job[b].pc = "done" /\ ~Finished(b)
        BY <2>1 DEF Lives, Undelivered
    <2>3. b # a
        BY <1>1, <2>2
    <2>4. job'[b] = job[b]
        BY <1>1, <2>3
    <2>5. QED BY <2>2, <2>4 DEF Finished
<1>11. RowTold'
    <2>1. row' \in {"gone", "sent"} => \E b \in Attempt : Finished(b)'
        <3>1. ASSUME row' \in {"gone", "sent"}, ~Succeeded(a) PROVE row' = row
            BY <1>1, <3>1 DEF Become
        <3>2. row \in {"gone", "sent"} => \E b \in Attempt : Finished(b)
            BY DEF Lives, RowTold
        <3>3. \A b \in Attempt : Finished(b) => Finished(b)'
            BY <1>1 DEF Finished
        <3>4. QED BY <1>5, <3>1, <3>2, <3>3
    <2>2. ASSUME faults' = 0, NEW b \in Attempt
          PROVE  job'[b].pc # "dead" /\ (Finished(b)' => row' = "gone")
        <3>1. ~Fault /\ faults' = faults
            BY <1>1, <1>6, <2>2
        <3>2. job[b].pc # "dead" /\ (Finished(b) => row = "gone")
            BY <2>2, <3>1 DEF Lives, RowTold
        <3>3. row = "gone" => row' = "gone"
            BY <1>1, <3>1 DEF Become
        <3>4. CASE b = a
            <4>1. Succeeded(a) => row' = "gone"
                BY <1>1, <3>1
            <4>2. QED BY <1>2, <1>5, <3>4, <4>1
        <3>5. CASE b # a
            <4>1. job'[b] = job[b]
                BY <1>1, <3>5
            <4>2. QED BY <3>2, <3>3, <4>1 DEF Finished
        <3>6. QED BY <3>4, <3>5
    <2>3. QED BY <2>1, <2>2 DEF RowTold
<1>12. QED BY <1>8, <1>9, <1>10, <1>11 DEF Lives

LEMMA CrashLives ==
    ASSUME TypeOK, Sounds, Lives, NEW a \in Attempt, Crash(a)
    PROVE  Lives'
<1>0. job[a] \in Job /\ faults \in Nat
    BY FireConstants DEF TypeOK
<1>1. /\ Alive(a) /\ job'[a] = [job[a] EXCEPT !.pc = "dead"]
      /\ \A b \in Attempt \ {a} : job'[b] = job[b]
      /\ row' = row /\ overlapped' = overlapped /\ Fault
    BY CrashEffect
<1>2. job'[a].pc = "dead" /\ faults' # 0
    BY <1>0, <1>1 DEF Job, Fault
<1>3. \A b \in Attempt : /\ Started(b)' <=> Started(b)
                         /\ Alive(b)' => Alive(b)
                         /\ Finished(b)' <=> Finished(b)
    BY <1>1, <1>2 DEF Started, Alive, Finished
<1>4. QED BY <1>1, <1>2, <1>3 DEF Lives, InTurn, Alone, Undelivered, RowTold

-----------------------------------------------------------------------------
(* The books: what is recorded, sent and marked                            *)

LEMMA AppendRows ==
    ASSUME OutboxTypeOK, Numbered, NEW a \in Attempt, NEW path \in Path, NEW n \in 0..MaxPush,
           AppendOutboxMessages(a, path, n), NEW id \in Id
    PROVE  IF id \in Batch(path, n)
           THEN /\ outbox'[id] # NULL
                /\ \/ outbox'[id].by = a /\ ~outbox'[id].delivered
                   \/ outbox[id] # NULL /\ outbox[id].acked /\ outbox'[id] = outbox[id]
           ELSE outbox'[id] = outbox[id]
<1>1. CASE id \notin Batch(path, n)
    BY <1>1 DEF AppendOutboxMessages
<1>2. CASE id \in Batch(path, n)
    <2>1. n \in 1..MaxPush
        BY <1>2, OutboxConstants DEF Batch
    <2>2. outbox'[id] # NULL
        BY <1>2, <2>1, AppendKeeps DEF Recorded
    <2>3. CASE outbox[id] = NULL
        <3>1. outbox'[id] = [seq |-> seq + Cardinality({i \in Fresh(path, n) : i <= id[2]}),
                             by |-> a, delivered |-> FALSE, acked |-> FALSE]
            BY <1>2, <2>3 DEF AppendOutboxMessages
        <3>2. outbox'[id].by = a /\ ~outbox'[id].delivered
            BY <3>1
        <3>3. QED BY <1>2, <2>2, <3>2
    <2>4. CASE outbox[id] # NULL
        <3>1. outbox'[id] = Rewritten(outbox[id], a) /\ outbox[id] \in Row
            BY <1>2, <2>4 DEF AppendOutboxMessages, OutboxTypeOK
        <3>2. CASE outbox[id].acked
            BY <1>2, <2>2, <2>4, <3>1, <3>2 DEF Rewritten
        <3>3. CASE ~outbox[id].acked
            <4>1. outbox'[id].by = a /\ ~outbox'[id].delivered
                BY <3>1, <3>3 DEF Rewritten, Row
            <4>2. QED BY <1>2, <2>2, <4>1
        <3>4. QED BY <3>2, <3>3
    <2>5. QED BY <2>3, <2>4
<1>3. QED BY <1>1, <1>2

LEMMA MarkRows ==
    ASSUME OutboxTypeOK, Numbered, NEW ids, MarkOutboxDelivered(ids), NEW id \in Id
    PROVE  /\ outbox'[id] = NULL <=> outbox[id] = NULL
           /\ outbox[id] # NULL =>
                 /\ outbox'[id].by = outbox[id].by /\ outbox'[id].acked = outbox[id].acked
                 /\ id \in ids => outbox'[id].delivered
                 /\ id \notin ids => outbox'[id].delivered = outbox[id].delivered
<1>1. outbox[id] # NULL => outbox[id] \in Row
    BY DEF OutboxTypeOK
<1>2. CASE id \in ids /\ outbox[id] # NULL
    <2>1. outbox'[id] = [outbox[id] EXCEPT !.delivered = TRUE]
        BY <1>2 DEF MarkOutboxDelivered
    <2>2. outbox'[id] # NULL
        BY <1>2, MarkKeeps DEF Recorded, Kept
    <2>3. QED BY <1>1, <1>2, <2>1, <2>2 DEF Row
<1>3. CASE ~(id \in ids /\ outbox[id] # NULL)
    <2>1. outbox'[id] = outbox[id]
        BY <1>3 DEF MarkOutboxDelivered
    <2>2. QED BY <1>3, <2>1
<1>4. QED BY <1>2, <1>3

LEMMA AckRows ==
    ASSUME OutboxTypeOK, Numbered, NEW ids, AckOutboxMessages(ids), NEW id \in Id
    PROVE  /\ outbox'[id] = NULL <=> outbox[id] = NULL
           /\ outbox[id] # NULL =>
                 /\ outbox'[id].by = outbox[id].by
                 /\ outbox'[id].delivered = outbox[id].delivered
                 /\ outbox[id].acked => outbox'[id].acked
<1>1. outbox[id] # NULL => outbox[id] \in Row
    BY DEF OutboxTypeOK
<1>2. CASE id \in ids /\ outbox[id] # NULL
    <2>1. outbox'[id] = [outbox[id] EXCEPT !.acked = TRUE]
        BY <1>2 DEF AckOutboxMessages
    <2>2. outbox'[id] # NULL
        BY <1>2, MarkKeeps DEF Recorded, Kept
    <2>3. QED BY <1>1, <1>2, <2>1, <2>2 DEF Row
<1>3. CASE ~(id \in ids /\ outbox[id] # NULL)
    <2>1. outbox'[id] = outbox[id]
        BY <1>3 DEF AckOutboxMessages
    <2>2. QED BY <1>3, <2>1
<1>4. QED BY <1>2, <1>3

LEMMA NothingSent ==
    ASSUME NEW a \in Attempt, Counted(a), job[a].sent = 0
    PROVE  \A id \in Id : ~Sender(a, id)
<1>1. Batch(job[a].path, 0) = {}
    BY DEF Batch
<1>2. QED BY <1>1 DEF Counted, Sender

LEMMA CountedStays ==
    ASSUME NEW b \in Attempt, Counted(b), pushed' = pushed,
           job'[b].sent = job[b].sent, job'[b].path = job[b].path \/ job[b].sent = 0
    PROVE  Counted(b)'
<1>1. CASE job'[b].path = job[b].path
    BY <1>1 DEF Counted
<1>2. CASE job[b].sent = 0
    <2>1. Batch(job[b].path, 0) = {} /\ Batch(job'[b].path, 0) = {}
        BY DEF Batch
    <2>2. QED BY <1>2, <2>1 DEF Counted
<1>3. QED BY <1>1, <1>2

(* A step of attempt a that neither records, sends nor marks.              *)
LEMMA BooksAside ==
    ASSUME TypeOK, Books, UNCHANGED <<pushed, outbox>>, overlapped => overlapped',
           NEW a \in Attempt, \A b \in Attempt \ {a} : job'[b] = job[b],
           job'[a].recorded => job[a].recorded /\ job'[a].pc # "send",
           job'[a].sent = job[a].sent, job'[a].path = job[a].path \/ job[a].sent = 0,
           Started(a)',
           job'[a].marked /\ job'[a].pc \in {"settle", "close", "done"} =>
              \/ job[a].marked /\ job[a].pc \in {"settle", "close", "done"}
              \/ job[a].sent = 0
    PROVE  Books'
<1>1. ASSUME NEW b \in Attempt PROVE Counted(b)'
    BY CountedStays DEF Books
<1>2. ASSUME NEW b \in Attempt PROVE OnRecord(b)'
    <2>1. OnRecord(b)
        BY DEF Books
    <2>2. CASE b = a
        BY <2>1, <2>2 DEF OnRecord
    <2>3. CASE b # a
        <3>1. job'[b] = job[b]
            BY <2>3
        <3>2. QED BY <2>1, <3>1 DEF OnRecord
    <2>4. QED BY <2>2, <2>3
<1>3. Authors'
    <2>1. \A b \in Attempt : Started(b) => Started(b)'
        BY DEF Started
    <2>2. \A id \in Id : outbox[id] # NULL => outbox[id].by \in Attempt
        BY DEF TypeOK, OutboxTypeOK, Row
    <2>3. QED BY <2>1, <2>2 DEF Books, Authors
<1>4. ASSUME NEW id \in Id, outbox[id] # NULL PROVE MarkEarned(id)' /\ MarkMade(id)'
    <2>1. MarkEarned(id) /\ MarkMade(id) /\ outbox[id].by \in Attempt
        BY <1>4 DEF Books, Marks, TypeOK, OutboxTypeOK, Row
    <2>2. \A c \in Attempt : ~job[c].recorded => ~job'[c].recorded
        OBVIOUS
    <2>3. MarkEarned(id)'
        BY <2>1, <2>2 DEF MarkEarned, Sender
    <2>4. MarkMade(id)'
        <3>1. CASE outbox[id].by # a
            <4>1. job'[outbox[id].by] = job[outbox[id].by]
                BY <2>1, <3>1
            <4>2. QED BY <2>1, <4>1 DEF MarkMade, Sender
        <3>2. CASE outbox[id].by = a
            <4>1. job[a].sent = 0 => ~Sender(a, id)
                BY NothingSent DEF Books
            <4>2. QED BY <2>1, <3>2, <4>1 DEF MarkMade, Sender
        <3>3. QED BY <3>1, <3>2
    <2>5. QED BY <2>3, <2>4
<1>5. QED BY <1>1, <1>2, <1>3, <1>4 DEF Books, Marks

LEMMA AppendBooks ==
    ASSUME TypeOK, Numbered, Sounds, Lives, Books, NEW a \in Attempt, AppendPushes(a)
    PROVE  Books'
<1> DEFINE j == job[a]
           batch == Batch(j.path, j.n)
<1>0. /\ job \in [Attempt -> Job] /\ Sound(j) /\ j \in Job /\ OutboxTypeOK
      /\ \A b \in Attempt : Counted(b) /\ OnRecord(b)
    BY DEF TypeOK, Sounds, Books
<1>1. /\ j.pc = "append" /\ job'[a].pc = "send" /\ j.sent = 0 /\ pushed' = pushed
      /\ job'[a].path = j.path /\ job'[a].n = j.n /\ job'[a].sent = j.sent
      /\ \A b \in Attempt \ {a} : job'[b] = job[b]
      /\ overlapped' = overlapped
    BY <1>0, AppendEffect DEF Others
<1>2. job'[a].recorded = j.recorded
    BY <1>0 DEF AppendPushes, Step, Job
<1>3. ASSUME NEW id \in Id
      PROVE  IF id \in batch
             THEN /\ outbox'[id] # NULL
                  /\ \/ outbox'[id].by = a /\ ~outbox'[id].delivered
                     \/ outbox[id] # NULL /\ outbox[id].acked /\ outbox'[id] = outbox[id]
             ELSE outbox'[id] = outbox[id]
    <2>1. j.path \in Path /\ j.n \in 0..MaxPush
        BY <1>0 DEF Job
    <2>2. AppendOutboxMessages(a, j.path, j.n)
        BY DEF AppendPushes
    <2> HIDE DEF j
    <2>3. QED BY <1>0, <2>1, <2>2, AppendRows
<1>4. \A id \in Id : ~Sender(a, id)
    BY <1>0, <1>1, NothingSent
<1> HIDE DEF j, batch
<1>5. ASSUME NEW b \in Attempt PROVE Counted(b)'
    BY <1>0, <1>1, CountedStays DEF j
<1>6. ASSUME NEW b \in Attempt, b # a PROVE OnRecord(b)'
    <2>0. job'[b] = job[b] /\ pushed' = pushed /\ overlapped' = overlapped
        BY <1>1, <1>6
    <2> SUFFICES ASSUME job[b].recorded, NEW id \in Id,
                        \/ Sender(b, id)
                        \/ job[b].pc = "send" /\ id \in Batch(job[b].path, job[b].n)
                 PROVE  /\ outbox'[id] # NULL
                        /\ outbox'[id].by >= b \/ outbox'[id].acked \/ overlapped
        BY <2>0 DEF OnRecord, Sender
    <2>1. /\ outbox[id] # NULL
          /\ outbox[id].by >= b \/ outbox[id].acked \/ overlapped
        BY <1>0 DEF OnRecord, Sender
    <2>2. CASE outbox'[id] = outbox[id]
        BY <2>1, <2>2
    <2>3. CASE outbox'[id] # NULL /\ outbox'[id].by = a
        <3>1. Started(b)
            <4>1. CASE job[b].pc = "send"
                BY <4>1 DEF Started
            <4>2. CASE Sender(b, id)
                <5>1. job[b].sent # 0
                    BY <1>0, <4>2, NothingSent
                <5>2. QED BY <5>1 DEF Sounds, Sound, Staged, Composing, Started
            <4>3. QED BY <4>1, <4>2
        <3>2. Alive(a)
            BY <1>1 DEF Alive, j
        <3>3. ~overlapped => ~(a < b)
            BY <3>1, <3>2 DEF Lives, Alone
        <3>4. QED BY <2>3, <3>3 DEF Attempt
    <2>4. QED BY <1>3, <2>2, <2>3
<1>7. OnRecord(a)'
    <2> SUFFICES ASSUME NEW id \in Id, id \in batch
                 PROVE  /\ outbox'[id] # NULL
                        /\ outbox'[id].by >= a \/ outbox'[id].acked \/ overlapped
        BY <1>1, <1>4 DEF OnRecord, Sender, j, batch
    <2>1. a >= a
        BY DEF Attempt
    <2>2. QED BY <1>3, <2>1
<1>8. Authors'
    <2>1. \A b \in Attempt : Started(b) => Started(b)'
        BY <1>1 DEF Started
    <2>2. Started(a)'
        BY <1>1 DEF Started
    <2>3. ASSUME NEW id \in Id, outbox'[id] # NULL PROVE Started(outbox[id].by)'
        <3>1. CASE outbox'[id].by = a
            BY <2>2, <3>1
        <3>2. CASE outbox'[id] = outbox[id]
            <4>1. outbox[id].by \in Attempt /\ Started(outbox[id].by)
                BY <1>0, <2>3, <3>2 DEF OutboxTypeOK, Row, Books, Authors
            <4>2. QED BY <2>1, <3>2, <4>1
        <3>3. QED BY <1>3, <3>1, <3>2
    <2>4. QED BY <2>3 DEF Authors
<1>9. ASSUME NEW id \in Id, outbox'[id] # NULL PROVE MarkEarned(id)' /\ MarkMade(id)'
    <2>1. CASE outbox'[id].by = a /\ ~outbox'[id].delivered
        BY <1>1, <2>1 DEF MarkEarned, MarkMade
    <2>2. CASE outbox'[id] = outbox[id]
        <3>1. MarkEarned(id) /\ MarkMade(id) /\ outbox[id].by \in Attempt
            BY <1>0, <1>9, <2>2 DEF OutboxTypeOK, Row, Books, Marks
        <3>2. \A c \in Attempt : job'[c].recorded = job[c].recorded
            BY <1>1, <1>2 DEF j
        <3>3. MarkEarned(id)'
            BY <1>1, <2>2, <3>1, <3>2 DEF MarkEarned, Sender
        <3>4. CASE outbox[id].by = a
            <4>1. job'[outbox'[id].by].pc = "send"
                BY <1>1, <2>2, <3>4
            <4>2. QED BY <3>3, <4>1 DEF MarkMade
        <3>5. CASE outbox[id].by # a
            <4>1. job'[outbox[id].by] = job[outbox[id].by]
                BY <1>1, <3>1, <3>5
            <4>2. QED BY <1>1, <2>2, <3>1, <3>3, <4>1 DEF MarkMade, Sender
        <3>6. QED BY <3>3, <3>4, <3>5
    <2>3. QED BY <1>3, <2>1, <2>2
<1>10. QED BY <1>5, <1>6, <1>7, <1>8, <1>9 DEF Books, Marks

LEMMA SendBooks ==
    ASSUME TypeOK, Sounds, Books, NEW a \in Attempt, SendPush(a)
    PROVE  Books'
<1> DEFINE j == job[a]
           next == <<j.path, j.sent + 1>>
<1>0. /\ job \in [Attempt -> Job] /\ Sound(j) /\ j \in Job /\ OutboxTypeOK
      /\ \A b \in Attempt : Counted(b) /\ OnRecord(b)
    BY DEF TypeOK, Sounds, Books
<1>1. /\ j.pc = "send" /\ job'[a].pc = "send"
      /\ job'[a].sent = j.sent + 1 /\ job'[a].sent \in 1..j.n
      /\ job'[a].path = j.path /\ job'[a].n = j.n /\ job'[a].recorded = j.recorded
      /\ pushed' = pushed \cup {<<a, <<j.path, job'[a].sent>>>>}
      /\ outbox' = outbox /\ overlapped' = overlapped
      /\ \A b \in Attempt \ {a} : job'[b] = job[b]
    BY <1>0, SendEffect DEF Others, outboxVars
<1>2. /\ pushed' = pushed \cup {<<a, next>>} /\ next \in Batch(j.path, j.n)
      /\ j.sent \in Nat
    BY <1>0, <1>1, OutboxConstants DEF Batch, Job
<1>3. \A id : Sender(a, id)' <=> Sender(a, id) \/ id = next
    BY <1>2 DEF Sender
<1>4. \A b \in Attempt \ {a}, id \in Id : Sender(b, id)' <=> Sender(b, id)
    BY <1>2 DEF Sender
<1>5. Counted(a)'
    <2>1. \A i \in Nat : i \in 1..(j.sent + 1) <=> i \in 1..j.sent \/ i = j.sent + 1
        BY <1>2
    <2>2. \A id \in Id : id = <<id[1], id[2]>> /\ id[2] \in Nat
        BY OutboxConstants DEF Id
    <2>3. \A id \in Id : id \in Batch(j.path, j.sent + 1) <=> id \in Batch(j.path, j.sent) \/ id = next
        BY <2>1, <2>2 DEF Batch
    <2>4. \A id \in Id : Sender(a, id) <=> id \in Batch(j.path, j.sent)
        BY <1>0 DEF Counted, Sender
    <2> HIDE DEF next, j
    <2>5. QED BY <1>1, <1>3, <2>3, <2>4 DEF Counted, Sender
<1> HIDE DEF j, next
<1>6. ASSUME NEW b \in Attempt, b # a PROVE Counted(b)' /\ OnRecord(b)'
    <2>1. job'[b] = job[b] /\ \A id \in Id : Sender(b, id)' <=> Sender(b, id)
        BY <1>1, <1>4, <1>6
    <2>2. Counted(b)'
        BY <1>0, <2>1 DEF Counted, Sender
    <2>3. OnRecord(b)'
        BY <1>0, <1>1, <2>1 DEF OnRecord, Sender
    <2>4. QED BY <2>2, <2>3
<1>7. OnRecord(a)'
    BY <1>0, <1>1, <1>2, <1>3 DEF OnRecord, Sender, j
<1>8. Authors'
    <2>1. \A b \in Attempt : Started(b) => Started(b)'
        BY <1>1 DEF Started
    <2>2. \A id \in Id : outbox[id] # NULL => outbox[id].by \in Attempt
        BY <1>0 DEF OutboxTypeOK, Row
    <2>3. QED BY <1>1, <2>1, <2>2 DEF Books, Authors
<1>9. ASSUME NEW id \in Id, outbox[id] # NULL PROVE MarkEarned(id)' /\ MarkMade(id)'
    <2>1. MarkEarned(id) /\ MarkMade(id) /\ outbox[id].by \in Attempt
        BY <1>0, <1>9 DEF OutboxTypeOK, Row, Books, Marks
    <2>2. \A c \in Attempt : job'[c].recorded = job[c].recorded /\ (Sender(c, id) => Sender(c, id)')
        BY <1>1, <1>3, <1>4 DEF j
    <2>3. MarkEarned(id)'
        BY <1>1, <2>1, <2>2 DEF MarkEarned
    <2>4. CASE outbox[id].by = a
        BY <1>1, <2>3, <2>4 DEF MarkMade
    <2>5. CASE outbox[id].by # a
        <3>1. job'[outbox[id].by] = job[outbox[id].by]
            BY <1>1, <2>1, <2>5
        <3>2. QED BY <1>1, <1>4, <2>1, <2>3, <2>5, <3>1 DEF MarkMade
    <2>6. QED BY <2>3, <2>4, <2>5
<1>10. QED BY <1>1, <1>5, <1>6, <1>7, <1>8, <1>9 DEF Books, Marks

LEMMA MarkBooks ==
    ASSUME TypeOK, Numbered, Sounds, Lives, Books, NEW a \in Attempt, MarkPushesDelivered(a)
    PROVE  Books'
<1> DEFINE j == job[a]
           ids == Batch(j.path, j.sent)
<1>0. /\ job \in [Attempt -> Job] /\ Sound(j) /\ j \in Job /\ OutboxTypeOK
      /\ \A b \in Attempt : Counted(b) /\ OnRecord(b)
    BY DEF TypeOK, Sounds, Books
<1>1. /\ j.pc = "mark" /\ job'[a].pc \in {"settle", "close"}
      /\ job'[a].sent = j.sent /\ job'[a].path = j.path /\ job'[a].recorded = j.recorded
      /\ pushed' = pushed /\ overlapped' = overlapped
      /\ \A b \in Attempt \ {a} : job'[b] = job[b]
    BY <1>0, MarkEffect DEF Others
<1>2. ASSUME NEW id \in Id
      PROVE  /\ outbox'[id] = NULL <=> outbox[id] = NULL
             /\ outbox[id] # NULL =>
                   /\ outbox'[id].by = outbox[id].by /\ outbox'[id].acked = outbox[id].acked
                   /\ id \in ids => outbox'[id].delivered
                   /\ id \notin ids => outbox'[id].delivered = outbox[id].delivered
    <2>1. MarkOutboxDelivered(ids)
        BY DEF MarkPushesDelivered, SentIds
    <2> HIDE DEF ids
    <2>2. QED BY <1>0, <2>1, MarkRows
<1>3. \A id \in Id : Sender(a, id) <=> id \in ids
    BY <1>0 DEF Counted, Sender
<1> HIDE DEF j, ids
<1>4. ASSUME NEW b \in Attempt PROVE Counted(b)'
    BY <1>0, <1>1, CountedStays DEF j
<1>5. ASSUME NEW b \in Attempt PROVE OnRecord(b)'
    <2>1. job'[b].recorded = job[b].recorded
        BY <1>1 DEF j
    <2>2. job'[b].pc = "send" => job'[b] = job[b]
        BY <1>1
    <2> SUFFICES ASSUME job[b].recorded, NEW id \in Id,
                        \/ Sender(b, id)
                        \/ job[b].pc = "send" /\ id \in Batch(job[b].path, job[b].n)
                 PROVE  /\ outbox'[id] # NULL
                        /\ outbox'[id].by >= b \/ outbox'[id].acked \/ overlapped
        <3>1. CASE job'[b] = job[b]
            BY <1>1, <3>1 DEF OnRecord, Sender
        <3>2. CASE job'[b].pc # "send"
            BY <1>1, <2>1, <3>2 DEF OnRecord, Sender
        <3>3. QED BY <2>2, <3>1, <3>2
    <2>3. /\ outbox[id] # NULL
          /\ outbox[id].by >= b \/ outbox[id].acked \/ overlapped
        BY <1>0 DEF OnRecord, Sender
    <2>4. QED BY <1>2, <2>3
<1>6. Authors'
    <2>1. \A b \in Attempt : Started(b) => Started(b)'
        BY <1>1 DEF Started
    <2>2. ASSUME NEW id \in Id, outbox'[id] # NULL PROVE Started(outbox[id].by)'
        <3>1. outbox[id] # NULL /\ outbox'[id].by = outbox[id].by
            BY <1>2, <2>2
        <3>2. outbox[id].by \in Attempt /\ Started(outbox[id].by)
            BY <1>0, <3>1 DEF OutboxTypeOK, Row, Books, Authors
        <3>3. QED BY <2>1, <3>1, <3>2
    <2>3. QED BY <2>2 DEF Authors
<1>7. ASSUME NEW id \in Id, outbox'[id] # NULL PROVE MarkEarned(id)' /\ MarkMade(id)'
    <2> DEFINE by == outbox[id].by
    <2>1. /\ outbox[id] # NULL /\ outbox'[id].by = by /\ outbox'[id].acked = outbox[id].acked
          /\ id \in ids => outbox'[id].delivered
          /\ id \notin ids => outbox'[id].delivered = outbox[id].delivered
        BY <1>2, <1>7
    <2>2. MarkEarned(id) /\ MarkMade(id) /\ by \in Attempt /\ Started(by)
        BY <1>0, <2>1 DEF OutboxTypeOK, Row, Books, Marks, Authors
    <2>3. \A c \in Attempt : job'[c].recorded = job[c].recorded /\ (Sender(c, id)' <=> Sender(c, id))
        BY <1>1 DEF j, Sender
    <2>4. MarkEarned(id)'
        <3>1. CASE id \notin ids
            BY <1>1, <2>1, <2>2, <2>3, <3>1 DEF MarkEarned
        <3>2. CASE id \in ids
            <4>1. Sender(a, id)
                BY <1>3, <3>2
            <4>2. ASSUME job[a].recorded, ~overlapped, ~outbox[id].acked PROVE a = by
                <5>1. by >= a
                    BY <1>0, <4>1, <4>2 DEF OnRecord, Sender
                <5>2. Alive(a)
                    BY <1>1 DEF Alive, j
                <5>3. ~(a < by)
                    BY <2>2, <4>2, <5>2 DEF Lives, Alone
                <5>4. QED BY <2>2, <5>1, <5>3 DEF Attempt
            <4>3. QED BY <1>1, <2>1, <2>3, <4>1, <4>2 DEF MarkEarned
        <3>3. QED BY <3>1, <3>2
    <2>5. MarkMade(id)'
        <3>1. CASE by = a
            BY <1>3, <2>1, <2>3, <3>1 DEF MarkMade
        <3>2. CASE by # a
            <4>1. job'[by] = job[by]
                BY <1>1, <2>2, <3>2
            <4>2. <<by, id>> \in pushed' <=> <<by, id>> \in pushed
                BY <1>1
            <4>3. QED BY <2>1, <2>2, <4>1, <4>2 DEF MarkMade, Sender
        <3>3. QED BY <3>1, <3>2
    <2>6. QED BY <2>4, <2>5
<1>8. QED BY <1>4, <1>5, <1>6, <1>7 DEF Books, Marks

LEMMA ClientBooks ==
    ASSUME TypeOK, Numbered, Books, Client
    PROVE  Books'
<1>0. /\ UNCHANGED <<job, pushed, overlapped>> /\ OutboxTypeOK
    BY DEF TypeOK, Client
<1>1. PICK one \in Id : AckOutboxMessages({one})
    BY DEF Client
<1>2. ASSUME NEW id \in Id
      PROVE  /\ outbox'[id] = NULL <=> outbox[id] = NULL
             /\ outbox[id] # NULL =>
                   /\ outbox'[id].by = outbox[id].by
                   /\ outbox'[id].delivered = outbox[id].delivered
                   /\ outbox[id].acked => outbox'[id].acked
    BY <1>0, <1>1, AckRows
<1>3. \A b \in Attempt : Counted(b)'
    BY <1>0 DEF Books, Counted
<1>4. \A b \in Attempt : OnRecord(b)'
    BY <1>0, <1>2 DEF Books, OnRecord
<1>5. Authors'
    BY <1>0, <1>2 DEF Books, Authors, Started
<1>6. ASSUME NEW id \in Id, outbox'[id] # NULL PROVE MarkEarned(id)' /\ MarkMade(id)'
    <2>1. MarkEarned(id) /\ MarkMade(id)
        BY <1>2, <1>6 DEF Books, Marks
    <2>2. MarkEarned(id)'
        BY <1>0, <1>2, <1>6, <2>1 DEF MarkEarned, Sender
    <2>3. MarkMade(id)'
        BY <1>0, <1>2, <1>6, <2>1 DEF MarkMade, Sender
    <2>4. QED BY <2>2, <2>3
<1>7. QED BY <1>3, <1>4, <1>5, <1>6 DEF Books, Marks

-----------------------------------------------------------------------------
(* The invariant holds                                                     *)

LEMMA TableSound ==
    ASSUME OutboxTypeOK, Numbered, RecordOrMark \/ Confirm \/ UNCHANGED outboxVars
    PROVE  OutboxTypeOK' /\ Numbered'
<1>1. CASE RecordOrMark
    <2>1. PICK a \in Attempt, path \in Path, n \in 1..MaxPush :
             \/ AppendOutboxMessages(a, path, n)
             \/ \E k \in 1..n : MarkOutboxDelivered(Batch(path, k))
        BY <1>1 DEF RecordOrMark
    <2>2. QED BY <2>1, AppendKeeps, MarkKeeps
<1>2. CASE Confirm
    BY <1>2, MarkKeeps DEF Confirm
<1>3. CASE UNCHANGED outboxVars
    BY <1>3 DEF outboxVars, OutboxTypeOK, Numbered, Recorded
<1>4. QED BY <1>1, <1>2, <1>3

LEMMA FiresJob ==
    ASSUME job \in [Attempt -> Job], NEW a \in Attempt, Fires(a)
    PROVE  job' = [job EXCEPT ![a] = job'[a]]
<1>1. \E from, upd : Step(a, from, upd)
    <2>1. CASE NoFire(a) \/ BeforeFire(a) \/ Round(a) \/ NoMoreRounds(a) \/ Compose(a)
        BY <2>1 DEF NoFire, BeforeFire, Round, NoMoreRounds, Compose
    <2>2. CASE NoSubscription(a) \/ AppendPushes(a) \/ AppendFails(a) \/ SendPush(a)
        BY <2>2 DEF NoSubscription, AppendPushes, AppendFails, SendPush
    <2>3. CASE PushFails(a) \/ AllSent(a) \/ MarkPushesDelivered(a) \/ MarkFails(a)
        BY <2>3 DEF PushFails, AllSent, MarkPushesDelivered, MarkFails
    <2>4. CASE NotifyFireSettled(a)
        BY <2>4 DEF NotifyFireSettled
    <2>5. QED BY <2>1, <2>2, <2>3, <2>4 DEF Fires
<1>2. QED BY <1>1 DEF Step

LEMMA DeliveringInit == ASSUME Init PROVE Delivering
<1>1. \A a \in Attempt : job[a] = Idle
    BY DEF Init
<1>2. Idle \in Job /\ Sound(Idle)
    <2>1. 0 \in 0..MaxPush /\ 0 \in 0..MaxRounds
        BY OutboxConstants, FireConstants
    <2>2. <<>> \in Seq([status : Fate, sent : 0..MaxPush]) /\ Len(<<>>) = 0
        OBVIOUS
    <2>3. Idle \in Job
        BY <2>1, <2>2, FireConstants DEF Idle, Job, Fate
    <2>4. Staged(Idle) /\ ToldTruly(Idle)
        BY <2>2 DEF Idle, Staged, ToldTruly, Unfired, Composing, Sending
    <2>5. QED BY <2>3, <2>4 DEF Sound
<1>3. Recorded = {} /\ \A id \in Id : outbox[id] = NULL
    BY DEF Init, OutboxInit, Recorded
<1>4. OutboxTypeOK /\ Numbered
    BY <1>3, FiniteIds, FS_EmptySet DEF Init, OutboxInit, OutboxTypeOK, Numbered
<1>5. TypeOK
    <2>1. 0 \in 0..MaxRetries /\ 0 \in 0..MaxFaults
        BY FireConstants
    <2>2. request \in Request
        BY <2>1 DEF Init, Request
    <2>3. job \in [Attempt -> Job]
        BY <1>2 DEF Init
    <2>4. QED BY <1>4, <2>1, <2>2, <2>3 DEF Init, TypeOK
<1>6. Sounds
    BY <1>1, <1>2 DEF Sounds
<1>7. Lives
    <2>1. \A a \in Attempt : ~Started(a) /\ ~Finished(a) /\ job[a].pc # "dead"
        BY <1>1 DEF Started, Finished, Idle
    <2>2. QED BY <2>1 DEF Init, Lives, InTurn, Alone, Undelivered, RowTold
<1>8. Books
    <2>1. \A a \in Attempt : job[a].pc = "idle" /\ job[a].sent = 0
        BY <1>1 DEF Idle
    <2>2. \A path : Batch(path, 0) = {}
        BY DEF Batch
    <2>3. \A a \in Attempt : Counted(a)
        BY <2>1, <2>2 DEF Init, Counted
    <2>4. \A a \in Attempt : OnRecord(a)
        BY <2>1 DEF Init, OnRecord
    <2>5. QED BY <1>3, <2>3, <2>4 DEF Books, Authors, Marks
<1>9. QED BY <1>4, <1>5, <1>6, <1>7, <1>8 DEF Delivering

(* An attempt that starts.                                                 *)
LEMMA DeliveringStart ==
    ASSUME Delivering, OutboxTypeOK', Numbered', NEW a \in Attempt, StartCron(a) \/ StartRequest(a)
    PROVE  Delivering'
<1>1. /\ job[a].pc = "idle" /\ job'[a].pc = "begin" /\ Sound(job'[a])
      /\ job'[a].sent = job[a].sent /\ job'[a].path = job[a].path
      /\ job'[a].recorded = job[a].recorded /\ job'[a].marked = job[a].marked
      /\ \A b \in Attempt \ {a} : job'[b] = job[b]
      /\ UNCHANGED <<row, pushed, faults, outboxVars>>
      /\ overlapped' = (overlapped \/ \E b \in Attempt : Alive(b))
      /\ request' \in Request /\ job' \in [Attempt -> Job]
    BY StartEffect DEF Delivering
<1>2. TypeOK'
    BY <1>1 DEF Delivering, TypeOK
<1>3. Sounds'
    BY <1>1 DEF Delivering, Sounds
<1>4. Lives'
    BY BeginLives DEF Delivering
<1>5. Books'
    <2>1. UNCHANGED <<pushed, outbox>> /\ (overlapped => overlapped')
        BY <1>1 DEF outboxVars
    <2>2. Started(a)'
        BY <1>1 DEF Started
    <2>3. QED BY <1>1, <2>1, <2>2, BooksAside DEF Delivering
<1>6. QED BY <1>2, <1>3, <1>4, <1>5 DEF Delivering

(* A step of an attempt under way.                                         *)
LEMMA DeliveringFires ==
    ASSUME Delivering, OutboxTypeOK', Numbered', NEW a \in Attempt, Fires(a)
    PROVE  Delivering'
<1>0. /\ TypeOK /\ Sounds /\ Lives /\ Books /\ Numbered
      /\ job \in [Attempt -> Job] /\ Sound(job[a])
    BY DEF Delivering, Sounds, TypeOK
<1>1. /\ Sound(job'[a]) /\ Others(a) /\ job'[a].pc \in Going
      /\ faults' \in 0..MaxFaults /\ pushed' \subseteq Attempt \X Id
    BY <1>0, FiresEffect
<1>2. /\ \A b \in Attempt \ {a} : job'[b] = job[b]
      /\ UNCHANGED <<row, request, overlapped>>
    BY <1>1 DEF Others
<1>3. job' \in [Attempt -> Job]
    BY <1>0, <1>1, FiresJob DEF Sound
<1>4. TypeOK'
    BY <1>0, <1>1, <1>2, <1>3 DEF TypeOK
<1>5. Sounds'
    BY <1>0, <1>1, <1>2 DEF Sounds
<1>6. Lives'
    BY <1>0, FiresLives
<1>7. Started(a)'
    BY <1>1 DEF Started, Going
<1>8. Books'
    <2>1. CASE Talks(a)
        <3>1. Moved(job[a], job'[a]) /\ UNCHANGED <<pushed, outbox>>
            BY <1>0, <2>1, TalksEffect DEF Quiet, outboxVars
        <3>2. /\ job'[a].pc \in Going \ {"send"}
              /\ job'[a].sent = job[a].sent /\ (job'[a].path = job[a].path \/ job[a].sent = 0)
              /\ job'[a].recorded = job[a].recorded /\ job'[a].marked = job[a].marked
              /\ job'[a].pc \in {"settle", "close"} => job[a].pc = "settle" \/ job[a].sent = 0
            BY <3>1 DEF Moved
        <3>3. job'[a].pc # "done" /\ job'[a].pc # "send"
            BY <3>2 DEF Going
        <3>4. QED BY <1>0, <1>2, <1>7, <3>1, <3>2, <3>3, BooksAside
    <2>2. CASE SendPush(a)
        BY <1>0, <2>2, SendBooks
    <2>3. CASE AppendPushes(a)
        BY <1>0, <2>3, AppendBooks
    <2>4. CASE AppendFails(a)
        <3>1. /\ job'[a].pc = "send"
              /\ job'[a].sent = job[a].sent /\ job'[a].path = job[a].path
            BY <1>0, <2>4, AppendEffect
        <3>2. UNCHANGED <<pushed, outbox>>
            BY <2>4 DEF AppendFails, outboxVars
        <3>3. ~job'[a].recorded
            <4>1. Step(a, "append", [job[a] EXCEPT !.pc = "send", !.recorded = FALSE])
                BY <2>4 DEF AppendFails
            <4>2. job'[a] = [job[a] EXCEPT !.pc = "send", !.recorded = FALSE] /\ job[a] \in Job
                BY <1>0, <4>1, StepEffect DEF Sound
            <4>3. QED BY <4>2 DEF Job
        <3>4. QED BY <1>0, <1>2, <1>7, <3>1, <3>2, <3>3, BooksAside
    <2>5. CASE MarkPushesDelivered(a)
        BY <1>0, <2>5, MarkBooks
    <2>6. CASE MarkFails(a)
        <3>1. /\ job'[a].pc # "send"
              /\ job'[a].sent = job[a].sent /\ job'[a].path = job[a].path
              /\ job'[a].recorded = job[a].recorded
            BY <1>0, <2>6, MarkEffect
        <3>2. UNCHANGED <<pushed, outbox>>
            BY <2>6 DEF MarkFails, outboxVars
        <3>3. ~job'[a].marked
            <4>1. Step(a, "mark", Told([job[a] EXCEPT !.marked = FALSE]))
                BY <2>6 DEF MarkFails
            <4>2. job'[a] = Told([job[a] EXCEPT !.marked = FALSE]) /\ job[a] \in Job
                BY <1>0, <4>1, StepEffect DEF Sound
            <4>3. QED BY <4>2 DEF Job, Told
        <3>4. QED BY <1>0, <1>2, <1>7, <3>1, <3>2, <3>3, BooksAside
    <2>7. QED BY <2>1, <2>2, <2>3, <2>4, <2>5, <2>6, FiresKinds
<1>9. QED BY <1>4, <1>5, <1>6, <1>8 DEF Delivering

(* An attempt that ends, by itself or by a crash.                          *)
LEMMA DeliveringEnds ==
    ASSUME Delivering, OutboxTypeOK', Numbered', NEW a \in Attempt, Closes(a) \/ Crash(a)
    PROVE  Delivering'
<1>0. TypeOK /\ Sounds /\ Lives /\ Books /\ Numbered /\ job[a] \in Job
    BY DEF Delivering, TypeOK
<1>1. \A status : Become(status) \in {"gone", status}
    BY DEF Become
<1>2. /\ \/ job[a].pc = "close" /\ job'[a] = [job[a] EXCEPT !.pc = "done"]
         \/ job'[a] = [job[a] EXCEPT !.pc = "dead"]
      /\ Sound(job'[a])
      /\ \A b \in Attempt \ {a} : job'[b] = job[b]
      /\ UNCHANGED <<pushed, overlapped, outboxVars>>
      /\ row' = row \/ row' \in {"gone", "sent", "failed"}
      /\ faults' \in 0..MaxFaults /\ request' \in Request /\ job' \in [Attempt -> Job]
    <2>1. CASE Closes(a)
        BY <1>0, <1>1, <2>1, ClosesEffect
    <2>2. CASE Crash(a)
        BY <1>0, <2>2, CrashEffect
    <2>3. QED BY <2>1, <2>2
<1>3. TypeOK'
    BY <1>0, <1>2 DEF TypeOK
<1>4. Sounds'
    BY <1>0, <1>2 DEF Sounds
<1>5. Lives'
    BY <1>0, ClosesLives, CrashLives
<1>6. Books'
    <2>1. /\ job'[a].recorded = job[a].recorded /\ job'[a].marked = job[a].marked
          /\ job'[a].sent = job[a].sent /\ job'[a].path = job[a].path
          /\ \/ job[a].pc = "close" /\ job'[a].pc = "done"
             \/ job'[a].pc = "dead"
        BY <1>0, <1>2 DEF Job
    <2>2. UNCHANGED <<pushed, outbox>> /\ (overlapped => overlapped')
        BY <1>2 DEF outboxVars
    <2>3. Started(a)'
        BY <2>1 DEF Started
    <2>4. QED BY <1>0, <1>2, <2>1, <2>2, <2>3, BooksAside
<1>7. QED BY <1>3, <1>4, <1>5, <1>6 DEF Delivering

LEMMA DeliveringStep == ASSUME Delivering, [Next]_vars PROVE Delivering'
<1>1. OutboxTypeOK' /\ Numbered'
    BY FireTable, TableSound DEF Delivering, TypeOK
<1>2. ASSUME NEW a \in Attempt, StartCron(a) \/ StartRequest(a) PROVE Delivering'
    BY <1>1, <1>2, DeliveringStart
<1>3. ASSUME NEW a \in Attempt, Fires(a) PROVE Delivering'
    BY <1>1, <1>3, DeliveringFires
<1>4. ASSUME NEW a \in Attempt, Closes(a) \/ Crash(a) PROVE Delivering'
    BY <1>1, <1>4, DeliveringEnds
<1>5. ASSUME UNCHANGED <<row, job, pushed, overlapped, faults>>, request' \in Request, Books'
      PROVE  Delivering'
    <2>1. TypeOK'
        BY <1>1, <1>5 DEF Delivering, TypeOK
    <2>2. Sounds' /\ Lives'
        BY <1>5 DEF Delivering, Sounds, Lives, InTurn, Alone, Undelivered, RowTold,
                    Started, Alive, Finished
    <2>3. QED BY <1>1, <1>5, <2>1, <2>2 DEF Delivering
<1>6. CASE Client
    <2>1. Books'
        BY <1>6, ClientBooks DEF Delivering
    <2>2. QED BY <1>5, <1>6, <2>1 DEF Client, Delivering, TypeOK
<1>7. CASE RequestFindsNothing \/ UNCHANGED vars
    <2>1. UNCHANGED <<row, job, pushed, overlapped, faults, outbox>>
        BY <1>7 DEF RequestFindsNothing, vars, outboxVars
    <2>2. request \in Request /\ MaxRetries \in Nat
        BY FireConstants DEF Delivering, TypeOK
    <2>3. request' \in Request
        <3>1. ASSUME TriesAgain PROVE request' \in Request
            <4>1. request.tries + 1 \in 0..MaxRetries
                BY <2>2, <3>1 DEF TriesAgain, Request
            <4>2. QED BY <3>1, <4>1 DEF TriesAgain, Request
        <3>2. ASSUME Answered \/ UNCHANGED vars PROVE request' \in Request
            BY <2>2, <3>2 DEF Answered, Request, vars
        <3>3. QED BY <1>7, <3>1, <3>2 DEF RequestFindsNothing
    <2>4. Books'
        BY <2>1 DEF Delivering, Books, Counted, OnRecord, Authors, Started, Marks,
                    MarkEarned, MarkMade, Sender
    <2>5. QED BY <1>5, <2>1, <2>3, <2>4
<1>8. QED BY <1>2, <1>3, <1>4, <1>6, <1>7 DEF Next

LEMMA DeliveringAlways == Spec => []Delivering
<1>1. QED BY DeliveringInit, DeliveringStep, PTL DEF Spec

-----------------------------------------------------------------------------
(* Every reachable state of the deliveries of an occurrence is well typed: *)
(* processSingleMessage and runAgenticFire never send more pushes than the *)
(* batch has, never report more than they sent, and never run out of the   *)
(* rounds they are allowed.                                                *)
THEOREM TypeCorrect == Spec => []TypeOK
<1>1. Delivering => TypeOK
    BY DEF Delivering
<1>2. QED BY <1>1, DeliveringAlways, PTL

(* What the push service has accepted was in the outbox first, as it was   *)
(* sent, for every number of attempts, pushes, retries and crashes         *)
(* (appendPushesToOutbox, before the loops that send):                     *)
(* unless the outbox refused the batch, the client had confirmed the       *)
(* message before, or two attempts were under way at once.                 *)
THEOREM PushesRecorded == Spec => []RecordedAsSent
<1>1. Delivering => RecordedAsSent
    BY DEF Delivering, Books, OnRecord, RecordedAsSent
<1>2. QED BY <1>1, DeliveringAlways, PTL

(* A row marked as delivered was sent by its author (or by an attempt that *)
(* the outbox had refused, or an overlapping one), and a row whose author  *)
(* sent it and ended is marked unless that write failed, also when a later *)
(* push of the batch failed (markPushesDelivered after both send loops).   *)
THEOREM MarksAreTrue == Spec => []MarksTruthful
<1>1. ASSUME Delivering PROVE MarksTruthful
    <2> SUFFICES ASSUME NEW id \in Id, outbox[id] # NULL
                 PROVE  LET by == outbox[id].by
                            sender(c) == <<c, id>> \in pushed
                        IN /\ outbox[id].delivered =>
                                 \/ overlapped
                                 \/ \E c \in Attempt :
                                       sender(c) /\ (c = by \/ outbox[id].acked \/ ~job[c].recorded)
                           /\ sender(by) /\ job[by].pc = "done" /\ job[by].marked =>
                                 outbox[id].delivered
        BY DEF MarksTruthful
    <2>1. MarkEarned(id) /\ MarkMade(id)
        BY <1>1 DEF Delivering, Books, Marks
    <2>2. QED BY <2>1 DEF MarkEarned, MarkMade, Sender
<1>2. QED BY <1>1, DeliveringAlways, PTL

LEMMA HookPushesCounted ==
    ASSUME Delivering, NEW a \in Attempt
    PROVE  LET hooks == {id \in Batch("hook", MaxPush) : <<a, id>> \in pushed} IN
           /\ Cardinality(hooks) = HookPushes(job[a])
           /\ HookPushes(job[a]) = 0 => hooks = {}
<1> DEFINE j == job[a]
           hooks == {id \in Batch("hook", MaxPush) : <<a, id>> \in pushed}
<1>1. j.path \in {"plain", "hook"} /\ j.sent \in 0..MaxPush /\ MaxPush \in Nat
    BY FireConstants, OutboxConstants DEF Delivering, TypeOK, Job
<1>2. /\ Batch("hook", MaxPush) \subseteq Id
      /\ \A id \in Id : <<a, id>> \in pushed <=> id \in Batch(j.path, j.sent)
    BY FireConstants DEF Delivering, Books, Counted, Batch, Id
<1> HIDE DEF j
<1>3. \A id : id \in hooks <=> id \in Batch("hook", MaxPush) /\ id \in Batch(j.path, j.sent)
    BY <1>2
<1> HIDE DEF hooks
<1>4. CASE j.path = "plain"
    <2>1. hooks = {}
        BY <1>3, <1>4 DEF Batch
    <2>2. QED BY <1>4, <2>1, FS_EmptySet DEF HookPushes, hooks, j
<1>5. CASE j.path = "hook"
    <2>1. \A i \in 1..j.sent : i \in 1..MaxPush
        BY <1>1
    <2>2. hooks = {"hook"} \X (1..j.sent)
        <3>1. \A id : id \in {"hook"} \X (1..j.sent) => id \in {"hook"} \X (1..MaxPush)
            BY <2>1
        <3>2. \A id : id \in hooks <=> id \in {"hook"} \X (1..j.sent)
            BY <1>3, <1>5, <3>1 DEF Batch
        <3> HIDE DEF hooks
        <3>3. QED BY <3>2
    <2>3. IsFiniteSet(1..j.sent) /\ Cardinality(1..j.sent) = j.sent
        <3>1. 1 \in Int /\ j.sent \in Int /\ j.sent >= 0
            BY <1>1
        <3>2. IF 1 > j.sent THEN j.sent = 0 ELSE j.sent - 1 + 1 = j.sent
            BY <1>1
        <3>3. QED BY <3>1, <3>2, FS_Interval
    <2>4. IsFiniteSet({"hook"}) /\ Cardinality({"hook"}) = 1
        BY FS_Singleton
    <2>5. Cardinality(hooks) = 1 * j.sent
        BY <2>2, <2>3, <2>4, FS_Product
    <2>6. j.sent = 0 => hooks = {}
        BY <2>2
    <2>7. QED BY <1>1, <1>5, <2>5, <2>6 DEF HookPushes, hooks, j
<1>6. QED BY <1>1, <1>4, <1>5

(* Once onBeforeFire was called, onFireSettled is called exactly once      *)
(* before the attempt ends, and what it is told is so: how many pushes of  *)
(* the fire went out, that it was sent only if all did, and that a skipped *)
(* or unhandled one sent nothing (notifyFireSettled of agentic-fire.js).   *)
THEOREM HostToldOnce == Spec => []SettledOnce
<1>1. ASSUME Delivering PROVE SettledOnce
    <2> SUFFICES ASSUME NEW a \in Attempt
                 PROVE  LET j == job[a]
                            hooks == {id \in Batch("hook", MaxPush) : <<a, id>> \in pushed}
                        IN /\ Len(j.settled) <= 1
                           /\ j.fired /\ j.pc = "done" => Len(j.settled) = 1
                           /\ Len(j.settled) = 1 =>
                                 LET told == j.settled[1]
                                 IN /\ told.sent = Cardinality(hooks)
                                    /\ told.status = "sent" => told.sent = j.n
                                    /\ told.status \in {"skipped", "not-handled"} => hooks = {}
        BY DEF SettledOnce
    <2>1. Staged(job[a]) /\ ToldTruly(job[a])
        BY <1>1 DEF Delivering, Sounds, Sound
    <2> DEFINE hooks == {id \in Batch("hook", MaxPush) : <<a, id>> \in pushed}
    <2>2. /\ Cardinality(hooks) = HookPushes(job[a])
          /\ HookPushes(job[a]) = 0 => hooks = {}
        BY <1>1, HookPushesCounted
    <2> HIDE DEF hooks
    <2>3. Len(job[a].settled) <= 1
        BY <2>1 DEF ToldTruly
    <2>4. job[a].fired /\ job[a].pc = "done" => Len(job[a].settled) = 1
        BY <2>1 DEF Staged
    <2>5. ASSUME Len(job[a].settled) = 1
          PROVE  LET told == job[a].settled[1]
                 IN /\ told.sent = Cardinality(hooks)
                    /\ told.status = "sent" => told.sent = job[a].n
                    /\ told.status \in {"skipped", "not-handled"} => hooks = {}
        BY <2>1, <2>2, <2>5 DEF ToldTruly
    <2>6. QED BY <2>3, <2>4, <2>5 DEF hooks
<1>2. QED BY <1>1, DeliveringAlways, PTL

(* The row goes away, or is marked as sent, only by a delivery or a skip,  *)
(* and is not left as failed beside one unless a write failed or the       *)
(* isolate died (processMessagesByUuid, deliverClaimedTask).               *)
THEOREM RowSaysHowItEnded == Spec => []RowTruthful
<1>1. Delivering => RowTruthful
    BY DEF Delivering, Lives, RowTold, RowTruthful
<1>2. QED BY <1>1, DeliveringAlways, PTL

(* The whole occurrence is delivered twice only if one attempt began while *)
(* another was under way (a request delivers without a claim), or a write  *)
(* failed after a delivery.                                                *)
THEOREM TwiceOnlyByOverlap == Spec => []TwiceOnlyIfOverlapped
<1>1. ASSUME Delivering PROVE TwiceOnlyIfOverlapped
    <2>1. ASSUME NEW a \in Attempt, NEW b \in Attempt, a < b,
                 job[a].fate = "sent", job[b].fate = "sent"
          PROVE  overlapped \/ faults > 0
        <3>1. Staged(job[b])
            BY <1>1 DEF Delivering, Sounds, Sound
        <3>2. Started(b)
            BY <2>1, <3>1 DEF Staged, Composing, Started
        <3>3. ~overlapped /\ faults = 0 => job[a].pc = "done" /\ ~Finished(a)
            BY <1>1, <2>1, <3>2 DEF Delivering, Lives, Undelivered
        <3>4. overlapped \/ faults # 0
            BY <2>1, <3>3 DEF Finished
        <3>5. faults \in Nat
            BY <1>1, FireConstants DEF Delivering, TypeOK
        <3>6. QED BY <3>4, <3>5
    <2> SUFFICES ASSUME NEW a \in Attempt, NEW b \in Attempt, a # b,
                        job[a].fate = "sent", job[b].fate = "sent"
                 PROVE  overlapped \/ faults > 0
        BY DEF TwiceOnlyIfOverlapped
    <2>2. a < b \/ b < a
        BY DEF Attempt
    <2>3. QED BY <2>1, <2>2
<1>2. QED BY <1>1, DeliveringAlways, PTL

(* The deliveries write the table only as the clients' paging assumes: a   *)
(* batch of one attempt is recorded, a first part of one is marked, and    *)
(* only what is recorded is confirmed (appendOutboxMessages,               *)
(* markOutboxDelivered and ackOutboxMessages of d1.js).  So what           *)
(* NothingMissed and ConfirmedForGood say holds beside these deliveries.   *)
THEOREM FireWritesAsAssumed == Spec => OutboxInit /\ [][RecordOrMark \/ Confirm]_outboxVars
<1>1. Init => OutboxInit
    BY DEF Init
<1>2. ASSUME Delivering, [Next]_vars PROVE [RecordOrMark \/ Confirm]_outboxVars
    BY <1>2, FireTable DEF Delivering
<1>3. QED BY <1>1, <1>2, DeliveringAlways, PTL DEF Spec
=============================================================================
