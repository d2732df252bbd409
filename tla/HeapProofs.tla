----------------------------- MODULE HeapProofs -----------------------------
(***************************************************************************)
(* Heap: no unit is handed out twice or lost, a pointer freed twice does   *)
(* no harm, and the free list implements Allocator, for a heap of any size *)
(* and any requests.                                                       *)
(***************************************************************************)
EXTENDS Heap, FiniteSetTheorems, TLAPS

\* Every block in use has its header.
Header == \A a \in used : mnext[a] = a

\* The inductive invariant.
IInv == HeapTypeOK /\ Partition /\ FreeList /\ Header /\ TotalIsFree

\* meminit makes one node of the whole heap.
THEOREM HeapInit == Init => IInv
<1> SUFFICES ASSUME Init PROVE IInv
  OBVIOUS
<1> USE UnitsAssumption DEF Init, Unit, List, NULL
<1>1. HeapTypeOK
  BY DEF HeapTypeOK, Silent
<1>2. Partition
  BY DEF Partition, Extent
<1>3. FreeList
  BY DEF FreeList
<1>4. Header
  BY DEF Header
<1>5. TotalIsFree
  <2>1. FreeUnits = 1 .. Units
    <3>1. FreeUnits = Extent(1)
      BY DEF FreeUnits
    <3>2. mlength[1] = Units
      OBVIOUS
    <3>3. QED
      BY <3>1, <3>2 DEF Extent
  <2>2. Cardinality(1 .. Units) = Units
    BY FS_Interval
  <2>3. QED
    BY <2>1, <2>2 DEF TotalIsFree
<1>6. QED
  BY <1>1, <1>2, <1>3, <1>4, <1>5 DEF IInv

\* A length in units is a natural number, although the sum in bytes wraps around.
LEMMA RoundType == ASSUME NEW bytes \in Nat PROVE roundmb(bytes % Word) \in Nat
<1>1. bytes % Word \in Nat
  BY LengthAssumption
<1>2. ((bytes % Word) + MemblkSize - 1) \in Nat
  BY <1>1 DEF MemblkSize
<1>3. ((bytes % Word) + MemblkSize - 1) % Word \in Nat
  BY <1>2, LengthAssumption
<1>4. QED
  BY <1>3 DEF roundmb, MemblkSize

\* What a run of n units takes from a set, or adds to it.
LEMMA RunTaken ==
  ASSUME NEW S \in SUBSET Unit, NEW a \in Int, NEW n \in Nat, a .. a + n - 1 \subseteq S
  PROVE  /\ Cardinality(S) \in Nat
         /\ Cardinality(S \ (a .. a + n - 1)) = Cardinality(S) - n
         /\ Cardinality(S) - n \in Nat
<1> DEFINE run == a .. a + n - 1
<1>1. IsFiniteSet(Unit)
  BY FS_Interval, UnitsAssumption DEF Unit
<1>2. IsFiniteSet(S)
  BY <1>1, FS_Subset
<1>3. Cardinality(run) = n
  BY FS_Interval
<1>4. S \cap run = run
  OBVIOUS
<1>5. IsFiniteSet(S \ run) /\ Cardinality(S \ run) = Cardinality(S) - Cardinality(S \cap run)
  BY <1>2, FS_Difference
<1>6. Cardinality(S) \in Nat /\ Cardinality(S \ run) \in Nat
  BY <1>2, <1>5, FS_CardinalityType
<1>7. Cardinality(S \ run) = Cardinality(S) - n
  BY <1>3, <1>4, <1>5
<1>8. QED
  BY <1>6, <1>7

\* The units of the blocks on the free list.
LEMMA FreeUnitsIn ==
  ASSUME IInv PROVE FreeUnits \subseteq Unit
  BY DEF IInv, Partition, FreeUnits

\* The node that getmem takes from: a prefix of it becomes the block.
LEMMA TakeStep ==
  ASSUME IInv, NEW n \in Nat \ {0}, NEW prev \in nodes \cup {List}, NEW curr \in nodes,
         FirstFit(prev, curr, n), Take(prev, curr, n), used' = used \cup {curr},
         asked' = n, answer' = curr, UNCHANGED sem_malloc
  PROVE  IInv'
<1> USE DEF List, NULL, Unit
<1> DEFINE left == curr + n
           split == mlength[curr] > n
<1>1. /\ nodes \subseteq Unit /\ used \subseteq Unit /\ nodes \cap used = {}
      /\ mlength \in [Unit \cup {List} -> Nat]
      /\ mnext \in [Unit \cup {List} -> Unit \cup {NULL}]
      /\ Units \in Nat
  BY UnitsAssumption DEF IInv, HeapTypeOK, Partition
<1>2. /\ mlength[curr] >= n /\ mnext[prev] = curr /\ mlength[curr] \in Nat
      /\ curr \in Unit /\ curr + mlength[curr] - 1 \in Unit
  BY <1>1 DEF IInv, Partition, FirstFit, Fits, Extent
<1>3. /\ prev # curr /\ (prev = List \/ prev < curr)
      /\ \A b \in nodes : prev < b => curr <= b
  BY <1>1, <1>2 DEF IInv, FreeList
<1>4. ASSUME split PROVE left \in Unit /\ left \notin nodes \cup used /\ left # curr
  BY <1>1, <1>2, <1>4 DEF IInv, Partition
<1>5. /\ \A a \in (nodes \cup used) \ {curr} : mlength'[a] = mlength[a]
      /\ mlength'[curr] = n
      /\ mlength'[List] = mlength[List] - n
      /\ split => mlength'[left] = mlength[curr] - n
      /\ DOMAIN mlength' = Unit \cup {List}
  BY <1>1, <1>2, <1>4 DEF Take
<1>6. /\ \A a \in (nodes \cup used) \ {curr, prev} : mnext'[a] = mnext[a]
      /\ mnext'[curr] = curr
      /\ mnext'[prev] = IF split THEN left ELSE mnext[curr]
      /\ split => mnext'[left] = mnext[curr]
      /\ prev = List \/ mnext'[List] = mnext[List]
  BY <1>1, <1>2, <1>3, <1>4 DEF Take
<1>7. nodes' = (nodes \ {curr}) \cup IF split THEN {left} ELSE {}
  BY DEF Take
<1>8. Partition'
  <2>1. nodes' \cap used' = {}
    BY <1>1, <1>4, <1>7
  <2>a. \A a \in nodes \cup used : /\ mlength[a] > 0 /\ a + mlength[a] - 1 \in Unit
                                  /\ a \in Unit /\ mlength[a] \in Nat
    BY <1>1 DEF IInv, Partition, Extent
  <2>b. \A a, b \in nodes \cup used : a < b => a + mlength[a] <= b
    BY DEF IInv, Partition
  <2>2. ASSUME NEW a \in nodes' \cup used'
        PROVE  mlength'[a] > 0 /\ a + mlength'[a] - 1 \in Unit /\ a \in Unit
    <3>1. CASE a = curr
      BY <3>1, <1>1, <1>2, <1>5
    <3>2. CASE split /\ a = left
      BY <3>2, <1>1, <1>2, <1>4, <1>5
    <3>3. CASE a \in (nodes \cup used) \ {curr}
      BY <3>3, <2>a, <1>5
    <3>4. QED
      BY <3>1, <3>2, <3>3, <1>7
  <2>3. ASSUME NEW a \in nodes' \cup used', NEW b \in nodes' \cup used', a < b
        PROVE  a + mlength'[a] <= b
    <3>1. CASE a = curr
      <4>1. b \in (nodes \cup used) \ {curr} => curr + mlength[curr] <= b
        BY <3>1, <2>3, <2>b
      <4>2. QED
        BY <3>1, <2>3, <4>1, <1>1, <1>2, <1>4, <1>5, <1>7, <2>a
    <3>2. CASE split /\ a = left
      <4>1. b \in (nodes \cup used) \ {curr} /\ curr < b
        BY <3>2, <2>3, <1>2, <1>7, <2>a
      <4>2. QED
        BY <3>2, <4>1, <2>b, <1>2, <1>5, <2>a
    <3>3. CASE a \in (nodes \cup used) \ {curr}
      <4>1. CASE b \in nodes \cup used
        BY <3>3, <4>1, <2>3, <2>b, <1>5
      <4>2. CASE split /\ b = left
        BY <3>3, <4>2, <2>3, <2>a, <2>b, <1>2, <1>5
      <4>3. QED
        BY <4>1, <4>2, <1>7
    <3>4. QED
      BY <3>1, <3>2, <3>3, <1>7
  <2>4. \A x \in Unit : \E a \in nodes' \cup used' : a <= x /\ x < a + mlength'[a]
    <3> SUFFICES ASSUME NEW x \in Unit
                 PROVE  \E a \in nodes' \cup used' : a <= x /\ x < a + mlength'[a]
      OBVIOUS
    <3>1. PICK a \in nodes \cup used : a <= x /\ x < a + mlength[a]
      BY <1>1 DEF IInv, Partition, Extent
    <3>2. CASE a # curr
      BY <3>1, <3>2, <1>5, <1>7
    <3>3. CASE a = curr
      BY <3>1, <3>3, <1>1, <1>2, <1>4, <1>5, <1>7
    <3>4. QED
      BY <3>2, <3>3
  <2>5. \A a \in nodes' \cup used' : mlength'[a] \in Int /\ Extent(a)' = a .. a + mlength'[a] - 1
    BY <1>1, <1>2, <1>4, <1>5, <1>7 DEF Extent
  <2>6. ASSUME NEW a \in nodes' \cup used' PROVE Extent(a)' \subseteq Unit
    <3>1. a \in Unit /\ a + mlength'[a] - 1 \in Unit /\ mlength'[a] \in Int
      BY <2>2, <2>5
    <3>2. a .. a + mlength'[a] - 1 \subseteq Unit
      BY <3>1, <1>1
    <3>3. QED
      BY <3>2, <2>5
  <2>7. \A x \in Unit : \E a \in nodes' \cup used' : x \in Extent(a)'
    BY <2>2, <2>4, <2>5
  <2>8. QED
    BY <2>1, <2>2, <2>3, <2>6, <2>7 DEF Partition
<1>9. FreeList'
  <2>1. ASSUME NEW a \in nodes', NEW b \in nodes', a < b PROVE a + mlength'[a] < b
    <3>1. \A c, d \in nodes : c < d => c + mlength[c] < d
      BY DEF IInv, FreeList
    <3>2. CASE split /\ a = left
      <4>1. b \in nodes /\ b # curr /\ curr < b
        BY <3>2, <2>1, <1>1, <1>2, <1>7
      <4>2. QED
        BY <3>1, <3>2, <4>1, <1>1, <1>2, <1>5
    <3>3. CASE a \in nodes \ {curr} /\ b \in nodes
      BY <3>1, <3>3, <2>1, <1>5
    <3>4. CASE a \in nodes \ {curr} /\ split /\ b = left
      <4>1. a < curr
        BY <3>4, <2>1, <1>1, <1>2 DEF IInv, Partition
      <4>2. QED
        BY <3>1, <3>4, <4>1, <1>1, <1>2, <1>5
    <3>5. QED
      BY <3>2, <3>3, <3>4, <1>7
  <2>2. ASSUME NEW a \in nodes' \cup {List}
        PROVE  IF \E b \in nodes' : a < b
               THEN mnext'[a] \in nodes' /\ a < mnext'[a] /\ \A b \in nodes' : a < b => mnext'[a] <= b
               ELSE mnext'[a] = NULL
    <3>1. CASE split /\ a = left
      BY <3>1, <1>1, <1>2, <1>3, <1>4, <1>5, <1>6, <1>7 DEF IInv, Partition, FreeList
    <3>2. CASE a = prev
      BY <3>2, <1>1, <1>2, <1>3, <1>4, <1>5, <1>6, <1>7 DEF IInv, Partition, FreeList
    <3>3. CASE a # prev /\ ~(split /\ a = left)
      BY <3>3, <1>1, <1>2, <1>3, <1>4, <1>5, <1>6, <1>7 DEF IInv, Partition, FreeList
    <3>4. QED
      BY <3>1, <3>2, <3>3
  <2>3. QED
    BY <2>1, <2>2 DEF FreeList
<1>10. Header'
  BY <1>1, <1>6 DEF IInv, Header
<1>11. /\ TotalIsFree'
       /\ mlength'[List] \in Nat
  <2>1. FreeUnits' = FreeUnits \ (curr .. curr + n - 1)
    <3>1. \A a \in nodes' : Extent(a)' = a .. a + mlength'[a] - 1
      BY DEF Extent
    <3>2. ASSUME NEW x \in FreeUnits'
          PROVE  x \in FreeUnits \ (curr .. curr + n - 1)
      <4>1. PICK a \in nodes' : x \in a .. a + mlength'[a] - 1
        BY <3>1, <3>2 DEF FreeUnits
      <4>2. CASE split /\ a = left
        BY <4>1, <4>2, <1>1, <1>2, <1>5, <1>7 DEF FreeUnits, Extent
      <4>3. CASE ~(split /\ a = left)
        <5>1. a \in nodes /\ a # curr /\ mlength'[a] = mlength[a]
          BY <4>3, <1>5, <1>7
        <5>2. x \in Extent(a)
          BY <5>1, <4>1 DEF Extent
        <5>3. x \notin curr .. curr + n - 1
          BY <5>1, <4>1, <1>1, <1>2 DEF IInv, Partition
        <5>4. QED
          BY <5>1, <5>2, <5>3 DEF FreeUnits
      <4>4. QED
        BY <4>2, <4>3
    <3>3. ASSUME NEW x \in FreeUnits, x \notin curr .. curr + n - 1
          PROVE  x \in FreeUnits'
      <4>1. PICK a \in nodes : x \in a .. a + mlength[a] - 1
        BY <3>3 DEF FreeUnits, Extent
      <4>2. CASE a = curr
        <5>1. split /\ x \in left .. left + mlength'[left] - 1
          BY <4>1, <4>2, <3>3, <1>1, <1>2, <1>4, <1>5
        <5>2. left \in nodes'
          BY <5>1, <1>7
        <5>3. QED
          BY <5>1, <5>2, <3>1 DEF FreeUnits
      <4>3. CASE a # curr
        <5>1. a \in nodes' /\ mlength'[a] = mlength[a]
          BY <4>3, <1>5, <1>7
        <5>2. QED
          BY <5>1, <4>1, <3>1 DEF FreeUnits
      <4>4. QED
        BY <4>2, <4>3
    <3>4. QED
      BY <3>2, <3>3
  <2>2. curr .. curr + n - 1 \subseteq FreeUnits
    <3>1. curr .. curr + n - 1 \subseteq Extent(curr)
      BY <1>1, <1>2 DEF Extent
    <3>2. QED
      BY <3>1 DEF FreeUnits
  <2>3. FreeUnits \in SUBSET Unit
    BY FreeUnitsIn
  <2>4. curr \in Int /\ n \in Nat
    BY <1>1, <1>2
  <2>5. /\ Cardinality(FreeUnits \ (curr .. curr + n - 1)) = Cardinality(FreeUnits) - n
        /\ Cardinality(FreeUnits) - n \in Nat
    BY <2>2, <2>3, <2>4, RunTaken
  <2>6. QED
    BY <2>1, <2>5, <1>5 DEF IInv, TotalIsFree
<1>12. HeapTypeOK'
  <2>1. mnext' \in [Unit \cup {List} -> Unit \cup {NULL}]
    BY <1>1, <1>2, <1>4 DEF Take
  <2>2. \A x \in Unit \cup {List} : mlength'[x] \in Nat
    <3>1. \A x \in Unit : mlength'[x] \in Nat
      BY <1>1, <1>2, <1>4 DEF Take
    <3>2. QED
      BY <3>1, <1>11
  <2>3. mlength' = [x \in Unit \cup {List} |-> mlength'[x]]
    BY DEF Take
  <2>4. nodes' \subseteq Unit /\ used' \subseteq Unit
    BY <1>1, <1>4, <1>7
  <2>5. asked' \in Nat /\ answer' \in Unit \cup {NULL} /\ sem_malloc' \in {0, 1}
    BY <1>1 DEF IInv, HeapTypeOK
  <2>6. QED
    BY <2>1, <2>2, <2>3, <2>4, <2>5 DEF HeapTypeOK
<1>13. QED
  BY <1>8, <1>9, <1>10, <1>11, <1>12 DEF IInv

\* What the link of a node says of the other nodes.
LEMMA NextNode ==
  ASSUME IInv, NEW a \in nodes \cup {List}
  PROVE  /\ mnext[a] = NULL \/ (mnext[a] \in nodes /\ a < mnext[a])
         /\ \A b \in nodes : a < b => mnext[a] \in nodes /\ mnext[a] <= b
  BY DEF IInv, FreeList

\* A unit that no block in use owns and that still looks like the header of a block:
\* it is inside a node, where freemem sees the overlap.
LEMMA DeadOverlaps ==
  ASSUME IInv, NEW block \in Dead, mnext[block] = block, NEW prev \in nodes \cup {List},
         Before(prev, block)
  PROVE  Overlaps(prev, block, mlength[block])
<1> USE DEF List, NULL, Unit
<1>1. /\ nodes \subseteq Unit /\ block \in Unit /\ Units \in Nat
      /\ mlength \in [Unit \cup {List} -> Nat]
  BY UnitsAssumption DEF IInv, HeapTypeOK, Dead
<1>2. PICK c \in nodes : c <= block /\ block < c + mlength[c]
  BY <1>1 DEF IInv, Partition, Dead, Extent
<1>3. c # block
  BY <1>1 DEF IInv, FreeList
<1>4. prev = c
  <2>1. mnext[prev] = NULL \/ mnext[prev] >= block
    BY DEF Before
  <2>2. ~(prev < c)
    <3>1. prev < c => mnext[prev] \in nodes /\ mnext[prev] <= c
      BY NextNode
    <3>a. c < block
      BY <1>1, <1>2, <1>3
    <3>2. ASSUME prev < c PROVE FALSE
      <4>1. mnext[prev] \in Unit /\ c \in Unit /\ mnext[prev] <= c
        BY <3>1, <3>2, <1>1
      <4>2. mnext[prev] >= block
        BY <4>1, <2>1
      <4>3. QED
        BY <4>1, <4>2, <3>a, <1>1
    <3>3. QED
      BY <3>2
  <2>3. CASE prev \in nodes /\ c < prev
    BY <2>3, <1>1, <1>2 DEF IInv, Partition, Before
  <2>4. QED
    BY <2>2, <2>3, <1>1, <1>2
<1>5. QED
  BY <1>1, <1>2, <1>4 DEF Overlaps, Top

\* The block that freemem puts back joins the nodes it touches.
LEMMA InsertStep ==
  ASSUME IInv, NEW block \in used, NEW prev \in nodes \cup {List}, Before(prev, block),
         Insert(prev, block, mlength[block]), used' = used \ {block}, Silent,
         UNCHANGED sem_malloc
  PROVE  IInv'
<1> USE DEF List, NULL, Unit
<1> DEFINE n == mlength[block]
           next == mnext[prev]
           joins == Top(prev) = block
           start == IF joins THEN prev ELSE block
           size == IF joins THEN mlength[prev] + n ELSE n
           merges == start + size = next
<1>1. /\ nodes \subseteq Unit /\ used \subseteq Unit /\ nodes \cap used = {}
      /\ mlength \in [Unit \cup {List} -> Nat]
      /\ mnext \in [Unit \cup {List} -> Unit \cup {NULL}]
      /\ Units \in Nat
  BY UnitsAssumption DEF IInv, HeapTypeOK, Partition
<1>2. /\ \A a \in nodes \cup used : /\ mlength[a] > 0 /\ a + mlength[a] - 1 \in Unit
                                    /\ a \in Unit /\ mlength[a] \in Nat
      /\ \A a, b \in nodes \cup used : a < b => a + mlength[a] <= b
  BY <1>1 DEF IInv, Partition, Extent
<1>3. /\ prev = List \/ (prev \in nodes /\ prev < block)
      /\ next = NULL \/ (next \in nodes /\ block < next /\ prev < next)
      /\ \A b \in nodes : prev < b => next # NULL /\ next <= b
  <2>1. /\ next = NULL \/ (next \in nodes /\ prev < next)
        /\ \A b \in nodes : prev < b => next \in nodes /\ next <= b
    BY NextNode
  <2>2. next # NULL => block < next
    BY <2>1, <1>1 DEF Before
  <2>3. prev = List \/ prev < block
    BY DEF Before
  <2>4. QED
    BY <2>1, <2>2, <2>3, <1>1
<1>4. joins => prev \in nodes /\ prev + mlength[prev] = block
  BY <1>1, <1>2, <1>3 DEF Top
<1>5. merges => next \in nodes /\ start + size = next
  BY <1>1, <1>2, <1>3, <1>4
<1>6. /\ start \in Unit /\ size \in Nat /\ size >= n /\ n > 0 /\ n \in Nat
      /\ start <= block /\ start + size = block + n /\ start # next
      /\ block + n <= Units + 1
      /\ next \in nodes => block + n <= next
  BY <1>1, <1>2, <1>3, <1>4
<1>7. /\ \A a \in (nodes \cup used) \ {start} : mlength'[a] = mlength[a]
      /\ mlength'[start] = IF merges THEN size + mlength[next] ELSE size
      /\ mlength'[List] = mlength[List] + n
      /\ DOMAIN mlength' = Unit \cup {List}
  BY <1>1, <1>6 DEF Insert
<1>8. /\ \A a \in (nodes \cup used) \ {start, prev} : mnext'[a] = mnext[a]
      /\ mnext'[start] = IF merges THEN mnext[next] ELSE next
      /\ ~joins => mnext'[prev] = block
      /\ prev # List => mnext'[List] = mnext[List]
  BY <1>1, <1>6 DEF Insert
<1>9. nodes' = (nodes \cup {start}) \ IF merges THEN {next} ELSE {}
  BY DEF Insert
<1> HIDE DEF n, next, joins, start, size, merges
<1>10. /\ start \in nodes' /\ start \notin used'
       /\ \A a \in nodes' \cup used' :
            a = start \/ (a \in (nodes \cup used) \ {start, block} /\ (merges => a # next))
  <2>1. start = prev \/ start = block
    BY DEF start
  <2>2. start # next /\ start \notin used'
    BY <1>1, <1>3, <1>4, <1>6, <2>1 DEF start
  <2>3. start = block \/ start \in nodes
    BY <1>4 DEF start
  <2>4. block \notin nodes'
        \/ start = block
    BY <1>1, <1>9
  <2>5. QED
    BY <1>1, <1>9, <2>2, <2>3, <2>4, <1>5
<1>a. /\ block \in Int /\ prev \in Int /\ start \in Int /\ next \in Int /\ n \in Nat
      /\ \A a \in nodes \cup used \cup nodes' : a \in Int
  <2>a. \A a \in nodes : a \in Int
    BY <1>1
  <2>b. next = NULL \/ next \in nodes
    BY <1>3
  <2>c. prev = List \/ prev \in nodes
    OBVIOUS
  <2>1. next \in Int /\ prev \in Int
    BY <2>a, <2>b, <2>c
  <2>2. start \in Int /\ block \in Int /\ n \in Nat
    BY <1>1, <1>6
  <2>3. ASSUME NEW a \in nodes \cup used \cup nodes' PROVE a \in Int
    BY <2>2, <1>1, <1>9
  <2>4. QED
    BY <2>1, <2>2, <2>3
<1>11. /\ mlength'[start] \in Nat /\ mlength'[start] >= size
       /\ start + mlength'[start] - 1 \in Unit
       /\ merges => start + mlength'[start] = next + mlength[next]
  <2>1. CASE merges
    <3>1. next \in Unit /\ mlength[next] \in Nat /\ next + mlength[next] - 1 \in Unit
      BY <2>1, <1>2, <1>5
    <3>2. mlength'[start] = size + mlength[next] /\ start + size = next
      BY <2>1, <1>5, <1>7
    <3>3. QED
      BY <3>1, <3>2, <1>6
  <2>2. CASE ~merges
    BY <2>2, <1>1, <1>2, <1>6, <1>7
  <2>3. QED
    BY <2>1, <2>2
<1>12. \A b \in (nodes \cup used) \ {start, block} :
         /\ start < b /\ ~(merges /\ b = next) => start + mlength'[start] <= b
         /\ b < start => b + mlength[b] <= start
  <2> SUFFICES ASSUME NEW b \in (nodes \cup used) \ {start, block}
               PROVE  /\ start < b /\ ~(merges /\ b = next) => start + mlength'[start] <= b
                      /\ b < start => b + mlength[b] <= start
    OBVIOUS
  <2>1. start \in nodes \cup used
    BY <1>4 DEF start
  <2>2. b < start => b + mlength[b] <= start
    BY <1>2, <2>1
  <2>3. ASSUME start < b, ~(merges /\ b = next) PROVE start + mlength'[start] <= b
    <3>1. block < b
      <4>1. start = block \/ (start + mlength[start] = block /\ start \in nodes)
        BY <1>4 DEF start
      <4>2. start + mlength[start] <= b
        BY <2>1, <2>3, <1>2
      <4>3. QED
        BY <4>1, <4>2, <2>3, <1>1
    <3>2. block + n <= b
      BY <3>1, <1>2 DEF n
    <3>3. CASE ~merges
      BY <3>2, <3>3, <1>6, <1>7
    <3>4. CASE merges
      <4>1. next < b
        <5>1. next = block + n
          BY <3>4, <1>5, <1>6
        <5>2. QED
          BY <5>1, <3>2, <3>4, <2>3, <1>1, <1>2, <1>5
      <4>2. next + mlength[next] <= b
        BY <4>1, <3>4, <1>2, <1>5
      <4>3. QED
        BY <4>2, <3>4, <1>11
    <3>5. QED
      BY <3>3, <3>4
  <2>4. QED
    BY <2>2, <2>3
<1>13. Partition'
  <2>1. nodes' \cap used' = {}
    BY <1>1, <1>9, <1>10
  <2>2. ASSUME NEW a \in nodes' \cup used'
        PROVE  mlength'[a] > 0 /\ mlength'[a] \in Nat /\ a + mlength'[a] - 1 \in Unit /\ a \in Unit
    <3>1. CASE a = start
      BY <3>1, <1>6, <1>11
    <3>2. CASE a # start
      <4>1. a \in nodes \cup used /\ mlength'[a] = mlength[a]
        BY <3>2, <1>7, <1>10
      <4>2. QED
        BY <4>1, <1>2
    <3>3. QED
      BY <3>1, <3>2
  <2>3. ASSUME NEW a \in nodes' \cup used', NEW b \in nodes' \cup used', a < b
        PROVE  a + mlength'[a] <= b
    <3>1. CASE a = start
      BY <3>1, <2>3, <1>10, <1>12, <2>2
    <3>2. CASE b = start
      <4>1. a \in (nodes \cup used) \ {start, block} /\ mlength'[a] = mlength[a]
        BY <3>2, <2>3, <1>7, <1>10, <1>6, <2>2
      <4>2. QED
        BY <4>1, <3>2, <2>3, <1>12
    <3>3. CASE a # start /\ b # start
      BY <3>3, <2>3, <1>2, <1>7, <1>10
    <3>4. QED
      BY <3>1, <3>2, <3>3
  <2>4. ASSUME NEW x \in Unit
        PROVE  \E a \in nodes' \cup used' : a <= x /\ x < a + mlength'[a]
    <3>1. PICK a \in nodes \cup used : a <= x /\ x < a + mlength[a]
      <4>1. PICK a \in nodes \cup used : x \in a .. a + mlength[a] - 1
        BY DEF IInv, Partition, Extent
      <4>2. a \in Int /\ mlength[a] \in Int
        BY <1>1, <1>a
      <4>3. x \in Int /\ a <= x /\ x <= a + mlength[a] - 1
        BY <4>1, <4>2
      <4>4. QED
        BY <4>2, <4>3
    <3>2. CASE a \in nodes' \cup used' /\ a # start
      BY <3>1, <3>2, <1>7
    <3>3. CASE a = block \/ a = start \/ (merges /\ a = next)
      <4>1. start <= x /\ x < start + mlength'[start]
        <5>1. CASE a = block
          BY <5>1, <3>1, <1>1, <1>6, <1>11 DEF n
        <5>2. CASE a = start
          <6>1. start = block \/ (start + mlength[start] = block /\ start \in nodes)
            BY <1>4 DEF start
          <6>2. QED
            BY <6>1, <5>2, <3>1, <1>1, <1>2, <1>6, <1>11 DEF n
        <5>3. CASE merges /\ a = next
          BY <5>3, <3>1, <1>1, <1>2, <1>5, <1>6, <1>11
        <5>4. QED
          BY <5>1, <5>2, <5>3, <3>3
      <4>2. QED
        BY <4>1, <1>10
    <3>4. a \in nodes' \cup used' \/ a = block \/ (merges /\ a = next)
      BY <1>9
    <3>5. QED
      BY <3>2, <3>3, <3>4
  <2>5. \A a \in nodes' \cup used' : Extent(a)' = a .. a + mlength'[a] - 1
    BY DEF Extent
  <2>6. ASSUME NEW a \in nodes' \cup used' PROVE Extent(a)' \subseteq Unit
    <3>1. a .. a + mlength'[a] - 1 \subseteq Unit
      BY <2>2, <1>1
    <3>2. QED
      BY <3>1, <2>5
  <2>7. ASSUME NEW x \in Unit PROVE \E a \in nodes' \cup used' : x \in Extent(a)'
    <3>1. PICK a \in nodes' \cup used' : a <= x /\ x < a + mlength'[a]
      BY <2>4
    <3>2. x \in a .. a + mlength'[a] - 1
      BY <3>1, <2>2, <1>1
    <3>3. QED
      BY <3>2, <2>5
  <2>8. QED
    BY <2>1, <2>2, <2>3, <2>6, <2>7 DEF Partition
<1>14. FreeList'
  <2>1. \A a, b \in nodes : a < b => a + mlength[a] < b
    BY DEF IInv, FreeList
  <2>2. ASSUME NEW a \in nodes', NEW b \in nodes', a < b PROVE a + mlength'[a] < b
    <3>1. CASE a = start
      <4>1. b \in nodes /\ b # start /\ ~(merges /\ b = next)
        BY <3>1, <2>2, <1>9, <1>10, <1>1
      <4>2. prev < b
        BY <3>1, <4>1, <2>2, <1>1, <1>3, <1>4, <1>6 DEF start
      <4>3. next \in nodes /\ next <= b /\ block + n <= next
        BY <4>1, <4>2, <1>3, <1>6
      <4>4. CASE merges
        <5>1. next + mlength[next] < b
          BY <4>1, <4>3, <4>4, <2>1, <1>1
        <5>2. QED
          BY <5>1, <4>4, <3>1, <1>11
      <4>5. CASE ~merges
        <5>1. start + size # next
          BY <4>5 DEF merges
        <5>2. b \in Unit /\ next \in Unit
          BY <4>1, <4>3, <1>1
        <5>3. mlength'[a] = size
          BY <4>5, <3>1, <1>7
        <5>4. QED
          BY <5>1, <5>2, <5>3, <4>3, <3>1, <1>1, <1>6
      <4>6. QED
        BY <4>4, <4>5
    <3>2. CASE b = start
      <4>1. a \in nodes /\ a # block /\ a # start /\ mlength'[a] = mlength[a]
        BY <3>2, <2>2, <1>1, <1>7, <1>9, <1>10
      <4>2. CASE joins
        BY <4>1, <4>2, <3>2, <2>1, <2>2, <1>4 DEF start
      <4>3. CASE ~joins
        <5>1. a = prev \/ a < prev
          <6>1. start = block
            BY <4>3 DEF start
          <6>2. ~(prev < a)
            <7>1. prev < a => next \in nodes /\ next <= a /\ block < next
              BY <4>1, <1>1, <1>3
            <7>2. a \in Unit /\ block \in Unit /\ a < block
              BY <6>1, <4>1, <3>2, <2>2, <1>1
            <7>3. next \in nodes => next \in Unit
              BY <1>1
            <7>4. QED
              BY <7>1, <7>2, <7>3, <1>1
          <6>3. QED
            BY <6>2, <4>1, <1>1
        <5>2. prev \in nodes /\ prev + mlength[prev] <= block /\ prev + mlength[prev] # block
          BY <5>1, <4>1, <4>3, <1>1, <1>2, <1>3 DEF joins, Top
        <5>3. a < prev => a + mlength[a] < prev
          BY <5>2, <4>1, <2>1
        <5>4. prev < block /\ start = block
          BY <4>3, <5>2, <1>1, <1>3 DEF start
        <5>5. a \in Int /\ prev \in Int /\ block \in Int
              /\ mlength[a] \in Nat /\ mlength[prev] \in Nat
          BY <5>2, <4>1, <1>1, <1>a
        <5>6. CASE a = prev
          BY <5>2, <5>4, <5>5, <5>6, <4>1, <3>2
        <5>7. CASE a < prev
          BY <5>3, <5>4, <5>5, <5>7, <4>1, <3>2
        <5>8. QED
          BY <5>1, <5>6, <5>7
      <4>4. QED
        BY <4>2, <4>3
    <3>3. CASE a # start /\ b # start
      BY <3>3, <2>1, <2>2, <1>7, <1>9
    <3>4. QED
      BY <3>1, <3>2, <3>3
  <2>3. ASSUME NEW a \in nodes' \cup {List}
        PROVE  /\ mnext'[a] = NULL \/ (mnext'[a] \in nodes' /\ a < mnext'[a])
               /\ \A b \in nodes' : a < b => mnext'[a] \in nodes' /\ mnext'[a] <= b
    <3>a. start = prev \/ start = block
      BY DEF start
    <3>b. \A b \in nodes' : b = start \/ (b \in nodes /\ ~(merges /\ b = next))
      BY <1>9
    <3>c. \A b \in nodes : b # next => b \in nodes'
      BY <1>9
    <3>1. CASE a = start
      <4>1. ASSUME NEW b \in nodes', a < b
            PROVE  b \in nodes /\ next \in nodes /\ next <= b /\ ~(merges /\ b = next)
        <5>1. b \in nodes /\ ~(merges /\ b = next)
          BY <4>1, <3>1, <3>b, <1>6
        <5>2. prev < b
          BY <5>1, <4>1, <3>1, <3>a, <1>1, <1>3
        <5>3. QED
          BY <5>1, <5>2, <1>3
      <4>2. CASE merges
        <5>1. /\ mnext[next] = NULL \/ (mnext[next] \in nodes /\ next < mnext[next])
              /\ \A b \in nodes : next < b => mnext[next] \in nodes /\ mnext[next] <= b
          BY <4>2, <1>5, NextNode
        <5>2. mnext'[a] = mnext[next] /\ start < next
          BY <4>2, <3>1, <1>5, <1>6, <1>8, <1>1
        <5>3. mnext[next] # NULL => mnext[next] \in nodes' /\ a < mnext[next]
          BY <5>1, <5>2, <4>2, <3>1, <3>c, <1>1, <1>5, <1>6
        <5>4. ASSUME NEW b \in nodes', a < b PROVE mnext[next] # NULL /\ mnext[next] <= b
          <6>1. b \in nodes /\ next < b
            <7>1. b \in nodes /\ next <= b /\ b # next
              BY <4>1, <4>2, <5>4
            <7>2. QED
              BY <7>1, <1>a
          <6>2. QED
            BY <6>1, <5>1, <1>1
        <5>5. QED
          BY <5>2, <5>3, <5>4
      <4>3. CASE ~merges
        <5>1. mnext'[a] = next
          BY <4>3, <3>1, <1>8
        <5>2. next # NULL => next \in nodes' /\ a < next
          BY <4>3, <3>1, <3>a, <1>1, <1>3, <1>9
        <5>3. QED
          BY <4>1, <5>1, <5>2, <1>1
      <4>4. QED
        BY <4>2, <4>3
    <3>2. CASE a = prev /\ a # start
      <4>1. mnext'[a] = block /\ start = block /\ block \in nodes' /\ a < block
        BY <3>2, <3>a, <1>1, <1>3, <1>8, <1>10 DEF start
      <4>2. ASSUME NEW b \in nodes', a < b PROVE block <= b
        <5>1. CASE b = start
          BY <5>1, <4>1, <1>1
        <5>2. CASE b \in nodes
          <6>1. next <= b /\ next \in nodes /\ block < next
            BY <5>2, <4>2, <3>2, <1>3
          <6>2. QED
            BY <6>1, <5>2, <1>a
        <5>3. QED
          BY <5>1, <5>2, <3>b
      <4>3. QED
        BY <4>1, <4>2
    <3>3. CASE a # prev /\ a # start
      <4>1. a \in nodes \cup {List} /\ ~(merges /\ a = next)
        BY <3>3, <3>b, <1>5, <1>1
      <4>2. mnext'[a] = mnext[a]
        BY <3>3, <4>1, <1>8
      <4>3. /\ mnext[a] = NULL \/ (mnext[a] \in nodes /\ a < mnext[a])
            /\ \A b \in nodes : a < b => mnext[a] \in nodes /\ mnext[a] <= b
        BY <4>1, NextNode
      <4>4. CASE a < prev
        <5>1. prev \in nodes /\ mnext[a] \in nodes /\ mnext[a] <= prev
          BY <4>1, <4>3, <4>4, <1>1, <1>3
        <5>2. prev <= start /\ (next # NULL => prev < next)
          BY <5>1, <3>a, <1>1, <1>3
        <5>3. mnext[a] \in nodes' /\ a < mnext[a] /\ mnext[a] <= start
          <6>1. mnext[a] # next
            BY <5>1, <5>2, <1>1, <1>a
          <6>b. mnext[a] \in Unit
            BY <5>1, <1>1
          <6>a. mnext[a] # NULL /\ mnext[a] \in Int
            BY <6>b, <1>1
          <6>2. a < mnext[a] /\ mnext[a] \in Int
            BY <6>a, <4>3
          <6>3. QED
            BY <6>1, <6>2, <5>1, <5>2, <3>c, <1>a
        <5>4. \A b \in nodes' : a < b => mnext[a] <= b
          BY <5>3, <4>3, <3>b
        <5>5. QED
          BY <5>3, <5>4, <4>2
      <4>5. CASE prev < a
        <5>1. a \in nodes /\ next \in nodes /\ next <= a /\ start < a
          <6>1. a \in nodes
            BY <4>1, <4>5, <1>1, <1>3
          <6>2. next \in nodes /\ next <= a /\ block < next
            BY <6>1, <4>5, <1>3
          <6>3. QED
            BY <6>1, <6>2, <4>5, <3>a, <1>a
        <5>2. mnext[a] # NULL => mnext[a] \in nodes' /\ a < mnext[a]
          BY <5>1, <4>3, <3>c, <1>1
        <5>3. ASSUME NEW b \in nodes', a < b PROVE mnext[a] # NULL /\ mnext[a] <= b
          <6>1. b \in nodes
            BY <5>1, <5>3, <3>b, <1>1, <1>6
          <6>2. QED
            BY <6>1, <5>3, <4>3, <1>1
        <5>4. QED
          BY <5>2, <5>3, <4>2
      <4>6. QED
        BY <4>4, <4>5, <4>1, <3>3, <1>1, <1>3
    <3>4. QED
      BY <3>1, <3>2, <3>3
  <2>4. ASSUME NEW a \in nodes' \cup {List}
        PROVE  IF \E b \in nodes' : a < b
               THEN mnext'[a] \in nodes' /\ a < mnext'[a] /\ \A b \in nodes' : a < b => mnext'[a] <= b
               ELSE mnext'[a] = NULL
    <3>1. CASE \E b \in nodes' : a < b
      <4>1. mnext'[a] \in nodes'
        BY <3>1, <2>3
      <4>2. mnext'[a] # NULL
        BY <4>1, <1>1, <1>6, <1>9
      <4>3. QED
        BY <3>1, <4>1, <4>2, <2>3
    <3>2. CASE ~ \E b \in nodes' : a < b
      BY <3>2, <2>3
    <3>3. QED
      BY <3>1, <3>2
  <2>5. QED
    BY <2>2, <2>4 DEF FreeList
<1>15. Header'
  <2>1. ASSUME NEW a \in used' PROVE mnext'[a] = a
    <3>1. a \in used /\ a # start /\ a # prev
      BY <1>1, <1>3, <1>10
    <3>2. QED
      BY <3>1, <1>8 DEF IInv, Header
  <2>2. QED
    BY <2>1 DEF Header
<1>16. /\ TotalIsFree'
       /\ mlength'[List] \in Nat
  <2> DEFINE grown == start .. start + mlength'[start] - 1
  <2>a. \A a \in nodes' : Extent(a)' = a .. a + mlength'[a] - 1
    BY DEF Extent
  <2>b. grown = start .. block + n - 1 \cup IF merges THEN Extent(next) ELSE {}
    <3>1. CASE merges
      <4>1. mlength'[start] = size + mlength[next] /\ next = block + n /\ start + size = next
        BY <3>1, <1>5, <1>6, <1>7
      <4>2. Extent(next) = next .. next + mlength[next] - 1
        BY DEF Extent
      <4>3. mlength[next] \in Nat
        BY <3>1, <1>2, <1>5
      <4>4. grown = start .. next + mlength[next] - 1
        <5>1. start + mlength'[start] = next + mlength[next]
          BY <4>1, <4>3, <1>6
        <5>2. start + mlength'[start] - 1 = next + mlength[next] - 1
          BY <5>1, <4>3, <1>11, <1>a
        <5>3. QED
          BY <5>2
      <4>5. start .. next + mlength[next] - 1
              = (start .. block + n - 1) \cup (next .. next + mlength[next] - 1)
        BY <4>1, <4>3, <1>1, <1>6
      <4>6. QED
        BY <4>2, <4>4, <4>5, <3>1
    <3>2. CASE ~merges
      <4>1. start + mlength'[start] = block + n
        BY <3>2, <1>6, <1>7
      <4>2. start + mlength'[start] - 1 = block + n - 1
        BY <4>1, <1>11, <1>a
      <4>3. grown = start .. block + n - 1
        BY <4>2
      <4>4. QED
        BY <4>3, <3>2
    <3>3. QED
      BY <3>1, <3>2
  <2>c. start .. block + n - 1
          = (block .. block + n - 1) \cup IF start \in nodes THEN Extent(start) ELSE {}
    <3>1. CASE start = block
      BY <3>1, <1>1
    <3>2. CASE start # block
      <4>1. start \in nodes /\ start + mlength[start] = block /\ mlength[start] \in Nat
        BY <3>2, <1>2, <1>4 DEF start
      <4>2. start .. block + n - 1 = (block .. block + n - 1) \cup (start .. start + mlength[start] - 1)
        BY <4>1, <1>1, <1>6
      <4>3. QED
        BY <4>1, <4>2 DEF Extent
    <3>3. QED
      BY <3>1, <3>2
  <2>d. \A a \in nodes : Extent(a) \cap (block .. block + n - 1) = {}
    <3> SUFFICES ASSUME NEW a \in nodes
                 PROVE  (a .. a + mlength[a] - 1) \cap (block .. block + n - 1) = {}
      BY DEF Extent
    <3>1. a + mlength[a] <= block \/ block + n <= a
      BY <1>1, <1>2, <1>a DEF n
    <3>2. mlength[a] \in Nat
      BY <1>2
    <3>3. QED
      BY <3>1, <3>2, <1>a
  <2>e. \A a \in nodes' : a # start => a \in nodes /\ Extent(a)' = Extent(a)
    BY <2>a, <1>7, <1>9 DEF Extent
  <2>g. grown \subseteq FreeUnits'
    BY <2>a, <1>10 DEF FreeUnits
  <2>1. FreeUnits' = FreeUnits \cup (block .. block + n - 1)
    <3>1. FreeUnits' \subseteq FreeUnits \cup (block .. block + n - 1)
      <4>1. ASSUME NEW a \in nodes'
            PROVE  Extent(a)' \subseteq FreeUnits \cup (block .. block + n - 1)
        <5>1. CASE a = start
          <6>1. grown \subseteq (block .. block + n - 1)
                  \cup (IF start \in nodes THEN Extent(start) ELSE {})
                  \cup (IF merges THEN Extent(next) ELSE {})
            BY <2>b, <2>c
          <6>2. Extent(a)' = grown
            BY <2>a, <5>1
          <6>3. QED
            BY <6>1, <6>2, <1>5 DEF FreeUnits
        <5>2. CASE a # start
          BY <5>2, <2>e DEF FreeUnits
        <5>3. QED
          BY <5>1, <5>2
      <4>2. QED
        BY <4>1 DEF FreeUnits
    <3>2. block .. block + n - 1 \subseteq FreeUnits'
      <4>1. block .. block + n - 1 \subseteq grown
        BY <2>b, <2>c
      <4>2. QED
        BY <4>1, <2>g DEF FreeUnits
    <3>3. ASSUME NEW a \in nodes PROVE Extent(a) \subseteq FreeUnits'
      <4>1. CASE a = start \/ (merges /\ a = next)
        <5>1. Extent(a) \subseteq grown
          BY <4>1, <2>b, <2>c
        <5>2. QED
          BY <5>1, <2>g DEF FreeUnits
      <4>2. CASE a # start /\ ~(merges /\ a = next)
        BY <4>2, <2>e, <1>9 DEF FreeUnits
      <4>3. QED
        BY <4>1, <4>2
    <3>4. QED
      BY <3>1, <3>2, <3>3 DEF FreeUnits
  <2>f. FreeUnits = FreeUnits' \ (block .. block + n - 1)
    BY <2>1, <2>d DEF FreeUnits
  <2>2. block .. block + n - 1 \subseteq FreeUnits'
    BY <2>1
  <2>3. FreeUnits' \in SUBSET Unit
    BY <1>13 DEF Partition, FreeUnits
  <2>4. /\ Cardinality(FreeUnits') \in Nat
        /\ Cardinality(FreeUnits' \ (block .. block + n - 1)) = Cardinality(FreeUnits') - n
    <3>1. block \in Int /\ n \in Nat
      BY <1>1, <1>6
    <3>2. QED
      BY <2>2, <2>3, <3>1, RunTaken
  <2>5. mlength[List] = Cardinality(FreeUnits') - n
    BY <2>f, <2>4 DEF IInv, TotalIsFree
  <2>6. mlength'[List] = Cardinality(FreeUnits')
    BY <2>4, <2>5, <1>6, <1>7
  <2>7. QED
    BY <2>4, <2>6 DEF TotalIsFree
<1>17. HeapTypeOK'
  <2>1. mnext' \in [Unit \cup {List} -> Unit \cup {NULL}]
    <3>1. next \in Unit \cup {NULL} /\ start \in Unit /\ prev \in Unit \cup {List}
      BY <1>1, <1>3, <1>6
    <3>2. merges => mnext[next] \in Unit \cup {NULL}
      BY <1>1, <1>5
    <3>3. mnext' = [[mnext EXCEPT ![prev] = block]
                           EXCEPT ![start] = IF merges THEN mnext[next] ELSE next]
      BY DEF Insert, start, merges, size, next, joins, n
    <3>4. QED
      BY <3>1, <3>2, <3>3, <1>1
  <2>2. \A x \in Unit \cup {List} : mlength'[x] \in Nat
    <3>1. mlength' = [mlength EXCEPT ![List] = mlength[List] + n,
                                     ![start] = IF merges THEN size + mlength[next] ELSE size]
      BY DEF Insert, start, merges, size, next, joins, n
    <3>2. \A x \in Unit : x # start => mlength'[x] = mlength[x]
      BY <3>1, <1>1
    <3>3. QED
      BY <3>2, <1>1, <1>11, <1>16
  <2>3. mlength' = [x \in Unit \cup {List} |-> mlength'[x]]
    BY <1>1 DEF Insert
  <2>4. nodes' \subseteq Unit /\ used' \subseteq Unit
    BY <1>1, <1>6, <1>9
  <2>5. asked' \in Nat /\ answer' \in Unit \cup {NULL} /\ sem_malloc' \in {0, 1}
    BY DEF IInv, HeapTypeOK, Silent
  <2>6. QED
    BY <2>1, <2>2, <2>3, <2>4, <2>5 DEF HeapTypeOK
<1>18. QED
  BY <1>13, <1>14, <1>15, <1>16, <1>17 DEF IInv

\* Every step keeps the free list, the blocks and the total.
THEOREM HeapStep == IInv /\ [Next]_vars => IInv'
<1> SUFFICES ASSUME IInv, [Next]_vars PROVE IInv'
  OBVIOUS
<1> USE DEF List, NULL
<1>a. ASSUME UNCHANGED <<memory, nodes, used>>, sem_malloc' \in {0, 1}, asked' \in Nat,
             answer' \in Unit \cup {NULL}
      PROVE  IInv'
  <2>1. /\ mnext' = mnext /\ mlength' = mlength /\ nodes' = nodes /\ used' = used
    BY <1>a DEF memory
  <2>2. HeapTypeOK'
    BY <1>a, <2>1 DEF IInv, HeapTypeOK
  <2>3. Partition' /\ FreeList' /\ Header' /\ TotalIsFree'
    BY <2>1 DEF IInv, Partition, FreeList, Header, TotalIsFree, FreeUnits, Extent
  <2>4. QED
    BY <2>2, <2>3 DEF IInv
<1>b. /\ sem_malloc \in {0, 1} /\ asked \in Nat /\ answer \in Unit \cup {NULL}
      /\ used \subseteq Unit
  BY DEF IInv, HeapTypeOK
<1>1. ASSUME NEW caller \in Caller, NEW length \in Requests, Malloc(caller, length) PROVE IInv'
  <2> DEFINE n == roundmb((length + MemblkSize) % Word)
  <2>1. length + MemblkSize \in Nat
    BY LengthAssumption DEF MemblkSize
  <2>2. n \in Nat
    BY <2>1, RoundType
  <2> HIDE DEF n
  <2>3. n # 0 /\ UNCHANGED sem_malloc
    BY <1>1 DEF Malloc, n
  <2>4. PICK prev \in nodes \cup {List}, curr \in nodes :
          /\ FirstFit(prev, curr, n) /\ Take(prev, curr, n) /\ used' = used \cup {curr}
          /\ asked' = n /\ answer' = curr
    BY <1>1 DEF Malloc, n
  <2>5. QED
    BY <2>2, <2>3, <2>4, TakeStep
<1>2. ASSUME NEW caller \in Caller, NEW length \in Requests, MallocFails(caller, length)
      PROVE  IInv'
  <2>1. length + MemblkSize \in Nat
    BY LengthAssumption DEF MemblkSize
  <2>2. roundmb((length + MemblkSize) % Word) \in Nat
    BY <2>1, RoundType
  <2>3. QED
    BY <1>2, <1>a, <2>2 DEF MallocFails
<1>3. ASSUME NEW caller \in Caller, MallocNothing(caller) PROVE IInv'
  BY <1>3, <1>a, <1>b DEF MallocNothing, Silent
<1>4. ASSUME NEW caller \in Caller, NEW block \in used \cup Dead, Free(caller, block) PROVE IInv'
  <2>1. PICK prev \in nodes \cup {List} :
          /\ Before(prev, block)
          /\ ~Overlaps(prev, block, mlength[block])
          /\ Insert(prev, block, mlength[block])
          /\ used' = used \ {block}
    BY <1>4 DEF Free
  <2>2. Silent /\ UNCHANGED sem_malloc /\ mnext[block] = block
    BY <1>4 DEF Free
  <2>3. block \notin Dead
    BY <2>1, <2>2, DeadOverlaps
  <2>4. QED
    BY <2>1, <2>2, <2>3, InsertStep
<1>5. ASSUME NEW caller \in Caller, NEW block \in used \cup Dead, FreeFails(caller, block)
      PROVE  IInv'
  BY <1>5, <1>a, <1>b DEF FreeFails, Silent
<1>6. ASSUME NEW x \in Unit, Write(x) PROVE IInv'
  <2>1. PICK a \in used : x \in Extent(a) /\ x # a
    BY <1>6 DEF Write
  <2>2. /\ mnext \in [Unit \cup {List} -> Unit \cup {NULL}]
        /\ mlength \in [Unit \cup {List} -> Nat]
        /\ nodes \subseteq Unit /\ used \subseteq Unit /\ List \notin Unit
    BY DEF IInv, HeapTypeOK, Unit
  <2>3. \A b \in nodes \cup used : mlength[b] \in Nat /\ mlength[b] > 0 /\ b \in Int
    BY <2>2 DEF IInv, Partition, Unit
  <2>4. x \notin nodes \cup used
    BY <2>1, <2>3 DEF IInv, Partition, Extent
  <2>5. /\ mnext' \in [Unit \cup {List} -> Unit \cup {NULL}]
        /\ mlength' \in [Unit \cup {List} -> Nat]
        /\ \A b \in nodes \cup used \cup {List} : mnext'[b] = mnext[b] /\ mlength'[b] = mlength[b]
    BY <1>6, <2>2, <2>4, LengthAssumption DEF Write
  <2>6. nodes' = nodes /\ used' = used /\ sem_malloc' = sem_malloc /\ asked' = 0 /\ answer' = NULL
    BY <1>6 DEF Write, Silent
  <2>7. HeapTypeOK'
    BY <2>2, <2>5, <2>6, <1>b DEF HeapTypeOK
  <2>8. \A b \in nodes \cup used : Extent(b)' = Extent(b)
    BY <2>5 DEF Extent
  <2>9. FreeUnits' = FreeUnits
    BY <2>6, <2>8 DEF FreeUnits
  <2>10. Partition'
    BY <2>5, <2>6, <2>8 DEF IInv, Partition
  <2>11. FreeList'
    BY <2>5, <2>6 DEF IInv, FreeList
  <2>12. Header' /\ TotalIsFree'
    BY <2>5, <2>6, <2>9 DEF IInv, Header, TotalIsFree
  <2>13. QED
    BY <2>7, <2>10, <2>11, <2>12 DEF IInv
<1>7. CASE UNCHANGED vars
  BY <1>7, <1>a, <1>b DEF vars
<1>8. QED
  BY <1>1, <1>2, <1>3, <1>4, <1>5, <1>6, <1>7 DEF Next

\* The invariant holds in every run.
THEOREM HeapInvariant == Spec => []IInv
  BY HeapInit, HeapStep, PTL DEF Spec

\* Every variable keeps its type; memlist.mlength never wraps around.
THEOREM HeapTypeCorrect == Spec => []HeapTypeOK
<1>1. IInv => HeapTypeOK
  BY DEF IInv
<1>2. QED
  BY HeapInvariant, <1>1, PTL

\* No unit of the heap is ever handed out twice, and none is lost.
THEOREM BlocksPartitionTheHeap == Spec => []Partition
<1>1. IInv => Partition
  BY DEF IInv
<1>2. QED
  BY HeapInvariant, <1>1, PTL

\* The free list stays sorted, complete and joined.
THEOREM FreeListCorrect == Spec => []FreeList
<1>1. IInv => FreeList
  BY DEF IInv
<1>2. QED
  BY HeapInvariant, <1>1, PTL

\* memlist.mlength and heap_free agree.
THEOREM TotalCorrect == Spec => []TotalIsFree
<1>1. IInv => TotalIsFree
  BY DEF IInv
<1>2. QED
  BY HeapInvariant, <1>1, PTL

\* What is freed a second time is left alone.
THEOREM FreedAgainIsHarmless == Spec => FreeAgainIsHarmless
<1>1. ASSUME IInv, NEW block \in Dead, NEW caller \in Caller, Free(caller, block)
      PROVE  FALSE
  BY <1>1, DeadOverlaps DEF Free
<1>2. IInv => \A block \in Dead, caller \in Caller :
                Free(caller, block) => UNCHANGED <<memory, nodes, used>>
  BY <1>1
<1>3. QED
  BY HeapInvariant, <1>2, PTL DEF FreeAgainIsHarmless

\* What is in use can be given back.
THEOREM UsedIsFreeable == Spec => []Freeable
<1> USE DEF List, NULL, Unit
<1>1. ASSUME IInv, NEW a \in used
      PROVE  mnext[a] = a /\ mlength[a] # 0
  BY <1>1 DEF IInv, Header, Partition
<1>2. ASSUME IInv, NEW a \in used, NEW prev \in nodes \cup {List}, Before(prev, a)
      PROVE  ~Overlaps(prev, a, mlength[a])
  <2>1. /\ nodes \subseteq Unit /\ used \subseteq Unit /\ a \notin nodes
        /\ \A b, c \in nodes \cup used : b < c => b + mlength[b] <= c
    BY <1>2 DEF IInv, HeapTypeOK, Partition
  <2>2. prev = List \/ (prev \in nodes /\ prev < a)
    BY <1>2 DEF Before
  <2>3. mnext[prev] = NULL \/ (mnext[prev] \in nodes /\ a <= mnext[prev] /\ mnext[prev] # a)
    <3>1. mnext[prev] = NULL \/ mnext[prev] \in nodes
      BY <1>2, NextNode
    <3>2. QED
      BY <3>1, <2>1, <1>2 DEF Before
  <2>4. prev # List => ~(a < Top(prev))
    <3>1. prev # List => prev + mlength[prev] <= a
      BY <2>1, <2>2
    <3>2. prev # List => mlength[prev] \in Int
      BY <1>2 DEF IInv, HeapTypeOK
    <3>3. QED
      BY <3>1, <3>2, <2>1, <2>2 DEF Top
  <2>5. ASSUME mnext[prev] # NULL PROVE ~(a + mlength[a] > mnext[prev])
    <3>1. mnext[prev] \in nodes /\ a <= mnext[prev] /\ mnext[prev] # a
      BY <2>3, <2>5
    <3>2. a \in Int /\ mnext[prev] \in Int
      <4>1. \A b \in nodes \cup used : b \in Int
        BY <2>1, UnitsAssumption
      <4>2. QED
        BY <3>1, <4>1
    <3>3. a < mnext[prev]
      BY <3>1, <3>2
    <3>4. a + mlength[a] <= mnext[prev]
      BY <2>1, <3>1, <3>3
    <3>5. mlength[a] \in Int
      BY <1>2, <2>1 DEF IInv, HeapTypeOK
    <3>6. QED
      BY <3>2, <3>4, <3>5
  <2>6. QED
    BY <2>4, <2>5 DEF Overlaps
<1>3. IInv => Freeable
  BY <1>1, <1>2 DEF Freeable
<1>4. QED
  BY HeapInvariant, <1>3, PTL

-----------------------------------------------------------------------------
(* The free list implements Allocator.                                     *)

\* The owner of a unit is the block that it is part of.
LEMMA OwnerIs ==
  ASSUME IInv, NEW x \in Unit
  PROVE  /\ \A a \in used : x \in Extent(a) => Owner(x) = a
         /\ (\A a \in used : x \notin Extent(a)) => Owner(x) = NULL
<1>1. \A a, b \in used : x \in Extent(a) /\ x \in Extent(b) => a = b
  BY DEF IInv, HeapTypeOK, Partition, Extent, Unit
<1>2. QED
  BY <1>1 DEF Owner

\* The same in the state after a step.
LEMMA OwnerWillBe ==
  ASSUME IInv', NEW x \in Unit
  PROVE  /\ \A a \in used' : x \in Extent(a)' => Owner(x)' = a
         /\ (\A a \in used' : x \notin Extent(a)') => Owner(x)' = NULL
<1>1. \A a, b \in used' : x \in Extent(a)' /\ x \in Extent(b)' => a = b
  BY DEF IInv, HeapTypeOK, Partition, Extent, Unit
<1>2. QED
  BY <1>1 DEF Owner

\* A step that keeps the blocks in use and their lengths keeps the owners.
LEMMA OwnersKept ==
  ASSUME IInv, IInv', used' = used, \A a \in used : mlength'[a] = mlength[a]
  PROVE  \A x \in Unit : Owner(x)' = Owner(x)
<1> SUFFICES ASSUME NEW x \in Unit PROVE Owner(x)' = Owner(x)
  OBVIOUS
<1>1. \A a \in used : Extent(a)' = Extent(a)
  BY DEF Extent
<1>2. CASE \E a \in used : x \in Extent(a)
  <2>1. PICK a \in used : x \in Extent(a)
    BY <1>2
  <2>2. Owner(x) = a
    BY <2>1, OwnerIs
  <2>3. Owner(x)' = a
    BY <2>1, <1>1, OwnerWillBe
  <2>4. QED
    BY <2>2, <2>3
<1>3. CASE \A a \in used : x \notin Extent(a)
  <2>1. Owner(x) = NULL
    BY <1>3, OwnerIs
  <2>2. Owner(x)' = NULL
    BY <1>3, <1>1, OwnerWillBe
  <2>3. QED
    BY <2>1, <2>2
<1>4. QED
  BY <1>2, <1>3

\* Units that nobody owns and that follow each other are part of one node.
LEMMA RunInOneNode ==
  ASSUME IInv, NEW n \in Nat \ {0}, NEW first \in Unit,
         \A x \in first .. first + n - 1 : x \in Unit /\ Owner(x) = NULL
  PROVE  Fits(n) # {}
<1> USE DEF Unit, NULL
<1>1. /\ nodes \subseteq Unit /\ used \subseteq Unit /\ Units \in Nat
      /\ \A a \in nodes \cup used : mlength[a] \in Nat
      /\ \A b, c \in nodes : b < c => b + mlength[b] < c
  BY UnitsAssumption DEF IInv, HeapTypeOK, FreeList
<1>2. ASSUME NEW x \in first .. first + n - 1
      PROVE  \E c \in nodes : c <= x /\ x < c + mlength[c]
  <2>1. x \in Unit /\ Owner(x) = NULL
    OBVIOUS
  <2>2. \A a \in used : x \notin Extent(a)
    <3>1. ASSUME NEW a \in used, x \in Extent(a) PROVE FALSE
      <4>1. Owner(x) = a
        BY <2>1, <3>1, OwnerIs
      <4>2. QED
        BY <4>1, <2>1, <1>1
    <3>2. QED
      BY <3>1
  <2>3. PICK c \in nodes : x \in Extent(c)
    BY <2>1, <2>2 DEF IInv, Partition
  <2>4. QED
    BY <2>3, <1>1 DEF Extent
<1>3. PICK c \in nodes : c <= first /\ first < c + mlength[c]
  BY <1>2
<1>4. first + n - 1 < c + mlength[c]
  <2> SUFFICES ASSUME c + mlength[c] <= first + n - 1 PROVE FALSE
    BY <1>1
  <2> DEFINE y == c + mlength[c]
  <2>1. y \in first .. first + n - 1
    BY <1>1, <1>3
  <2>2. PICK d \in nodes : d <= y /\ y < d + mlength[d]
    BY <2>1, <1>2
  <2>3. c < d => FALSE
    BY <2>2, <1>1
  <2>4. d < c => FALSE
    BY <2>2, <1>1
  <2>5. QED
    BY <2>2, <2>3, <2>4, <1>1
<1>5. n <= mlength[c]
  BY <1>1, <1>3, <1>4
<1>6. QED
  BY <1>5, <1>1 DEF Fits

\* The block that getmem takes has the length that was asked for.
LEMMA TakenLength ==
  ASSUME IInv, NEW n \in Nat \ {0}, NEW prev \in nodes \cup {List}, NEW curr \in nodes,
         Take(prev, curr, n)
  PROVE  mlength'[curr] = n
<1> USE DEF List, NULL, Unit
<1>1. nodes \subseteq Unit /\ mlength \in [Unit \cup {List} -> Nat] /\ Units \in Nat
  BY UnitsAssumption DEF IInv, HeapTypeOK
<1>2. curr \in Unit \cup {List} /\ curr # List
  BY <1>1
<1>3. QED
  BY <1>1, <1>2 DEF Take

\* malloc hands out a run of units that nobody owns.
LEMMA MallocGrabs ==
  ASSUME IInv, IInv', NEW caller \in Caller, NEW length \in Requests, Malloc(caller, length)
  PROVE  \E first \in Unit : A!Grab(first)
<1> USE DEF Unit, NULL, List
<1> DEFINE n == roundmb((length + MemblkSize) % Word)
<1>1. n \in Nat \ {0}
  <2>1. length + MemblkSize \in Nat
    BY LengthAssumption DEF MemblkSize
  <2>2. n \in Nat
    BY <2>1, RoundType
  <2>3. n # 0
    BY DEF Malloc
  <2>4. QED
    BY <2>2, <2>3
<1> HIDE DEF n
<1>2. PICK prev \in nodes \cup {List}, curr \in nodes :
        /\ FirstFit(prev, curr, n) /\ Take(prev, curr, n) /\ used' = used \cup {curr}
        /\ asked' = n /\ answer' = curr
  BY DEF Malloc, n
<1>3. /\ curr \in Unit /\ mlength[curr] >= n /\ curr + mlength[curr] - 1 \in Unit
      /\ mlength[curr] \in Nat /\ Units \in Nat
      /\ \A a \in used : a \in Unit /\ mlength[a] \in Nat /\ a # curr
  BY <1>1, <1>2, UnitsAssumption DEF IInv, HeapTypeOK, Partition, Extent, FirstFit, Fits
<1>4. mlength'[curr] = n
  BY <1>1, <1>2, TakenLength
<1>5. \A a \in used : mlength'[a] = mlength[a]
  <2>1. mlength[curr] > n => curr + n \in Extent(curr)
    BY <1>1, <1>3 DEF Extent
  <2>2. \A a \in used : a # curr + n \/ ~(mlength[curr] > n)
    BY <2>1, <1>2, <1>3 DEF IInv, Partition, Extent
  <2>3. QED
    BY <2>2, <1>2, <1>3 DEF Take
<1>6. Extent(curr)' = curr .. curr + n - 1
  <2>1. Extent(curr)' = curr .. curr + mlength'[curr] - 1
    BY DEF Extent
  <2>2. QED
    BY <2>1, <1>4
<1>7. ASSUME NEW x \in curr .. curr + n - 1 PROVE x \in Unit /\ Owner(x) = NULL
  <2>1. x \in Unit /\ x \in Extent(curr)
    BY <1>1, <1>3 DEF Extent
  <2>2. \A a \in used : x \notin Extent(a)
    BY <2>1, <1>2, <1>3 DEF IInv, Partition, Extent
  <2>3. QED
    BY <2>1, <2>2, OwnerIs
<1>8. ASSUME NEW x \in Unit
      PROVE  Owner(x)' = IF x \in curr .. curr + n - 1 THEN curr ELSE Owner(x)
  <2>1. CASE x \in curr .. curr + n - 1
    BY <2>1, <1>2, <1>6, OwnerWillBe
  <2>2. CASE x \notin curr .. curr + n - 1
    <3>1. \A a \in used : Extent(a)' = Extent(a)
      BY <1>5 DEF Extent
    <3>2. CASE \E a \in used : x \in Extent(a)
      <4>1. PICK a \in used : x \in Extent(a)
        BY <3>2
      <4>2. Owner(x)' = a /\ Owner(x) = a
        BY <4>1, <3>1, <1>2, OwnerIs, OwnerWillBe
      <4>3. QED
        BY <4>2, <2>2
    <3>3. CASE \A a \in used : x \notin Extent(a)
      <4>1. \A a \in used' : x \notin Extent(a)'
        BY <3>1, <3>3, <2>2, <1>2, <1>6
      <4>2. Owner(x)' = NULL /\ Owner(x) = NULL
        BY <4>1, <3>3, OwnerIs, OwnerWillBe
      <4>3. QED
        BY <4>2, <2>2
    <3>4. QED
      BY <3>2, <3>3
  <2>3. QED
    BY <2>1, <2>2
<1>9. A!FreeRun(curr, asked')
  BY <1>2, <1>7 DEF A!FreeRun, A!Run, A!Unit, A!Nobody
<1>10. asked' \in A!Unit
  BY <1>1, <1>2, <1>3 DEF A!Unit
<1>11. A!Grab(curr)
  BY <1>2, <1>8, <1>9, <1>10 DEF A!Grab, A!Run, A!Unit
<1>12. QED
  BY <1>3, <1>11

\* malloc gives up only when no run that nobody owns is long enough.
LEMMA MallocRefuses ==
  ASSUME IInv, IInv', NEW caller \in Caller, NEW length \in Requests,
         MallocFails(caller, length)
  PROVE  A!Refuse
<1> DEFINE n == roundmb((length + MemblkSize) % Word)
<1>1. n \in Nat
  <2>1. length + MemblkSize \in Nat
    BY LengthAssumption DEF MemblkSize
  <2>2. QED
    BY <2>1, RoundType
<1> HIDE DEF n
<1>2. /\ asked' = n /\ answer' = NULL /\ used' = used /\ mlength' = mlength
      /\ n = 0 \/ Fits(n) = {}
  BY DEF MallocFails, memory, n
<1>3. \A x \in Unit : Owner(x)' = Owner(x)
  BY <1>2, OwnersKept
<1>4. ASSUME n # 0, NEW first \in Unit, A!FreeRun(first, n) PROVE FALSE
  <2>1. \A x \in first .. first + n - 1 : x \in Unit /\ Owner(x) = NULL
    BY <1>4 DEF A!FreeRun, A!Run, A!Unit, A!Nobody, Unit, NULL
  <2>2. QED
    BY <2>1, <1>1, <1>2, <1>4, RunInOneNode
<1>5. QED
  BY <1>2, <1>3, <1>4 DEF A!Refuse, A!Nobody, A!Unit, Unit, NULL

\* free gives back the units of the block and no others.
LEMMA FreeReleases ==
  ASSUME IInv, IInv', NEW caller \in Caller, NEW block \in used, Free(caller, block)
  PROVE  A!Release(block)
<1> USE DEF Unit, NULL, List
<1>1. /\ used' = used \ {block} /\ asked' = 0 /\ answer' = NULL
      /\ used \subseteq Unit
  BY DEF Free, Silent, IInv, HeapTypeOK
<1>2. PICK prev \in nodes \cup {List} : Insert(prev, block, mlength[block])
  BY DEF Free
<1>3. \A a \in used \ {block} : mlength'[a] = mlength[a]
  BY <1>1, <1>2 DEF Insert, IInv, HeapTypeOK, Partition
<1>4. \A a \in used \ {block} : Extent(a)' = Extent(a)
  BY <1>3 DEF Extent
<1>5. ASSUME NEW x \in Unit
      PROVE  Owner(x)' = IF Owner(x) = block THEN NULL ELSE Owner(x)
  <2>1. CASE \E a \in used : x \in Extent(a)
    <3>1. PICK a \in used : x \in Extent(a)
      BY <2>1
    <3>2. Owner(x) = a
      BY <3>1, OwnerIs
    <3>3. CASE a = block
      <4>1. \A b \in used' : x \notin Extent(b)'
        BY <1>1, <1>4, <3>1, <3>2, <3>3, OwnerIs
      <4>2. QED
        BY <4>1, <3>2, <3>3, OwnerWillBe
    <3>4. CASE a # block
      <4>1. a \in used' /\ x \in Extent(a)'
        BY <1>1, <1>4, <3>1, <3>4
      <4>2. QED
        BY <4>1, <3>2, <3>4, OwnerWillBe
    <3>5. QED
      BY <3>3, <3>4
  <2>2. CASE \A a \in used : x \notin Extent(a)
    <3>1. Owner(x) = NULL /\ block # NULL
      BY <2>2, <1>1, OwnerIs
    <3>2. \A a \in used' : x \notin Extent(a)'
      BY <2>2, <1>1, <1>4
    <3>3. Owner(x)' = NULL
      BY <3>2, OwnerWillBe
    <3>4. QED
      BY <3>1, <3>3
  <2>3. QED
    BY <2>1, <2>2
<1>6. QED
  BY <1>1, <1>5 DEF A!Release, A!Unit, A!Nobody

\* Every step of the heap is a step of the Allocator, or none that its callers see.
LEMMA AllocatorStep ==
  ASSUME IInv, IInv', [Next]_vars
  PROVE  [A!Next]_<<[x \in Unit |-> Owner(x)], asked, answer>>
<1> DEFINE sees == <<[x \in Unit |-> Owner(x)], asked, answer>>
<1>a. ASSUME used' = used, \A a \in used : mlength'[a] = mlength[a], Silent
      PROVE  A!Refuse
  <2>1. \A x \in Unit : Owner(x)' = Owner(x)
    BY <1>a, OwnersKept
  <2>2. QED
    BY <1>a, <2>1 DEF A!Refuse, A!Nobody, Silent, NULL
<1>1. ASSUME NEW caller \in Caller, NEW length \in Requests, Malloc(caller, length)
      PROVE  A!Next
  BY <1>1, MallocGrabs DEF A!Next, A!Unit, Unit
<1>2. ASSUME NEW caller \in Caller, NEW length \in Requests, MallocFails(caller, length)
      PROVE  A!Next
  BY <1>2, MallocRefuses DEF A!Next
<1>3. ASSUME NEW caller \in Caller, MallocNothing(caller) PROVE A!Next
  BY <1>3, <1>a DEF A!Next, MallocNothing, memory
<1>4. ASSUME NEW caller \in Caller, NEW block \in used \cup Dead, Free(caller, block)
      PROVE  A!Next
  <2>1. block \in used
    BY <1>4, DeadOverlaps DEF Free
  <2>2. block \in Unit
    BY <2>1 DEF IInv, HeapTypeOK
  <2>3. QED
    BY <1>4, <2>1, <2>2, FreeReleases DEF A!Next, A!Unit, Unit
<1>5. ASSUME NEW caller \in Caller, NEW block \in used \cup Dead, FreeFails(caller, block)
      PROVE  A!Next
  BY <1>5, <1>a DEF A!Next, FreeFails, memory
<1>6. ASSUME NEW x \in Unit, Write(x) PROVE A!Next
  <2>1. PICK a \in used : x \in Extent(a) /\ x # a
    BY <1>6 DEF Write
  <2>2. x \notin used
    BY <2>1, UnitsAssumption DEF IInv, HeapTypeOK, Partition, Extent, Unit
  <2>3. \A b \in used : mlength'[b] = mlength[b]
    BY <1>6, <2>2 DEF Write, IInv, HeapTypeOK
  <2>4. QED
    BY <1>6, <1>a, <2>3 DEF A!Next, Write
<1>7. CASE UNCHANGED vars
  <2>1. used' = used /\ mlength' = mlength /\ asked' = asked /\ answer' = answer
    BY <1>7 DEF vars, memory
  <2>2. \A x \in Unit : Owner(x)' = Owner(x)
    BY <2>1, OwnersKept
  <2>3. QED
    BY <2>1, <2>2
<1>8. QED
  BY <1>1, <1>2, <1>3, <1>4, <1>5, <1>6, <1>7 DEF Next

\* The free list implements the Allocator: what malloc hands out belongs to nobody
\* else until it is freed, and a request is refused only when no run of free units
\* is long enough.
THEOREM HeapImplementsAllocator == Spec => AllocatorSpec
<1>1. Init => A!Init
  <2> SUFFICES ASSUME Init PROVE A!Init
    OBVIOUS
  <2>1. \A x \in Unit : Owner(x) = NULL
    BY DEF Init, Owner
  <2>2. QED
    BY <2>1 DEF Init, Silent, A!Init, A!Nobody, A!Unit, Unit, NULL
<1>2. IInv /\ IInv' /\ [Next]_vars => [A!Next]_<<[x \in Unit |-> Owner(x)], asked, answer>>
  BY AllocatorStep
<1>3. QED
  BY <1>1, <1>2, HeapInvariant, PTL DEF Spec, AllocatorSpec, A!Spec
=============================================================================
