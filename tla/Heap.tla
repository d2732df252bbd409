-------------------------------- MODULE Heap --------------------------------
(***************************************************************************)
(* library/malloc.c: the free list that getmem and freemem keep inside the *)
(* heap itself, and the header that malloc puts in front of a block.       *)
(*                                                                         *)
(* Memory is counted in units of sizeof(struct memblk), 8 bytes, to which  *)
(* roundmb rounds every length; unit x of the heap is also the struct      *)
(* memblk at its address.  A call is one action: sem_malloc keeps threads  *)
(* apart (Kernel), and a call made in a handler runs to its end.  What it  *)
(* may find half done when it overruns a thread is not modelled.           *)
(***************************************************************************)
EXTENDS Integers, FiniteSets

CONSTANTS
  Units,      \* the size of the heap: maxheap - minheap
  Word,       \* lengths are counted modulo Word, 2^32 in the code
  Requests,   \* what callers ask malloc for, in bytes
  Written     \* what callers write into their blocks where mlength would be

ASSUME UnitsAssumption == Units \in Nat \ {0}
MemblkSize == 8   \* sizeof(struct memblk)

\* No request is so near the end of the numbers that roundmb takes it to 0: getmem
\* would hand out a node of the free list and leave it there.
ASSUME LengthAssumption ==
  /\ Word \in Nat \ {0} /\ Requests \subseteq Nat /\ Written \subseteq Nat
  /\ \A length \in Requests : (length + MemblkSize) % Word <= Word - MemblkSize

Unit == 1 .. Units
NULL == 0
List == -1        \* &memlist

VARIABLES
  mnext, mlength,   \* the fields of memlist and of the struct memblk at each unit
  sem_malloc,       \* the value of the semaphore
  nodes, used,      \* the blocks on the free list, and those malloc has handed out
  asked, answer     \* what the last call asked malloc for, in units, and what it got

memory == <<mnext, mlength>>
vars == <<memory, sem_malloc, nodes, used, asked, answer>>

\* A step that is no call of malloc.
Silent == asked' = 0 /\ answer' = NULL

\* meminit: one node.  What the rest of the memory holds is never looked at.
Init ==
  /\ mnext = [x \in Unit \cup {List} |-> IF x = List THEN 1 ELSE NULL]
  /\ mlength = [x \in Unit \cup {List} |-> IF x \in {List, 1} THEN Units ELSE 0]
  /\ sem_malloc = 1
  /\ nodes = {1} /\ used = {}
  /\ asked = 0 /\ answer = NULL

Extent(a) == a .. a + mlength[a] - 1
roundmb(bytes) == ((bytes + MemblkSize - 1) % Word) \div MemblkSize

\* sem_wait: a thread waits for sem_malloc, a supervisor call goes on without it, and
\* both leave it as they found it (HeapEnter, HeapLeave and Section of Kernel).
Caller == {"thread", "svc"}
Enter(caller) == sem_malloc = 1 \/ caller = "svc"

-----------------------------------------------------------------------------
(* malloc.                                                                 *)

\* Mutants of Fits: one unit too short; no exact match.
ShortFits(n) == {c \in nodes : mlength[c] + 1 >= n}
LongerFits(n) == {c \in nodes : mlength[c] > n}

Fits(n) == {c \in nodes : mlength[c] >= n}

\* The walk of getmem stops at the first node that is long enough.
FirstFit(prev, curr, n) ==
  /\ mnext[prev] = curr
  /\ curr \in Fits(n) /\ \A c \in Fits(n) : curr <= c

\* getmem unlinks curr, or links what is left of it in its place; malloc adds the header.
Take(prev, curr, n) ==
  LET split == mlength[curr] > n
      leftover == curr + n
      after == mnext[curr] IN
  /\ mnext' = [x \in Unit \cup {List} |->
                 CASE x = prev -> IF split THEN leftover ELSE after
                   [] x = curr -> curr
                   [] split /\ x = leftover -> after
                   [] OTHER -> mnext[x]]
  /\ mlength' = [x \in Unit \cup {List} |->
                   CASE x = List -> mlength[List] - n
                     [] x = curr -> n
                     [] split /\ x = leftover -> mlength[curr] - n
                     [] OTHER -> mlength[x]]
  /\ nodes' = (nodes \ {curr}) \cup IF split THEN {leftover} ELSE {}

Malloc(caller, length) ==
  LET n == roundmb((length + MemblkSize) % Word) IN
  /\ Enter(caller) /\ length # 0 /\ n # 0
  /\ \E prev \in nodes \cup {List}, curr \in nodes :
       /\ FirstFit(prev, curr, n)
       /\ Take(prev, curr, n)
       /\ used' = used \cup {curr}
       /\ asked' = n /\ answer' = curr
  /\ UNCHANGED sem_malloc

\* SYSERR from getmem, for a length that wraps to 0 as well: malloc returns without
\* sem_signal.
MallocFails(caller, length) ==
  LET n == roundmb((length + MemblkSize) % Word) IN
  /\ Enter(caller) /\ length # 0
  /\ n = 0 \/ Fits(n) = {}
  /\ asked' = n /\ answer' = NULL
  /\ sem_malloc' = 0
  /\ UNCHANGED <<memory, nodes, used>>

MallocNothing(caller) ==
  /\ Enter(caller)
  /\ Silent
  /\ UNCHANGED <<memory, sem_malloc, nodes, used>>

-----------------------------------------------------------------------------
(* free.                                                                   *)

\* The walk of freemem stops in front of the first node that is not below block.
Before(prev, block) ==
  /\ prev = List \/ prev < block
  /\ mnext[prev] = NULL \/ mnext[prev] >= block

Top(prev) == IF prev = List THEN NULL ELSE prev + mlength[prev]

\* Mutants of Overlaps: the node in front is not looked at; the one behind may not touch.
OverlapsNext(prev, block, n) == mnext[prev] # NULL /\ block + n > mnext[prev]
OverlapsTouching(prev, block, n) ==
  \/ prev # List /\ block < Top(prev)
  \/ mnext[prev] # NULL /\ block + n >= mnext[prev]

\* "Ensure new block does not overlap previous or next blocks".
Overlaps(prev, block, n) ==
  \/ prev # List /\ block < Top(prev)
  \/ mnext[prev] # NULL /\ block + n > mnext[prev]

\* Mutants of Insert: the node behind is never joined; memlist.mlength stays.
NeverMerges(prev, block, n) ==
  LET joins == Top(prev) = block
      start == IF joins THEN prev ELSE block IN
  /\ mnext' = [[mnext EXCEPT ![prev] = block] EXCEPT ![start] = mnext[prev]]
  /\ mlength' = [mlength EXCEPT ![List] = @ + n,
                                ![start] = IF joins THEN mlength[prev] + n ELSE n]
  /\ nodes' = nodes \cup {start}
KeepsTotal(prev, block, n) ==
  /\ mnext' = [mnext EXCEPT ![prev] = block, ![block] = mnext[prev]]
  /\ mlength' = [mlength EXCEPT ![block] = n]
  /\ nodes' = nodes \cup {block}

\* The block joins the node in front of it, becomes a node, or joins the one behind it.
Insert(prev, block, n) ==
  LET next == mnext[prev]
      joins == Top(prev) = block
      start == IF joins THEN prev ELSE block
      length == IF joins THEN mlength[prev] + n ELSE n
      merges == start + length = next IN
  /\ mnext' = [[mnext EXCEPT ![prev] = block]
                      EXCEPT ![start] = IF merges THEN mnext[next] ELSE next]
  /\ mlength' = [mlength EXCEPT ![List] = @ + n,
                                ![start] = IF merges THEN length + mlength[next] ELSE length]
  /\ nodes' = (nodes \cup {start}) \ IF merges THEN {next} ELSE {}

\* The pointers a correct caller may pass: blocks in use, and blocks freed before
\* (kill frees the stack of a slot that is free already) whose memory nobody owns.
Dead == {x \in Unit : \A a \in used : x \notin Extent(a)}

Free(caller, block) ==
  /\ Enter(caller) /\ mnext[block] = block
  /\ \E prev \in nodes \cup {List} :
       /\ Before(prev, block)
       /\ mlength[block] # 0 /\ ~Overlaps(prev, block, mlength[block])
       /\ Insert(prev, block, mlength[block])
       /\ used' = used \ {block}
  /\ Silent
  /\ UNCHANGED sem_malloc

\* No header in front of the block, or freemem answers SYSERR.
FreeFails(caller, block) ==
  /\ Enter(caller)
  /\ \/ mnext[block] # block
     \/ mlength[block] = 0
     \/ \E prev \in nodes \cup {List} :
          Before(prev, block) /\ Overlaps(prev, block, mlength[block])
  /\ Silent
  /\ UNCHANGED <<memory, sem_malloc, nodes, used>>

\* The owner of a block writes its payload: worst of all, what looks like a header.
Write(x) ==
  /\ \E a \in used : x \in Extent(a) \ {a}
  /\ mnext' = [mnext EXCEPT ![x] = x]
  /\ \E n \in Written : mlength' = [mlength EXCEPT ![x] = n]
  /\ Silent
  /\ UNCHANGED <<sem_malloc, nodes, used>>

Next ==
  \/ \E caller \in Caller :
       \/ \E length \in Requests : Malloc(caller, length) \/ MallocFails(caller, length)
       \/ MallocNothing(caller)
       \/ \E block \in used \cup Dead : Free(caller, block) \/ FreeFails(caller, block)
  \/ \E x \in Unit : Write(x)

Spec == Init /\ [][Next]_vars

-----------------------------------------------------------------------------
(* Properties.                                                             *)

\* Every variable has its type.
HeapTypeOK ==
  /\ mnext \in [Unit \cup {List} -> Unit \cup {NULL}]
  /\ mlength \in [Unit \cup {List} -> Nat]
  /\ sem_malloc \in {0, 1}
  /\ nodes \subseteq Unit /\ used \subseteq Unit
  /\ asked \in Nat /\ answer \in Unit \cup {NULL}

\* Each unit of the heap is part of one block, on the free list or in use: none is
\* handed out twice and none is lost, whatever was split and joined before.
Partition ==
  /\ nodes \cap used = {}
  /\ \A a \in nodes \cup used : mlength[a] > 0 /\ Extent(a) \subseteq Unit
  /\ \A a, b \in nodes \cup used : a < b => a + mlength[a] <= b
  /\ \A x \in Unit : \E a \in nodes \cup used : x \in Extent(a)

\* The free list has every node, in the order of the addresses, and neighbours have
\* been joined.
FreeList ==
  /\ \A a \in nodes \cup {List} :
       IF \E b \in nodes : a < b
       THEN mnext[a] \in nodes /\ a < mnext[a] /\ \A b \in nodes : a < b => mnext[a] <= b
       ELSE mnext[a] = NULL
  /\ \A a, b \in nodes : a < b => a + mlength[a] < b

FreeUnits == UNION {Extent(a) : a \in nodes}

\* memlist.mlength, which no loop ever reads, is the sum that heap_free computes.
TotalIsFree == mlength[List] = Cardinality(FreeUnits)

\* A block in use can be freed: its header is intact, and freemem finds no overlap.
Freeable ==
  \A a \in used :
    /\ mnext[a] = a /\ mlength[a] # 0
    /\ \A prev \in nodes \cup {List} : Before(prev, a) => ~Overlaps(prev, a, mlength[a])

\* A pointer that is freed again, its memory not yet owned by anybody else, never
\* changes the heap, whatever an old owner left behind in it.
FreeAgainIsHarmless ==
  [][\A block \in Dead, caller \in Caller :
       Free(caller, block) => UNCHANGED <<memory, nodes, used>>]_vars

\* Seen by its callers the heap is an Allocator.
Owner(x) == IF \E a \in used : x \in Extent(a)
            THEN CHOOSE a \in used : x \in Extent(a) ELSE NULL
A == INSTANCE Allocator WITH owner <- [x \in Unit |-> Owner(x)]
AllocatorSpec == A!Spec
=============================================================================
