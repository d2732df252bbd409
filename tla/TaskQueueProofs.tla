---------------------------- MODULE TaskQueueProofs ----------------------------
(***************************************************************************)
(* The lists of queue.c, proved for every number of tasks: the pointers    *)
(* implement the sequences of TaskLists, every list ends, and last points  *)
(* to its end.                                                             *)
(*                                                                         *)
(* The proof keeps a sequence beside the pointers of each list (Chain) and *)
(* follows both through queue_push, queue_pop and queue_pushsort; Items,   *)
(* which walks the pointers, finds that sequence again.                    *)
(***************************************************************************)
EXTENDS TaskQueue, SequenceTheorems, FiniteSetTheorems, FunctionTheorems,
        WellFoundedInduction, NaturalsInduction, TLAPS

-----------------------------------------------------------------------------
(* Pointers and sequences.                                                 *)

Memory == [first : [Queue -> Task \cup {NULL}], last : [Queue -> Task \cup {NULL}],
           next : [Task -> Task \cup {NULL}]]

\* The i-th task of a sequence, and the null pointer behind its end.
Nth(s, i) == IF i \in 1 .. Len(s) THEN s[i] ELSE NULL

\* The pointers of q link the tasks of s, in this order, none of them twice.
Chain(m, q, s) ==
  /\ s \in Seq(Task)
  /\ \A i, j \in 1 .. Len(s) : s[i] = s[j] => i = j
  /\ m.first[q] = Nth(s, 1)
  /\ \A i \in 1 .. Len(s) : m.next[s[i]] = Nth(s, i + 1)
  /\ Len(s) > 0 => m.last[q] = s[Len(s)]

\* No task is on s and on r.
Apart(s, r) == \A i \in 1 .. Len(s), j \in 1 .. Len(r) : s[i] # r[j]

\* The task t is not on s.
NotOn(t, s) == \A i \in 1 .. Len(s) : s[i] # t

\* L[q] is the sequence that the pointers of q link; a task is on one list at most.
Linked(m, L) ==
  /\ m \in Memory /\ L \in [Queue -> Seq(Task)]
  /\ \A q \in Queue : Chain(m, q, L[q])
  /\ \A p, q \in Queue : p # q => Apart(L[p], L[q])

\* The null pointer is no task.
LEMMA NullIsNoTask == NULL \notin Task
BY NullAssumption DEF Task

\* What a chain says of its list.
LEMMA ChainBasics ==
  ASSUME NEW m, NEW q, NEW s, Chain(m, q, s)
  PROVE  /\ s \in Seq(Task) /\ Len(s) \in Nat /\ DOMAIN s = 1 .. Len(s)
         /\ \A i \in 1 .. Len(s) : s[i] \in Task
         /\ m.first[q] = NULL <=> Len(s) = 0
         /\ Len(s) > 0 => m.first[q] = s[1] /\ m.first[q] \in Task
         /\ Len(s) > 0 => m.last[q] = s[Len(s)] /\ m.last[q] \in Task
<1>1. s \in Seq(Task)
  BY DEF Chain
<1>2. Len(s) \in Nat /\ DOMAIN s = 1 .. Len(s) /\ \A i \in 1 .. Len(s) : s[i] \in Task
  BY <1>1, LenProperties, ElementOfSeq
<1>3. m.first[q] = Nth(s, 1) /\ (Len(s) > 0 => m.last[q] = s[Len(s)])
  BY DEF Chain
<1>4. Len(s) > 0 => m.first[q] = s[1] /\ m.first[q] \in Task /\ m.last[q] \in Task
  BY <1>2, <1>3 DEF Nth
<1>5. m.first[q] = NULL <=> Len(s) = 0
  <2>1. Len(s) = 0 => m.first[q] = NULL
    BY <1>3 DEF Nth
  <2>2. QED
    BY <1>2, <1>4, <2>1, NullIsNoTask
<1>6. QED
  BY <1>1, <1>2, <1>3, <1>4, <1>5

\* Pointers that a list does not use may change.
LEMMA ChainFrame ==
  ASSUME NEW m, NEW n, NEW q, NEW s, Chain(m, q, s),
         n.first[q] = m.first[q], n.last[q] = m.last[q],
         \A i \in 1 .. Len(s) : n.next[s[i]] = m.next[s[i]]
  PROVE  Chain(n, q, s)
BY DEF Chain

-----------------------------------------------------------------------------
(* queue_push.                                                             *)

\* r is s with t behind it.
Extends(r, s, t) ==
  /\ r \in Seq(Task) /\ Len(r) = Len(s) + 1
  /\ \A i \in 1 .. Len(s) : r[i] = s[i]
  /\ r[Len(s) + 1] = t

\* Append does that.
LEMMA AppendExtends ==
  ASSUME NEW s \in Seq(Task), NEW t \in Task
  PROVE  Extends(Append(s, t), s, t)
<1>1. /\ Append(s, t) \in Seq(Task) /\ Len(Append(s, t)) = Len(s) + 1
      /\ \A i \in 1 .. Len(s) : Append(s, t)[i] = s[i]
      /\ Append(s, t)[Len(s) + 1] = t
  BY AppendProperties
<1> DEFINE r == Append(s, t)
<1> HIDE DEF r
<1>2. Extends(r, s, t)
  BY <1>1 DEF Extends, r
<1>3. QED
  BY <1>2 DEF r

\* The pointers after a push.
LEMMA PushFields ==
  ASSUME NEW m \in Memory, NEW q \in Queue, NEW t \in Task,
         m.first[q] # NULL => m.last[q] \in Task
  PROVE  /\ queue_push(m, q, t) \in Memory
         /\ queue_push(m, q, t).first[q] = IF m.first[q] = NULL THEN t ELSE m.first[q]
         /\ queue_push(m, q, t).last[q] = t
         /\ \A p \in Queue : p # q => /\ queue_push(m, q, t).first[p] = m.first[p]
                                      /\ queue_push(m, q, t).last[p] = m.last[p]
         /\ \A u \in Task : queue_push(m, q, t).next[u] =
              IF m.first[q] # NULL /\ u = m.last[q] THEN t
              ELSE IF u = t THEN NULL ELSE m.next[u]
<1>1. CASE m.first[q] = NULL
  BY <1>1 DEF queue_push, Memory
<1>2. CASE m.first[q] # NULL
  BY <1>2 DEF queue_push, Memory
<1>3. QED
  BY <1>1, <1>2

\* The list pushed to.
LEMMA PushChain ==
  ASSUME NEW m \in Memory, NEW q \in Queue, NEW t \in Task, NEW s, Chain(m, q, s), NotOn(t, s),
         NEW r, Extends(r, s, t)
  PROVE  Chain(queue_push(m, q, t), q, r)
<1> DEFINE n == queue_push(m, q, t)
<1>1. /\ s \in Seq(Task) /\ Len(s) \in Nat /\ \A i \in 1 .. Len(s) : s[i] \in Task
      /\ m.first[q] = NULL <=> Len(s) = 0
      /\ Len(s) > 0 => m.first[q] = s[1] /\ m.last[q] \in Task /\ m.last[q] = s[Len(s)]
  BY ChainBasics
<1>2. /\ n.first[q] = IF m.first[q] = NULL THEN t ELSE m.first[q]
      /\ n.last[q] = t
      /\ \A u \in Task : n.next[u] = IF m.first[q] # NULL /\ u = m.last[q] THEN t
                                     ELSE IF u = t THEN NULL ELSE m.next[u]
  BY <1>1, PushFields
<1> HIDE DEF n
<1>3. /\ r \in Seq(Task) /\ Len(r) = Len(s) + 1 /\ \A i \in 1 .. Len(s) : r[i] = s[i]
      /\ r[Len(s) + 1] = t
  BY DEF Extends
<1>4. \A i, j \in 1 .. Len(s) : s[i] = s[j] => i = j
  BY DEF Chain
<1>5. \A i \in 1 .. Len(s) : s[i] # t
  BY DEF NotOn
<1>6. \A i, j \in 1 .. Len(r) : r[i] = r[j] => i = j
  <2>1. \A i \in 1 .. Len(r) : i \in 1 .. Len(s) \/ i = Len(s) + 1
    BY <1>1, <1>3
  <2>2. QED
    BY <1>3, <1>4, <1>5, <2>1
<1>7. n.first[q] = Nth(r, 1)
  BY <1>1, <1>2, <1>3 DEF Nth
<1>8. n.last[q] = r[Len(r)]
  BY <1>2, <1>3
<1>9. ASSUME NEW i \in 1 .. Len(r) PROVE n.next[r[i]] = Nth(r, i + 1)
  <2>1. CASE i = Len(s) + 1
    <3>1. r[i] = t /\ n.next[t] = NULL
      BY <1>1, <1>2, <1>3, <1>5, <2>1
    <3>2. i + 1 \notin 1 .. Len(r)
      BY <1>1, <1>3, <2>1
    <3>3. QED
      BY <3>1, <3>2 DEF Nth
  <2>2. CASE i \in 1 .. Len(s) /\ i = Len(s)
    <3>1. r[i] = m.last[q] /\ n.next[r[i]] = t
      BY <1>1, <1>2, <1>3, <2>2
    <3>2. Nth(r, i + 1) = t
      BY <1>1, <1>3, <2>2 DEF Nth
    <3>3. QED
      BY <3>1, <3>2
  <2>3. CASE i \in 1 .. Len(s) /\ i # Len(s)
    <3>1. r[i] = s[i] /\ s[i] \in Task /\ s[i] # t /\ i + 1 \in 1 .. Len(s) /\ i + 1 \in 1 .. Len(r)
      BY <1>1, <1>3, <1>5, <2>3
    <3>2. s[i] # m.last[q]
      BY <1>1, <1>4, <2>3
    <3>3. n.next[s[i]] = m.next[s[i]]
      BY <1>2, <3>1, <3>2
    <3>4. m.next[s[i]] = s[i + 1]
      BY <2>3, <3>1 DEF Chain, Nth
    <3>5. QED
      BY <1>3, <3>1, <3>3, <3>4 DEF Nth
  <2>4. QED
    BY <1>1, <1>3, <2>1, <2>2, <2>3
<1>10. Chain(n, q, r)
  BY <1>3, <1>6, <1>7, <1>8, <1>9 DEF Chain
<1>11. QED
  BY <1>10 DEF n

\* The other lists.
LEMMA PushOther ==
  ASSUME NEW m \in Memory, NEW q \in Queue, NEW p \in Queue, p # q, NEW t \in Task,
         NEW s, Chain(m, q, s), NEW r, Chain(m, p, r), Apart(r, s), NotOn(t, r)
  PROVE  Chain(queue_push(m, q, t), p, r)
<1> DEFINE n == queue_push(m, q, t)
<1>1. /\ Len(s) \in Nat /\ m.first[q] = NULL <=> Len(s) = 0
      /\ Len(s) > 0 => m.last[q] \in Task /\ m.last[q] = s[Len(s)]
  BY ChainBasics
<1>2. /\ n.first[p] = m.first[p] /\ n.last[p] = m.last[p]
      /\ \A u \in Task : n.next[u] = IF m.first[q] # NULL /\ u = m.last[q] THEN t
                                     ELSE IF u = t THEN NULL ELSE m.next[u]
  BY <1>1, PushFields
<1> HIDE DEF n
<1>3. ASSUME NEW i \in 1 .. Len(r) PROVE n.next[r[i]] = m.next[r[i]]
  <2>1. r[i] \in Task /\ r[i] # t
    BY ChainBasics DEF NotOn
  <2>2. m.first[q] # NULL => r[i] # m.last[q]
    BY <1>1 DEF Apart
  <2>3. QED
    BY <1>2, <2>1, <2>2
<1>4. Chain(n, p, r)
  BY <1>2, <1>3, ChainFrame
<1>5. QED
  BY <1>4 DEF n

-----------------------------------------------------------------------------
(* queue_pop.                                                              *)

\* r is s without its first task.
Drops(r, s) ==
  /\ r \in Seq(Task) /\ Len(s) \in Nat \ {0} /\ Len(r) = Len(s) - 1
  /\ \A i \in 1 .. Len(s) - 1 : r[i] = s[i + 1]

\* Tail does that.
LEMMA TailDrops ==
  ASSUME NEW s \in Seq(Task), Len(s) > 0
  PROVE  Drops(Tail(s), s) /\ Head(s) = s[1]
<1>1. s # <<>> /\ Len(s) \in Nat \ {0}
  BY LenProperties, EmptySeq
<1>2. /\ Tail(s) \in Seq(Task) /\ Len(Tail(s)) = Len(s) - 1
      /\ \A i \in 1 .. Len(Tail(s)) : Tail(s)[i] = s[i + 1]
      /\ Head(s) = s[1]
  BY <1>1, HeadTailProperties
<1> DEFINE r == Tail(s)
<1> HIDE DEF r
<1>3. Drops(r, s)
  BY <1>1, <1>2 DEF Drops, r
<1>4. QED
  BY <1>2, <1>3 DEF r

\* The pointers after a pop.
LEMMA PopFields ==
  ASSUME NEW m \in Memory, NEW q \in Queue, m.first[q] \in Task
  PROVE  /\ queue_pop(m, q) \in Memory
         /\ queue_pop(m, q).first[q] = m.next[m.first[q]]
         /\ queue_pop(m, q).last[q] = IF m.next[m.first[q]] = NULL THEN NULL ELSE m.last[q]
         /\ queue_pop(m, q).next = m.next
         /\ \A p \in Queue : p # q => /\ queue_pop(m, q).first[p] = m.first[p]
                                      /\ queue_pop(m, q).last[p] = m.last[p]
<1>1. PICK rest \in Task \cup {NULL} : rest = m.next[m.first[q]]
  BY DEF Memory
<1> DEFINE n == queue_pop(m, q)
<1>2. n = [m EXCEPT !.first[q] = rest, !.last[q] = IF rest = NULL THEN NULL ELSE @]
  BY <1>1 DEF queue_pop
<1> HIDE DEF n
<1>3. /\ m.first \in [Queue -> Task \cup {NULL}] /\ m.last \in [Queue -> Task \cup {NULL}]
      /\ m.next \in [Task -> Task \cup {NULL}]
      /\ m = [first |-> m.first, last |-> m.last, next |-> m.next]
  BY DEF Memory
<1>4. /\ n = [first |-> n.first, last |-> n.last, next |-> n.next]
      /\ n.first = [m.first EXCEPT ![q] = rest]
      /\ n.last = [m.last EXCEPT ![q] = IF rest = NULL THEN NULL ELSE @]
      /\ n.next = m.next
  BY <1>2, <1>3
<1>5. /\ n.first \in [Queue -> Task \cup {NULL}] /\ n.last \in [Queue -> Task \cup {NULL}]
      /\ n.first[q] = rest /\ n.last[q] = IF rest = NULL THEN NULL ELSE m.last[q]
      /\ \A p \in Queue : p # q => n.first[p] = m.first[p] /\ n.last[p] = m.last[p]
  BY <1>3, <1>4
<1>6. n \in Memory
  BY <1>3, <1>4, <1>5 DEF Memory
<1>7. QED
  BY <1>1, <1>4, <1>5, <1>6 DEF n

\* The list popped from.
LEMMA PopChain ==
  ASSUME NEW m \in Memory, NEW q \in Queue, NEW s, Chain(m, q, s), NEW r, Drops(r, s)
  PROVE  Chain(queue_pop(m, q), q, r)
<1> DEFINE n == queue_pop(m, q)
<1>1. /\ s \in Seq(Task) /\ Len(s) \in Nat \ {0} /\ \A i \in 1 .. Len(s) : s[i] \in Task
      /\ m.first[q] = s[1] /\ s[1] \in Task /\ m.last[q] = s[Len(s)]
  BY ChainBasics DEF Drops
<1>2. /\ n.first[q] = m.next[s[1]]
      /\ n.last[q] = IF m.next[s[1]] = NULL THEN NULL ELSE m.last[q]
      /\ n.next = m.next
  BY <1>1, PopFields
<1> HIDE DEF n
<1>3. /\ r \in Seq(Task) /\ Len(r) = Len(s) - 1
      /\ \A i \in 1 .. Len(s) - 1 : r[i] = s[i + 1]
  BY DEF Drops
<1>4. /\ \A i, j \in 1 .. Len(s) : s[i] = s[j] => i = j
      /\ \A i \in 1 .. Len(s) : m.next[s[i]] = Nth(s, i + 1)
  BY DEF Chain
<1>5. \A i, j \in 1 .. Len(r) : r[i] = r[j] => i = j
  <2>1. \A i \in 1 .. Len(r) : i + 1 \in 1 .. Len(s) /\ r[i] = s[i + 1]
    BY <1>1, <1>3
  <2>2. ASSUME NEW i \in 1 .. Len(r), NEW j \in 1 .. Len(r), r[i] = r[j] PROVE i = j
    <3>1. i + 1 = j + 1
      BY <1>4, <2>1, <2>2
    <3>2. QED
      BY <3>1
  <2>3. QED
    BY <2>2
<1>6. \A i \in 1 .. Len(s) : Nth(s, i + 1) = Nth(r, i)
  BY <1>1, <1>3 DEF Nth
<1>7. n.first[q] = Nth(r, 1)
  BY <1>1, <1>2, <1>4, <1>6
<1>8. Len(r) > 0 => n.last[q] = r[Len(r)]
  <2>1. SUFFICES ASSUME Len(r) > 0 PROVE n.last[q] = r[Len(r)]
    OBVIOUS
  <2>2. Nth(s, 2) = s[2] /\ s[2] \in Task /\ r[Len(r)] = s[Len(s)]
    BY <1>1, <1>3, <2>1 DEF Nth
  <2>3. m.next[s[1]] # NULL
    BY <1>1, <1>4, <2>2, NullIsNoTask
  <2>4. QED
    BY <1>1, <1>2, <2>2, <2>3
<1>9. ASSUME NEW i \in 1 .. Len(r) PROVE n.next[r[i]] = Nth(r, i + 1)
  <2>1. i + 1 \in 1 .. Len(s) /\ r[i] = s[i + 1]
    BY <1>1, <1>3
  <2>2. m.next[s[i + 1]] = Nth(s, (i + 1) + 1) /\ Nth(s, (i + 1) + 1) = Nth(r, i + 1)
    BY <1>4, <1>6, <2>1
  <2>3. QED
    BY <1>2, <2>1, <2>2
<1>10. Chain(n, q, r)
  BY <1>3, <1>5, <1>7, <1>8, <1>9 DEF Chain
<1>11. QED
  BY <1>10 DEF n

\* The other lists.
LEMMA PopOther ==
  ASSUME NEW m \in Memory, NEW q \in Queue, NEW p \in Queue, p # q, m.first[q] \in Task,
         NEW r, Chain(m, p, r)
  PROVE  Chain(queue_pop(m, q), p, r)
<1> DEFINE n == queue_pop(m, q)
<1>1. n.first[p] = m.first[p] /\ n.last[p] = m.last[p] /\ n.next = m.next
  BY PopFields
<1> HIDE DEF n
<1>2. Chain(n, p, r)
  BY <1>1, ChainFrame
<1>3. QED
  BY <1>2 DEF n

-----------------------------------------------------------------------------
(* queue_pushsort.                                                         *)

\* r is s with t at place i.
Inserts(r, s, t, i) ==
  /\ r \in Seq(Task) /\ Len(r) = Len(s) + 1
  /\ \A j \in 1 .. i - 1 : r[j] = s[j]
  /\ r[i] = t
  /\ \A j \in i + 1 .. Len(s) + 1 : r[j] = s[j - 1]

\* A task linked between its neighbours.
LEMMA InsertChain ==
  ASSUME NEW m, NEW q, NEW s, Chain(m, q, s), NEW t \in Task, NotOn(t, s),
         NEW i \in 1 .. Len(s) + 1, NEW r, Inserts(r, s, t, i), NEW n,
         n.first[q] = IF i = 1 THEN t ELSE m.first[q],
         n.last[q] = IF i = Len(s) + 1 THEN t ELSE m.last[q],
         n.next[t] = Nth(s, i),
         i > 1 => n.next[s[i - 1]] = t,
         \A j \in 1 .. Len(s) : j # i - 1 => n.next[s[j]] = m.next[s[j]]
  PROVE  Chain(n, q, r)
<1>1. /\ s \in Seq(Task) /\ Len(s) \in Nat /\ \A j \in 1 .. Len(s) : s[j] \in Task
      /\ Len(s) > 0 => m.first[q] = s[1] /\ m.last[q] = s[Len(s)]
  BY ChainBasics
<1>2. /\ \A j, k \in 1 .. Len(s) : s[j] = s[k] => j = k
      /\ \A j \in 1 .. Len(s) : m.next[s[j]] = Nth(s, j + 1)
  BY DEF Chain
<1>3. /\ r \in Seq(Task) /\ Len(r) = Len(s) + 1
      /\ \A j \in 1 .. i - 1 : r[j] = s[j]
      /\ r[i] = t
      /\ \A j \in i + 1 .. Len(s) + 1 : r[j] = s[j - 1]
  BY DEF Inserts
<1>4. \A j \in 1 .. Len(s) : s[j] # t
  BY DEF NotOn
<1>5. \A j \in 1 .. Len(r) : \/ j \in 1 .. i - 1 /\ j \in 1 .. Len(s)
                             \/ j = i
                             \/ j \in i + 1 .. Len(s) + 1 /\ j - 1 \in 1 .. Len(s)
  BY <1>1, <1>3
<1>6. ASSUME NEW j \in 1 .. Len(r), NEW k \in 1 .. Len(r), r[j] = r[k] PROVE j = k
  <2>1. CASE j = i \/ k = i
    BY <1>1, <1>3, <1>4, <1>5, <1>6, <2>1
  <2>2. CASE j # i /\ k # i
    <3> DEFINE old(l) == IF l < i THEN l ELSE l - 1
    <3>1. \A l \in 1 .. Len(r) : l # i => r[l] = s[old(l)] /\ old(l) \in 1 .. Len(s)
      BY <1>1, <1>3, <1>5
    <3>2. PICK a \in 1 .. Len(s), b \in 1 .. Len(s) :
            a = old(j) /\ b = old(k) /\ r[j] = s[a] /\ r[k] = s[b]
      BY <2>2, <3>1
    <3>3. a = b
      BY <1>2, <1>6, <3>2
    <3>4. QED
      BY <1>1, <1>3, <2>2, <3>2, <3>3
  <2>3. QED
    BY <2>1, <2>2
<1>7. \A j \in 1 .. Len(s) + 2 : Nth(r, j) = IF j < i THEN s[j]
                                          ELSE IF j = i THEN t ELSE Nth(s, j - 1)
  BY <1>1, <1>3 DEF Nth
<1>8. n.first[q] = Nth(r, 1)
  BY <1>1, <1>7
<1>9. n.last[q] = r[Len(r)]
  BY <1>1, <1>3
<1>10. ASSUME NEW j \in 1 .. Len(r) PROVE n.next[r[j]] = Nth(r, j + 1)
  <2>1. j + 1 \in 1 .. Len(s) + 2
    BY <1>1, <1>3
  <2>2. CASE j = i
    <3>1. Nth(r, j + 1) = Nth(s, i)
      BY <1>1, <1>7, <2>1, <2>2
    <3>2. QED
      BY <1>3, <2>2, <3>1
  <2>3. CASE j = i - 1
    <3>1. j + 1 = i /\ i > 1 /\ j \in 1 .. i - 1
      BY <1>1, <1>3, <2>3
    <3>2. Nth(r, j + 1) = t
      BY <1>1, <1>7, <2>1, <3>1
    <3>3. r[j] = s[i - 1]
      BY <1>3, <2>3, <3>1
    <3>4. QED
      BY <3>1, <3>2, <3>3
  <2>4. CASE j < i - 1
    <3>1. Nth(r, j + 1) = s[j + 1] /\ r[j] = s[j] /\ j \in 1 .. Len(s) /\ j # i - 1 /\ j + 1 \in 1 .. Len(s)
      BY <1>1, <1>3, <1>7, <2>1, <2>4
    <3>2. n.next[s[j]] = m.next[s[j]]
      BY <3>1
    <3>3. QED
      BY <1>2, <3>1, <3>2 DEF Nth
  <2>5. CASE j > i
    <3>1. PICK k \in 1 .. Len(s) : k = j - 1 /\ k # i - 1 /\ r[j] = s[k]
      BY <1>1, <1>3, <1>5, <2>5
    <3>2. Nth(r, j + 1) = Nth(s, k + 1)
      BY <1>1, <1>7, <2>1, <2>5, <3>1
    <3>3. QED
      BY <1>2, <3>1, <3>2
  <2>6. QED
    BY <1>1, <1>3, <2>2, <2>3, <2>4, <2>5
<1>11. QED
  BY <1>3, <1>6, <1>8, <1>9, <1>10 DEF Chain

\* A non-empty set of naturals has a least member.
LEMMA LeastMember ==
  ASSUME NEW T \in SUBSET Nat, T # {}
  PROVE  \E m \in T : \A k \in T : m <= k
<1>1. PICK m \in T : \A k \in T : ~ (<<k, m>> \in OpToRel(<, Nat))
  BY NatLessThanWellFounded, WFMin
<1>2. \A k \in T : ~ (k < m)
  BY <1>1 DEF OpToRel
<1>3. QED
  BY <1>2

\* A list holds no more tasks than there are.
LEMMA ChainFits ==
  ASSUME NEW m, NEW q, NEW s, Chain(m, q, s)
  PROVE  Len(s) <= NTask
<1>1. Len(s) \in Nat /\ \A i \in 1 .. Len(s) : s[i] \in Task
  BY ChainBasics
<1>2. NTask \in Nat /\ IsFiniteSet(Task) /\ Cardinality(Task) = NTask
  BY NTaskAssumption, FS_Interval DEF Task
<1>3. IsFiniteSet(1 .. Len(s)) /\ Cardinality(1 .. Len(s)) = Len(s)
  BY <1>1, FS_Interval
<1> DEFINE f == [i \in 1 .. Len(s) |-> s[i]]
<1>4. f \in Injection(1 .. Len(s), Task)
  BY <1>1 DEF Injection, IsInjective, Chain
<1>5. Cardinality(1 .. Len(s)) <= Cardinality(Task)
  BY <1>2, <1>4, FS_Injection
<1>6. QED
  BY <1>2, <1>3, <1>5

\* Where a task of key p belongs behind the head: behind place k.
StopsAt(s, p, k) ==
  /\ k \in 1 .. Len(s)
  /\ k = Len(s) \/ ~ (p > param[s[k + 1]])
  /\ \A j \in 1 .. k - 1 : p > param[s[j + 1]]

\* There is such a place.
LEMMA StopExists ==
  ASSUME NEW s \in Seq(Task), Len(s) > 0, NEW p
  PROVE  \E k \in 1 .. Len(s) : StopsAt(s, p, k)
<1> DEFINE T == {k \in 1 .. Len(s) : k = Len(s) \/ ~ (p > param[s[k + 1]])}
<1>1. Len(s) \in Nat
  BY LenProperties
<1>2. T \in SUBSET Nat /\ T # {}
  BY <1>1
<1>3. PICK k \in T : \A j \in T : k <= j
  BY <1>2, LeastMember
<1>4. ASSUME NEW j \in 1 .. k - 1 PROVE p > param[s[j + 1]]
  <2>1. j \in 1 .. Len(s) /\ j # Len(s) /\ ~ (k <= j)
    BY <1>1
  <2>2. j \notin T
    BY <1>3, <2>1
  <2>3. QED
    BY <2>1, <2>2
<1>5. QED
  BY <1>4 DEF StopsAt

\* The loop of queue_pushsort, turn by turn, stops there.
LEMMA StopIsThere ==
  ASSUME NEW m, NEW q \in Queue, NEW s, Chain(m, q, s), NEW p, NEW k, StopsAt(s, p, k)
  PROVE  StopAt(m, q, p) = s[k]
<1>1. /\ Len(s) \in Nat /\ Len(s) <= NTask /\ k \in 1 .. Len(s) /\ NTask \in Nat
      /\ \A i \in 1 .. Len(s) : s[i] \in Task
      /\ m.first[q] = s[1]
  BY ChainBasics, ChainFits, NTaskAssumption DEF StopsAt
<1> DEFINE passes(x) == m.next[x] # NULL /\ p > param[m.next[x]]
           tmp == CHOOSE f : f = [i \in 0 .. NTask |->
                    IF i = 0 THEN m.first[q]
                    ELSE IF passes(f[i - 1]) THEN m.next[f[i - 1]] ELSE f[i - 1]]
           place(i) == IF i + 1 <= k THEN i + 1 ELSE k
           w == [i \in 0 .. NTask |-> s[place(i)]]
<1>2. StopAt(m, q, p) = tmp[NTask]
  BY DEF StopAt
<1>3. \A j \in 1 .. Len(s) : m.next[s[j]] = Nth(s, j + 1)
  BY DEF Chain
<1>4. ASSUME NEW j \in 1 .. k - 1 PROVE passes(s[j]) /\ m.next[s[j]] = s[j + 1]
  <2>1. j \in 1 .. Len(s) /\ j + 1 \in 1 .. Len(s)
    BY <1>1
  <2>2. m.next[s[j]] = s[j + 1] /\ s[j + 1] \in Task
    BY <1>1, <1>3, <2>1 DEF Nth
  <2>3. p > param[s[j + 1]]
    BY DEF StopsAt
  <2>4. QED
    BY <2>2, <2>3, NullIsNoTask
<1>5. ~ passes(s[k])
  <2>1. CASE k = Len(s)
    <3>1. Nth(s, k + 1) = NULL
      BY <1>1, <2>1 DEF Nth
    <3>2. QED
      BY <1>1, <1>3, <3>1
  <2>2. CASE k # Len(s)
    <3>1. Nth(s, k + 1) = s[k + 1] /\ ~ (p > param[s[k + 1]])
      BY <1>1, <2>2 DEF Nth, StopsAt
    <3>2. QED
      BY <1>1, <1>3, <3>1
  <2>3. QED
    BY <2>1, <2>2
<1> HIDE DEF passes
<1>6. ASSUME NEW i \in 0 .. NTask
      PROVE  w[i] = IF i = 0 THEN m.first[q]
                    ELSE IF passes(w[i - 1]) THEN m.next[w[i - 1]] ELSE w[i - 1]
  <2>1. CASE i = 0
    BY <1>1, <2>1
  <2>2. CASE i # 0 /\ i + 1 <= k
    <3>1. w[i] = s[i + 1] /\ w[i - 1] = s[i] /\ i \in 1 .. k - 1
      BY <1>1, <2>2
    <3>2. QED
      BY <1>4, <2>2, <3>1
  <2>3. CASE i # 0 /\ ~ (i + 1 <= k)
    <3>1. w[i] = s[k] /\ w[i - 1] = s[k]
      BY <1>1, <2>3
    <3>2. QED
      BY <1>5, <2>3, <3>1
  <2>4. QED
    BY <2>1, <2>2, <2>3
<1> HIDE DEF w
<1>7. \E f : f = [i \in 0 .. NTask |->
                  IF i = 0 THEN m.first[q]
                  ELSE IF passes(f[i - 1]) THEN m.next[f[i - 1]] ELSE f[i - 1]]
  <2>1. w = [i \in 0 .. NTask |-> w[i]]
    BY DEF w
  <2>2. w = [i \in 0 .. NTask |-> IF i = 0 THEN m.first[q]
                    ELSE IF passes(w[i - 1]) THEN m.next[w[i - 1]] ELSE w[i - 1]]
    BY <1>6, <2>1
  <2>3. QED
    BY <2>2
<1>8. tmp = [i \in 0 .. NTask |->
               IF i = 0 THEN m.first[q]
               ELSE IF passes(tmp[i - 1]) THEN m.next[tmp[i - 1]] ELSE tmp[i - 1]]
  BY <1>7
<1> HIDE DEF tmp
<1>9. \A i \in 0 .. NTask : tmp[i] = w[i]
  <2> DEFINE T == {i \in 0 .. NTask : tmp[i] # w[i]}
  <2>1. SUFFICES ASSUME T # {} PROVE FALSE
    OBVIOUS
  <2>2. PICK i \in T : \A j \in T : i <= j
    <3>1. T \in SUBSET Nat
      BY <1>1
    <3> HIDE DEF T
    <3>2. QED
      BY <2>1, <3>1, LeastMember
  <2>3. CASE i = 0
    BY <1>6, <1>8, <2>3
  <2>4. CASE i # 0
    <3>1. i - 1 \in 0 .. NTask /\ i \in 0 .. NTask /\ ~ (i <= i - 1)
      BY <1>1, <2>4
    <3>2. tmp[i - 1] = w[i - 1]
      BY <2>2, <3>1
    <3>3. QED
      BY <1>6, <1>8, <2>4, <3>1, <3>2
  <2>5. QED
    BY <2>3, <2>4
<1>10. w[NTask] = s[k]
  BY <1>1 DEF w
<1>11. QED
  BY <1>1, <1>2, <1>9, <1>10

-----------------------------------------------------------------------------
(* The three lists together.                                               *)

\* Of the tasks of r each is t or on s.
Within(r, s, t) == \A i \in 1 .. Len(r) : r[i] = t \/ \E j \in 1 .. Len(s) : r[i] = s[j]

\* One list changes.
LEMMA LinkedReplace ==
  ASSUME NEW m, NEW L, Linked(m, L), NEW n \in Memory, NEW q \in Queue, NEW r, NEW t,
         Chain(n, q, r), \A p \in Queue : p # q => Chain(n, p, L[p]) /\ NotOn(t, L[p]),
         Within(r, L[q], t)
  PROVE  Linked(n, [L EXCEPT ![q] = r])
<1> DEFINE K == [L EXCEPT ![q] = r]
<1>1. L \in [Queue -> Seq(Task)] /\ r \in Seq(Task)
  BY DEF Linked, Chain
<1>2. K \in [Queue -> Seq(Task)] /\ K[q] = r /\ \A p \in Queue : p # q => K[p] = L[p]
  BY <1>1
<1> HIDE DEF K
<1>3. \A p \in Queue : p # q => Apart(r, L[p]) /\ Apart(L[p], r)
  <2>1. SUFFICES ASSUME NEW p \in Queue, p # q PROVE Apart(r, L[p]) /\ Apart(L[p], r)
    OBVIOUS
  <2>2. Apart(L[q], L[p]) /\ NotOn(t, L[p])
    BY <2>1 DEF Linked
  <2>3. \A i \in 1 .. Len(r), j \in 1 .. Len(L[p]) : r[i] # L[p][j]
    BY <2>2 DEF Within, Apart, NotOn
  <2>4. QED
    BY <2>3 DEF Apart
<1>4. \A p \in Queue : Chain(n, p, K[p])
  BY <1>2
<1>5. \A a, b \in Queue : a # b => Apart(K[a], K[b])
  <2>1. SUFFICES ASSUME NEW a \in Queue, NEW b \in Queue, a # b PROVE Apart(K[a], K[b])
    OBVIOUS
  <2>2. CASE a = q
    BY <1>2, <1>3, <2>1, <2>2
  <2>3. CASE b = q
    BY <1>2, <1>3, <2>1, <2>3
  <2>4. CASE a # q /\ b # q
    BY <1>2, <2>1, <2>4 DEF Linked
  <2>5. QED
    BY <2>2, <2>3, <2>4
<1>6. Linked(n, K)
  BY <1>2, <1>4, <1>5 DEF Linked
<1>7. QED
  BY <1>6 DEF K

\* A task that is on no list.
OffAll(t, L) == \A q \in Queue : NotOn(t, L[q])

\* queue_push, of a task that is on no list.
LEMMA LinkedPush ==
  ASSUME NEW m, NEW L, Linked(m, L), NEW q \in Queue, NEW t \in Task, OffAll(t, L),
         NEW r, Extends(r, L[q], t)
  PROVE  Linked(queue_push(m, q, t), [L EXCEPT ![q] = r])
<1>1. m \in Memory /\ Chain(m, q, L[q]) /\ NotOn(t, L[q])
  BY DEF Linked, OffAll
<1>2. m.first[q] # NULL => m.last[q] \in Task
  BY <1>1, ChainBasics
<1>3. queue_push(m, q, t) \in Memory
  BY <1>1, <1>2, PushFields
<1>4. Chain(queue_push(m, q, t), q, r)
  BY <1>1, PushChain
<1>5. ASSUME NEW p \in Queue, p # q
      PROVE  Chain(queue_push(m, q, t), p, L[p]) /\ NotOn(t, L[p])
  <2>1. Chain(m, p, L[p]) /\ Apart(L[p], L[q]) /\ NotOn(t, L[p])
    BY <1>5 DEF Linked, OffAll
  <2>2. QED
    BY <1>1, <1>5, <2>1, PushOther
<1>6. Within(r, L[q], t)
  <2>1. Len(L[q]) \in Nat
    BY <1>1, ChainBasics
  <2>2. QED
    BY <2>1 DEF Within, Extends
<1>7. QED
  BY <1>3, <1>4, <1>5, <1>6, LinkedReplace

\* queue_pop of a list that is not empty.
LEMMA LinkedPop ==
  ASSUME NEW m, NEW L, Linked(m, L), NEW q \in Queue, NEW r, Drops(r, L[q])
  PROVE  Linked(queue_pop(m, q), [L EXCEPT ![q] = r])
<1>1. m \in Memory /\ Chain(m, q, L[q])
  BY DEF Linked
<1>2. Len(L[q]) \in Nat \ {0} /\ m.first[q] \in Task
  BY <1>1, ChainBasics DEF Drops
<1>3. queue_pop(m, q) \in Memory
  BY <1>1, <1>2, PopFields
<1>4. Chain(queue_pop(m, q), q, r)
  BY <1>1, PopChain
<1>5. PICK t : t \notin Task
  BY NullIsNoTask
<1>6. ASSUME NEW p \in Queue, p # q
      PROVE  Chain(queue_pop(m, q), p, L[p]) /\ NotOn(t, L[p])
  <2>1. Chain(m, p, L[p])
    BY DEF Linked
  <2>2. NotOn(t, L[p])
    BY <1>5, <2>1, ChainBasics DEF NotOn
  <2>3. QED
    BY <1>1, <1>2, <1>6, <2>1, <2>2, PopOther
<1>7. Within(r, L[q], t)
  <2>1. \A i \in 1 .. Len(r) : r[i] = L[q][i + 1] /\ i + 1 \in 1 .. Len(L[q])
    BY <1>2 DEF Drops
  <2>2. QED
    BY <2>1 DEF Within
<1>8. QED
  BY <1>3, <1>4, <1>6, <1>7, LinkedReplace

\* The place that queue_pushsort finds for key p.
GoesTo(s, p, i) ==
  /\ i \in 1 .. Len(s) + 1
  /\ i > 1 => ~ (p < param[s[1]])
  /\ i = 1 => Len(s) = 0 \/ p < param[s[1]]
  /\ \A j \in 2 .. i - 1 : p > param[s[j]]
  /\ i > 1 => i = Len(s) + 1 \/ ~ (p > param[s[i]])

\* queue_pushsort links behind a task.
LEMMA LinkFields ==
  ASSUME NEW m \in Memory, NEW q \in Queue, NEW t \in Task, NEW x \in Task, t # x
  PROVE  /\ LinkBehind(m, q, t, x) \in Memory
         /\ LinkBehind(m, q, t, x).first = m.first
         /\ LinkBehind(m, q, t, x).last[q] = IF m.next[x] = NULL THEN t ELSE m.last[q]
         /\ \A p \in Queue : p # q => LinkBehind(m, q, t, x).last[p] = m.last[p]
         /\ LinkBehind(m, q, t, x).next[t] = m.next[x]
         /\ LinkBehind(m, q, t, x).next[x] = t
         /\ \A u \in Task : u # t /\ u # x => LinkBehind(m, q, t, x).next[u] = m.next[u]
<1> DEFINE n == LinkBehind(m, q, t, x)
           after == m.next[x]
<1>1. after \in Task \cup {NULL}
  BY DEF Memory
<1>2. n = [m EXCEPT !.next[t] = after, !.next[x] = t, !.last[q] = IF after = NULL THEN t ELSE @]
  BY DEF LinkBehind
<1> HIDE DEF n, after
<1>3. /\ m.first \in [Queue -> Task \cup {NULL}] /\ m.last \in [Queue -> Task \cup {NULL}]
      /\ m.next \in [Task -> Task \cup {NULL}]
      /\ m = [first |-> m.first, last |-> m.last, next |-> m.next]
  BY DEF Memory
<1>4. /\ n = [first |-> n.first, last |-> n.last, next |-> n.next]
      /\ n.first = m.first
      /\ n.last = [m.last EXCEPT ![q] = IF after = NULL THEN t ELSE @]
      /\ n.next = [[m.next EXCEPT ![t] = after] EXCEPT ![x] = t]
  BY <1>2, <1>3
<1>5. /\ n.first \in [Queue -> Task \cup {NULL}] /\ n.last \in [Queue -> Task \cup {NULL}]
      /\ n.next \in [Task -> Task \cup {NULL}]
      /\ n.last[q] = IF after = NULL THEN t ELSE m.last[q]
      /\ \A p \in Queue : p # q => n.last[p] = m.last[p]
      /\ n.next[t] = after /\ n.next[x] = t
      /\ \A u \in Task : u # t /\ u # x => n.next[u] = m.next[u]
  BY <1>1, <1>3, <1>4
<1>6. n \in Memory
  BY <1>4, <1>5 DEF Memory
<1>7. QED
  BY <1>4, <1>5, <1>6 DEF n, after

\* queue_pushsort, of a task that is on no list.
LEMMA LinkedPushsort ==
  ASSUME NEW m, NEW L, Linked(m, L), NEW q \in Queue, NEW t \in Task, OffAll(t, L), NEW p
  PROVE  \E i \in 1 .. Len(L[q]) + 1 :
           /\ GoesTo(L[q], p, i)
           /\ \A r : Inserts(r, L[q], t, i)
                   => Linked(queue_pushsort(m, q, t, p), [L EXCEPT ![q] = r])
<1> DEFINE s == L[q]
           n == queue_pushsort(m, q, t, p)
<1>1. /\ m \in Memory /\ Chain(m, q, s) /\ NotOn(t, s) /\ s \in Seq(Task) /\ Len(s) \in Nat
      /\ \A i \in 1 .. Len(s) : s[i] \in Task /\ s[i] # t
      /\ m.first[q] = NULL <=> Len(s) = 0
      /\ Len(s) > 0 => m.first[q] = s[1] /\ m.last[q] = s[Len(s)]
  <2>1. m \in Memory /\ Chain(m, q, s) /\ NotOn(t, s)
    BY DEF Linked, OffAll
  <2>2. QED
    BY <2>1, ChainBasics DEF NotOn
<1>2. /\ \A i, j \in 1 .. Len(s) : s[i] = s[j] => i = j
      /\ \A i \in 1 .. Len(s) : m.next[s[i]] = Nth(s, i + 1)
  BY <1>1 DEF Chain
<1>3. \A a \in Queue : a # q => /\ Chain(m, a, L[a]) /\ NotOn(t, L[a]) /\ Apart(L[a], s)
                               /\ Apart(s, L[a])
  BY DEF Linked, OffAll
<1>4. \E i \in 1 .. Len(s) + 1 :
        /\ GoesTo(s, p, i) /\ n \in Memory
        /\ n.first[q] = IF i = 1 THEN t ELSE m.first[q]
        /\ n.last[q] = IF i = Len(s) + 1 THEN t ELSE m.last[q]
        /\ n.next[t] = Nth(s, i)
        /\ i > 1 => n.next[s[i - 1]] = t
        /\ \A u \in Task : u # t /\ (i > 1 => u # s[i - 1]) => n.next[u] = m.next[u]
        /\ \A a \in Queue : a # q => n.first[a] = m.first[a] /\ n.last[a] = m.last[a]
  <2>1. CASE Len(s) = 0
    <3>1. n = [m EXCEPT !.first[q] = t, !.last[q] = t, !.next[t] = NULL]
      BY <1>1, <2>1 DEF queue_pushsort
    <3> HIDE DEF n, s
    <3>2. /\ n \in Memory /\ n.first[q] = t /\ n.last[q] = t /\ n.next[t] = NULL
          /\ \A u \in Task : u # t => n.next[u] = m.next[u]
          /\ \A a \in Queue : a # q => n.first[a] = m.first[a] /\ n.last[a] = m.last[a]
      BY <1>1, <3>1 DEF Memory
    <3>3. GoesTo(s, p, 1) /\ Nth(s, 1) = NULL /\ 1 \in 1 .. Len(s) + 1
      BY <2>1 DEF GoesTo, Nth
    <3>4. QED
      BY <2>1, <3>2, <3>3
  <2>2. CASE Len(s) > 0 /\ p < param[s[1]]
    <3>1. n = [m EXCEPT !.next[t] = s[1], !.first[q] = t]
      <4>1. m.first[q] # NULL /\ m.first[q] = s[1]
        BY <1>1, <2>2
      <4>2. p < param[m.first[q]]
        BY <2>2, <4>1
      <4>3. n = [m EXCEPT !.next[t] = m.first[q], !.first[q] = t]
        BY <4>1, <4>2 DEF queue_pushsort
      <4>4. QED
        BY <4>1, <4>3
    <3>2. s[1] \in Task
      BY <1>1, <2>2
    <3> HIDE DEF n, s
    <3>3. /\ n \in Memory /\ n.first[q] = t /\ n.last = m.last /\ n.next[t] = s[1]
          /\ \A u \in Task : u # t => n.next[u] = m.next[u]
          /\ \A a \in Queue : a # q => n.first[a] = m.first[a]
      BY <1>1, <3>1, <3>2 DEF Memory
    <3>4. GoesTo(s, p, 1) /\ Nth(s, 1) = s[1] /\ 1 \in 1 .. Len(s) + 1 /\ 1 # Len(s) + 1
      BY <1>1, <2>2 DEF GoesTo, Nth
    <3>5. QED
      BY <3>3, <3>4
  <2>3. CASE Len(s) > 0 /\ ~ (p < param[s[1]])
    <3>1. PICK k \in 1 .. Len(s) : StopsAt(s, p, k)
      BY <1>1, <2>3, StopExists
    <3>2. PICK x \in Task : x = s[k] /\ x # t
      BY <1>1
    <3>3. n = LinkBehind(m, q, t, x)
      <4>1. StopAt(m, q, p) = x
        BY <1>1, <3>1, <3>2, StopIsThere
      <4>2. QED
        BY <1>1, <2>3, <4>1 DEF queue_pushsort
    <3> HIDE DEF n, s
    <3>4. /\ n \in Memory /\ n.first = m.first
          /\ n.last[q] = IF m.next[x] = NULL THEN t ELSE m.last[q]
          /\ \A a \in Queue : a # q => n.last[a] = m.last[a]
          /\ n.next[t] = m.next[x] /\ n.next[x] = t
          /\ \A u \in Task : u # t /\ u # x => n.next[u] = m.next[u]
      BY <1>1, <3>2, <3>3, LinkFields
    <3>5. PICK i \in 1 .. Len(s) + 1 : i = k + 1 /\ i > 1 /\ i - 1 = k
      BY <1>1
    <3>6. m.next[x] = Nth(s, i)
      BY <1>2, <3>2, <3>5
    <3>7. m.next[x] = NULL <=> i = Len(s) + 1
      <4>1. CASE i = Len(s) + 1
        BY <1>1, <3>6, <4>1 DEF Nth
      <4>2. CASE i # Len(s) + 1
        <5>1. i \in 1 .. Len(s)
          BY <1>1, <4>2
        <5>2. QED
          BY <1>1, <3>6, <4>2, <5>1, NullIsNoTask DEF Nth
      <4>3. QED
        BY <4>1, <4>2
    <3>8. GoesTo(s, p, i)
      <4>1. ASSUME NEW j \in 2 .. i - 1 PROVE p > param[s[j]]
        <5>1. PICK l \in 1 .. k - 1 : j = l + 1
          BY <3>5
        <5>2. QED
          BY <3>1, <5>1 DEF StopsAt
      <4>2. i = Len(s) + 1 \/ ~ (p > param[s[i]])
        BY <1>1, <3>1, <3>5 DEF StopsAt
      <4>3. QED
        BY <2>3, <3>5, <4>1, <4>2 DEF GoesTo
    <3>9. QED
      BY <3>2, <3>4, <3>5, <3>6, <3>7, <3>8
  <2>4. QED
    BY <1>1, <2>1, <2>2, <2>3
<1>5. PICK i \in 1 .. Len(s) + 1 :
        /\ GoesTo(s, p, i) /\ n \in Memory
        /\ n.first[q] = IF i = 1 THEN t ELSE m.first[q]
        /\ n.last[q] = IF i = Len(s) + 1 THEN t ELSE m.last[q]
        /\ n.next[t] = Nth(s, i)
        /\ i > 1 => n.next[s[i - 1]] = t
        /\ \A u \in Task : u # t /\ (i > 1 => u # s[i - 1]) => n.next[u] = m.next[u]
        /\ \A a \in Queue : a # q => n.first[a] = m.first[a] /\ n.last[a] = m.last[a]
  BY <1>4
<1> HIDE DEF n, s
<1>6. \A j \in 1 .. Len(s) : j # i - 1 => n.next[s[j]] = m.next[s[j]]
  <2>1. SUFFICES ASSUME NEW j \in 1 .. Len(s), j # i - 1 PROVE n.next[s[j]] = m.next[s[j]]
    OBVIOUS
  <2>2. i > 1 => i - 1 \in 1 .. Len(s)
    BY <1>1
  <2>3. s[j] \in Task /\ s[j] # t /\ (i > 1 => s[j] # s[i - 1])
    BY <1>1, <1>2, <2>1, <2>2
  <2>4. QED
    BY <1>5, <2>3
<1>7. ASSUME NEW a \in Queue, a # q PROVE Chain(n, a, L[a])
  <2>1. Chain(m, a, L[a]) /\ n.first[a] = m.first[a] /\ n.last[a] = m.last[a]
    BY <1>3, <1>5, <1>7
  <2>2. ASSUME NEW j \in 1 .. Len(L[a]) PROVE n.next[L[a][j]] = m.next[L[a][j]]
    <3>1. L[a][j] \in Task /\ L[a][j] # t
      BY <1>3, <1>7, <2>1, ChainBasics DEF NotOn
    <3>2. i > 1 => i - 1 \in 1 .. Len(s)
      BY <1>1
    <3>3. i > 1 => L[a][j] # s[i - 1]
      BY <1>3, <1>7, <3>2 DEF Apart
    <3>4. QED
      BY <1>5, <3>1, <3>3
  <2>3. QED
    BY <2>1, <2>2, ChainFrame
<1>8. ASSUME NEW r, Inserts(r, s, t, i) PROVE Linked(n, [L EXCEPT ![q] = r])
  <2>1. Chain(n, q, r)
    BY <1>1, <1>5, <1>6, <1>8, InsertChain
  <2>2. Within(r, s, t)
    <3>1. \A j \in 1 .. Len(r) : \/ j \in 1 .. i - 1 /\ j \in 1 .. Len(s)
                                 \/ j = i
                                 \/ j \in i + 1 .. Len(s) + 1 /\ j - 1 \in 1 .. Len(s)
      BY <1>1, <1>8 DEF Inserts
    <3>2. QED
      BY <1>8, <3>1 DEF Within, Inserts
  <2>3. QED
    BY <1>3, <1>5, <1>7, <2>1, <2>2, LinkedReplace DEF s
<1>9. QED
  BY <1>5, <1>8 DEF n, s

-----------------------------------------------------------------------------
(* Items.                                                                  *)

\* Items of the pointers m.
Walk(m, q) ==
  LET node[i \in 1 .. NTask + 2] ==
        IF i = 1 THEN m.first[q]
        ELSE IF node[i - 1] = NULL THEN NULL ELSE m.next[node[i - 1]]
      len == CHOOSE n \in 0 .. NTask + 1 : /\ \A i \in 1 .. n : node[i] # NULL
                                           /\ n = NTask + 1 \/ node[n + 1] = NULL
  IN [i \in 1 .. len |-> node[i]]

\* The walk along the pointers finds the sequence that they link.
LEMMA WalkFinds ==
  ASSUME NEW m, NEW q \in Queue, NEW s, Chain(m, q, s)
  PROVE  Walk(m, q) = s
<1>1. /\ s \in Seq(Task) /\ Len(s) \in Nat /\ Len(s) <= NTask /\ NTask \in Nat
      /\ DOMAIN s = 1 .. Len(s) /\ \A i \in 1 .. Len(s) : s[i] \in Task
  BY ChainBasics, ChainFits, NTaskAssumption
<1> DEFINE node == CHOOSE f : f = [i \in 1 .. NTask + 2 |->
                     IF i = 1 THEN m.first[q]
                     ELSE IF f[i - 1] = NULL THEN NULL ELSE m.next[f[i - 1]]]
           len == CHOOSE n \in 0 .. NTask + 1 : (\A i \in 1 .. n : node[i] # NULL)
                                                /\ (n = NTask + 1 \/ node[n + 1] = NULL)
           w == [i \in 1 .. NTask + 2 |-> Nth(s, i)]
<1>2. Walk(m, q) = [i \in 1 .. len |-> node[i]]
  BY DEF Walk
<1>3. ASSUME NEW i \in 1 .. NTask + 2
      PROVE  w[i] = IF i = 1 THEN m.first[q]
                    ELSE IF w[i - 1] = NULL THEN NULL ELSE m.next[w[i - 1]]
  <2>1. CASE i = 1
    BY <2>1 DEF Chain
  <2>2. CASE i # 1 /\ i - 1 \in 1 .. Len(s)
    <3>1. w[i - 1] = s[i - 1] /\ s[i - 1] \in Task /\ s[i - 1] # NULL
      BY <1>1, <2>2, NullIsNoTask DEF Nth
    <3>2. PICK k \in 1 .. Len(s) : k = i - 1 /\ i = k + 1
      BY <1>1, <2>2
    <3>3. m.next[s[k]] = Nth(s, k + 1)
      BY DEF Chain
    <3>4. QED
      BY <2>2, <3>1, <3>2, <3>3
  <2>3. CASE i # 1 /\ i - 1 \notin 1 .. Len(s)
    <3>1. i - 1 \in 1 .. NTask + 2 /\ i \notin 1 .. Len(s)
      BY <1>1, <2>3
    <3>2. w[i - 1] = NULL /\ w[i] = NULL
      BY <2>3, <3>1 DEF Nth
    <3>3. QED
      BY <2>3, <3>2
  <2>4. QED
    BY <2>1, <2>2, <2>3
<1>4. \A i \in 1 .. NTask + 2 : w[i] = Nth(s, i)
  OBVIOUS
<1>5. w = [i \in 1 .. NTask + 2 |-> w[i]]
  OBVIOUS
<1> HIDE DEF w
<1>6. node = [i \in 1 .. NTask + 2 |->
                IF i = 1 THEN m.first[q]
                ELSE IF node[i - 1] = NULL THEN NULL ELSE m.next[node[i - 1]]]
  <2>1. w = [i \in 1 .. NTask + 2 |->
               IF i = 1 THEN m.first[q] ELSE IF w[i - 1] = NULL THEN NULL ELSE m.next[w[i - 1]]]
    BY <1>3, <1>5
  <2>2. \E f : f = [i \in 1 .. NTask + 2 |->
               IF i = 1 THEN m.first[q] ELSE IF f[i - 1] = NULL THEN NULL ELSE m.next[f[i - 1]]]
    BY <2>1
  <2>3. QED
    BY <2>2
<1> HIDE DEF node
<1>7. \A i \in 1 .. NTask + 2 : node[i] = Nth(s, i)
  <2> DEFINE T == {i \in 1 .. NTask + 2 : node[i] # w[i]}
  <2>1. SUFFICES ASSUME T # {} PROVE FALSE
    BY <1>4
  <2>2. PICK i \in T : \A j \in T : i <= j
    <3>1. T \in SUBSET Nat
      BY <1>1
    <3> HIDE DEF T
    <3>2. QED
      BY <2>1, <3>1, LeastMember
  <2>3. CASE i = 1
    BY <1>3, <1>6, <2>3
  <2>4. CASE i # 1
    <3>1. i - 1 \in 1 .. NTask + 2 /\ i \in 1 .. NTask + 2 /\ ~ (i <= i - 1)
      BY <1>1, <2>4
    <3>2. node[i - 1] = w[i - 1]
      BY <2>2, <3>1
    <3>3. QED
      BY <1>3, <1>6, <2>4, <3>1, <3>2
  <2>5. QED
    BY <2>3, <2>4
<1>8. len = Len(s)
  <2> DEFINE ends(n) == (\A i \in 1 .. n : node[i] # NULL) /\ (n = NTask + 1 \/ node[n + 1] = NULL)
  <2>1. Len(s) \in 0 .. NTask + 1
    BY <1>1
  <2>2. \A i \in 1 .. Len(s) : i \in 1 .. NTask + 2 /\ node[i] = s[i] /\ node[i] # NULL
    BY <1>1, <1>7, NullIsNoTask DEF Nth
  <2>3. node[Len(s) + 1] = NULL
    <3>1. Len(s) + 1 \in 1 .. NTask + 2 /\ Len(s) + 1 \notin 1 .. Len(s)
      BY <1>1
    <3>2. QED
      BY <1>7, <3>1 DEF Nth
  <2>4. ASSUME NEW n \in 0 .. NTask + 1, ends(n) PROVE n = Len(s)
    <3>1. CASE n < Len(s)
      <4>1. n + 1 \in 1 .. Len(s) /\ n # NTask + 1
        BY <1>1, <3>1
      <4>2. QED
        BY <2>2, <2>4, <4>1
    <3>2. CASE n > Len(s)
      <4>1. Len(s) + 1 \in 1 .. n
        BY <1>1, <3>2
      <4>2. QED
        BY <2>3, <2>4, <4>1
    <3>3. n \in Nat /\ Len(s) \in Nat
      BY <1>1
    <3>4. n < Len(s) \/ n > Len(s) \/ n = Len(s)
      BY <3>3
    <3>5. QED
      BY <3>1, <3>2, <3>4
  <2>5. ends(Len(s))
    BY <2>2, <2>3
  <2>6. len = CHOOSE n \in 0 .. NTask + 1 : ends(n)
    OBVIOUS
  <2> HIDE DEF ends, len
  <2>7. QED
    BY <2>1, <2>4, <2>5, <2>6
<1> HIDE DEF len
<1>9. Walk(m, q) = [i \in 1 .. Len(s) |-> s[i]]
  <2>1. \A i \in 1 .. Len(s) : node[i] = s[i]
    BY <1>1, <1>7 DEF Nth
  <2>2. QED
    BY <1>2, <1>8, <2>1
<1>10. s = [i \in 1 .. Len(s) |-> s[i]]
  <2>1. s = [i \in DOMAIN s |-> s[i]]
    BY <1>1, SeqDef
  <2>2. QED
    BY <1>1, <2>1
<1>11. QED
  BY <1>9, <1>10

\* The sequences that the pointers m link.
Contents(m) == [q \in Queue |-> Walk(m, q)]

\* There is one choice of sequences only.
LEMMA ContentsAre ==
  ASSUME NEW m, NEW L, Linked(m, L)
  PROVE  Contents(m) = L
<1>1. L \in [Queue -> Seq(Task)] /\ \A q \in Queue : Walk(m, q) = L[q]
  BY WalkFinds DEF Linked
<1>2. QED
  BY <1>1 DEF Contents

-----------------------------------------------------------------------------
(* The loop of TIM2_Handler.                                               *)

\* The task that was first is on no list after the pop.
LEMMA HeadOff ==
  ASSUME NEW m, NEW L, Linked(m, L), NEW q \in Queue, NEW r, Drops(r, L[q])
  PROVE  L[q][1] \in Task /\ OffAll(L[q][1], [L EXCEPT ![q] = r])
<1> DEFINE s == L[q]
           K == [L EXCEPT ![q] = r]
<1>1. /\ Chain(m, q, s) /\ Len(s) \in Nat \ {0} /\ s[1] \in Task
      /\ \A i, j \in 1 .. Len(s) : s[i] = s[j] => i = j
  <2>1. Chain(m, q, s)
    BY DEF Linked
  <2>2. Len(s) \in Nat \ {0}
    BY DEF Drops
  <2>3. QED
    BY <2>1, <2>2, ChainBasics DEF Chain
<1>2. K[q] = r /\ \A p \in Queue : p # q => K[p] = L[p]
  BY DEF Linked
<1>3. NotOn(s[1], r)
  <2>1. ASSUME NEW i \in 1 .. Len(r) PROVE r[i] # s[1]
    <3>1. r[i] = s[i + 1] /\ i + 1 \in 1 .. Len(s) /\ 1 \in 1 .. Len(s) /\ i + 1 # 1
      BY <1>1 DEF Drops
    <3>2. QED
      BY <1>1, <3>1
  <2>2. QED
    BY <2>1 DEF NotOn
<1>4. \A p \in Queue : p # q => NotOn(s[1], L[p])
  <2>1. SUFFICES ASSUME NEW p \in Queue, p # q PROVE NotOn(s[1], L[p])
    OBVIOUS
  <2>2. Apart(L[p], s) /\ 1 \in 1 .. Len(s)
    BY <1>1, <2>1 DEF Linked
  <2>3. QED
    BY <2>2 DEF Apart, NotOn
<1> HIDE DEF s, K
<1>5. \A p \in Queue : NotOn(s[1], K[p])
  BY <1>2, <1>3, <1>4
<1>6. QED
  BY <1>1, <1>5 DEF OffAll, s, K

\* K is L after j sleepers have moved to the ready queue.
Moved(L, j, K) ==
  /\ K \in [Queue -> Seq(Task)] /\ K["waitq"] = L["waitq"]
  /\ Len(K["sleep_queue"]) = Len(L["sleep_queue"]) - j
  /\ \A i \in 1 .. Len(L["sleep_queue"]) - j : K["sleep_queue"][i] = L["sleep_queue"][i + j]
  /\ Len(K["ready_queue"]) = Len(L["ready_queue"]) + j
  /\ \A i \in 1 .. Len(L["ready_queue"]) : K["ready_queue"][i] = L["ready_queue"][i]
  /\ \A i \in 1 .. j : K["ready_queue"][Len(L["ready_queue"]) + i] = L["sleep_queue"][i]

\* One more moves.
LEMMA MoveOne ==
  ASSUME NEW L \in [Queue -> Seq(Task)], NEW K, NEW j \in Nat, j < Len(L["sleep_queue"]),
         Moved(L, j, K),
         NEW a, Drops(a, K["sleep_queue"]),
         NEW b, Extends(b, K["ready_queue"], L["sleep_queue"][j + 1])
  PROVE  Moved(L, j + 1, [[K EXCEPT !["sleep_queue"] = a] EXCEPT !["ready_queue"] = b])
<1> DEFINE M == [[K EXCEPT !["sleep_queue"] = a] EXCEPT !["ready_queue"] = b]
<1>1. K \in [Queue -> Seq(Task)] /\ a \in Seq(Task) /\ b \in Seq(Task)
  BY DEF Moved, Drops, Extends
<1>2. /\ M \in [Queue -> Seq(Task)] /\ M["waitq"] = K["waitq"]
      /\ M["sleep_queue"] = a /\ M["ready_queue"] = b
  BY <1>1 DEF Queue
<1> HIDE DEF M
<1>3. PICK S \in Seq(Task), R \in Seq(Task), ks \in Seq(Task), kr \in Seq(Task) :
        /\ S = L["sleep_queue"] /\ R = L["ready_queue"]
        /\ ks = K["sleep_queue"] /\ kr = K["ready_queue"]
  BY <1>1 DEF Queue
<1>4. Len(S) \in Nat /\ Len(R) \in Nat /\ j < Len(S)
  BY <1>3, LenProperties
<1>5. /\ Len(ks) = Len(S) - j /\ \A i \in 1 .. Len(S) - j : ks[i] = S[i + j]
      /\ Len(kr) = Len(R) + j /\ \A i \in 1 .. Len(R) : kr[i] = R[i]
      /\ \A i \in 1 .. j : kr[Len(R) + i] = S[i]
      /\ K["waitq"] = L["waitq"]
  BY <1>3 DEF Moved
<1>6. /\ Len(a) = Len(ks) - 1 /\ \A i \in 1 .. Len(ks) - 1 : a[i] = ks[i + 1]
      /\ Len(b) = Len(kr) + 1 /\ \A i \in 1 .. Len(kr) : b[i] = kr[i]
      /\ b[Len(kr) + 1] = S[j + 1]
  BY <1>3 DEF Drops, Extends
<1>7. Len(a) = Len(S) - (j + 1) /\ Len(b) = Len(R) + (j + 1)
  BY <1>4, <1>5, <1>6
<1>8. ASSUME NEW i \in 1 .. Len(S) - (j + 1) PROVE a[i] = S[i + (j + 1)]
  <2>1. i \in 1 .. Len(ks) - 1 /\ i + 1 \in 1 .. Len(S) - j /\ (i + 1) + j = i + (j + 1)
    BY <1>4, <1>5
  <2>2. a[i] = ks[i + 1] /\ ks[i + 1] = S[(i + 1) + j]
    BY <1>5, <1>6, <2>1
  <2>3. QED
    BY <2>1, <2>2
<1>9. \A i \in 1 .. Len(R) : b[i] = R[i]
  BY <1>4, <1>5, <1>6
<1>10. ASSUME NEW i \in 1 .. j + 1 PROVE b[Len(R) + i] = S[i]
  <2>1. CASE i = j + 1
    <3>1. Len(R) + i = Len(kr) + 1
      BY <1>4, <1>5, <2>1
    <3>2. QED
      BY <1>6, <2>1, <3>1
  <2>2. CASE i # j + 1
    <3>1. i \in 1 .. j /\ i <= j
      BY <2>2
    <3>2. Len(R) + i \in 1 .. Len(kr)
      <4>1. Len(kr) = Len(R) + j
        BY <1>5
      <4>2. QED
        BY <1>4, <3>1, <4>1
    <3>3. b[Len(R) + i] = kr[Len(R) + i]
      BY <1>6, <3>2
    <3>4. QED
      BY <1>5, <3>1, <3>3
  <2>3. QED
    BY <2>1, <2>2
<1>11. Moved(L, j + 1, M)
  BY <1>2, <1>3, <1>5, <1>7, <1>8, <1>9, <1>10 DEF Moved
<1>12. QED
  BY <1>11 DEF M

\* The sleepers are in the order of their times.
InOrder(s) == \A i, j \in 1 .. Len(s) : i < j => param[s[i]] <= param[s[j]]

\* In an ordered list the sleepers whose time has come are the first k.
LEMMA LateOnes ==
  ASSUME NEW s \in Seq(Task), param \in [Task -> Nat], InOrder(s), NEW time \in Nat
  PROVE  \E k \in 0 .. Len(s) : \A i \in 1 .. Len(s) : time >= param[s[i]] <=> i <= k
<1> DEFINE T == {k \in 0 .. Len(s) : k = Len(s) \/ ~ (time >= param[s[k + 1]])}
<1>1. Len(s) \in Nat /\ \A i \in 1 .. Len(s) : s[i] \in Task /\ param[s[i]] \in Nat
  BY LenProperties, ElementOfSeq
<1>2. T \in SUBSET Nat /\ T # {}
  <2>1. Len(s) \in T
    BY <1>1
  <2>2. QED
    BY <1>1, <2>1
<1>3. PICK k \in T : \A j \in T : k <= j
  BY <1>2, LeastMember
<1>4. k \in 0 .. Len(s)
  OBVIOUS
<1>5. ASSUME NEW i \in 1 .. Len(s), i <= k PROVE time >= param[s[i]]
  <2>1. i - 1 \in 0 .. Len(s) /\ i - 1 # Len(s) /\ ~ (k <= i - 1) /\ (i - 1) + 1 = i
    BY <1>1, <1>4, <1>5
  <2>2. i - 1 \notin T
    BY <1>3, <2>1
  <2>3. QED
    BY <2>1, <2>2
<1>6. ASSUME NEW i \in 1 .. Len(s), ~ (i <= k) PROVE ~ (time >= param[s[i]])
  <2>1. k + 1 \in 1 .. Len(s) /\ ~ (time >= param[s[k + 1]]) /\ (k + 1 = i \/ k + 1 < i)
    BY <1>1, <1>4, <1>6
  <2>2. param[s[k + 1]] <= param[s[i]]
    BY <1>1, <2>1 DEF InOrder
  <2>3. QED
    BY <1>1, <2>1, <2>2
<1>7. QED
  BY <1>4, <1>5, <1>6

\* The body of the loop of TIM2_Handler.
WakeOne(w, time) ==
  LET tmp == w.m.first["sleep_queue"]
  IN IF tmp = NULL \/ time < param[tmp] THEN w
     ELSE [m |-> queue_push(queue_pop(w.m, "sleep_queue"), "ready_queue", tmp),
           woken |-> w.woken \cup {tmp}]

\* The first j of s.
Firsts(s, j) == {s[i] : i \in 1 .. j}

\* Where the loop is when it has moved j sleepers of L.
AfterWaking(w, L, j) ==
  /\ \E K : Linked(w.m, K) /\ Moved(L, j, K)
  /\ w.woken = Firsts(L["sleep_queue"], j)

\* A turn of the loop that finds a sleeper whose time has come.
LEMMA WakeMoves ==
  ASSUME NEW L \in [Queue -> Seq(Task)], NEW time, NEW w, NEW j \in Nat,
         j < Len(L["sleep_queue"]), AfterWaking(w, L, j),
         ~ (time < param[L["sleep_queue"][j + 1]])
  PROVE  AfterWaking(WakeOne(w, time), L, j + 1)
<1>1. PICK K : Linked(w.m, K) /\ Moved(L, j, K)
  BY DEF AfterWaking
<1>2. PICK S \in Seq(Task), ks \in Seq(Task), kr \in Seq(Task) :
        S = L["sleep_queue"] /\ ks = K["sleep_queue"] /\ kr = K["ready_queue"]
  BY <1>1 DEF Moved, Queue
<1>3. /\ Len(S) \in Nat /\ j < Len(S) /\ Len(ks) = Len(S) - j /\ Len(ks) > 0
      /\ ks[1] = S[j + 1]
  <2>1. Len(S) \in Nat /\ j < Len(S)
    BY <1>2, LenProperties
  <2>2. Len(ks) = Len(S) - j /\ \A i \in 1 .. Len(S) - j : ks[i] = S[i + j]
    BY <1>1, <1>2 DEF Moved
  <2>3. 1 \in 1 .. Len(S) - j /\ 1 + j = j + 1
    BY <2>1
  <2>4. ks[1] = S[1 + j]
    BY <2>2, <2>3
  <2>5. QED
    BY <2>1, <2>2, <2>3, <2>4
<1>4. PICK a \in Seq(Task) : a = Tail(ks) /\ Drops(a, ks)
  BY <1>3, TailDrops DEF Drops
<1>5. PICK t \in Task : t = ks[1] /\ OffAll(t, [K EXCEPT !["sleep_queue"] = a])
  BY <1>1, <1>2, <1>4, HeadOff DEF Queue
<1>6. w.m.first["sleep_queue"] = t
  <2>1. Chain(w.m, "sleep_queue", ks)
    BY <1>1, <1>2 DEF Linked, Queue
  <2>2. QED
    BY <1>3, <1>5, <2>1, ChainBasics
<1>7. WakeOne(w, time) = [m |-> queue_push(queue_pop(w.m, "sleep_queue"), "ready_queue", t),
                          woken |-> w.woken \cup {t}]
  <2>1. t # NULL /\ ~ (time < param[t])
    BY <1>2, <1>3, <1>5, NullIsNoTask
  <2>2. QED
    BY <1>6, <2>1 DEF WakeOne
<1>8. PICK b \in Seq(Task) : b = Append(kr, t) /\ Extends(b, kr, t)
  BY AppendExtends DEF Extends
<1>9. PICK M : M = [K EXCEPT !["sleep_queue"] = a]
  OBVIOUS
<1>10. Linked(queue_pop(w.m, "sleep_queue"), M)
  BY <1>1, <1>2, <1>4, <1>9, LinkedPop DEF Queue
<1>11. M["ready_queue"] = kr
  BY <1>1, <1>2, <1>9 DEF Moved, Queue
<1>12. Linked(queue_push(queue_pop(w.m, "sleep_queue"), "ready_queue", t), [M EXCEPT !["ready_queue"] = b])
  BY <1>5, <1>8, <1>9, <1>10, <1>11, LinkedPush DEF Queue
<1>13. Moved(L, j + 1, [M EXCEPT !["ready_queue"] = b])
  BY <1>1, <1>2, <1>3, <1>4, <1>5, <1>8, <1>9, MoveOne
<1>14. w.woken \cup {t} = Firsts(L["sleep_queue"], j + 1)
  <2>1. w.woken = {S[i] : i \in 1 .. j} /\ t = S[j + 1]
    BY <1>2, <1>3, <1>5 DEF AfterWaking, Firsts
  <2>2. 1 .. j + 1 = (1 .. j) \cup {j + 1}
    OBVIOUS
  <2>3. {S[i] : i \in 1 .. j + 1} = {S[i] : i \in 1 .. j} \cup {S[j + 1]}
    BY <2>2
  <2>4. QED
    BY <1>2, <2>1, <2>3 DEF Firsts
<1>15. QED
  BY <1>7, <1>12, <1>13, <1>14 DEF AfterWaking

\* A turn that finds none.
LEMMA WakeStops ==
  ASSUME NEW L \in [Queue -> Seq(Task)], NEW time, NEW w, NEW j \in 0 .. Len(L["sleep_queue"]),
         AfterWaking(w, L, j),
         j < Len(L["sleep_queue"]) => time < param[L["sleep_queue"][j + 1]]
  PROVE  WakeOne(w, time) = w
<1>1. PICK K : Linked(w.m, K) /\ Moved(L, j, K)
  BY DEF AfterWaking
<1>2. PICK S \in Seq(Task), ks \in Seq(Task) : S = L["sleep_queue"] /\ ks = K["sleep_queue"]
  BY <1>1 DEF Moved, Queue
<1>3. Len(S) \in Nat /\ Len(ks) = Len(S) - j /\ \A i \in 1 .. Len(S) - j : ks[i] = S[i + j]
  BY <1>1, <1>2, LenProperties DEF Moved
<1>4. Chain(w.m, "sleep_queue", ks)
  BY <1>1, <1>2 DEF Linked, Queue
<1>5. CASE j = Len(S)
  <2>1. w.m.first["sleep_queue"] = NULL
    <3>1. Len(ks) = 0
      BY <1>3, <1>5
    <3>2. QED
      BY <1>4, <3>1, ChainBasics
  <2>2. QED
    BY <2>1 DEF WakeOne
<1>6. CASE j < Len(S)
  <2>1. 1 \in 1 .. Len(S) - j /\ 1 + j = j + 1 /\ Len(S) - j > 0
    BY <1>3, <1>6
  <2>2. w.m.first["sleep_queue"] = S[j + 1]
    <3>1. ks[1] = S[1 + j] /\ Len(ks) > 0
      BY <1>3, <2>1
    <3>2. QED
      BY <1>4, <2>1, <3>1, ChainBasics
  <2>3. QED
    BY <1>2, <1>6, <2>2 DEF WakeOne
<1>7. QED
  BY <1>2, <1>3, <1>5, <1>6

\* The whole loop: it moves the sleepers whose time has come, and stops at the first other one.
LEMMA ExpiredMoves ==
  ASSUME NEW L, Linked(mem, L), InOrder(L["sleep_queue"]), param \in [Task -> Nat],
         NEW time \in Nat
  PROVE  \E k \in 0 .. Len(L["sleep_queue"]) :
           /\ \A i \in 1 .. Len(L["sleep_queue"]) : time >= param[L["sleep_queue"][i]] <=> i <= k
           /\ AfterWaking(Expired(time), L, k)
<1>1. PICK S \in Seq(Task) : S = L["sleep_queue"] /\ Len(S) \in Nat /\ Len(S) <= NTask
  <2>1. Chain(mem, "sleep_queue", L["sleep_queue"])
    BY DEF Linked, Queue
  <2>2. QED
    BY <2>1, ChainBasics, ChainFits
<1>2. PICK k \in 0 .. Len(S) : \A i \in 1 .. Len(S) : time >= param[S[i]] <=> i <= k
  BY <1>1, LateOnes
<1>3. L \in [Queue -> Seq(Task)] /\ NTask \in Nat /\ k \in Nat /\ k <= NTask
  BY <1>1, NTaskAssumption DEF Linked
<1> DEFINE start == [m |-> mem, woken |-> {}]
           step(w) == WakeOne(w, time)
           turn == CHOOSE f : f = [i \in 0 .. NTask |-> IF i = 0 THEN start ELSE step(f[i - 1])]
<1>4. Expired(time) = turn[NTask]
  BY DEF Expired, WakeOne
<1> HIDE DEF step
<1>5. turn = [i \in 0 .. NTask |-> IF i = 0 THEN start ELSE step(turn[i - 1])]
  <2> DEFINE upto(n, f) == f = [i \in 0 .. n |-> IF i = 0 THEN start ELSE step(f[i - 1])]
             T == {n \in 0 .. NTask : ~ \E f : upto(n, f)}
  <2>1. T = {}
    <3>1. SUFFICES ASSUME T # {} PROVE FALSE
      OBVIOUS
    <3>2. PICK n \in T : \A j \in T : n <= j
      <4>1. T \in SUBSET Nat
        OBVIOUS
      <4> HIDE DEF T
      <4>2. QED
        BY <3>1, <4>1, LeastMember
    <3>3. n \in 0 .. NTask /\ ~ \E f : upto(n, f)
      OBVIOUS
    <3>4. CASE n = 0
      <4>1. upto(0, [i \in 0 .. 0 |-> start])
        OBVIOUS
      <4>2. QED
        BY <3>3, <3>4, <4>1
    <3>5. CASE n # 0
      <4>1. n - 1 \in 0 .. NTask /\ ~ (n <= n - 1) /\ n \in Nat
        BY <1>3, <3>3, <3>5
      <4>2. n - 1 \notin T
        BY <3>2, <4>1
      <4>3. PICK f : upto(n - 1, f)
        BY <4>1, <4>2
      <4>4. PICK v : v = step(f[n - 1])
        OBVIOUS
      <4>5. PICK g : g = [i \in 0 .. n |-> IF i = n THEN v ELSE f[i]]
        OBVIOUS
      <4>6. \A i \in 0 .. n - 1 : f[i] = IF i = 0 THEN start ELSE step(f[i - 1])
        BY <4>3
      <4>7. ASSUME NEW i \in 0 .. n
            PROVE  g[i] = IF i = 0 THEN start ELSE step(g[i - 1])
        <5>1. CASE i = n
          <6>1. g[i] = v /\ g[i - 1] = f[n - 1]
            BY <3>5, <4>1, <4>5, <5>1
          <6>2. QED
            BY <3>5, <4>4, <5>1, <6>1
        <5>2. CASE i # n
          <6>1. i \in 0 .. n - 1 /\ g[i] = f[i]
            BY <4>1, <4>5, <5>2
          <6>2. i # 0 => g[i - 1] = f[i - 1]
            BY <4>1, <4>5, <5>2
          <6>3. QED
            BY <4>6, <6>1, <6>2
        <5>3. QED
          BY <5>1, <5>2
      <4>8. upto(n, g)
        <5>1. g = [i \in 0 .. n |-> g[i]]
          BY <4>5
        <5>2. QED
          BY <4>7, <5>1
      <4>9. QED
        BY <3>3, <4>8
    <3>6. QED
      BY <3>4, <3>5
  <2>2. NTask \in 0 .. NTask
    BY <1>3
  <2>3. \E f : upto(NTask, f)
    BY <2>1, <2>2
  <2>4. QED
    BY <2>3
<1> HIDE DEF turn
<1> DEFINE gone(i) == IF i <= k THEN i ELSE k
<1>6. AfterWaking(start, L, 0)
  <2>1. Moved(L, 0, L)
    <3>1. PICK R \in Seq(Task) : R = L["ready_queue"] /\ Len(R) \in Nat
      BY <1>3, LenProperties DEF Queue
    <3>2. /\ Len(S) = Len(S) - 0 /\ \A i \in 1 .. Len(S) - 0 : S[i] = S[i + 0]
          /\ Len(R) = Len(R) + 0 /\ \A i \in 1 .. 0 : R[Len(R) + i] = S[i]
      BY <1>1, <3>1
    <3>3. QED
      BY <1>1, <1>3, <3>1, <3>2 DEF Moved
  <2>2. Firsts(L["sleep_queue"], 0) = {}
    BY DEF Firsts
  <2>3. QED
    BY <2>1, <2>2 DEF AfterWaking
<1>7. \A i \in 0 .. NTask : AfterWaking(turn[i], L, gone(i))
  <2> DEFINE T == {i \in 0 .. NTask : ~ AfterWaking(turn[i], L, gone(i))}
  <2>1. SUFFICES ASSUME T # {} PROVE FALSE
    OBVIOUS
  <2>2. PICK i \in T : \A j \in T : i <= j
    <3>1. T \in SUBSET Nat
      OBVIOUS
    <3> HIDE DEF T
    <3>2. QED
      BY <2>1, <3>1, LeastMember
  <2>3. i \in 0 .. NTask /\ ~ AfterWaking(turn[i], L, gone(i))
    OBVIOUS
  <2>4. CASE i = 0
    <3>1. turn[i] = start /\ gone(i) = 0
      BY <1>3, <1>5, <2>3, <2>4
    <3>2. QED
      BY <1>6, <2>3, <3>1
  <2>5. CASE i # 0
    <3>1. i - 1 \in 0 .. NTask /\ ~ (i <= i - 1) /\ i \in Nat
      BY <1>3, <2>3, <2>5
    <3>2. AfterWaking(turn[i - 1], L, gone(i - 1))
      BY <2>2, <3>1
    <3>3. turn[i] = WakeOne(turn[i - 1], time)
      BY <1>5, <2>3, <2>5 DEF step
    <3>4. CASE i <= k
      <4>1. PICK j \in Nat : j = i - 1 /\ j + 1 = i /\ j < Len(S)
        BY <1>1, <3>1, <3>4
      <4>2. gone(i - 1) = j /\ gone(i) = j + 1
        BY <1>3, <3>4, <4>1
      <4>3. time >= param[S[j + 1]] /\ param[S[j + 1]] \in Nat
        <5>1. i \in 1 .. Len(S)
          BY <1>1, <3>1, <3>4, <2>5
        <5>2. S[i] \in Task
          BY <5>1, ElementOfSeq
        <5>3. QED
          BY <1>2, <3>4, <4>1, <5>1, <5>2
      <4>4. AfterWaking(WakeOne(turn[i - 1], time), L, j + 1)
        BY <1>1, <1>3, <3>2, <4>1, <4>2, <4>3, WakeMoves
      <4>5. QED
        BY <2>3, <3>3, <4>2, <4>4
    <3>5. CASE ~ (i <= k)
      <4>1. gone(i - 1) = k /\ gone(i) = k
        BY <1>3, <3>1, <3>5
      <4>2. k < Len(S) => time < param[S[k + 1]]
        <5>1. SUFFICES ASSUME k < Len(S) PROVE time < param[S[k + 1]]
          OBVIOUS
        <5>2. k + 1 \in 1 .. Len(S) /\ ~ (k + 1 <= k)
          BY <1>1, <1>3, <5>1
        <5>3. ~ (time >= param[S[k + 1]]) /\ param[S[k + 1]] \in Nat
          BY <1>2, <5>2, ElementOfSeq
        <5>4. QED
          BY <5>3
      <4>3. WakeOne(turn[i - 1], time) = turn[i - 1]
        BY <1>1, <1>3, <3>2, <4>1, <4>2, WakeStops
      <4>4. QED
        BY <2>3, <3>2, <3>3, <4>1, <4>3
    <3>6. QED
      BY <3>4, <3>5
  <2>6. QED
    BY <2>4, <2>5
<1>8. gone(NTask) = k
  BY <1>3
<1>9. AfterWaking(Expired(time), L, k)
  BY <1>3, <1>4, <1>7, <1>8
<1>10. QED
  BY <1>1, <1>2, <1>9

-----------------------------------------------------------------------------
(* What is on a list.                                                      *)

\* The tasks on s.
On(s) == {s[i] : i \in 1 .. Len(s)}

\* A task that is not among them is not on the list, and the other way round.
LEMMA OnNotOn ==
  ASSUME NEW t, NEW s
  PROVE  NotOn(t, s) <=> t \notin On(s)
BY DEF NotOn, On

\* One task more.
LEMMA OnExtends ==
  ASSUME NEW s \in Seq(Task), NEW t \in Task, NEW r, Extends(r, s, t)
  PROVE  On(r) = On(s) \cup {t}
<1>1. /\ Len(s) \in Nat /\ Len(r) = Len(s) + 1
      /\ \A i \in 1 .. Len(s) : r[i] = s[i]
      /\ r[Len(s) + 1] = t
  BY LenProperties DEF Extends
<1>2. \A i \in 1 .. Len(r) : i \in 1 .. Len(s) \/ i = Len(s) + 1
  BY <1>1
<1>3. On(r) \subseteq On(s) \cup {t}
  BY <1>1, <1>2 DEF On
<1>4. On(s) \cup {t} \subseteq On(r)
  <2>1. \A i \in 1 .. Len(s) : i \in 1 .. Len(r)
    BY <1>1
  <2>2. Len(s) + 1 \in 1 .. Len(r)
    BY <1>1
  <2>3. QED
    BY <1>1, <2>1, <2>2 DEF On
<1>5. QED
  BY <1>3, <1>4

\* One task more, not behind the others.
LEMMA OnInserts ==
  ASSUME NEW s \in Seq(Task), NEW t \in Task, NEW i \in 1 .. Len(s) + 1, NEW r, Inserts(r, s, t, i)
  PROVE  On(r) = On(s) \cup {t}
<1>1. /\ Len(s) \in Nat /\ Len(r) = Len(s) + 1
      /\ \A j \in 1 .. i - 1 : r[j] = s[j]
      /\ r[i] = t
      /\ \A j \in i + 1 .. Len(s) + 1 : r[j] = s[j - 1]
  BY LenProperties DEF Inserts
<1>2. ASSUME NEW j \in 1 .. Len(r) PROVE r[j] \in On(s) \cup {t}
  <2>1. CASE j \in 1 .. i - 1
    <3>1. j \in 1 .. Len(s)
      BY <1>1, <2>1
    <3>2. QED
      BY <1>1, <2>1, <3>1 DEF On
  <2>2. CASE j = i
    BY <1>1, <2>2
  <2>3. CASE j \in i + 1 .. Len(s) + 1
    <3>1. j - 1 \in 1 .. Len(s)
      BY <1>1, <2>3
    <3>2. QED
      BY <1>1, <2>3, <3>1 DEF On
  <2>4. QED
    BY <1>1, <2>1, <2>2, <2>3
<1>3. ASSUME NEW j \in 1 .. Len(s) PROVE s[j] \in On(r)
  <2>1. CASE j < i
    <3>1. j \in 1 .. i - 1 /\ j \in 1 .. Len(r)
      BY <1>1, <2>1
    <3>2. QED
      BY <1>1, <3>1 DEF On
  <2>2. CASE ~ (j < i)
    <3>1. j + 1 \in i + 1 .. Len(s) + 1 /\ j + 1 \in 1 .. Len(r) /\ (j + 1) - 1 = j
      BY <1>1, <2>2
    <3>2. r[j + 1] = s[(j + 1) - 1]
      BY <1>1, <3>1
    <3>3. QED
      BY <3>1, <3>2 DEF On
  <2>3. QED
    BY <2>1, <2>2
<1>4. t \in On(r)
  BY <1>1 DEF On
<1>5. QED
  BY <1>2, <1>3, <1>4 DEF On

\* One task less.
LEMMA OnDrops ==
  ASSUME NEW m, NEW q, NEW s, Chain(m, q, s), NEW r, Drops(r, s)
  PROVE  On(r) = On(s) \ {s[1]}
<1>1. /\ Len(s) \in Nat \ {0} /\ Len(r) = Len(s) - 1
      /\ \A i \in 1 .. Len(s) - 1 : r[i] = s[i + 1]
      /\ \A i, j \in 1 .. Len(s) : s[i] = s[j] => i = j
  BY DEF Drops, Chain
<1>2. ASSUME NEW i \in 1 .. Len(r) PROVE r[i] \in On(s) \ {s[1]}
  <2>1. i + 1 \in 1 .. Len(s) /\ 1 \in 1 .. Len(s) /\ i + 1 # 1 /\ r[i] = s[i + 1]
    BY <1>1
  <2>2. QED
    BY <1>1, <2>1 DEF On
<1>3. ASSUME NEW i \in 1 .. Len(s), s[i] # s[1] PROVE s[i] \in On(r)
  <2>1. i - 1 \in 1 .. Len(s) - 1 /\ (i - 1) + 1 = i
    BY <1>1, <1>3
  <2>2. r[i - 1] = s[(i - 1) + 1] /\ i - 1 \in 1 .. Len(r)
    BY <1>1, <2>1
  <2>3. QED
    BY <2>1, <2>2 DEF On
<1>4. QED
  BY <1>2, <1>3 DEF On

\* Several tasks move.
LEMMA OnMoved ==
  ASSUME NEW m, NEW L, Linked(m, L), NEW k \in 0 .. Len(L["sleep_queue"]), NEW K, Moved(L, k, K)
  PROVE  /\ On(K["ready_queue"]) = On(L["ready_queue"]) \cup Firsts(L["sleep_queue"], k)
         /\ On(K["sleep_queue"]) = On(L["sleep_queue"]) \ Firsts(L["sleep_queue"], k)
         /\ Firsts(L["sleep_queue"], k) \subseteq On(L["sleep_queue"])
<1>1. PICK S \in Seq(Task), R \in Seq(Task), ks \in Seq(Task), kr \in Seq(Task) :
        /\ S = L["sleep_queue"] /\ R = L["ready_queue"]
        /\ ks = K["sleep_queue"] /\ kr = K["ready_queue"]
  BY DEF Moved, Linked, Queue
<1>2. /\ Len(S) \in Nat /\ Len(R) \in Nat /\ k \in Nat /\ k <= Len(S)
      /\ \A i, j \in 1 .. Len(S) : S[i] = S[j] => i = j
  BY <1>1, LenProperties DEF Linked, Chain, Queue
<1>3. /\ Len(ks) = Len(S) - k /\ \A i \in 1 .. Len(S) - k : ks[i] = S[i + k]
      /\ Len(kr) = Len(R) + k /\ \A i \in 1 .. Len(R) : kr[i] = R[i]
      /\ \A i \in 1 .. k : kr[Len(R) + i] = S[i]
  BY <1>1 DEF Moved
<1> DEFINE first == {S[i] : i \in 1 .. k}
<1>4. first \subseteq On(S)
  BY <1>2 DEF On
<1>5. On(kr) = On(R) \cup first
  <2>1. ASSUME NEW i \in 1 .. Len(kr) PROVE kr[i] \in On(R) \cup first
    <3>1. CASE i <= Len(R)
      BY <1>2, <1>3, <3>1 DEF On
    <3>2. CASE ~ (i <= Len(R))
      <4>1. PICK j \in 1 .. k : i = Len(R) + j
        <5>1. i - Len(R) \in 1 .. k /\ i = Len(R) + (i - Len(R))
          BY <1>2, <1>3, <3>2
        <5>2. QED
          BY <5>1
      <4>2. QED
        BY <1>3, <4>1
    <3>3. QED
      BY <3>1, <3>2
  <2>2. ASSUME NEW i \in 1 .. Len(R) PROVE R[i] \in On(kr)
    <3>1. i \in 1 .. Len(kr) /\ kr[i] = R[i]
      BY <1>2, <1>3
    <3>2. QED
      BY <3>1 DEF On
  <2>3. ASSUME NEW i \in 1 .. k PROVE S[i] \in On(kr)
    <3>1. Len(R) + i \in 1 .. Len(kr) /\ kr[Len(R) + i] = S[i]
      BY <1>2, <1>3
    <3>2. QED
      BY <3>1 DEF On
  <2>4. QED
    BY <2>1, <2>2, <2>3 DEF On
<1>6. On(ks) = On(S) \ first
  <2>1. ASSUME NEW i \in 1 .. Len(ks) PROVE ks[i] \in On(S) \ first
    <3>1. i + k \in 1 .. Len(S) /\ ks[i] = S[i + k] /\ \A j \in 1 .. k : j # i + k /\ j \in 1 .. Len(S)
      BY <1>2, <1>3
    <3>2. \A j \in 1 .. k : S[j] # ks[i]
      BY <1>2, <3>1
    <3>3. QED
      BY <3>1, <3>2 DEF On
  <2>2. ASSUME NEW i \in 1 .. Len(S), S[i] \notin first PROVE S[i] \in On(ks)
    <3>1. ~ (i <= k)
      BY <2>2
    <3>2. i - k \in 1 .. Len(S) - k /\ (i - k) + k = i
      BY <1>2, <3>1
    <3>3. i - k \in 1 .. Len(ks) /\ ks[i - k] = S[(i - k) + k]
      BY <1>3, <3>2
    <3>4. QED
      BY <3>2, <3>3 DEF On
  <2>3. QED
    BY <2>1, <2>2 DEF On
<1>7. QED
  BY <1>1, <1>4, <1>5, <1>6 DEF Firsts

-----------------------------------------------------------------------------
(* The sequences of TaskLists.                                             *)

\* The two parts of a list.
LEMMA SplitElements ==
  ASSUME NEW S, NEW q \in Seq(S), NEW n \in 0 .. Len(q)
  PROVE  /\ Len(q) \in Nat /\ DOMAIN q = 1 .. Len(q)
         /\ SubSeq(q, 1, n) \in Seq(S) /\ Len(SubSeq(q, 1, n)) = n
         /\ DOMAIN SubSeq(q, 1, n) = 1 .. n
         /\ \A i \in 1 .. n : SubSeq(q, 1, n)[i] = q[i]
         /\ SubSeq(q, n + 1, Len(q)) \in Seq(S) /\ Len(SubSeq(q, n + 1, Len(q))) = Len(q) - n
         /\ DOMAIN SubSeq(q, n + 1, Len(q)) = 1 .. Len(q) - n
         /\ \A i \in 1 .. Len(q) - n : SubSeq(q, n + 1, Len(q))[i] = q[n + i]
<1>1. Len(q) \in Nat /\ DOMAIN q = 1 .. Len(q) /\ \A i \in 1 .. Len(q) : q[i] \in S
  BY LenProperties, ElementOfSeq
<1>2. (\A i \in 1 .. n : q[i] \in S) /\ (\A i \in n + 1 .. Len(q) : q[i] \in S)
  BY <1>1
<1>3. n \in Nat /\ n \in Int /\ n + 1 \in Int /\ Len(q) \in Int /\ 1 \in Int /\ n <= Len(q)
  BY <1>1
<1>4. /\ SubSeq(q, 1, n) \in Seq(S)
      /\ Len(SubSeq(q, 1, n)) = IF 1 <= n THEN n - 1 + 1 ELSE 0
      /\ \A i \in 1 .. n - 1 + 1 : SubSeq(q, 1, n)[i] = q[1 + i - 1]
  BY <1>2, <1>3, SubSeqProperties
<1>5. /\ SubSeq(q, n + 1, Len(q)) \in Seq(S)
      /\ Len(SubSeq(q, n + 1, Len(q))) = IF n + 1 <= Len(q) THEN Len(q) - (n + 1) + 1 ELSE 0
      /\ \A i \in 1 .. Len(q) - (n + 1) + 1 : SubSeq(q, n + 1, Len(q))[i] = q[n + 1 + i - 1]
  BY <1>2, <1>3, SubSeqProperties
<1>6. /\ Len(SubSeq(q, 1, n)) = n /\ \A i \in 1 .. n : SubSeq(q, 1, n)[i] = q[i]
  BY <1>3, <1>4
<1>7. /\ Len(SubSeq(q, n + 1, Len(q))) = Len(q) - n
      /\ \A i \in 1 .. Len(q) - n : SubSeq(q, n + 1, Len(q))[i] = q[n + i]
  <2>1. Len(SubSeq(q, n + 1, Len(q))) = Len(q) - n
    BY <1>3, <1>5
  <2>2. ASSUME NEW i \in 1 .. Len(q) - n PROVE SubSeq(q, n + 1, Len(q))[i] = q[n + i]
    <3>1. i \in 1 .. Len(q) - (n + 1) + 1 /\ n + 1 + i - 1 = n + i
      BY <1>3
    <3>2. QED
      BY <1>5, <3>1
  <2>3. QED
    BY <2>1, <2>2
<1>8. QED
  BY <1>1, <1>4, <1>5, <1>6, <1>7, LenProperties

\* InsertedAt of TaskLists puts one task more into a list.
LEMMA InsertedAtInserts ==
  ASSUME NEW q \in Seq(Task), NEW x \in Task, NEW i \in 1 .. Len(q) + 1
  PROVE  Inserts(SubSeq(q, 1, i - 1) \o <<x>> \o SubSeq(q, i, Len(q)), q, x, i)
<1> DEFINE a == SubSeq(q, 1, i - 1)
           b == SubSeq(q, i, Len(q))
           p == SubSeq(q, 1, i - 1) \o <<x>> \o SubSeq(q, i, Len(q))
<1>1. Len(q) \in Nat /\ DOMAIN q = 1 .. Len(q)
  BY LenProperties
<1>2. i - 1 \in 0 .. Len(q) /\ (i - 1) + 1 = i /\ i \in Nat
  BY <1>1
<1>3. /\ a \in Seq(Task) /\ Len(a) = i - 1 /\ \A j \in 1 .. i - 1 : a[j] = q[j]
      /\ b \in Seq(Task) /\ Len(b) = Len(q) - (i - 1)
      /\ \A j \in 1 .. Len(q) - (i - 1) : b[j] = q[(i - 1) + j]
  <2>1. PICK n \in 0 .. Len(q) : n = i - 1 /\ i = n + 1
    BY <1>2
  <2>2. /\ SubSeq(q, 1, n) \in Seq(Task) /\ Len(SubSeq(q, 1, n)) = n
        /\ \A j \in 1 .. n : SubSeq(q, 1, n)[j] = q[j]
    BY SplitElements
  <2>3. /\ SubSeq(q, n + 1, Len(q)) \in Seq(Task) /\ Len(SubSeq(q, n + 1, Len(q))) = Len(q) - n
        /\ \A j \in 1 .. Len(q) - n : SubSeq(q, n + 1, Len(q))[j] = q[n + j]
    BY SplitElements
  <2>4. a = SubSeq(q, 1, n) /\ b = SubSeq(q, n + 1, Len(q))
    BY <2>1
  <2> HIDE DEF a, b
  <2>5. a \in Seq(Task) /\ Len(a) = n /\ \A j \in 1 .. n : a[j] = q[j]
    BY <2>2, <2>4
  <2>6. b \in Seq(Task) /\ Len(b) = Len(q) - n /\ \A j \in 1 .. Len(q) - n : b[j] = q[n + j]
    BY <2>3, <2>4
  <2>7. QED
    BY <2>1, <2>5, <2>6
<1>4. <<x>> \in Seq(Task) /\ Len(<<x>>) = 1 /\ <<x>>[1] = x
  OBVIOUS
<1> HIDE DEF a, b
<1> DEFINE ax == a \o <<x>>
<1>5. /\ ax \in Seq(Task) /\ Len(ax) = (i - 1) + 1
      /\ \A j \in 1 .. (i - 1) + 1 : ax[j] = IF j <= i - 1 THEN a[j] ELSE <<x>>[j - (i - 1)]
  BY <1>3, <1>4, ConcatProperties
<1>6. p = ax \o b
  BY DEF a, b
<1> HIDE DEF ax, p
<1>7. Len(ax) = i /\ (\A j \in 1 .. i - 1 : ax[j] = q[j]) /\ ax[i] = x
  <2>1. i \in 1 .. (i - 1) + 1 /\ i - (i - 1) = 1 /\ ~ (i <= i - 1)
    BY <1>2
  <2>2. ax[i] = <<x>>[1]
    BY <1>5, <2>1
  <2>3. \A j \in 1 .. i - 1 : j \in 1 .. (i - 1) + 1 /\ j <= i - 1
    BY <1>2
  <2>4. QED
    BY <1>2, <1>3, <1>4, <1>5, <2>2, <2>3
<1>8. /\ p \in Seq(Task) /\ Len(p) = i + (Len(q) - (i - 1))
      /\ \A j \in 1 .. i + (Len(q) - (i - 1)) : p[j] = IF j <= i THEN ax[j] ELSE b[j - i]
  BY <1>3, <1>5, <1>6, <1>7, ConcatProperties
<1>9. i + (Len(q) - (i - 1)) = Len(q) + 1
  BY <1>1, <1>2
<1>10. ASSUME NEW j \in 1 .. i - 1 PROVE p[j] = q[j]
  <2>1. j \in 1 .. Len(q) + 1 /\ j <= i
    BY <1>1, <1>2
  <2>2. QED
    BY <1>7, <1>8, <1>9, <2>1
<1>11. p[i] = x
  BY <1>1, <1>2, <1>7, <1>8, <1>9
<1>12. ASSUME NEW j \in i + 1 .. Len(q) + 1 PROVE p[j] = q[j - 1]
  <2>1. /\ j \in 1 .. Len(q) + 1 /\ ~ (j <= i) /\ j - i \in 1 .. Len(q) - (i - 1)
        /\ (i - 1) + (j - i) = j - 1
    BY <1>1, <1>2
  <2>2. p[j] = b[j - i]
    BY <1>8, <1>9, <2>1
  <2>3. QED
    BY <1>3, <2>1, <2>2
<1>13. Inserts(p, q, x, i)
  BY <1>8, <1>9, <1>10, <1>11, <1>12 DEF Inserts
<1>14. QED
  BY <1>13 DEF p

\* What TIM2_Handler moves: the first k sleepers, from the one list behind the other.
LEMMA MovedParts ==
  ASSUME NEW L, L \in [Queue -> Seq(Task)], NEW k \in 0 .. Len(L["sleep_queue"]), NEW K, Moved(L, k, K)
  PROVE  /\ K["ready_queue"] = L["ready_queue"] \o SubSeq(L["sleep_queue"], 1, k)
         /\ K["sleep_queue"] = SubSeq(L["sleep_queue"], k + 1, Len(L["sleep_queue"]))
         /\ K["waitq"] = L["waitq"]
<1>1. PICK S \in Seq(Task), R \in Seq(Task), ks \in Seq(Task), kr \in Seq(Task) :
        /\ S = L["sleep_queue"] /\ R = L["ready_queue"]
        /\ ks = K["sleep_queue"] /\ kr = K["ready_queue"]
  BY DEF Moved, Queue
<1>2. Len(S) \in Nat /\ Len(R) \in Nat /\ k \in Nat /\ k <= Len(S)
  BY <1>1, LenProperties
<1>3. /\ Len(ks) = Len(S) - k /\ \A i \in 1 .. Len(S) - k : ks[i] = S[i + k]
      /\ Len(kr) = Len(R) + k /\ \A i \in 1 .. Len(R) : kr[i] = R[i]
      /\ \A i \in 1 .. k : kr[Len(R) + i] = S[i]
  BY <1>1 DEF Moved
<1> DEFINE a == SubSeq(S, 1, k)
           b == SubSeq(S, k + 1, Len(S))
           c == R \o a
<1>4. a \in Seq(Task) /\ Len(a) = k /\ \A i \in 1 .. k : a[i] = S[i]
  BY <1>1, SplitElements
<1>5. b \in Seq(Task) /\ Len(b) = Len(S) - k /\ \A i \in 1 .. Len(S) - k : b[i] = S[k + i]
  BY <1>1, SplitElements
<1> HIDE DEF a, b
<1>6. ks = b
  <2>1. Len(ks) = Len(b) /\ \A i \in 1 .. Len(ks) : i + k = k + i /\ i \in 1 .. Len(S) - k
    BY <1>2, <1>3, <1>5
  <2>2. \A i \in 1 .. Len(ks) : ks[i] = b[i]
    BY <1>3, <1>5, <2>1
  <2>3. QED
    BY <1>5, <2>1, <2>2, SeqEqual
<1>7. kr = c
  <2>1. /\ c \in Seq(Task) /\ Len(c) = Len(R) + Len(a)
        /\ \A i \in 1 .. Len(R) + Len(a) : c[i] = IF i <= Len(R) THEN R[i] ELSE a[i - Len(R)]
    BY <1>4, ConcatProperties
  <2> HIDE DEF c
  <2>2. ASSUME NEW i \in 1 .. Len(kr) PROVE kr[i] = c[i]
    <3>1. i \in 1 .. Len(R) + Len(a)
      BY <1>2, <1>3, <1>4
    <3>2. CASE i <= Len(R)
      <4>1. i \in 1 .. Len(R)
        BY <1>2, <3>2
      <4>2. kr[i] = R[i] /\ c[i] = R[i]
        BY <1>3, <2>1, <3>1, <3>2, <4>1
      <4>3. QED
        BY <4>2
    <3>3. CASE ~ (i <= Len(R))
      <4>1. PICK j \in 1 .. k : j = i - Len(R) /\ i = Len(R) + j
        <5>1. i - Len(R) \in 1 .. k /\ i = Len(R) + (i - Len(R))
          BY <1>2, <1>4, <3>1, <3>3
        <5>2. QED
          BY <5>1
      <4>2. c[i] = a[j] /\ kr[i] = S[j] /\ a[j] = S[j]
        BY <1>3, <1>4, <2>1, <3>1, <3>3, <4>1
      <4>3. QED
        BY <4>2
    <3>4. QED
      BY <3>2, <3>3
  <2>3. Len(kr) = Len(c)
    BY <1>3, <1>4, <2>1
  <2>4. QED
    BY <2>1, <2>2, <2>3, SeqEqual
<1>8. QED
  BY <1>1, <1>6, <1>7 DEF Moved, a, b

-----------------------------------------------------------------------------
(* The inductive invariant.                                                *)

\* The model's one tick between the halves of sleep must not bring the time of the sleeper,
\* which would be woken while it still runs: see NoOversleep of Kernel.
DelayAssumption == 1 \notin Delays

\* The sequences that the pointers link now.
Listed == Contents(mem)

\* Which list a task is on follows from its state; PendSV_Handler leaves the state of a task
\* that was woken or created at CURR until it has run, and the running task is on no list.
Placed(L) ==
  /\ On(L["ready_queue"]) = {t \in Task : state[t] = "READY" \/ (state[t] = "CURR" /\ t # active_task)}
  /\ On(L["sleep_queue"]) = {t \in Task : state[t] = "SLEEP"}
  /\ On(L["waitq"]) = {t \in Task : state[t] = "WAIT"}

\* The running task is not queued as ready, it calls only in state CURR, and only it can be
\* before PEND_SV(), if no switch is pending; when it sleeps there, its time is two ticks away.
Running ==
  /\ state[active_task] # "READY"
  /\ ~ pendsv /\ pc[active_task] \in {"run", "in"} => state[active_task] = "CURR"
  /\ \A t \in Task : pc[t] = "pend" => t = active_task /\ ~ pendsv /\ state[t] \in {"SLEEP", "FREE"}
  /\ pc[active_task] = "pend" /\ state[active_task] = "SLEEP" => param[active_task] >= sys_time + 2

\* The task t holds the semaphore.
Holds(t) == pc[t] = "in" /\ state[t] # "WAIT"

\* One task at most holds it, and nobody while its value is not 0.
Section ==
  /\ \A t \in Task : state[t] = "WAIT" => pc[t] = "in"
  /\ \A t \in Task : Holds(t) => value = 0
  /\ \A t, u \in Task : Holds(t) /\ Holds(u) => t = u

QueueInv ==
  /\ QueueTypeOK /\ Running /\ Section
  /\ Linked(mem, Listed) /\ Placed(Listed) /\ InOrder(Listed["sleep_queue"])

\* What the invariant says of the variables.
Typed ==
  /\ state \in [Task -> {"FREE", "CURR", "READY", "SLEEP", "WAIT"}]
  /\ param \in [Task -> Nat] /\ sys_time \in 0 .. MaxTicks
  /\ active_task \in Task /\ pendsv \in BOOLEAN /\ value \in 0 .. 1
  /\ pc \in [Task -> {"run", "in", "pend", "late"}]

\* The walk of Items finds the sequences that the pointers link.
LEMMA ItemsAre ==
  ASSUME NEW L, Linked(mem, L)
  PROVE  /\ Listed = L /\ \A q \in Queue : Items(q) = L[q]
<1>1. Listed = L
  BY ContentsAre DEF Listed
<1>2. ASSUME NEW q \in Queue PROVE Items(q) = L[q]
  <2>1. Items(q) = Walk(mem, q)
    BY DEF Items, Walk
  <2>2. Chain(mem, q, L[q])
    BY DEF Linked
  <2>3. QED
    BY <2>1, <2>2, WalkFinds
<1>3. QED
  BY <1>1, <1>2

\* The same after a step.
LEMMA ItemsBecome ==
  ASSUME NEW K, Linked(mem', K)
  PROVE  /\ Listed' = K
         /\ Items("ready_queue")' = K["ready_queue"]
         /\ Items("sleep_queue")' = K["sleep_queue"]
         /\ Items("waitq")' = K["waitq"]
<1>1. Listed' = K
  BY ContentsAre DEF Listed
<1>2. ASSUME NEW q \in Queue PROVE Items(q)' = K[q]
  <2>1. Items(q)' = Walk(mem', q)
    BY DEF Items, Walk
  <2>2. Chain(mem', q, K[q])
    BY DEF Linked
  <2>3. QED
    BY <2>1, <2>2, WalkFinds
<1>3. QED
  BY <1>1, <1>2 DEF Queue

\* What a step has to keep.
LEMMA Keeps ==
  ASSUME NEW K, Linked(mem', K), Placed(K)', InOrder(K["sleep_queue"])',
         Typed', Running', Section'
  PROVE  QueueInv'
<1>1. Listed' = K
  BY ItemsBecome
<1>2. Linked(mem', Listed') /\ Placed(Listed)' /\ InOrder(Listed["sleep_queue"])'
  BY <1>1 DEF Placed, InOrder
<1>3. QueueTypeOK'
  <2>1. mem' \in Memory
    BY DEF Linked
  <2>2. QED
    BY <2>1 DEF QueueTypeOK, Typed, Memory
<1>4. QED
  BY <1>2, <1>3 DEF QueueInv

\* The lists, when the invariant holds.
LEMMA InvLists ==
  ASSUME QueueInv
  PROVE  \E L : /\ Linked(mem, L) /\ Placed(L) /\ InOrder(L["sleep_queue"])
                /\ L \in [Queue -> Seq(Task)]
                /\ \A q \in Queue : Items(q) = L[q]
                /\ Typed
BY ItemsAre DEF QueueInv, QueueTypeOK, Typed, Linked

-----------------------------------------------------------------------------
(* Each action keeps the invariant, and is a step of TaskLists.            *)

\* A switch: PendSV_Handler queues the running task, if it can go on, and takes the first.
LEMMA PendSVStep ==
  ASSUME QueueInv, PendSV_Handler
  PROVE  QueueInv' /\ Lists!Dispatch
<1>1. PICK L : /\ Linked(mem, L) /\ Placed(L) /\ InOrder(L["sleep_queue"])
               /\ L \in [Queue -> Seq(Task)]
               /\ \A q \in Queue : Items(q) = L[q]
               /\ Typed
  BY InvLists
<1>2. Running /\ Section
  BY DEF QueueInv
<1> DEFINE R == L["ready_queue"]
           curr == state[active_task] = "CURR"
<1>3. R \in Seq(Task) /\ active_task \in Task
  BY <1>1 DEF Queue, Typed
<1>r. PICK r : r = IF curr THEN Append(R, active_task) ELSE R
  OBVIOUS
<1>K. PICK M, K, next : /\ M = [L EXCEPT !["ready_queue"] = r]
                        /\ K = [M EXCEPT !["ready_queue"] = Tail(r)]
                        /\ next = Rotated.first["ready_queue"]
  OBVIOUS
<1>p. /\ next # NULL /\ mem' = queue_pop(Rotated, "ready_queue")
      /\ active_task' = next /\ pendsv' = FALSE /\ pendsv
      /\ state' = [[state EXCEPT ![active_task] = IF @ = "CURR" THEN "READY" ELSE @]
                     EXCEPT ![next] = "CURR"]
      /\ UNCHANGED <<param, sys_time, value, pc>>
  BY <1>K DEF PendSV_Handler
<1>4. /\ Linked(Rotated, M) /\ r \in Seq(Task)
      /\ On(r) = {t \in Task : state[t] \in {"READY", "CURR"}}
  <2>1. CASE curr
    <3>1. OffAll(active_task, L)
      <4>1. \A q \in Queue : active_task \notin On(L[q])
        BY <1>1, <2>1 DEF Placed, Queue
      <4>2. QED
        BY <4>1, OnNotOn DEF OffAll
    <3>2. r = Append(R, active_task) /\ Extends(r, R, active_task)
      BY <1>3, <1>r, <2>1, AppendExtends
    <3>3. Linked(queue_push(mem, "ready_queue", active_task), M)
      BY <1>1, <1>3, <1>K, <3>1, <3>2, LinkedPush DEF Queue
    <3>4. On(r) = On(R) \cup {active_task}
      BY <1>3, <3>2, OnExtends
    <3>5. QED
      BY <1>1, <1>3, <2>1, <3>2, <3>3, <3>4 DEF Rotated, Placed, Extends
  <2>2. CASE ~ curr
    <3>1. M = L /\ r = R
      BY <1>1, <1>r, <1>K, <2>2
    <3>2. On(R) = {t \in Task : state[t] \in {"READY", "CURR"}}
      BY <1>1, <2>2 DEF Placed
    <3>3. QED
      BY <1>1, <1>3, <2>2, <3>1, <3>2 DEF Rotated
  <2>3. QED
    BY <2>1, <2>2
<1>5. M["ready_queue"] = r /\ M["sleep_queue"] = L["sleep_queue"] /\ M["waitq"] = L["waitq"]
  BY <1>1, <1>K DEF Queue
<1>6. Chain(Rotated, "ready_queue", r)
  BY <1>4, <1>5 DEF Linked, Queue
<1>7. Len(r) > 0 /\ next = r[1] /\ next \in Task
  BY <1>6, <1>K, <1>p, ChainBasics
<1>8. Drops(Tail(r), r) /\ Head(r) = r[1]
  BY <1>4, <1>7, TailDrops
<1>9. Linked(mem', K)
  BY <1>4, <1>5, <1>8, <1>K, <1>p, LinkedPop DEF Queue
<1>10. K["ready_queue"] = Tail(r) /\ K["sleep_queue"] = L["sleep_queue"] /\ K["waitq"] = L["waitq"]
  BY <1>4, <1>5, <1>K DEF Linked, Queue
<1>11. On(Tail(r)) = On(r) \ {next}
  BY <1>6, <1>7, <1>8, OnDrops
<1>12. next \in On(r)
  BY <1>4, <1>7, LenProperties DEF On
<1>13. /\ active_task' = next /\ pendsv' = FALSE /\ pendsv = TRUE
       /\ UNCHANGED <<param, sys_time, value, pc>>
  BY <1>1, <1>p DEF Typed
<1>14. /\ state' \in [Task -> {"FREE", "CURR", "READY", "SLEEP", "WAIT"}]
       /\ state'[next] = "CURR"
       /\ \A t \in Task : t # next =>
            state'[t] = IF t = active_task /\ curr THEN "READY" ELSE state[t]
  BY <1>1, <1>7, <1>p DEF Typed
<1>15. state[next] \in {"READY", "CURR"}
  BY <1>4, <1>12
<1>16. Placed(K)'
  <2>1. On(Tail(r)) = {t \in Task : state'[t] = "READY" \/ (state'[t] = "CURR" /\ t # next)}
    BY <1>4, <1>11, <1>14
  <2>2. On(L["sleep_queue"]) = {t \in Task : state'[t] = "SLEEP"}
    BY <1>1, <1>14, <1>15 DEF Placed
  <2>3. On(L["waitq"]) = {t \in Task : state'[t] = "WAIT"}
    BY <1>1, <1>14, <1>15 DEF Placed
  <2>4. QED
    BY <1>10, <1>13, <2>1, <2>2, <2>3 DEF Placed
<1>17. InOrder(K["sleep_queue"])'
  BY <1>1, <1>10, <1>13 DEF InOrder
<1>18. Running'
  BY <1>2, <1>7, <1>13, <1>14 DEF Running
<1>19. Section'
  <2>1. \A t \in Task : Holds(t)' <=> Holds(t)
    BY <1>13, <1>14, <1>15 DEF Holds
  <2>2. \A t \in Task : state'[t] = "WAIT" => state[t] = "WAIT"
    BY <1>14, <1>15
  <2>3. QED
    BY <1>2, <1>13, <2>1, <2>2 DEF Section
<1>20. Typed'
  BY <1>1, <1>7, <1>13, <1>14 DEF Typed
<1>21. QueueInv'
  BY <1>9, <1>16, <1>17, <1>18, <1>19, <1>20, Keeps
<1>22. Lists!Dispatch
  <2>1. /\ Items("ready_queue")' = Tail(r) /\ Items("sleep_queue")' = L["sleep_queue"]
        /\ Items("waitq")' = L["waitq"]
    BY <1>9, <1>10, ItemsBecome
  <2>2. Items("ready_queue") = R /\ Items("sleep_queue") = L["sleep_queue"] /\ Items("waitq") = L["waitq"]
    BY <1>1 DEF Queue
  <2>3. r # <<>> /\ r = IF curr THEN Append(Items("ready_queue"), active_task) ELSE Items("ready_queue")
    BY <1>4, <1>7, <1>r, <2>2, EmptySeq
  <2>4. QED
    BY <1>7, <1>8, <1>13, <2>1, <2>2, <2>3 DEF Lists!Dispatch
<1>23. QED
  BY <1>21, <1>22

\* A tick: TIM2_Handler wakes the sleepers whose time has come.  The running task is none of
\* them.
LEMMA TIM2Step ==
  ASSUME QueueInv, TIM2_Handler
  PROVE  QueueInv' /\ Lists!Wake
<1>1. PICK L : /\ Linked(mem, L) /\ Placed(L) /\ InOrder(L["sleep_queue"])
               /\ L \in [Queue -> Seq(Task)]
               /\ \A q \in Queue : Items(q) = L[q]
               /\ Typed
  BY InvLists
<1>2. Running /\ Section
  BY DEF QueueInv
<1>3. PICK time : /\ time = sys_time' /\ mem' = Expired(time).m
                  /\ state' = [t \in Task |-> IF t \in Expired(time).woken THEN "CURR" ELSE state[t]]
                  /\ ~ pendsv /\ ~ (pc[active_task] = "late" /\ state[active_task] = "SLEEP")
                  /\ time = IF sys_time < MaxTicks THEN sys_time + 1 ELSE sys_time
                  /\ pendsv' \in BOOLEAN
                  /\ pc' = [pc EXCEPT ![active_task] = IF @ = "pend" THEN "late" ELSE @]
                  /\ UNCHANGED <<param, active_task, value>>
  BY DEF TIM2_Handler
<1>4. /\ time \in 0 .. MaxTicks /\ time <= sys_time + 1 /\ time \in Nat /\ sys_time \in Nat
      /\ active_task \in Task /\ param \in [Task -> Nat]
  BY <1>1, <1>3, DelaysAssumption DEF Typed
<1>5. PICK S \in Seq(Task) : S = L["sleep_queue"]
  BY <1>1 DEF Queue
<1>6. PICK k \in 0 .. Len(S) :
        /\ \A i \in 1 .. Len(S) : time >= param[S[i]] <=> i <= k
        /\ AfterWaking(Expired(time), L, k)
  BY <1>1, <1>4, <1>5, ExpiredMoves
<1>7. PICK K : Linked(mem', K) /\ Moved(L, k, K)
  BY <1>3, <1>6 DEF AfterWaking
<1>8. PICK W : W = Firsts(S, k)
  OBVIOUS
<1>9. Expired(time).woken = W
  BY <1>5, <1>6, <1>8 DEF AfterWaking
<1>10. /\ On(K["ready_queue"]) = On(L["ready_queue"]) \cup W
       /\ On(K["sleep_queue"]) = On(S) \ W
       /\ W \subseteq On(S)
  BY <1>1, <1>5, <1>6, <1>7, <1>8, OnMoved
<1>11. /\ K["ready_queue"] = L["ready_queue"] \o SubSeq(S, 1, k)
       /\ K["sleep_queue"] = SubSeq(S, k + 1, Len(S))
       /\ K["waitq"] = L["waitq"]
  BY <1>1, <1>5, <1>6, <1>7, MovedParts
<1>12. \A t \in W : t \in Task /\ state[t] = "SLEEP" /\ time >= param[t]
  <2>1. \A t \in W : t \in On(S)
    BY <1>10
  <2>2. \A t \in On(S) : t \in Task /\ state[t] = "SLEEP"
    BY <1>1, <1>5 DEF Placed
  <2>3. \A i \in 1 .. k : i \in 1 .. Len(S) /\ i <= k
    BY <1>5, <1>6, LenProperties
  <2>4. \A i \in 1 .. k : time >= param[S[i]]
    BY <1>6, <2>3
  <2>5. QED
    BY <1>8, <2>1, <2>2, <2>4 DEF Firsts
<1>13. active_task \notin W
  <2>1. SUFFICES ASSUME active_task \in W PROVE FALSE
    OBVIOUS
  <2>2. state[active_task] = "SLEEP" /\ time >= param[active_task]
    BY <1>12, <2>1
  <2>3. pc[active_task] = "pend"
    BY <1>1, <1>2, <1>3, <2>2 DEF Running, Typed
  <2>4. param[active_task] >= sys_time + 2 /\ param[active_task] \in Nat
    BY <1>2, <1>4, <2>2, <2>3 DEF Running
  <2>5. QED
    BY <1>4, <2>2, <2>4
<1>14. /\ state' \in [Task -> {"FREE", "CURR", "READY", "SLEEP", "WAIT"}]
       /\ \A t \in Task : state'[t] = IF t \in W THEN "CURR" ELSE state[t]
  BY <1>1, <1>3, <1>9 DEF Typed
<1>15. Placed(K)'
  <2>1. On(K["ready_queue"]) = {t \in Task : state'[t] = "READY" \/ (state'[t] = "CURR" /\ t # active_task')}
    BY <1>1, <1>3, <1>10, <1>12, <1>13, <1>14 DEF Placed
  <2>2. On(K["sleep_queue"]) = {t \in Task : state'[t] = "SLEEP"}
    BY <1>1, <1>5, <1>10, <1>12, <1>14 DEF Placed
  <2>3. On(K["waitq"]) = {t \in Task : state'[t] = "WAIT"}
    BY <1>1, <1>11, <1>12, <1>14 DEF Placed
  <2>4. QED
    BY <2>1, <2>2, <2>3 DEF Placed
<1>16. InOrder(K["sleep_queue"])'
  <2>1. PICK s \in Seq(Task) : s = K["sleep_queue"]
    BY <1>7 DEF Moved, Queue
  <2>2. Len(s) = Len(S) - k /\ \A i \in 1 .. Len(S) - k : s[i] = S[i + k]
    BY <1>5, <1>7, <2>1 DEF Moved
  <2>3. Len(S) \in Nat
    BY <1>5, LenProperties
  <2>4. ASSUME NEW i \in 1 .. Len(s), NEW j \in 1 .. Len(s), i < j
        PROVE  param[s[i]] <= param[s[j]]
    <3>1. i + k \in 1 .. Len(S) /\ j + k \in 1 .. Len(S) /\ i + k < j + k
      BY <1>6, <2>2, <2>3, <2>4
    <3>2. param[S[i + k]] <= param[S[j + k]]
      BY <1>1, <1>5, <3>1 DEF InOrder
    <3>3. QED
      BY <2>2, <3>2
  <2>5. QED
    BY <1>3, <2>1, <2>4 DEF InOrder
<1>17. /\ pc' \in [Task -> {"run", "in", "pend", "late"}]
       /\ \A t \in Task : pc'[t] = IF t = active_task /\ pc[t] = "pend" THEN "late" ELSE pc[t]
  BY <1>1, <1>3 DEF Typed
<1>18. Running'
  <2>1. \A t \in Task : pc'[t] # "pend"
    BY <1>2, <1>17 DEF Running
  <2>2. state'[active_task'] # "READY"
    BY <1>2, <1>3, <1>4, <1>13, <1>14 DEF Running
  <2>3. pc'[active_task'] \in {"run", "in"} => state'[active_task'] = "CURR"
    BY <1>2, <1>3, <1>4, <1>13, <1>14, <1>17 DEF Running
  <2>4. QED
    BY <1>3, <1>4, <2>1, <2>2, <2>3 DEF Running
<1>19. Section'
  <2>1. \A t \in Task : Holds(t)' <=> Holds(t)
    BY <1>12, <1>14, <1>17 DEF Holds
  <2>2. \A t \in Task : state'[t] = "WAIT" => state[t] = "WAIT" /\ (pc[t] = "in" => pc'[t] = "in")
    BY <1>14, <1>17
  <2>3. QED
    BY <1>2, <1>3, <2>1, <2>2 DEF Section
<1>20. Typed'
  BY <1>1, <1>3, <1>4, <1>14, <1>17 DEF Typed
<1>21. QueueInv'
  BY <1>7, <1>15, <1>16, <1>18, <1>19, <1>20, Keeps
<1>22. Lists!Wake
  <2>1. /\ Items("ready_queue")' = Items("ready_queue") \o SubSeq(Items("sleep_queue"), 1, k)
        /\ Items("sleep_queue")' = SubSeq(Items("sleep_queue"), k + 1, Len(Items("sleep_queue")))
        /\ Items("waitq")' = Items("waitq")
        /\ Items("sleep_queue") = S
    BY <1>1, <1>5, <1>7, <1>11, ItemsBecome DEF Queue
  <2>2. QED
    BY <1>3, <1>6, <2>1 DEF Lists!Wake
<1>23. QED
  BY <1>21, <1>22

\* Whoever is at a call runs, and is on no list.
LEMMA CallerOff ==
  ASSUME QueueInv, NEW L, Linked(mem, L), Placed(L), NEW t \in Task,
         At(t, "run") \/ At(t, "in")
  PROVE  t = active_task /\ state[t] = "CURR" /\ ~ pendsv /\ OffAll(t, L)
<1>1. t = active_task /\ state[t] = "CURR" /\ ~ pendsv
  BY DEF QueueInv, Running, At
<1>2. \A q \in Queue : t \notin On(L[q])
  BY <1>1 DEF Placed, Queue
<1>3. QED
  BY <1>1, <1>2, OnNotOn DEF OffAll

\* A list sorted by time, with one more task where queue_pushsort puts it, is sorted.
LEMMA InsertInOrder ==
  ASSUME NEW s \in Seq(Task), param \in [Task -> Nat], InOrder(s), NEW t \in Task, NotOn(t, s),
         NEW p \in Nat, NEW i, GoesTo(s, p, i), NEW r, Inserts(r, s, t, i),
         param' = [param EXCEPT ![t] = p]
  PROVE  InOrder(r)'
<1>1. /\ Len(s) \in Nat /\ i \in 1 .. Len(s) + 1
      /\ \A j \in 1 .. Len(s) : s[j] \in Task /\ s[j] # t /\ param[s[j]] \in Nat
                                /\ param'[s[j]] = param[s[j]]
  BY LenProperties, ElementOfSeq DEF GoesTo, NotOn
<1>2. param'[t] = p
  OBVIOUS
<1>3. /\ Len(r) = Len(s) + 1
      /\ \A j \in 1 .. i - 1 : r[j] = s[j]
      /\ r[i] = t
      /\ \A j \in i + 1 .. Len(s) + 1 : r[j] = s[j - 1]
  BY DEF Inserts
<1>4. ASSUME NEW j \in 1 .. i - 1 PROVE param[s[j]] <= p
  <2>1. j \in 1 .. Len(s)
    BY <1>1
  <2>2. CASE j = 1
    <3>1. ~ (p < param[s[1]])
      BY <1>1, <1>4, <2>2 DEF GoesTo
    <3>2. QED
      BY <1>1, <2>1, <2>2, <3>1
  <2>3. CASE j # 1
    <3>1. p > param[s[j]]
      BY <1>1, <1>4, <2>3 DEF GoesTo
    <3>2. QED
      BY <1>1, <2>1, <3>1
  <2>4. QED
    BY <2>2, <2>3
<1>5. ASSUME NEW j \in i .. Len(s) PROVE p <= param[s[j]]
  <2>1. i \in 1 .. Len(s) /\ j \in 1 .. Len(s) /\ (i = j \/ i < j)
    BY <1>1
  <2>2. p <= param[s[i]]
    <3>1. CASE i = 1
      <4>1. p < param[s[1]]
        BY <1>1, <2>1, <3>1 DEF GoesTo
      <4>2. QED
        BY <1>1, <2>1, <3>1, <4>1
    <3>2. CASE i # 1
      <4>1. ~ (p > param[s[i]])
        BY <1>1, <2>1, <3>2 DEF GoesTo
      <4>2. QED
        BY <1>1, <2>1, <4>1
    <3>3. QED
      BY <3>1, <3>2
  <2>3. param[s[i]] <= param[s[j]]
    BY <1>1, <2>1 DEF InOrder
  <2>4. QED
    BY <1>1, <2>1, <2>2, <2>3
<1>6. ASSUME NEW j \in 1 .. Len(r), NEW k \in 1 .. Len(r), j < k
      PROVE  param'[r[j]] <= param'[r[k]]
  <2>1. CASE k < i
    <3>1. j \in 1 .. i - 1 /\ k \in 1 .. i - 1 /\ j \in 1 .. Len(s) /\ k \in 1 .. Len(s)
      BY <1>1, <1>6, <2>1
    <3>2. param[s[j]] <= param[s[k]]
      BY <1>6, <3>1 DEF InOrder
    <3>3. QED
      BY <1>1, <1>3, <3>1, <3>2
  <2>2. CASE k = i
    <3>1. j \in 1 .. i - 1 /\ j \in 1 .. Len(s)
      BY <1>1, <1>6, <2>2
    <3>2. QED
      BY <1>1, <1>2, <1>3, <1>4, <2>2, <3>1
  <2>3. CASE k > i /\ j < i
    <3>1. j \in 1 .. i - 1 /\ j \in 1 .. Len(s)
      BY <1>1, <2>3
    <3>2. k \in i + 1 .. Len(s) + 1 /\ k - 1 \in i .. Len(s) /\ k - 1 \in 1 .. Len(s)
      BY <1>1, <1>3, <2>3
    <3>3. r[j] = s[j] /\ r[k] = s[k - 1]
      BY <1>3, <3>1, <3>2
    <3>4. param[s[j]] <= p /\ p <= param[s[k - 1]]
      BY <1>4, <1>5, <3>1, <3>2
    <3>5. param'[r[j]] = param[s[j]] /\ param'[r[k]] = param[s[k - 1]]
      BY <1>1, <3>1, <3>2, <3>3
    <3>6. param[s[j]] \in Nat /\ param[s[k - 1]] \in Nat
      BY <1>1, <3>1, <3>2
    <3>7. QED
      BY <3>4, <3>5, <3>6
  <2>4. CASE j = i
    <3>1. k \in i + 1 .. Len(s) + 1 /\ k - 1 \in i .. Len(s) /\ k - 1 \in 1 .. Len(s)
      BY <1>1, <1>3, <1>6, <2>4
    <3>2. r[k] = s[k - 1] /\ p <= param[s[k - 1]]
      BY <1>3, <1>5, <3>1
    <3>3. param'[r[k]] = param[s[k - 1]] /\ r[j] = t
      BY <1>1, <1>3, <2>4, <3>1, <3>2
    <3>4. QED
      BY <1>2, <3>2, <3>3
  <2>5. CASE j > i
    <3>1. /\ j \in i + 1 .. Len(s) + 1 /\ k \in i + 1 .. Len(s) + 1
          /\ j - 1 \in 1 .. Len(s) /\ k - 1 \in 1 .. Len(s) /\ j - 1 < k - 1
      BY <1>1, <1>3, <1>6, <2>5
    <3>2. r[j] = s[j - 1] /\ r[k] = s[k - 1] /\ param[s[j - 1]] <= param[s[k - 1]]
      BY <1>3, <3>1 DEF InOrder
    <3>3. QED
      BY <1>1, <3>1, <3>2
  <2>6. QED
    BY <1>1, <2>1, <2>2, <2>3, <2>4, <2>5
<1>7. QED
  BY <1>6 DEF InOrder

\* sleep links the running task into the list of sleepers.
LEMMA SleepStep ==
  ASSUME QueueInv, DelayAssumption, NEW t \in Task, Sleep(t)
  PROVE  QueueInv' /\ Lists!Park
<1>1. PICK L : /\ Linked(mem, L) /\ Placed(L) /\ InOrder(L["sleep_queue"])
               /\ L \in [Queue -> Seq(Task)]
               /\ \A q \in Queue : Items(q) = L[q]
               /\ Typed
  BY InvLists
<1>2. Running /\ Section
  BY DEF QueueInv
<1>3. /\ At(t, "run")
      /\ state' = [state EXCEPT ![t] = "SLEEP"] /\ pc' = [pc EXCEPT ![t] = "pend"]
      /\ UNCHANGED <<sys_time, active_task, pendsv, value>>
  BY DEF Sleep, Goto
<1>4. PICK ticks \in Delays : /\ sys_time + ticks <= MaxTicks
                              /\ param' = [param EXCEPT ![t] = sys_time + ticks]
                              /\ mem' = queue_pushsort(mem, "sleep_queue", t, sys_time + ticks)
  BY DEF Sleep
<1>5. t = active_task /\ state[t] = "CURR" /\ ~ pendsv /\ OffAll(t, L)
  BY <1>1, <1>3, CallerOff
<1>6. PICK p \in Nat : p = sys_time + ticks /\ p >= sys_time + 2
  <2>1. ticks \in Nat /\ ticks # 0 /\ ticks # 1 /\ sys_time \in Nat
    BY <1>1, DelaysAssumption DEF DelayAssumption, Typed
  <2>2. sys_time + ticks \in Nat /\ sys_time + ticks >= sys_time + 2
    BY <2>1
  <2>3. QED
    BY <2>2
<1>7. PICK s \in Seq(Task) : s = L["sleep_queue"]
  BY <1>1 DEF Queue
<1>8. PICK i \in 1 .. Len(s) + 1 :
        /\ GoesTo(s, p, i)
        /\ \A r : Inserts(r, s, t, i) => Linked(mem', [L EXCEPT !["sleep_queue"] = r])
  BY <1>1, <1>4, <1>5, <1>6, <1>7, LinkedPushsort DEF Queue
<1>9. PICK r : r = SubSeq(s, 1, i - 1) \o <<t>> \o SubSeq(s, i, Len(s))
  OBVIOUS
<1>10. Inserts(r, s, t, i)
  BY <1>9, InsertedAtInserts
<1>11. PICK K : K = [L EXCEPT !["sleep_queue"] = r]
  OBVIOUS
<1>12. Linked(mem', K)
  BY <1>8, <1>10, <1>11
<1>13. K["sleep_queue"] = r /\ K["ready_queue"] = L["ready_queue"] /\ K["waitq"] = L["waitq"]
  BY <1>1, <1>11 DEF Queue
<1>14. On(r) = On(s) \cup {t}
  BY <1>10, OnInserts
<1>15. /\ state' \in [Task -> {"FREE", "CURR", "READY", "SLEEP", "WAIT"}]
       /\ pc' \in [Task -> {"run", "in", "pend", "late"}]
       /\ state'[t] = "SLEEP" /\ pc'[t] = "pend"
       /\ \A u \in Task : u # t => state'[u] = state[u] /\ pc'[u] = pc[u]
  BY <1>1, <1>3 DEF Typed
<1>16. Placed(K)'
  <2>1. On(K["ready_queue"]) = {u \in Task : state'[u] = "READY" \/ (state'[u] = "CURR" /\ u # active_task')}
    BY <1>1, <1>3, <1>5, <1>13, <1>15 DEF Placed
  <2>2. On(K["sleep_queue"]) = {u \in Task : state'[u] = "SLEEP"}
    BY <1>1, <1>5, <1>7, <1>13, <1>14, <1>15 DEF Placed
  <2>3. On(K["waitq"]) = {u \in Task : state'[u] = "WAIT"}
    BY <1>1, <1>5, <1>13, <1>15 DEF Placed
  <2>4. QED
    BY <2>1, <2>2, <2>3 DEF Placed
<1>17. InOrder(r)'
  <2>1. NotOn(t, s) /\ InOrder(s) /\ param \in [Task -> Nat] /\ param' = [param EXCEPT ![t] = p]
    BY <1>1, <1>4, <1>5, <1>6, <1>7 DEF OffAll, Queue, Typed
  <2>2. QED
    BY <1>8, <1>10, <2>1, InsertInOrder
<1>18. Running'
  <2>1. param'[t] = p /\ param' \in [Task -> Nat]
    BY <1>1, <1>4, <1>6 DEF Typed
  <2>2. QED
    BY <1>2, <1>3, <1>5, <1>6, <1>15, <2>1 DEF Running
<1>19. Section'
  <2>1. \A u \in Task : Holds(u)' => Holds(u)
    BY <1>15 DEF Holds
  <2>2. \A u \in Task : state'[u] = "WAIT" => state[u] = "WAIT" /\ pc'[u] = pc[u]
    BY <1>15
  <2>3. QED
    BY <1>2, <1>3, <2>1, <2>2 DEF Section
<1>20. Typed'
  BY <1>1, <1>3, <1>4, <1>6, <1>15 DEF Typed
<1>21. QueueInv'
  BY <1>12, <1>13, <1>16, <1>17, <1>18, <1>19, <1>20, Keeps
<1>22. Lists!Park
  <2>1. /\ Items("ready_queue")' = Items("ready_queue") /\ Items("sleep_queue")' = r
        /\ Items("waitq")' = Items("waitq") /\ Items("sleep_queue") = s
    BY <1>1, <1>7, <1>12, <1>13, ItemsBecome DEF Queue
  <2>2. r = Lists!InsertedAt(s, t, i)
    BY <1>9 DEF Lists!InsertedAt
  <2>3. Lists!Sorted(r)
    <3>1. DOMAIN r = 1 .. Len(r)
      BY <1>10, LenProperties DEF Inserts
    <3>2. \A j, l \in 1 .. Len(r) : j < l => param'[r[j]] <= param'[r[l]]
      BY <1>17 DEF InOrder
    <3>3. QED
      BY <3>1, <3>2 DEF Lists!Sorted
  <2>4. \A u \in Task \ {active_task} : param'[u] = param[u]
    BY <1>1, <1>4, <1>5 DEF Typed
  <2>5. QED
    BY <1>3, <1>5, <2>1, <2>2, <2>3, <2>4 DEF Lists!Park
<1>23. QED
  BY <1>21, <1>22

\* An action that leaves the pointers, the clock and the times alone.
LEMMA ListsStay ==
  ASSUME QueueInv, UNCHANGED <<mem, param, sys_time, active_task>>,
         \A t \in Task : state'[t] # state[t] => state[t] = "CURR" /\ t = active_task /\ state'[t] = "FREE",
         Typed', Running', Section'
  PROVE  QueueInv' /\ Lists!Leave
<1>1. PICK L : /\ Linked(mem, L) /\ Placed(L) /\ InOrder(L["sleep_queue"])
               /\ L \in [Queue -> Seq(Task)]
               /\ \A q \in Queue : Items(q) = L[q]
               /\ Typed
  BY InvLists
<1>2. Linked(mem', L)
  BY <1>1
<1>3. Placed(L)'
  <2>1. On(L["ready_queue"]) = {t \in Task : state'[t] = "READY" \/ (state'[t] = "CURR" /\ t # active_task')}
    BY <1>1 DEF Placed
  <2>2. On(L["sleep_queue"]) = {t \in Task : state'[t] = "SLEEP"}
    BY <1>1 DEF Placed
  <2>3. On(L["waitq"]) = {t \in Task : state'[t] = "WAIT"}
    BY <1>1 DEF Placed
  <2>4. QED
    BY <2>1, <2>2, <2>3 DEF Placed
<1>4. InOrder(L["sleep_queue"])'
  BY <1>1 DEF InOrder
<1>5. QueueInv'
  BY <1>2, <1>3, <1>4, Keeps
<1>6. Lists!Leave
  <2>1. /\ Items("ready_queue")' = Items("ready_queue")
        /\ Items("sleep_queue")' = Items("sleep_queue")
        /\ Items("waitq")' = Items("waitq")
    BY <1>1, <1>2, ItemsBecome DEF Queue
  <2>2. QED
    BY <2>1 DEF Lists!Leave
<1>7. QED
  BY <1>5, <1>6

\* PEND_SV() asks for a switch.
LEMMA PendStep ==
  ASSUME QueueInv, NEW t \in Task, Pend(t)
  PROVE  QueueInv' /\ Lists!Leave
<1>1. /\ t = active_task /\ pendsv' = TRUE /\ pc' = [pc EXCEPT ![t] = "run"]
      /\ pc[t] \in {"pend", "late"}
      /\ UNCHANGED <<mem, state, param, sys_time, active_task, value>>
  BY DEF Pend, At, Goto
<1>2. Typed /\ Running /\ Section
  BY DEF QueueInv, QueueTypeOK, Typed
<1>3. Typed'
  BY <1>1, <1>2 DEF Typed
<1>4. \A u \in Task : pc'[u] = IF u = t THEN "run" ELSE pc[u]
  BY <1>1, <1>2 DEF Typed
<1>5. Running'
  BY <1>1, <1>2, <1>4 DEF Running
<1>6. Section'
  BY <1>1, <1>2, <1>4 DEF Section, Holds
<1>7. QED
  BY <1>1, <1>3, <1>5, <1>6, ListsStay

\* killer frees the slot of the task that returns.
LEMMA ExitStep ==
  ASSUME QueueInv, NEW t \in Task, Exit(t)
  PROVE  QueueInv' /\ Lists!Leave
<1>1. /\ t = active_task /\ ~ pendsv /\ pc[t] = "run"
      /\ state' = [state EXCEPT ![t] = "FREE"] /\ pc' = [pc EXCEPT ![t] = "pend"]
      /\ UNCHANGED <<mem, param, sys_time, active_task, pendsv, value>>
  BY DEF Exit, At, Goto
<1>2. Typed /\ Running /\ Section
  BY DEF QueueInv, QueueTypeOK, Typed
<1>3. /\ state' \in [Task -> {"FREE", "CURR", "READY", "SLEEP", "WAIT"}]
      /\ pc' \in [Task -> {"run", "in", "pend", "late"}]
      /\ \A u \in Task : /\ state'[u] = IF u = t THEN "FREE" ELSE state[u]
                         /\ pc'[u] = IF u = t THEN "pend" ELSE pc[u]
  BY <1>1, <1>2 DEF Typed
<1>4. Typed'
  BY <1>1, <1>2, <1>3 DEF Typed
<1>5. Running'
  BY <1>1, <1>2, <1>3 DEF Running
<1>6. Section'
  BY <1>1, <1>2, <1>3 DEF Section, Holds
<1>7. state[t] = "CURR"
  BY <1>1, <1>2 DEF Running
<1>8. QED
  BY <1>1, <1>3, <1>4, <1>5, <1>6, <1>7, ListsStay

\* sem_wait that finds the semaphore free.
LEMMA EnterStep ==
  ASSUME QueueInv, NEW t \in Task, sem_wait(t), value > 0
  PROVE  QueueInv' /\ Lists!Leave
<1>1. Typed /\ Running /\ Section
  BY DEF QueueInv, QueueTypeOK, Typed
<1>2. /\ t = active_task /\ ~ pendsv /\ pc[t] = "run" /\ pc' = [pc EXCEPT ![t] = "in"]
      /\ value = 1 /\ value' = 0
      /\ UNCHANGED <<mem, state, pendsv, param, sys_time, active_task>>
  BY <1>1 DEF sem_wait, At, Goto, Typed
<1>3. Typed'
  BY <1>1, <1>2 DEF Typed
<1>4. \A u \in Task : pc'[u] = IF u = t THEN "in" ELSE pc[u]
  BY <1>1, <1>2 DEF Typed
<1>5. Running'
  BY <1>1, <1>2, <1>4 DEF Running
<1>6. Section'
  <2>1. \A u \in Task : ~ Holds(u)
    BY <1>1, <1>2 DEF Section
  <2>2. \A u \in Task : Holds(u)' => u = t
    BY <1>2, <1>4, <2>1 DEF Holds
  <2>3. QED
    BY <1>1, <1>2, <1>4, <2>2 DEF Section
<1>7. QED
  BY <1>2, <1>3, <1>5, <1>6, ListsStay

\* sem_wait that does not.
LEMMA WaitStep ==
  ASSUME QueueInv, NEW t \in Task, sem_wait(t), ~ (value > 0)
  PROVE  QueueInv' /\ Lists!Wait
<1>1. PICK L : /\ Linked(mem, L) /\ Placed(L) /\ InOrder(L["sleep_queue"])
               /\ L \in [Queue -> Seq(Task)]
               /\ \A q \in Queue : Items(q) = L[q]
               /\ Typed
  BY InvLists
<1>2. Running /\ Section
  BY DEF QueueInv
<1>3. /\ At(t, "run") /\ pc' = [pc EXCEPT ![t] = "in"]
      /\ state' = [state EXCEPT ![t] = "WAIT"]
      /\ mem' = queue_push(mem, "waitq", t)
      /\ pendsv' = TRUE
      /\ UNCHANGED <<value, param, sys_time, active_task>>
  BY DEF sem_wait, Goto
<1>4. t = active_task /\ state[t] = "CURR" /\ ~ pendsv /\ OffAll(t, L)
  BY <1>1, <1>3, CallerOff
<1>s. PICK s \in Seq(Task) : s = L["waitq"]
  BY <1>1 DEF Queue
<1>5. PICK r, K : s = L["waitq"] /\ r = Append(s, t) /\ K = [L EXCEPT !["waitq"] = r]
  BY <1>s
<1>6. Extends(r, s, t) /\ On(r) = On(s) \cup {t}
  BY <1>5, AppendExtends, OnExtends
<1>7. Linked(mem', K)
  BY <1>1, <1>3, <1>4, <1>5, <1>6, LinkedPush DEF Queue
<1>8. K["waitq"] = r /\ K["ready_queue"] = L["ready_queue"] /\ K["sleep_queue"] = L["sleep_queue"]
  BY <1>1, <1>5 DEF Queue
<1>9. /\ state' \in [Task -> {"FREE", "CURR", "READY", "SLEEP", "WAIT"}]
      /\ pc' \in [Task -> {"run", "in", "pend", "late"}]
      /\ \A u \in Task : /\ state'[u] = IF u = t THEN "WAIT" ELSE state[u]
                         /\ pc'[u] = IF u = t THEN "in" ELSE pc[u]
  BY <1>1, <1>3 DEF Typed
<1>10. Placed(K)'
  <2>1. On(K["ready_queue"]) = {u \in Task : state'[u] = "READY" \/ (state'[u] = "CURR" /\ u # active_task')}
    BY <1>1, <1>3, <1>4, <1>8, <1>9 DEF Placed
  <2>2. On(K["sleep_queue"]) = {u \in Task : state'[u] = "SLEEP"}
    BY <1>1, <1>4, <1>8, <1>9 DEF Placed
  <2>3. On(K["waitq"]) = {u \in Task : state'[u] = "WAIT"}
    BY <1>1, <1>5, <1>6, <1>8, <1>9 DEF Placed
  <2>4. QED
    BY <2>1, <2>2, <2>3 DEF Placed
<1>11. InOrder(K["sleep_queue"])'
  BY <1>1, <1>3, <1>8 DEF InOrder
<1>12. Running'
  BY <1>2, <1>3, <1>4, <1>9 DEF Running
<1>13. Section'
  <2>1. \A u \in Task : Holds(u)' => Holds(u)
    BY <1>9 DEF Holds
  <2>2. QED
    BY <1>2, <1>3, <1>9, <2>1 DEF Section
<1>14. Typed'
  BY <1>1, <1>3, <1>9 DEF Typed
<1>15. QueueInv'
  BY <1>7, <1>10, <1>11, <1>12, <1>13, <1>14, Keeps
<1>16. Lists!Wait
  <2>1. /\ Items("waitq")' = Append(Items("waitq"), t)
        /\ Items("ready_queue")' = Items("ready_queue") /\ Items("sleep_queue")' = Items("sleep_queue")
    BY <1>1, <1>5, <1>7, <1>8, ItemsBecome DEF Queue
  <2>2. QED
    BY <1>3, <1>4, <2>1 DEF Lists!Wait
<1>17. QED
  BY <1>15, <1>16

\* sem_signal with nobody waiting.
LEMMA ReleaseStep ==
  ASSUME QueueInv, NEW t \in Task, sem_signal(t), mem.first["waitq"] = NULL
  PROVE  QueueInv' /\ Lists!Leave
<1>1. Typed /\ Running /\ Section
  BY DEF QueueInv, QueueTypeOK, Typed
<1>2. /\ t = active_task /\ ~ pendsv /\ pc[t] = "in" /\ pc' = [pc EXCEPT ![t] = "run"]
      /\ value' = value + 1
      /\ UNCHANGED <<mem, state, pendsv, param, sys_time, active_task>>
  BY DEF sem_signal, At, Goto, NextValue
<1>3. Holds(t) /\ value = 0
  BY <1>1, <1>2 DEF Holds, Running, Section
<1>4. Typed'
  BY <1>1, <1>2, <1>3 DEF Typed
<1>5. \A u \in Task : pc'[u] = IF u = t THEN "run" ELSE pc[u]
  BY <1>1, <1>2 DEF Typed
<1>6. Running'
  BY <1>1, <1>2, <1>5 DEF Running
<1>7. Section'
  <2>1. \A u \in Task : Holds(u) => u = t
    BY <1>1, <1>2, <1>3 DEF Section
  <2>2. \A u \in Task : ~ Holds(u)'
    BY <1>2, <1>5, <2>1 DEF Holds
  <2>3. state[t] = "CURR"
    BY <1>1, <1>2 DEF Running
  <2>4. QED
    BY <1>1, <1>2, <1>5, <2>2, <2>3 DEF Section
<1>8. QED
  BY <1>2, <1>4, <1>6, <1>7, ListsStay

\* sem_signal hands the semaphore to the first that waits.
LEMMA SignalStep ==
  ASSUME QueueInv, NEW t \in Task, sem_signal(t), mem.first["waitq"] # NULL
  PROVE  QueueInv' /\ Lists!Signal
<1>1. PICK L : /\ Linked(mem, L) /\ Placed(L) /\ InOrder(L["sleep_queue"])
               /\ L \in [Queue -> Seq(Task)]
               /\ \A q \in Queue : Items(q) = L[q]
               /\ Typed
  BY InvLists
<1>2. Running /\ Section
  BY DEF QueueInv
<1>3. PICK tmp : tmp = mem.first["waitq"]
  OBVIOUS
<1>4. /\ At(t, "in") /\ pc' = [pc EXCEPT ![t] = "run"] /\ value' = value
      /\ state' = [state EXCEPT ![tmp] = "READY"]
      /\ mem' = queue_push(queue_pop(mem, "waitq"), "ready_queue", tmp)
      /\ pendsv' = TRUE
      /\ UNCHANGED <<param, sys_time, active_task>>
  BY <1>3 DEF sem_signal, Goto, NextValue
<1>5. t = active_task /\ state[t] = "CURR" /\ ~ pendsv
  BY <1>1, <1>4, CallerOff
<1>6. PICK s \in Seq(Task), R \in Seq(Task) : s = L["waitq"] /\ R = L["ready_queue"]
  BY <1>1 DEF Queue
<1>7. Chain(mem, "waitq", s)
  BY <1>1, <1>6 DEF Linked, Queue
<1>8. Len(s) > 0 /\ tmp = s[1] /\ tmp \in Task
  BY <1>3, <1>7, ChainBasics
<1>9. Drops(Tail(s), s) /\ Head(s) = tmp /\ s # <<>>
  BY <1>6, <1>8, TailDrops, EmptySeq
<1>10. On(Tail(s)) = On(s) \ {tmp} /\ tmp \in On(s)
  <2>1. On(Tail(s)) = On(s) \ {s[1]}
    BY <1>7, <1>9, OnDrops
  <2>2. 1 \in 1 .. Len(s)
    BY <1>6, <1>8, LenProperties
  <2>3. QED
    BY <1>8, <2>1, <2>2 DEF On
<1>11. state[tmp] = "WAIT" /\ tmp # t
  BY <1>1, <1>5, <1>6, <1>10 DEF Placed
<1>12. PICK r, M, K : /\ r = Append(R, tmp)
                      /\ M = [L EXCEPT !["waitq"] = Tail(s)]
                      /\ K = [M EXCEPT !["ready_queue"] = r]
  OBVIOUS
<1>13. Linked(queue_pop(mem, "waitq"), M)
  BY <1>1, <1>6, <1>9, <1>12, LinkedPop DEF Queue
<1>14. /\ M["ready_queue"] = R /\ OffAll(tmp, M)
       /\ M \in [Queue -> Seq(Task)] /\ M["waitq"] = Tail(s) /\ M["sleep_queue"] = L["sleep_queue"]
  <2>1. OffAll(tmp, M)
    BY <1>1, <1>6, <1>8, <1>9, <1>12, HeadOff DEF Queue
  <2>2. M \in [Queue -> Seq(Task)]
    BY <1>13 DEF Linked
  <2>3. QED
    BY <1>1, <1>6, <1>12, <2>1, <2>2 DEF Queue
<1>15. Extends(r, R, tmp) /\ On(r) = On(R) \cup {tmp}
  BY <1>6, <1>8, <1>12, AppendExtends, OnExtends
<1>16. Linked(mem', K)
  BY <1>4, <1>8, <1>12, <1>13, <1>14, <1>15, LinkedPush DEF Queue
<1>17. K["ready_queue"] = r /\ K["waitq"] = Tail(s) /\ K["sleep_queue"] = L["sleep_queue"]
  BY <1>12, <1>14 DEF Queue
<1>18. /\ state' \in [Task -> {"FREE", "CURR", "READY", "SLEEP", "WAIT"}]
       /\ pc' \in [Task -> {"run", "in", "pend", "late"}]
       /\ \A u \in Task : /\ state'[u] = IF u = tmp THEN "READY" ELSE state[u]
                          /\ pc'[u] = IF u = t THEN "run" ELSE pc[u]
  BY <1>1, <1>4, <1>8 DEF Typed
<1>19. Placed(K)'
  <2>1. On(K["ready_queue"]) = {u \in Task : state'[u] = "READY" \/ (state'[u] = "CURR" /\ u # active_task')}
    BY <1>1, <1>4, <1>6, <1>8, <1>11, <1>15, <1>17, <1>18 DEF Placed
  <2>2. On(K["sleep_queue"]) = {u \in Task : state'[u] = "SLEEP"}
    <3>1. \A u \in Task : state'[u] = "SLEEP" <=> state[u] = "SLEEP"
      BY <1>11, <1>18
    <3>2. On(K["sleep_queue"]) = {u \in Task : state[u] = "SLEEP"}
      BY <1>1, <1>17 DEF Placed
    <3>3. QED
      BY <3>1, <3>2
  <2>3. On(K["waitq"]) = {u \in Task : state'[u] = "WAIT"}
    BY <1>1, <1>6, <1>10, <1>17, <1>18 DEF Placed
  <2>4. QED
    BY <2>1, <2>2, <2>3 DEF Placed
<1>20. InOrder(K["sleep_queue"])'
  BY <1>1, <1>4, <1>17 DEF InOrder
<1>21. Running'
  BY <1>2, <1>4, <1>5, <1>11, <1>18 DEF Running
<1>22. Section'
  <2>1. Holds(t) /\ value = 0
    BY <1>2, <1>4, <1>5 DEF Holds, Section, At
  <2>2. \A u \in Task : Holds(u) => u = t
    BY <1>2, <2>1 DEF Section
  <2>3. \A u \in Task : Holds(u)' => u = tmp
    BY <1>18, <2>2 DEF Holds
  <2>4. \A u \in Task : state'[u] = "WAIT" => state[u] = "WAIT" /\ u # t
    BY <1>5, <1>18
  <2>5. QED
    BY <1>2, <1>4, <1>18, <2>1, <2>3, <2>4 DEF Section
<1>23. Typed'
  BY <1>1, <1>4, <1>18 DEF Typed
<1>24. QueueInv'
  BY <1>16, <1>19, <1>20, <1>21, <1>22, <1>23, Keeps
<1>25. Lists!Signal
  <2>1. /\ Items("waitq") = s /\ Items("ready_queue") = R
        /\ Items("waitq")' = Tail(s) /\ Items("ready_queue")' = r
        /\ Items("sleep_queue")' = Items("sleep_queue")
    BY <1>1, <1>6, <1>16, <1>17, ItemsBecome DEF Queue
  <2>2. QED
    BY <1>4, <1>9, <1>12, <2>1 DEF Lists!Signal
<1>26. QED
  BY <1>24, <1>25

\* ready queues a task that create has made.
LEMMA ReadyStep ==
  ASSUME QueueInv, NEW t \in Task, Ready(t)
  PROVE  QueueInv' /\ Lists!Enter
<1>1. PICK L : /\ Linked(mem, L) /\ Placed(L) /\ InOrder(L["sleep_queue"])
               /\ L \in [Queue -> Seq(Task)]
               /\ \A q \in Queue : Items(q) = L[q]
               /\ Typed
  BY InvLists
<1>2. Running /\ Section
  BY DEF QueueInv
<1>3. PICK p \in Task : /\ state[p] = "FREE"
                        /\ state' = [state EXCEPT ![p] = "CURR"]
                        /\ mem' = queue_push(mem, "ready_queue", p)
                        /\ pc' = [pc EXCEPT ![p] = "run"]
  BY DEF Ready
<1>4. At(t, "run") /\ UNCHANGED <<param, sys_time, active_task, pendsv, value>>
  BY DEF Ready
<1>5. t = active_task /\ state[t] = "CURR" /\ ~ pendsv /\ p # t
  BY <1>1, <1>3, <1>4, CallerOff
<1>6. OffAll(p, L)
  <2>1. \A q \in Queue : p \notin On(L[q])
    BY <1>1, <1>3 DEF Placed, Queue
  <2>2. QED
    BY <2>1, OnNotOn DEF OffAll
<1>s. PICK s \in Seq(Task) : s = L["ready_queue"]
  BY <1>1 DEF Queue
<1>7. PICK r, K : s = L["ready_queue"] /\ r = Append(s, p) /\ K = [L EXCEPT !["ready_queue"] = r]
  BY <1>s
<1>8. Extends(r, s, p) /\ On(r) = On(s) \cup {p}
  BY <1>7, AppendExtends, OnExtends
<1>9. Linked(mem', K)
  BY <1>1, <1>3, <1>6, <1>7, <1>8, LinkedPush DEF Queue
<1>10. K["ready_queue"] = r /\ K["waitq"] = L["waitq"] /\ K["sleep_queue"] = L["sleep_queue"]
  BY <1>1, <1>7 DEF Queue
<1>11. /\ state' \in [Task -> {"FREE", "CURR", "READY", "SLEEP", "WAIT"}]
       /\ pc' \in [Task -> {"run", "in", "pend", "late"}]
       /\ \A u \in Task : /\ state'[u] = IF u = p THEN "CURR" ELSE state[u]
                          /\ pc'[u] = IF u = p THEN "run" ELSE pc[u]
  BY <1>1, <1>3 DEF Typed
<1>12. Placed(K)'
  <2>1. On(K["ready_queue"]) = {u \in Task : state'[u] = "READY" \/ (state'[u] = "CURR" /\ u # active_task')}
    BY <1>1, <1>4, <1>5, <1>7, <1>8, <1>10, <1>11 DEF Placed
  <2>2. On(K["sleep_queue"]) = {u \in Task : state'[u] = "SLEEP"}
    BY <1>1, <1>3, <1>10, <1>11 DEF Placed
  <2>3. On(K["waitq"]) = {u \in Task : state'[u] = "WAIT"}
    BY <1>1, <1>3, <1>10, <1>11 DEF Placed
  <2>4. QED
    BY <2>1, <2>2, <2>3 DEF Placed
<1>13. InOrder(K["sleep_queue"])'
  BY <1>1, <1>4, <1>10 DEF InOrder
<1>14. Running'
  BY <1>2, <1>4, <1>5, <1>11 DEF Running
<1>15. Section'
  <2>1. \A u \in Task : Holds(u)' => Holds(u)
    BY <1>3, <1>11 DEF Holds
  <2>2. \A u \in Task : state'[u] = "WAIT" => state[u] = "WAIT" /\ pc'[u] = pc[u]
    BY <1>3, <1>11
  <2>3. QED
    BY <1>2, <1>4, <2>1, <2>2 DEF Section
<1>16. Typed'
  BY <1>1, <1>4, <1>11 DEF Typed
<1>17. QueueInv'
  BY <1>9, <1>12, <1>13, <1>14, <1>15, <1>16, Keeps
<1>18. Lists!Enter
  <2>1. /\ Items("ready_queue")' = Append(Items("ready_queue"), p)
        /\ Items("waitq")' = Items("waitq") /\ Items("sleep_queue")' = Items("sleep_queue")
    BY <1>1, <1>7, <1>9, <1>10, ItemsBecome DEF Queue
  <2>2. QED
    BY <1>4, <2>1 DEF Lists!Enter
<1>19. QED
  BY <1>17, <1>18

-----------------------------------------------------------------------------
(* The theorems.                                                           *)

\* Nothing is linked at first.
LEMMA QueueStart == Init => QueueInv /\ Lists!Init
<1> SUFFICES ASSUME Init PROVE QueueInv /\ Lists!Init
  OBVIOUS
<1>1. PICK K : K = [q \in Queue |-> <<>>]
  OBVIOUS
<1>2. /\ mem = [first |-> [q \in Queue |-> NULL], last |-> [q \in Queue |-> NULL],
                next |-> [t \in Task |-> NULL]]
      /\ NULLTHREAD \in Task
  BY NTaskAssumption DEF Init, Task, NULLTHREAD
<1>3. K \in [Queue -> Seq(Task)] /\ \A q \in Queue : K[q] = <<>> /\ Len(K[q]) = 0
  BY <1>1
<1>4. Linked(mem, K)
  <2>1. mem \in Memory
    BY <1>2 DEF Memory
  <2>2. ASSUME NEW q \in Queue PROVE Chain(mem, q, K[q])
    <3>1. mem.first[q] = NULL
      BY <1>2
    <3>2. QED
      BY <1>3, <3>1 DEF Chain, Nth
  <2>3. QED
    BY <1>3, <2>1, <2>2 DEF Linked, Apart
<1>5. /\ state = [t \in Task |-> IF t = NULLTHREAD THEN "CURR" ELSE "FREE"]
      /\ param = [t \in Task |-> 0] /\ sys_time = 0
      /\ active_task = NULLTHREAD /\ pendsv = FALSE
      /\ value = 1 /\ pc = [t \in Task |-> "run"]
  BY DEF Init
<1>6. Listed = K /\ \A q \in Queue : Items(q) = <<>>
  BY <1>3, <1>4, ItemsAre
<1>7. Placed(K)
  <2>1. \A q \in Queue : On(K[q]) = {}
    BY <1>3 DEF On
  <2>2. QED
    BY <1>2, <1>5, <2>1 DEF Placed, Queue
<1>8. InOrder(K["sleep_queue"])
  BY <1>3 DEF InOrder, Queue
<1>9. Running /\ Section
  BY <1>2, <1>5 DEF Running, Section, Holds
<1>10. QueueTypeOK
  <2>1. 0 \in 0 .. MaxTicks
    BY DelaysAssumption
  <2>2. QED
    <3>1. mem \in Memory
      BY <1>4 DEF Linked
    <3>2. active_task \in Task /\ param \in [Task -> Nat]
      BY <1>2, <1>5
    <3>3. /\ state \in [Task -> {"FREE", "CURR", "READY", "SLEEP", "WAIT"}]
          /\ pc \in [Task -> {"run", "in", "pend", "late"}]
      BY <1>5
    <3>4. sys_time \in 0 .. MaxTicks /\ value \in 0 .. 1
      BY <1>5, <2>1
    <3>5. pendsv \in BOOLEAN
      BY <1>5
    <3>6. QED
      BY <3>1, <3>2, <3>3, <3>4, <3>5 DEF QueueTypeOK, Memory
<1>11. QED
  BY <1>4, <1>6, <1>7, <1>8, <1>9, <1>10 DEF QueueInv, Lists!Init, Queue

\* Every step keeps the invariant, and is a step of TaskLists.
LEMMA QueueStep ==
  ASSUME QueueInv, DelayAssumption, [Next]_vars
  PROVE  QueueInv' /\ (Lists!Next \/ UNCHANGED vars)
<1>1. CASE PendSV_Handler
  BY <1>1, PendSVStep DEF Lists!Next
<1>2. CASE TIM2_Handler
  BY <1>2, TIM2Step DEF Lists!Next
<1>3. ASSUME NEW t \in Task, Sleep(t) PROVE QueueInv' /\ Lists!Next
  BY <1>3, SleepStep DEF Lists!Next
<1>4. ASSUME NEW t \in Task, Pend(t) PROVE QueueInv' /\ Lists!Next
  BY <1>4, PendStep DEF Lists!Next
<1>5. ASSUME NEW t \in Task, sem_wait(t) PROVE QueueInv' /\ Lists!Next
  BY <1>5, EnterStep, WaitStep DEF Lists!Next
<1>6. ASSUME NEW t \in Task, sem_signal(t) PROVE QueueInv' /\ Lists!Next
  BY <1>6, ReleaseStep, SignalStep DEF Lists!Next
<1>7. ASSUME NEW t \in Task, Exit(t) PROVE QueueInv' /\ Lists!Next
  BY <1>7, ExitStep DEF Lists!Next
<1>8. ASSUME NEW t \in Task, Ready(t) PROVE QueueInv' /\ Lists!Next
  BY <1>8, ReadyStep DEF Lists!Next
<1>9. CASE UNCHANGED vars
  <2>1. Typed' /\ Running' /\ Section'
    BY <1>9 DEF QueueInv, QueueTypeOK, Typed, Running, Section, Holds, vars
  <2>2. PICK L : Linked(mem, L) /\ Placed(L) /\ InOrder(L["sleep_queue"])
    BY InvLists
  <2>3. Linked(mem', L) /\ Placed(L)' /\ InOrder(L["sleep_queue"])'
    BY <1>9, <2>2 DEF Placed, InOrder, vars
  <2>4. QED
    BY <1>9, <2>1, <2>3, Keeps
<1>10. QED
  BY <1>1, <1>2, <1>3, <1>4, <1>5, <1>6, <1>7, <1>8, <1>9 DEF Next, Calls

\* The invariant holds in every state.
LEMMA QueueInvHolds == DelayAssumption /\ Spec => []QueueInv
<1>1. Init => QueueInv
  BY QueueStart
<1>2. DelayAssumption /\ QueueInv /\ [Next]_vars => QueueInv'
  BY QueueStep
<1>3. DelayAssumption => DelayAssumption'
  BY DEF DelayAssumption
<1>4. QED
  BY <1>1, <1>2, <1>3, PTL DEF Spec

\* Every variable keeps its type, for every number of tasks: the value of the semaphore stays
\* within 0 and 1, and every pointer is a task or null.
THEOREM QueueTypeCorrect ==
  ASSUME DelayAssumption
  PROVE  Spec => []QueueTypeOK
<1>1. QueueInv => QueueTypeOK
  BY DEF QueueInv
<1>2. QED
  BY <1>1, QueueInvHolds, PTL

\* Every list ends, and last points to its end, whatever queue_push, queue_pop and
\* queue_pushsort did before.
THEOREM LastIsLastHolds ==
  ASSUME DelayAssumption
  PROVE  Spec => []LastIsLast
<1>1. ASSUME QueueInv PROVE LastIsLast
  <2>1. PICK L : Linked(mem, L) /\ \A q \in Queue : Items(q) = L[q]
    BY <1>1, InvLists
  <2>2. ASSUME NEW q \in Queue, Items(q) # <<>>
        PROVE  Len(Items(q)) <= NTask /\ mem.last[q] = Items(q)[Len(Items(q))]
    <3>1. Chain(mem, q, L[q]) /\ Items(q) = L[q]
      BY <2>1 DEF Linked
    <3>2. Len(L[q]) > 0
      BY <2>2, <3>1, ChainBasics, EmptySeq
    <3>3. QED
      BY <3>1, <3>2, ChainFits, ChainBasics
  <2>3. QED
    BY <2>2 DEF LastIsLast
<1>2. QED
  BY <1>1, QueueInvHolds, PTL

\* A task in state READY can be reached from first, as long as no interrupt falls into ready():
\* the run of TaskQueueReady, where one does, refutes it.
THEOREM ReadyIsQueuedHolds ==
  ASSUME DelayAssumption
  PROVE  Spec => []ReadyIsQueued
<1>1. ASSUME QueueInv PROVE ReadyIsQueued
  <2>1. PICK L : /\ Placed(L) /\ L \in [Queue -> Seq(Task)] /\ \A q \in Queue : Items(q) = L[q]
    BY <1>1, InvLists
  <2>2. ASSUME NEW t \in Task, state[t] = "READY"
        PROVE  \E i \in DOMAIN Items("ready_queue") : Items("ready_queue")[i] = t
    <3>1. PICK s \in Seq(Task) : s = Items("ready_queue") /\ t \in On(s)
      BY <2>1, <2>2 DEF Placed, Queue
    <3>2. QED
      BY <3>1, LenProperties DEF On
  <2>3. QED
    BY <2>2 DEF ReadyIsQueued
<1>2. QED
  BY <1>1, QueueInvHolds, PTL

\* The pointers of queue.c implement the sequences of TaskLists, step by step, for every
\* number of tasks.
THEOREM ListsImplemented ==
  ASSUME DelayAssumption
  PROVE  Spec => ListsSpec
<1> DEFINE shown == <<Items("ready_queue"), Items("sleep_queue"), Items("waitq"), active_task,
                      state[active_task] = "CURR", sys_time, param>>
<1>1. Init => Lists!Init
  BY QueueStart
<1>2. ASSUME UNCHANGED vars PROVE UNCHANGED shown
  <2>1. /\ Items("ready_queue")' = Items("ready_queue") /\ Items("sleep_queue")' = Items("sleep_queue")
        /\ Items("waitq")' = Items("waitq")
    BY <1>2 DEF Items, vars
  <2>2. QED
    BY <1>2, <2>1 DEF vars
<1>3. QueueInv /\ [Next]_vars => [Lists!Next]_shown
  BY <1>2, QueueStep
<1>4. QED
  BY <1>1, <1>3, QueueInvHolds, PTL DEF Spec, ListsSpec, Lists!Spec

=============================================================================
