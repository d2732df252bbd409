-------------------------- MODULE KernelQueueProofs --------------------------
(***************************************************************************)
(* Theorems about the queues of Kernel, up to the first fault of a run: no *)
(* task is linked twice, the state of a task tells its queue, sleepers     *)
(* wake on their tick and not before it, the token of each semaphore is    *)
(* never lost or doubled, whoever creates, whatever supervisor calls run   *)
(* past it and whichever mallocs fail.                                     *)
(***************************************************************************)
EXTENDS KernelProofs, KernelKill

-----------------------------------------------------------------------------
(* Sequences without repetition.                                           *)

\* No element occurs twice.
Distinct(q) == \A i, j \in DOMAIN q : q[i] = q[j] => i = j

\* A push of a task that is not linked.
LEMMA DistinctAppend ==
  ASSUME NEW S, NEW q \in Seq(S), NEW x \in S, Distinct(q), x \notin Members(q)
  PROVE  Distinct(queue_push(q, x))
<1> DEFINE r == queue_push(q, x)
<1>1. /\ r \in Seq(S) /\ Len(r) = Len(q) + 1 /\ Len(q) \in Nat
      /\ \A i \in 1 .. Len(q) : r[i] = q[i]
      /\ r[Len(q) + 1] = x
  BY AppendProperties, LenProperties DEF queue_push
<1>2. DOMAIN r = 1 .. Len(q) + 1 /\ DOMAIN q = 1 .. Len(q)
  BY <1>1, LenProperties
<1>3. \A i \in 1 .. Len(q) : q[i] # x
  BY <1>2 DEF Members
<1> HIDE DEF r
<1>4. QED
  BY <1>1, <1>2, <1>3 DEF Distinct, r

\* What a pop returns and leaves.
LEMMA TailMembers ==
  ASSUME NEW S, NEW q \in Seq(S), q # <<>>
  PROVE  /\ Head(q) \in S /\ Tail(q) \in Seq(S) /\ Head(q) \in Members(q)
         /\ Members(Tail(q)) \subseteq Members(q)
         /\ Members(q) = {Head(q)} \cup Members(Tail(q))
<1>1. /\ Head(q) \in S /\ Tail(q) \in Seq(S) /\ Len(q) \in Nat \ {0}
      /\ Len(Tail(q)) = Len(q) - 1
      /\ \A i \in 1 .. Len(Tail(q)) : Tail(q)[i] = q[i + 1]
      /\ Head(q) = q[1]
  BY HeadTailProperties, EmptySeq
<1>2. DOMAIN q = 1 .. Len(q) /\ DOMAIN Tail(q) = 1 .. Len(q) - 1
  BY <1>1, LenProperties
<1>3. ASSUME NEW i \in DOMAIN Tail(q) PROVE Tail(q)[i] = q[i + 1] /\ i + 1 \in DOMAIN q
  BY <1>1, <1>2
<1>4. Members(Tail(q)) \subseteq Members(q)
  BY <1>3 DEF Members
<1>5. Head(q) \in Members(q)
  BY <1>1, <1>2 DEF Members
<1>6. QED
  BY <1>1, <1>4, <1>5, MembersTail

\* A pop takes the head and leaves the others.
LEMMA DistinctTail ==
  ASSUME NEW S, NEW q \in Seq(S), q # <<>>, Distinct(q)
  PROVE  /\ Distinct(Tail(q)) /\ Head(q) \in Members(q)
         /\ Members(Tail(q)) = Members(q) \ {Head(q)}
<1>1. /\ Tail(q) \in Seq(S) /\ Len(q) \in Nat \ {0}
      /\ Len(Tail(q)) = Len(q) - 1
      /\ \A i \in 1 .. Len(Tail(q)) : Tail(q)[i] = q[i + 1]
      /\ Head(q) = q[1]
  BY HeadTailProperties, EmptySeq
<1>2. DOMAIN q = 1 .. Len(q) /\ DOMAIN Tail(q) = 1 .. Len(q) - 1
  BY <1>1, LenProperties
<1>3. ASSUME NEW i \in 1 .. Len(q) - 1
      PROVE  i + 1 \in DOMAIN q /\ i + 1 # 1 /\ Tail(q)[i] = q[i + 1]
  BY <1>1, <1>2
<1>4. 1 \in DOMAIN q
  BY <1>1, <1>2
<1>5. Distinct(Tail(q))
  <2>1. SUFFICES ASSUME NEW i \in 1 .. Len(q) - 1, NEW j \in 1 .. Len(q) - 1,
                        Tail(q)[i] = Tail(q)[j]
                 PROVE  i = j
    BY <1>2 DEF Distinct
  <2>2. i + 1 = j + 1
    BY <1>3, <2>1 DEF Distinct
  <2>3. QED
    BY <1>1, <2>2
<1>6. Members(Tail(q)) \subseteq Members(q) \ {Head(q)}
  <2>1. ASSUME NEW i \in 1 .. Len(q) - 1
        PROVE  Tail(q)[i] \in Members(q) /\ Tail(q)[i] # Head(q)
    <3>1. Tail(q)[i] = q[i + 1] /\ i + 1 \in DOMAIN q /\ i + 1 # 1
      BY <1>3
    <3>2. q[i + 1] # q[1]
      BY <1>4, <3>1 DEF Distinct
    <3>3. QED
      BY <1>1, <3>1, <3>2 DEF Members
  <2>2. QED
    BY <1>2, <2>1 DEF Members
<1>7. Members(q) \subseteq {Head(q)} \cup Members(Tail(q))
  BY MembersTail
<1>8. Head(q) \in Members(q)
  BY <1>1, <1>4 DEF Members
<1>9. QED
  BY <1>5, <1>6, <1>7, <1>8

\* The two parts of a queue.
LEMMA SplitElements ==
  ASSUME NEW S, NEW q \in Seq(S), NEW n \in 0 .. Len(q)
  PROVE  /\ Len(q) \in Nat /\ DOMAIN q = 1 .. Len(q)
         /\ SubSeq(q, 1, n) \in Seq(S) /\ Len(SubSeq(q, 1, n)) = n
         /\ DOMAIN SubSeq(q, 1, n) = 1 .. n
         /\ \A i \in 1 .. n : SubSeq(q, 1, n)[i] = q[i]
         /\ SubSeq(q, n + 1, Len(q)) \in Seq(S) /\ Len(SubSeq(q, n + 1, Len(q))) = Len(q) - n
         /\ DOMAIN SubSeq(q, n + 1, Len(q)) = 1 .. Len(q) - n
         /\ \A i \in 1 .. Len(q) - n : SubSeq(q, n + 1, Len(q))[i] = q[n + i]
<1>1. Len(q) \in Nat /\ DOMAIN q = 1 .. Len(q) /\ \A i \in 1 .. Len(q) : q[i] \in S
  BY LenProperties, ElementOfSeq
<1>2. (\A i \in 1 .. n : q[i] \in S) /\ (\A i \in n + 1 .. Len(q) : q[i] \in S)
  BY <1>1
<1>3. n \in Nat /\ n \in Int /\ n + 1 \in Int /\ Len(q) \in Int /\ 1 \in Int /\ n <= Len(q)
  BY <1>1
<1>4. /\ SubSeq(q, 1, n) \in Seq(S)
      /\ Len(SubSeq(q, 1, n)) = IF 1 <= n THEN n - 1 + 1 ELSE 0
      /\ \A i \in 1 .. n - 1 + 1 : SubSeq(q, 1, n)[i] = q[1 + i - 1]
  BY <1>2, <1>3, SubSeqProperties
<1>5. /\ SubSeq(q, n + 1, Len(q)) \in Seq(S)
      /\ Len(SubSeq(q, n + 1, Len(q))) = IF n + 1 <= Len(q) THEN Len(q) - (n + 1) + 1 ELSE 0
      /\ \A i \in 1 .. Len(q) - (n + 1) + 1 : SubSeq(q, n + 1, Len(q))[i] = q[n + 1 + i - 1]
  BY <1>2, <1>3, SubSeqProperties
<1>6. /\ Len(SubSeq(q, 1, n)) = n /\ \A i \in 1 .. n : SubSeq(q, 1, n)[i] = q[i]
  BY <1>3, <1>4
<1>7. /\ Len(SubSeq(q, n + 1, Len(q))) = Len(q) - n
      /\ \A i \in 1 .. Len(q) - n : SubSeq(q, n + 1, Len(q))[i] = q[n + i]
  <2>1. Len(SubSeq(q, n + 1, Len(q))) = Len(q) - n
    BY <1>3, <1>5
  <2>2. ASSUME NEW i \in 1 .. Len(q) - n PROVE SubSeq(q, n + 1, Len(q))[i] = q[n + i]
    <3>1. i \in 1 .. Len(q) - (n + 1) + 1 /\ n + 1 + i - 1 = n + i
      BY <1>3
    <3>2. QED
      BY <1>5, <3>1
  <2>3. QED
    BY <2>1, <2>2
<1>8. /\ DOMAIN SubSeq(q, 1, n) = 1 .. n
      /\ DOMAIN SubSeq(q, n + 1, Len(q)) = 1 .. Len(q) - n
  BY <1>4, <1>5, <1>6, <1>7, LenProperties
<1>9. QED
  BY <1>1, <1>4, <1>5, <1>6, <1>7, <1>8

\* The parts of a queue hold nothing else.
LEMMA SplitInside ==
  ASSUME NEW S, NEW q \in Seq(S), NEW n \in 0 .. Len(q)
  PROVE  /\ SubSeq(q, 1, n) \in Seq(S) /\ SubSeq(q, n + 1, Len(q)) \in Seq(S)
         /\ Members(SubSeq(q, 1, n)) \subseteq Members(q)
         /\ Members(SubSeq(q, n + 1, Len(q))) \subseteq Members(q)
         /\ \A i \in 1 .. n : q[i] \in Members(q)
<1> DEFINE a == SubSeq(q, 1, n)
           b == SubSeq(q, n + 1, Len(q))
<1>1. /\ Len(q) \in Nat /\ DOMAIN q = 1 .. Len(q) /\ n \in Nat /\ n <= Len(q)
      /\ a \in Seq(S) /\ DOMAIN a = 1 .. n /\ \A i \in 1 .. n : a[i] = q[i]
      /\ b \in Seq(S) /\ DOMAIN b = 1 .. Len(q) - n /\ \A i \in 1 .. Len(q) - n : b[i] = q[n + i]
  <2>1. Len(q) \in Nat /\ DOMAIN q = 1 .. Len(q) /\ n \in Nat /\ n <= Len(q)
    BY LenProperties
  <2>2. a \in Seq(S) /\ DOMAIN a = 1 .. n /\ \A i \in 1 .. n : a[i] = q[i]
    BY SplitElements
  <2>3. /\ b \in Seq(S) /\ DOMAIN b = 1 .. Len(q) - n
        /\ \A i \in 1 .. Len(q) - n : b[i] = q[n + i]
    BY SplitElements
  <2> HIDE DEF a, b
  <2>4. QED
    BY <2>1, <2>2, <2>3
<1> HIDE DEF a, b
<1>2. ASSUME NEW i \in DOMAIN a PROVE i \in DOMAIN q /\ a[i] = q[i]
  BY <1>1
<1>3. ASSUME NEW i \in DOMAIN b PROVE n + i \in DOMAIN q /\ b[i] = q[n + i]
  BY <1>1
<1>4. \A i \in 1 .. n : q[i] \in Members(q)
  BY <1>1 DEF Members
<1>5. QED
  BY <1>1, <1>2, <1>3, <1>4 DEF Members, a, b

\* Each task is in one of the parts.
LEMMA SplitMembers ==
  ASSUME NEW S, NEW q \in Seq(S), NEW n \in 0 .. Len(q), Distinct(q)
  PROVE  /\ Members(q) = Members(SubSeq(q, 1, n)) \cup Members(SubSeq(q, n + 1, Len(q)))
         /\ Members(SubSeq(q, 1, n)) \cap Members(SubSeq(q, n + 1, Len(q))) = {}
         /\ Members(SubSeq(q, 1, n)) = {q[i] : i \in 1 .. n}
         /\ Distinct(SubSeq(q, 1, n)) /\ Distinct(SubSeq(q, n + 1, Len(q)))
<1> DEFINE a == SubSeq(q, 1, n)
           b == SubSeq(q, n + 1, Len(q))
<1>1. /\ Len(q) \in Nat /\ DOMAIN q = 1 .. Len(q) /\ n \in Nat /\ n <= Len(q)
      /\ DOMAIN a = 1 .. n /\ \A i \in 1 .. n : a[i] = q[i]
      /\ DOMAIN b = 1 .. Len(q) - n /\ \A i \in 1 .. Len(q) - n : b[i] = q[n + i]
  BY SplitElements
<1> HIDE DEF a, b
<1>2. ASSUME NEW i \in DOMAIN q PROVE q[i] \in Members(a) \cup Members(b)
  <2>1. CASE i <= n
    BY <1>1, <2>1 DEF Members
  <2>2. CASE ~ (i <= n)
    <3>1. i - n \in DOMAIN b /\ n + (i - n) = i /\ i - n \in 1 .. Len(q) - n
      BY <1>1, <2>2
    <3>2. b[i - n] = q[i]
      BY <1>1, <3>1
    <3>3. QED
      BY <3>1, <3>2 DEF Members
  <2>3. QED
    BY <2>1, <2>2
<1>3. ASSUME NEW i \in DOMAIN a PROVE i \in DOMAIN q /\ a[i] = q[i]
  BY <1>1
<1>4. ASSUME NEW i \in DOMAIN b PROVE n + i \in DOMAIN q /\ b[i] = q[n + i] /\ n + i > n
  BY <1>1
<1>5. Members(q) = Members(a) \cup Members(b)
  BY <1>2, <1>3, <1>4 DEF Members
<1>6. ASSUME NEW i \in DOMAIN a, NEW j \in DOMAIN b PROVE a[i] # b[j]
  <2>1. i # n + j
    BY <1>1
  <2>2. QED
    BY <1>3, <1>4, <2>1 DEF Distinct
<1>7. Members(a) \cap Members(b) = {}
  BY <1>6 DEF Members
<1>8. Distinct(a)
  BY <1>3 DEF Distinct
<1>9. Distinct(b)
  <2>1. SUFFICES ASSUME NEW i \in DOMAIN b, NEW j \in DOMAIN b, b[i] = b[j] PROVE i = j
    BY DEF Distinct
  <2>2. n + i = n + j
    BY <1>4, <2>1 DEF Distinct
  <2>3. QED
    BY <1>1, <2>2
<1>10. Members(a) = {q[i] : i \in 1 .. n}
  BY <1>1 DEF Members
<1>11. QED
  BY <1>5, <1>7, <1>8, <1>9, <1>10 DEF a, b

\* Two queues one behind the other.
LEMMA DistinctConcat ==
  ASSUME NEW S, NEW q \in Seq(S), NEW r \in Seq(S)
  PROVE  /\ Members(q \o r) = Members(q) \cup Members(r)
         /\ Distinct(q) /\ Distinct(r) /\ Members(q) \cap Members(r) = {} => Distinct(q \o r)
<1> DEFINE c == q \o r
<1>1. /\ c \in Seq(S) /\ Len(c) = Len(q) + Len(r) /\ Len(q) \in Nat /\ Len(r) \in Nat
      /\ \A i \in 1 .. Len(q) + Len(r) : c[i] = IF i <= Len(q) THEN q[i] ELSE r[i - Len(q)]
  BY ConcatProperties, LenProperties
<1>2. /\ DOMAIN c = 1 .. Len(q) + Len(r) /\ DOMAIN q = 1 .. Len(q) /\ DOMAIN r = 1 .. Len(r)
  BY <1>1, LenProperties
<1> HIDE DEF c
<1>3. ASSUME NEW i \in DOMAIN c
      PROVE  \/ i \in DOMAIN q /\ c[i] = q[i]
             \/ i - Len(q) \in DOMAIN r /\ c[i] = r[i - Len(q)] /\ i \notin DOMAIN q
  BY <1>1, <1>2
<1>4. ASSUME NEW i \in DOMAIN q PROVE i \in DOMAIN c /\ c[i] = q[i]
  BY <1>1, <1>2
<1>5. ASSUME NEW i \in DOMAIN r PROVE Len(q) + i \in DOMAIN c /\ c[Len(q) + i] = r[i]
  <2>1. Len(q) + i \in 1 .. Len(q) + Len(r) /\ ~ (Len(q) + i <= Len(q)) /\ (Len(q) + i) - Len(q) = i
    BY <1>1, <1>2
  <2>2. QED
    BY <1>1, <1>2, <2>1
<1>6. Members(c) = Members(q) \cup Members(r)
  <2>1. Members(c) \subseteq Members(q) \cup Members(r)
    BY <1>3 DEF Members
  <2>2. Members(q) \subseteq Members(c)
    BY <1>4 DEF Members
  <2>3. Members(r) \subseteq Members(c)
    BY <1>5 DEF Members
  <2>4. QED
    BY <2>1, <2>2, <2>3
<1>7. ASSUME Distinct(q), Distinct(r), Members(q) \cap Members(r) = {} PROVE Distinct(c)
  <2>1. SUFFICES ASSUME NEW i \in DOMAIN c, NEW j \in DOMAIN c, c[i] = c[j] PROVE i = j
    BY DEF Distinct
  <2>2. CASE i \in DOMAIN q /\ j \in DOMAIN q
    BY <1>4, <1>7, <2>1, <2>2 DEF Distinct
  <2>3. CASE i \notin DOMAIN q /\ j \notin DOMAIN q
    <3>1. i - Len(q) = j - Len(q)
      BY <1>3, <1>7, <2>1, <2>3 DEF Distinct
    <3>2. QED
      BY <1>1, <1>2, <3>1
  <2>4. CASE i \in DOMAIN q /\ j \notin DOMAIN q
    <3>1. c[i] \in Members(q) /\ c[j] \in Members(r)
      BY <1>3, <1>4, <2>4 DEF Members
    <3>2. QED
      BY <1>7, <2>1, <3>1
  <2>5. CASE i \notin DOMAIN q /\ j \in DOMAIN q
    <3>1. c[j] \in Members(q) /\ c[i] \in Members(r)
      BY <1>3, <1>4, <2>5 DEF Members
    <3>2. QED
      BY <1>7, <2>1, <3>1
  <2>6. QED
    BY <2>2, <2>3, <2>4, <2>5
<1>8. QED
  BY <1>6, <1>7 DEF c

\* p is q with x linked in at i: the tasks in front of i keep their place, the others move
\* up by one.
LinkedAt(q, p, x, i) ==
  /\ Len(q) \in Nat /\ DOMAIN q = 1 .. Len(q) /\ DOMAIN p = 1 .. Len(q) + 1
  /\ \A j \in 1 .. i - 1 : p[j] = q[j]
  /\ p[i] = x
  /\ \A j \in i + 1 .. Len(q) + 1 : p[j] = q[j - 1]

\* Where queue_pushsort leaves the tasks.
LEMMA InsertElements ==
  ASSUME NEW S, NEW q \in Seq(S), NEW x \in S, NEW i \in 1 .. Len(q) + 1
  PROVE  LinkedAt(q, queue_pushsort(q, x, i), x, i)
<1> DEFINE a == SubSeq(q, 1, i - 1)
           b == SubSeq(q, i, Len(q))
           p == queue_pushsort(q, x, i)
<1>1. Len(q) \in Nat /\ DOMAIN q = 1 .. Len(q)
  BY LenProperties
<1>2. i - 1 \in 0 .. Len(q) /\ (i - 1) + 1 = i /\ i \in Nat
  BY <1>1
<1>3. /\ a \in Seq(S) /\ Len(a) = i - 1 /\ \A j \in 1 .. i - 1 : a[j] = q[j]
      /\ b \in Seq(S) /\ Len(b) = Len(q) - (i - 1)
      /\ \A j \in 1 .. Len(q) - (i - 1) : b[j] = q[(i - 1) + j]
  <2>1. PICK n \in 0 .. Len(q) : n = i - 1 /\ i = n + 1
    BY <1>2
  <2>2. /\ SubSeq(q, 1, n) \in Seq(S) /\ Len(SubSeq(q, 1, n)) = n
        /\ \A j \in 1 .. n : SubSeq(q, 1, n)[j] = q[j]
    BY SplitElements
  <2>3. /\ SubSeq(q, n + 1, Len(q)) \in Seq(S) /\ Len(SubSeq(q, n + 1, Len(q))) = Len(q) - n
        /\ \A j \in 1 .. Len(q) - n : SubSeq(q, n + 1, Len(q))[j] = q[n + j]
    BY SplitElements
  <2>4. a = SubSeq(q, 1, n) /\ b = SubSeq(q, n + 1, Len(q))
    BY <2>1
  <2> HIDE DEF a, b
  <2>5. a \in Seq(S) /\ Len(a) = n /\ \A j \in 1 .. n : a[j] = q[j]
    BY <2>2, <2>4
  <2>6. b \in Seq(S) /\ Len(b) = Len(q) - n /\ \A j \in 1 .. Len(q) - n : b[j] = q[n + j]
    BY <2>3, <2>4
  <2>7. QED
    BY <2>1, <2>5, <2>6
<1>4. <<x>> \in Seq(S) /\ Len(<<x>>) = 1 /\ <<x>>[1] = x
  OBVIOUS
<1> HIDE DEF a, b
<1> DEFINE ax == a \o <<x>>
<1>5. /\ ax \in Seq(S) /\ Len(ax) = (i - 1) + 1
      /\ \A j \in 1 .. (i - 1) + 1 : ax[j] = IF j <= i - 1 THEN a[j] ELSE <<x>>[j - (i - 1)]
  BY <1>3, <1>4, ConcatProperties
<1>6. p = ax \o b
  BY DEF queue_pushsort, a, b
<1> HIDE DEF ax, p
<1>7. Len(ax) = i /\ (\A j \in 1 .. i - 1 : ax[j] = q[j]) /\ ax[i] = x
  <2>1. i \in 1 .. (i - 1) + 1 /\ i - (i - 1) = 1 /\ ~ (i <= i - 1)
    BY <1>2
  <2>2. ax[i] = <<x>>[1]
    BY <1>5, <2>1
  <2>3. \A j \in 1 .. i - 1 : j \in 1 .. (i - 1) + 1 /\ j <= i - 1
    BY <1>2
  <2>4. QED
    BY <1>2, <1>3, <1>4, <1>5, <2>2, <2>3
<1>8. /\ p \in Seq(S) /\ Len(p) = i + (Len(q) - (i - 1))
      /\ \A j \in 1 .. i + (Len(q) - (i - 1)) : p[j] = IF j <= i THEN ax[j] ELSE b[j - i]
  BY <1>3, <1>5, <1>6, <1>7, ConcatProperties
<1>9. i + (Len(q) - (i - 1)) = Len(q) + 1
  BY <1>1, <1>2
<1>10. DOMAIN p = 1 .. Len(q) + 1
  BY <1>8, <1>9, LenProperties
<1>11. ASSUME NEW j \in 1 .. i - 1 PROVE p[j] = q[j]
  <2>1. j \in 1 .. Len(q) + 1 /\ j <= i
    BY <1>1, <1>2
  <2>2. QED
    BY <1>7, <1>8, <1>9, <2>1
<1>12. p[i] = x
  BY <1>1, <1>2, <1>7, <1>8, <1>9
<1>13. ASSUME NEW j \in i + 1 .. Len(q) + 1 PROVE p[j] = q[j - 1]
  <2>1. /\ j \in 1 .. Len(q) + 1 /\ ~ (j <= i) /\ j - i \in 1 .. Len(q) - (i - 1)
        /\ (i - 1) + (j - i) = j - 1
    BY <1>1, <1>2
  <2>2. p[j] = b[j - i]
    BY <1>8, <1>9, <2>1
  <2>3. QED
    BY <1>3, <2>1, <2>2
<1>14. QED
  <2>1. LinkedAt(q, p, x, i)
    BY <1>1, <1>10, <1>11, <1>12, <1>13 DEF LinkedAt
  <2>2. QED
    BY <2>1 DEF p

\* queue_pushsort adds one member.
LEMMA InsertMembers ==
  ASSUME NEW S, NEW q \in Seq(S), NEW x \in S, NEW i \in 1 .. Len(q) + 1
  PROVE  Members(queue_pushsort(q, x, i)) = Members(q) \cup {x}
<1> DEFINE p == queue_pushsort(q, x, i)
<1>1. /\ Len(q) \in Nat /\ DOMAIN q = 1 .. Len(q) /\ DOMAIN p = 1 .. Len(q) + 1
      /\ \A j \in 1 .. i - 1 : p[j] = q[j]
      /\ p[i] = x
      /\ \A j \in i + 1 .. Len(q) + 1 : p[j] = q[j - 1]
  <2>1. LinkedAt(q, queue_pushsort(q, x, i), x, i)
    BY InsertElements
  <2>2. LinkedAt(q, p, x, i)
    BY <2>1 DEF p
  <2> HIDE DEF p
  <2>3. QED
    BY <2>2 DEF LinkedAt
<1> HIDE DEF p
<1>2. ASSUME NEW j \in DOMAIN p PROVE p[j] \in Members(q) \cup {x}
  <2>1. CASE j < i
    <3>1. j \in 1 .. i - 1 /\ j \in DOMAIN q
      BY <1>1, <2>1
    <3>2. QED
      BY <1>1, <3>1 DEF Members
  <2>2. CASE j = i
    BY <1>1, <2>2
  <2>3. CASE j > i
    <3>1. j \in i + 1 .. Len(q) + 1 /\ j - 1 \in DOMAIN q
      BY <1>1, <2>3
    <3>2. QED
      BY <1>1, <3>1 DEF Members
  <2>4. QED
    BY <1>1, <2>1, <2>2, <2>3
<1>3. ASSUME NEW j \in DOMAIN q PROVE q[j] \in Members(p)
  <2>1. CASE j < i
    <3>1. j \in 1 .. i - 1 /\ j \in DOMAIN p
      BY <1>1, <2>1
    <3>2. QED
      BY <1>1, <3>1 DEF Members
  <2>2. CASE j >= i
    <3>1. j + 1 \in i + 1 .. Len(q) + 1 /\ j + 1 \in DOMAIN p /\ (j + 1) - 1 = j
      BY <1>1, <2>2
    <3>2. p[j + 1] = q[j]
      BY <1>1, <3>1
    <3>3. QED
      BY <3>1, <3>2 DEF Members
  <2>3. QED
    BY <1>1, <2>1, <2>2
<1>4. i \in DOMAIN p
  BY <1>1
<1>5. QED
  BY <1>1, <1>2, <1>3, <1>4 DEF Members, p

\* queue_pushsort links one more task.
LEMMA DistinctInsert ==
  ASSUME NEW S, NEW q \in Seq(S), NEW x \in S, NEW i \in 1 .. Len(q) + 1,
         Distinct(q), x \notin Members(q)
  PROVE  /\ Members(queue_pushsort(q, x, i)) = Members(q) \cup {x}
         /\ Distinct(queue_pushsort(q, x, i))
<1> DEFINE a == SubSeq(q, 1, i - 1)
           b == SubSeq(q, i, Len(q))
<1>1. Len(q) \in Nat
  BY LenProperties
<1>2. i - 1 \in 0 .. Len(q) /\ (i - 1) + 1 = i
  BY <1>1
<1>3. b = SubSeq(q, (i - 1) + 1, Len(q))
  BY <1>2
<1>4. /\ a \in Seq(S) /\ b \in Seq(S)
      /\ Members(q) = Members(a) \cup Members(b) /\ Members(a) \cap Members(b) = {}
      /\ Distinct(a) /\ Distinct(b)
  BY <1>2, <1>3, SplitElements, SplitMembers
<1> HIDE DEF a, b
<1> DEFINE w == <<x>>
           u == a \o w
<1>5. w \in Seq(S) /\ Members(w) = {x} /\ Distinct(w)
  BY DEF Members, Distinct
<1> HIDE DEF w
<1>6. u \in Seq(S) /\ Members(u) = Members(a) \cup {x} /\ Distinct(u)
  <2>1. Members(a) \cap Members(w) = {}
    BY <1>4, <1>5
  <2>2. u \in Seq(S)
    BY <1>4, <1>5, ConcatProperties
  <2>3. QED
    BY <1>4, <1>5, <2>1, <2>2, DistinctConcat
<1> HIDE DEF u
<1>7. Members(u \o b) = Members(u) \cup Members(b) /\ Distinct(u \o b)
  <2>1. Members(u) \cap Members(b) = {}
    BY <1>4, <1>6
  <2>2. QED
    BY <1>4, <1>6, <2>1, DistinctConcat
<1>8. queue_pushsort(q, x, i) = u \o b
  BY DEF queue_pushsort, a, b, u, w
<1>9. QED
  BY <1>4, <1>6, <1>7, <1>8
-----------------------------------------------------------------------------
(* What the semaphores, sleep and a section do to the queues.              *)

\* A push on the ready queue.
LEMMA PushMembers ==
  ASSUME TypeOK, NEW x \in Task
  PROVE  Members(queue_push(ready_queue, x)) = Members(ready_queue) \cup {x}
<1>1. ready_queue \in Seq(Task)
  BY DEF TypeOK
<1>2. QED
  BY <1>1, MembersAppend

\* What sem_wait does: it takes a token, or the caller is queued and PendSV is pending.
LEMMA WaitMoves ==
  ASSUME TypeOK, NEW t \in Task, NEW s \in Sem, sem_wait(t, s)
  PROVE  \/ UNCHANGED <<state, waitq, pendsv>>
         \/ /\ state' = [state EXCEPT ![t] = "WAIT"] /\ pendsv' = TRUE
            /\ waitq' = [waitq EXCEPT ![s] = queue_push(waitq[s], t)]
            /\ Members(waitq'[s]) = Members(waitq[s]) \cup {t}
            /\ \A r \in Sem \ {s} : waitq'[r] = waitq[r]
<1>1. /\ queue_push(waitq[s], t) \in Seq(Task) /\ waitq \in [Sem -> Seq(Task)]
      /\ Members(queue_push(waitq[s], t)) = Members(waitq[s]) \cup {t}
  <2>1. waitq \in [Sem -> Seq(Task)] /\ waitq[s] \in Seq(Task)
    BY DEF TypeOK
  <2>2. QED
    BY <2>1, MembersAppend
<1>2. CASE value[s] > 0
  BY <1>2 DEF sem_wait, TypeOK
<1>3. CASE value[s] = 0
  <2>1. /\ state' = [state EXCEPT ![t] = "WAIT"] /\ pendsv' = TRUE
        /\ waitq' = [waitq EXCEPT ![s] = queue_push(waitq[s], t)]
    BY <1>3 DEF sem_wait, TypeOK
  <2>2. QED
    BY <1>1, <2>1
<1>4. QED
  BY <1>2, <1>3 DEF sem_wait

\* What sem_signal does: the task at the head of the wait queue is made ready, or the
\* token goes back.
LEMMA SignalMoves ==
  ASSUME TypeOK, NEW s \in Sem, sem_signal(s)
  PROVE  \/ waitq[s] = <<>> /\ UNCHANGED <<state, ready_queue, waitq, pendsv>>
         \/ /\ waitq[s] # <<>> /\ Head(waitq[s]) \in Members(waitq[s])
            /\ Head(waitq[s]) \in Task
            /\ state' = [state EXCEPT ![Head(waitq[s])] = "READY"] /\ pendsv' = TRUE
            /\ ready_queue' = queue_push(ready_queue, Head(waitq[s]))
            /\ Members(ready_queue') = Members(ready_queue) \cup {Head(waitq[s])}
            /\ waitq'[s] = Tail(waitq[s])
            /\ Members(waitq'[s]) \subseteq Members(waitq[s])
            /\ \A r \in Sem \ {s} : waitq'[r] = waitq[r]
<1>1. CASE waitq[s] = <<>>
  BY <1>1 DEF sem_signal
<1>2. CASE waitq[s] # <<>>
  <2>1. /\ waitq[s] \in Seq(Task) /\ ready_queue \in Seq(Task) /\ waitq \in [Sem -> Seq(Task)]
    BY DEF TypeOK
  <2>2. /\ Head(waitq[s]) \in Task /\ Head(waitq[s]) \in Members(waitq[s])
        /\ Members(Tail(waitq[s])) \subseteq Members(waitq[s])
    <3> DEFINE w == waitq[s]
    <3>1. w \in Seq(Task) /\ w # <<>>
      BY <1>2, <2>1
    <3> HIDE DEF w
    <3>2. Head(w) \in Task /\ Head(w) \in Members(w) /\ Members(Tail(w)) \subseteq Members(w)
      BY <3>1, TailMembers
    <3>3. QED
      BY <3>2 DEF w
  <2>3. Members(queue_push(ready_queue, Head(waitq[s]))) = Members(ready_queue) \cup {Head(waitq[s])}
    <3> DEFINE h == Head(waitq[s])
    <3>1. h \in Task
      BY <2>2
    <3> HIDE DEF h
    <3>2. Members(queue_push(ready_queue, h)) = Members(ready_queue) \cup {h}
      BY <2>1, <3>1, MembersAppend
    <3>3. QED
      BY <3>2 DEF h
  <2>4. /\ state' = [state EXCEPT ![Head(waitq[s])] = "READY"] /\ pendsv' = TRUE
        /\ ready_queue' = queue_push(ready_queue, Head(waitq[s]))
        /\ waitq' = [waitq EXCEPT ![s] = Tail(waitq[s])]
    BY <1>2 DEF sem_signal
  <2>5. waitq'[s] = Tail(waitq[s]) /\ \A r \in Sem \ {s} : waitq'[r] = waitq[r]
    BY <2>1, <2>4
  <2>6. QED
    BY <1>2, <2>2, <2>3, <2>4, <2>5
<1>3. QED
  BY <1>1, <1>2

\* What the masked part of sleep does.
LEMMA ParkMoves ==
  ASSUME TypeOK, NEW t \in Task, NEW ticks \in Delays \cup {0}, Park(t, ticks)
  PROVE  \/ ticks = 0 /\ UNCHANGED <<state, sleep_queue, due>>
         \/ /\ ticks \in Delays /\ ticks # 0 /\ now + ticks <= MaxTicks
            /\ state' = [state EXCEPT ![t] = "SLEEP"]
            /\ due' = [due EXCEPT ![t] = now + ticks]
            /\ \E i \in 1 .. Len(sleep_queue) + 1 :
                 /\ SortedAt(sleep_queue, (ticks + sys_time) % Word, i)
                 /\ sleep_queue' = queue_pushsort(sleep_queue, t, i)
            /\ Members(sleep_queue') = Members(sleep_queue) \cup {t}
<1>1. CASE ticks = 0
  BY <1>1 DEF Park
<1>2. CASE ticks # 0
  <2>1. PICK i \in 1 .. Len(sleep_queue) + 1 :
          /\ SortedAt(sleep_queue, (ticks + sys_time) % Word, i)
          /\ sleep_queue' = queue_pushsort(sleep_queue, t, i)
    BY <1>2 DEF Park
  <2>2. Members(sleep_queue') = Members(sleep_queue) \cup {t}
    BY <2>1, InsertMembers DEF TypeOK
  <2>3. QED
    BY <1>2, <2>1, <2>2 DEF Park
<1>3. QED
  BY <1>1, <1>2

\* The queue a section of s finds when the handler has made its caller wait, or not.
Waiting(t, s) == IF value[s] = 0 THEN queue_push(waitq[s], t) ELSE waitq[s]

\* What a section inside a supervisor call does, the slot p aside: nothing if the token
\* is free and nobody waits, and if not the task at the head of the queue is made ready.
LEMMA SectionQueue ==
  ASSUME TypeOK, NEW t \in Task, NEW s \in Sem
  PROVE  /\ Waiting(t, s) \in Seq(Task)
         /\ Members(Waiting(t, s)) \subseteq Members(waitq[s]) \cup {t}
         /\ value[s] = 0 => Waiting(t, s) # <<>> /\ t \in Members(Waiting(t, s))
<1>1. waitq[s] \in Seq(Task)
  BY DEF TypeOK
<1>2. /\ queue_push(waitq[s], t) \in Seq(Task)
      /\ Members(queue_push(waitq[s], t)) = Members(waitq[s]) \cup {t}
  BY <1>1, MembersAppend
<1>3. t \in Members(queue_push(waitq[s], t)) => queue_push(waitq[s], t) # <<>>
  BY DEF Members
<1>4. QED
  BY <1>1, <1>2, <1>3 DEF Waiting

\* A section whose semaphore is free and not waited for moves nobody.
LEMMA SectionIdle ==
  ASSUME TypeOK, NEW t \in Task, NEW s \in Sem, NEW p, Section(t, s, p), Waiting(t, s) = <<>>
  PROVE  /\ UNCHANGED <<ready_queue, value, waitq, pendsv>>
         /\ p \in Task => state'[p] = "SUSP"
         /\ \A u \in Task \ {p} : state'[u] = state[u]
<1>1. value[s] # 0
  BY SectionQueue
<1>2. QED
  BY <1>1 DEF Section, semVars, Waiting

\* Otherwise the sem_signal at its end readies the head of the wait queue, which may be
\* the caller itself.
LEMMA SectionPush ==
  ASSUME TypeOK, NEW t \in Task, NEW s \in Sem, NEW p, Section(t, s, p), Waiting(t, s) # <<>>,
         NEW h, h = Head(Waiting(t, s))
  PROVE  /\ h \in Members(Waiting(t, s)) /\ h \in Task
         /\ ready_queue' = queue_push(ready_queue, h)
         /\ Members(ready_queue') = Members(ready_queue) \cup {h}
         /\ waitq'[s] = Tail(Waiting(t, s))
         /\ Members(waitq'[s]) \subseteq Members(Waiting(t, s))
         /\ waitq' = [waitq EXCEPT ![s] = Tail(Waiting(t, s))]
         /\ value' = IF value[s] = 0 THEN value ELSE [value EXCEPT ![s] = value[s] - 1]
         /\ pendsv' = TRUE
<1> DEFINE q == Waiting(t, s)
<1>1. q \in Seq(Task) /\ waitq \in [Sem -> Seq(Task)]
  BY SectionQueue DEF TypeOK
<1>2. /\ ready_queue' = queue_push(ready_queue, h)
      /\ waitq' = [waitq EXCEPT ![s] = Tail(q)]
      /\ value' = IF value[s] = 0 THEN value ELSE [value EXCEPT ![s] = value[s] - 1]
      /\ pendsv' = TRUE
  BY DEF Section, Waiting
<1>3. waitq'[s] = Tail(q)
  BY <1>1, <1>2
<1>4. q # <<>> /\ h = Head(q)
  OBVIOUS
<1> HIDE DEF q
<1>5. h \in Task /\ h \in Members(q) /\ Members(Tail(q)) \subseteq Members(q)
  BY <1>1, <1>4, TailMembers
<1>6. Members(queue_push(ready_queue, h)) = Members(ready_queue) \cup {h}
  BY <1>5, PushMembers
<1>7. QED
  BY <1>2, <1>3, <1>5, <1>6 DEF q

\* A caller that found the semaphore taken is left in PR_WAIT, unless it woke itself.
LEMMA SectionCaller ==
  ASSUME TypeOK, NEW t \in Task, NEW s \in Sem, NEW p, Section(t, s, p), Waiting(t, s) # <<>>,
         NEW h \in Task, h = Head(Waiting(t, s)), p # h, p # t
  PROVE  /\ state'[h] = "READY"
         /\ h # t => state'[t] = IF value[s] = 0 THEN "WAIT" ELSE state[t]
         /\ p \in Task => state'[p] = "SUSP"
<1>1. \A u \in Task : state'[u] = IF u = p THEN "SUSP" ELSE IF u = h THEN "READY"
                                  ELSE IF u = t /\ value[s] = 0 THEN "WAIT" ELSE state[u]
  BY DEF Section, Waiting
<1>2. QED
  BY <1>1

\* Nobody else changes its state.
LEMMA SectionOthers ==
  ASSUME TypeOK, NEW t \in Task, NEW s \in Sem, NEW p, Section(t, s, p), Waiting(t, s) # <<>>,
         NEW h, h = Head(Waiting(t, s)), NEW u \in Task \ {p, h, t}
  PROVE  state'[u] = state[u]
<1>1. state'[u] = IF u = p THEN "SUSP" ELSE IF u = h THEN "READY"
                  ELSE IF u = t /\ value[s] = 0 THEN "WAIT" ELSE state[u]
  BY DEF Section, Waiting
<1>2. u # p /\ u # h /\ u # t
  OBVIOUS
<1>3. QED
  BY <1>1, <1>2

-----------------------------------------------------------------------------
(* The queues agree with the states.                                       *)

\* A delay of one tick can end before sleep has pended PendSV, and a clock that wraps
\* puts a sleeper of the next turn before the others; both are ruled out here.
ClockAssumption == 1 \notin Delays /\ MaxTicks < Word

\* No queue holds a task twice, and no task waits for two semaphores.
QueuesDistinct ==
  /\ Distinct(ready_queue) /\ Distinct(sleep_queue) /\ \A s \in Sem : Distinct(waitq[s])
  /\ \A r, s \in Sem : r # s => Members(waitq[r]) \cap Members(waitq[s]) = {}

\* While PendSV is not pending the active task is running, or it has gone to sleep or
\* has exited and is about to pend it.
ActiveState ==
  /\ ~ pendsv => \/ state[active_task] = "CURR"
                 \/ state[active_task] = "SLEEP" /\ pc[active_task] = "pend"
                 \/ state[active_task] = "FREE" /\ pc[active_task] = "gone"
  /\ state[active_task] # "SUSP"

\* The one tick a task can see between going to sleep and pending PendSV wakes it not.
SleepWindow ==
  ~ pendsv /\ state[active_task] = "SLEEP" /\ ~ ticked => due[active_task] > now + 1

\* Keys do not fall along the queue.
SortedBy(q, key) == \A i, j \in DOMAIN q : i < j => key[q[i]] <= key[q[j]]

\* The inductive invariant of the queues.
QueueInv ==
  /\ QueuesDistinct /\ QueueMatchesState /\ ActiveState /\ SleepWindow
  /\ SortedBy(sleep_queue, due) /\ NoOversleep

\* A step that frees no slot and takes none, but for the slot p, and stops no task that
\* is marked to run but the active one.
KeptBut(p) ==
  \A t \in Task \ {p} :
    /\ state'[t] # state[t] =>
         state[t] \notin {"FREE", "SUSP"} /\ state'[t] \notin {"FREE", "SUSP"}
    /\ state[t] = "CURR" /\ t # active_task => state'[t] = "CURR"
SlotsKept == KeptBut(NoSlot)

\* A step that marks no task before it links it.
UnlinkedKept == \A t \in Task : Unlinked(t)' <=> Unlinked(t)

\* Where a task is that has a slot from create and has not linked its task.
Claiming == {"made"} \cup Pushing

\* A slot that is free, or filled and not readied, is not inside a section: create may
\* reset its pc.  The task in a claimed slot is suspended until it is marked, and then
\* nobody moves it before it is linked; no slot is claimed twice: CreateFill takes none
\* that another has filled.
MadeInv ==
  /\ \A t \in Task : state[t] \in {"FREE", "SUSP"} => pc[t] \in {"run", "gone"}
  /\ \A t \in Task : pc[t] = "made" => state[claim[t]] = "SUSP"
  /\ \A t \in Task : pc[t] \in Pushing => state[claim[t]] = "CURR" /\ claim[t] # active_task
  /\ \A t, u \in Task :
       pc[t] \in Claiming /\ pc[u] \in Claiming /\ claim[t] = claim[u] => t = u

\* A thread that takes a step is in the state PR_CURR, outside two windows.
LEMMA RunningCurr ==
  ASSUME ActiveState, NEW t \in Task, Running(t), pc[t] \notin {"pend", "gone"}
  PROVE  active_task = t /\ state[t] = "CURR"
  BY DEF ActiveState, Running

\* A blocked caller is on one wait queue and on nothing else.
LEMMA WaitQueues ==
  ASSUME TypeOK, QueueInv, UnlinkedKept, NEW s \in Sem, sem_wait(active_task, s),
         state[active_task] = "CURR",
         UNCHANGED <<ready_queue, sleep_queue, active_task, now, due>>
  PROVE  QueueInv' /\ SlotsKept
<1>1. /\ active_task \in Task /\ state \in [Task -> State] /\ waitq \in [Sem -> Seq(Task)]
  BY DEF TypeOK
<1>2. CASE UNCHANGED <<state, waitq, pendsv>>
  BY <1>2 DEF QueueInv, QueuesDistinct, QueueMatchesState, UnlinkedKept, ActiveState, SleepWindow, NoOversleep,
              SlotsKept, KeptBut
<1>3. CASE /\ state' = [state EXCEPT ![active_task] = "WAIT"] /\ pendsv' = TRUE
           /\ waitq' = [waitq EXCEPT ![s] = queue_push(waitq[s], active_task)]
           /\ Members(waitq'[s]) = Members(waitq[s]) \cup {active_task}
           /\ \A r \in Sem \ {s} : waitq'[r] = waitq[r]
  <2>1. \A r \in Sem : active_task \notin Members(waitq[r])
    BY <1>1 DEF QueueInv, QueueMatchesState, UnlinkedKept
  <2>2. Distinct(waitq'[s])
    <3>1. waitq[s] \in Seq(Task) /\ Distinct(waitq[s]) /\ active_task \notin Members(waitq[s])
      BY <1>1, <2>1 DEF QueueInv, QueuesDistinct
    <3>2. Distinct(queue_push(waitq[s], active_task))
      BY <1>1, <3>1, DistinctAppend
    <3>3. QED
      BY <1>1, <1>3, <3>2
  <2>3. QueuesDistinct'
    BY <1>3, <2>1, <2>2 DEF QueueInv, QueuesDistinct
  <2>4. /\ state'[active_task] = "WAIT"
        /\ \A u \in Task \ {active_task} : state'[u] = state[u]
    BY <1>1, <1>3
  <2>5. /\ \E r \in Sem : active_task \in Members(waitq'[r])
        /\ active_task \notin Members(sleep_queue') /\ active_task \notin Members(ready_queue')
    BY <1>1, <1>3 DEF QueueInv, QueueMatchesState, UnlinkedKept
  <2>6. \A u \in Task \ {active_task} : \A r \in Sem :
          u \in Members(waitq'[r]) <=> u \in Members(waitq[r])
    BY <1>3
  <2>7. QueueMatchesState'
    BY <1>1, <2>4, <2>5, <2>6 DEF QueueInv, QueueMatchesState, UnlinkedKept
  <2>8. QED
    BY <1>1, <1>3, <2>3, <2>4, <2>7
       DEF QueueInv, ActiveState, SleepWindow, NoOversleep, SlotsKept, KeptBut
<1>4. QED
  BY <1>1, <1>2, <1>3, WaitMoves

\* The task that sem_signal wakes moves from its wait queue to the ready queue.
LEMMA SignalQueues ==
  ASSUME TypeOK, QueueInv, UnlinkedKept, NEW s \in Sem, sem_signal(s),
         state[active_task] = "CURR",
         UNCHANGED <<sleep_queue, active_task, now, due>>
  PROVE  QueueInv' /\ SlotsKept
<1>1. /\ active_task \in Task /\ state \in [Task -> State] /\ waitq \in [Sem -> Seq(Task)]
      /\ ready_queue \in Seq(Task)
  BY DEF TypeOK
<1>2. CASE UNCHANGED <<state, ready_queue, waitq, pendsv>>
  BY <1>2 DEF QueueInv, QueuesDistinct, QueueMatchesState, UnlinkedKept, ActiveState, SleepWindow, NoOversleep,
              SlotsKept, KeptBut
<1>3. CASE ~ UNCHANGED <<state, ready_queue, waitq, pendsv>>
  <2> DEFINE w == waitq[s]
             h == Head(w)
  <2>1. /\ w # <<>> /\ h \in Task /\ h \in Members(w)
        /\ state' = [state EXCEPT ![h] = "READY"] /\ pendsv' = TRUE
        /\ ready_queue' = queue_push(ready_queue, h)
        /\ Members(ready_queue') = Members(ready_queue) \cup {h}
        /\ waitq'[s] = Tail(w)
        /\ \A r \in Sem \ {s} : waitq'[r] = waitq[r]
    BY <1>1, <1>3, SignalMoves
  <2>2. w \in Seq(Task) /\ Distinct(w)
    BY <1>1 DEF QueueInv, QueuesDistinct
  <2>3. \A r \in Sem \ {s} : h \notin Members(waitq[r])
    BY <2>1 DEF QueueInv, QueuesDistinct
  <2> HIDE DEF w
  <2>4. Distinct(Tail(w)) /\ Members(Tail(w)) = Members(w) \ {h}
    BY <2>1, <2>2, DistinctTail
  <2> HIDE DEF h
  <2>5. state[h] = "WAIT" /\ h # active_task /\ h \notin Members(ready_queue)
        /\ h \notin Members(sleep_queue)
    BY <1>1, <2>1 DEF QueueInv, QueueMatchesState, UnlinkedKept, w
  <2>6. Distinct(ready_queue')
    BY <1>1, <2>1, <2>5, DistinctAppend DEF QueueInv, QueuesDistinct
  <2>7. Members(waitq'[s]) = Members(waitq[s]) \ {h}
    BY <2>1, <2>4 DEF w
  <2>8. QueuesDistinct'
    BY <2>1, <2>4, <2>6, <2>7 DEF QueueInv, QueuesDistinct
  <2>9. /\ state'[h] = "READY" /\ \A u \in Task \ {h} : state'[u] = state[u]
    BY <1>1, <2>1
  <2>10. \A u \in Task \ {h} : \A r \in Sem : u \in Members(waitq'[r]) <=> u \in Members(waitq[r])
    BY <2>1, <2>7
  <2>11. \A r \in Sem : h \notin Members(waitq'[r])
    BY <2>1, <2>3, <2>7
  <2>12. QueueMatchesState'
    BY <1>1, <2>1, <2>5, <2>9, <2>10, <2>11 DEF QueueInv, QueueMatchesState, UnlinkedKept
  <2>13. QED
    BY <1>1, <2>1, <2>5, <2>8, <2>9, <2>12
       DEF QueueInv, ActiveState, SleepWindow, NoOversleep, SlotsKept, KeptBut
<1>4. QED
  BY <1>2, <1>3
\* The clock and the times of the sleepers are below Word.
LEMMA ClockFits ==
  ASSUME TypeOK, ClockAssumption
  PROVE  /\ \A n \in 0 .. MaxTicks : n % Word = n
         /\ sys_time = now /\ \A t \in Task : param(t) = due[t]
<1>1. now \in 0 .. MaxTicks /\ \A t \in Task : due[t] \in 0 .. MaxTicks
  BY DEF TypeOK
<1>2. ASSUME NEW n \in 0 .. MaxTicks PROVE n % Word = n
  <2>1. n \in Nat /\ Word \in Nat \ {0} /\ n < Word
    BY WordAssumption DEF ClockAssumption
  <2>2. QED
    BY <2>1
<1>3. QED
  BY <1>1, <1>2 DEF sys_time, param

\* An insertion between a key that is not above and one that is not below keeps a queue
\* sorted, also when the key of the new task is written just before.
LEMMA SortedInsert ==
  ASSUME NEW S, NEW q \in Seq(S), NEW x \in S, NEW i \in 1 .. Len(q) + 1,
         NEW key \in [S -> Int], NEW new \in [S -> Int],
         \A j \in DOMAIN q : new[q[j]] = key[q[j]],
         SortedBy(q, key),
         i > 1 => key[q[i - 1]] <= new[x],
         i <= Len(q) => new[x] <= key[q[i]]
  PROVE  SortedBy(queue_pushsort(q, x, i), new)
<1> DEFINE p == queue_pushsort(q, x, i)
<1>1. /\ Len(q) \in Nat /\ DOMAIN q = 1 .. Len(q) /\ DOMAIN p = 1 .. Len(q) + 1
      /\ \A j \in 1 .. i - 1 : p[j] = q[j]
      /\ p[i] = x
      /\ \A j \in i + 1 .. Len(q) + 1 : p[j] = q[j - 1]
  <2>1. LinkedAt(q, queue_pushsort(q, x, i), x, i)
    BY InsertElements
  <2>2. LinkedAt(q, p, x, i)
    BY <2>1 DEF p
  <2> HIDE DEF p
  <2>3. QED
    BY <2>2 DEF LinkedAt
<1>2. \A j \in DOMAIN q : q[j] \in S
  BY <1>1, ElementOfSeq
<1> HIDE DEF p
<1>3. ASSUME NEW j \in 1 .. i - 1
      PROVE  j \in DOMAIN q /\ new[p[j]] = key[q[j]] /\ new[p[j]] <= new[x]
  <2>1. j \in DOMAIN q /\ i - 1 \in DOMAIN q /\ i > 1 /\ (j < i - 1 \/ j = i - 1)
    <3>1. DOMAIN q = 1 .. Len(q) /\ Len(q) \in Nat
      BY <1>1
    <3>2. j \in 1 .. Len(q) /\ i - 1 \in 1 .. Len(q) /\ i > 1 /\ (j < i - 1 \/ j = i - 1)
      BY <3>1
    <3>3. QED
      BY <3>1, <3>2
  <2>2. new[p[j]] = key[q[j]]
    BY <1>1, <2>1
  <2>3. key[q[j]] <= key[q[i - 1]]
    BY <1>2, <2>1 DEF SortedBy
  <2>4. key[q[j]] \in Int /\ key[q[i - 1]] \in Int /\ new[x] \in Int
    BY <1>2, <2>1
  <2>5. QED
    BY <2>1, <2>2, <2>3, <2>4
<1>4. ASSUME NEW j \in i + 1 .. Len(q) + 1
      PROVE  j - 1 \in DOMAIN q /\ new[p[j]] = key[q[j - 1]] /\ new[x] <= new[p[j]]
  <2>1. j - 1 \in DOMAIN q /\ i \in DOMAIN q /\ i <= Len(q) /\ (i < j - 1 \/ i = j - 1)
    <3>1. DOMAIN q = 1 .. Len(q) /\ Len(q) \in Nat
      BY <1>1
    <3>2. j - 1 \in 1 .. Len(q) /\ i \in 1 .. Len(q) /\ i <= Len(q) /\ (i < j - 1 \/ i = j - 1)
      BY <3>1
    <3>3. QED
      BY <3>1, <3>2
  <2>2. new[p[j]] = key[q[j - 1]]
    BY <1>1, <2>1
  <2>3. key[q[i]] <= key[q[j - 1]]
    BY <1>2, <2>1 DEF SortedBy
  <2>4. key[q[i]] \in Int /\ key[q[j - 1]] \in Int /\ new[x] \in Int
    BY <1>2, <2>1
  <2>5. QED
    BY <2>1, <2>2, <2>3, <2>4
<1>5. ASSUME NEW j \in 1 .. Len(q) + 1, NEW k \in 1 .. Len(q) + 1, j < k
      PROVE  new[p[j]] <= new[p[k]]
  <2>1. CASE k < i
    <3>1. j \in 1 .. i - 1 /\ k \in 1 .. i - 1
      BY <1>1, <1>5, <2>1
    <3>2. QED
      BY <1>3, <1>5, <3>1 DEF SortedBy
  <2>2. CASE k = i
    <3>1. j \in 1 .. i - 1
      BY <1>1, <1>5, <2>2
    <3>2. QED
      BY <1>1, <1>3, <2>2, <3>1
  <2>3. CASE k > i /\ j < i
    <3>1. j \in 1 .. i - 1 /\ k \in i + 1 .. Len(q) + 1
      BY <1>1, <2>3
    <3>2. new[p[j]] <= new[x] /\ new[x] <= new[p[k]]
      BY <1>3, <1>4, <3>1
    <3>3. new[p[j]] \in Int /\ new[p[k]] \in Int /\ new[x] \in Int
      BY <1>2, <1>3, <1>4, <3>1
    <3>4. QED
      BY <3>2, <3>3
  <2>4. CASE k > i /\ j = i
    <3>1. k \in i + 1 .. Len(q) + 1
      BY <1>1, <2>4
    <3>2. QED
      BY <1>1, <1>4, <2>4, <3>1
  <2>5. CASE k > i /\ j > i
    <3>1. j \in i + 1 .. Len(q) + 1 /\ k \in i + 1 .. Len(q) + 1 /\ j - 1 < k - 1
      BY <1>1, <1>5, <2>5
    <3>2. QED
      BY <1>4, <3>1 DEF SortedBy
  <2>6. QED
    BY <1>1, <2>1, <2>2, <2>3, <2>4, <2>5
<1>6. QED
  BY <1>1, <1>5 DEF SortedBy, p

\* sleep puts a running task where its time belongs.
LEMMA ParkQueues ==
  ASSUME TypeOK, ClockAssumption, QueueInv, UnlinkedKept, NEW ticks \in Delays \cup {0},
         Park(active_task, ticks), state[active_task] = "CURR", ~ pendsv,
         \/ pendsv' = TRUE
         \/ pendsv' = pendsv /\ pc'[active_task] = "pend",
         UNCHANGED <<ready_queue, active_task, now, waitq>>
  PROVE  QueueInv' /\ SlotsKept
<1> DEFINE t == active_task
<1>1. /\ t \in Task /\ state \in [Task -> State] /\ waitq \in [Sem -> Seq(Task)]
      /\ sleep_queue \in Seq(Task) /\ due \in [Task -> 0 .. MaxTicks] /\ now \in 0 .. MaxTicks
  BY DEF TypeOK
<1>2. CASE UNCHANGED <<state, sleep_queue, due>>
  BY <1>2 DEF QueueInv, QueuesDistinct, QueueMatchesState, UnlinkedKept, ActiveState, SleepWindow, NoOversleep,
              SlotsKept, KeptBut
<1>3. CASE ~ UNCHANGED <<state, sleep_queue, due>>
  <2>1. /\ ticks \in Delays /\ now + ticks <= MaxTicks
        /\ state' = [state EXCEPT ![t] = "SLEEP"]
        /\ due' = [due EXCEPT ![t] = now + ticks]
        /\ Members(sleep_queue') = Members(sleep_queue) \cup {t}
    BY <1>1, <1>3, ParkMoves
  <2>2. PICK i \in 1 .. Len(sleep_queue) + 1 :
          /\ SortedAt(sleep_queue, (ticks + sys_time) % Word, i)
          /\ sleep_queue' = queue_pushsort(sleep_queue, t, i)
    BY <1>1, <1>3, ParkMoves
  <2>3. ticks \in Nat /\ ticks > 1 /\ now + ticks \in 0 .. MaxTicks
    BY <1>1, <2>1, DelaysAssumption DEF ClockAssumption
  <2>4. (ticks + sys_time) % Word = now + ticks
    <3>1. ticks + now = now + ticks
      BY <1>1, <2>3
    <3>2. QED
      BY <2>3, <3>1, ClockFits
  <2>5. \A u \in Task : param(u) = due[u]
    BY ClockFits
  <2>6. t \notin Members(sleep_queue) /\ t \notin Members(ready_queue)
        /\ \A r \in Sem : t \notin Members(waitq[r])
    BY <1>1 DEF QueueInv, QueueMatchesState, UnlinkedKept
  <2>7. /\ state'[t] = "SLEEP" /\ \A u \in Task \ {t} : state'[u] = state[u]
        /\ due'[t] = now + ticks /\ \A u \in Task \ {t} : due'[u] = due[u]
    BY <1>1, <2>1
  <2>8. Distinct(sleep_queue')
    BY <1>1, <2>2, <2>6, DistinctInsert DEF QueueInv, QueuesDistinct
  <2>9. QueuesDistinct'
    BY <2>8 DEF QueueInv, QueuesDistinct
  <2>10. QueueMatchesState'
    BY <1>1, <2>1, <2>6, <2>7 DEF QueueInv, QueueMatchesState, UnlinkedKept
  <2>11. SortedBy(sleep_queue, due)' 
    <3>1. /\ Len(sleep_queue) \in Nat /\ DOMAIN sleep_queue = 1 .. Len(sleep_queue)
          /\ \A j \in 1 .. Len(sleep_queue) : sleep_queue[j] \in Task
      BY <1>1, LenProperties, ElementOfSeq
    <3>2. \A j \in DOMAIN sleep_queue : sleep_queue[j] # t /\ due'[sleep_queue[j]] = due[sleep_queue[j]]
      BY <2>6, <2>7, <3>1 DEF Members
    <3>3. i > 1 => due[sleep_queue[i - 1]] <= now + ticks
      <4>1. SUFFICES ASSUME i > 1 PROVE due[sleep_queue[i - 1]] <= now + ticks
        OBVIOUS
      <4>2. i - 1 \in 1 .. Len(sleep_queue) /\ (i - 1 = 1 \/ i - 1 \in 2 .. i - 1)
        BY <3>1, <4>1
      <4>3. /\ due[sleep_queue[i - 1]] \in Int /\ now + ticks \in Int
            /\ param(sleep_queue[i - 1]) = due[sleep_queue[i - 1]]
            /\ param(sleep_queue[1]) = due[sleep_queue[1]]
        <5>1. sleep_queue[i - 1] \in Task /\ sleep_queue[1] \in Task
          BY <3>1, <4>2
        <5>2. QED
          BY <1>1, <2>3, <2>5, <5>1
      <4>4. ~ (sleep_queue = <<>> \/ now + ticks < param(sleep_queue[1]))
        BY <2>2, <2>4, <4>1 DEF SortedAt
      <4>5. \A j \in 2 .. i - 1 : now + ticks > param(sleep_queue[j])
        BY <2>2, <2>4, <4>4 DEF SortedAt
      <4>6. CASE i - 1 = 1
        BY <4>3, <4>4, <4>6
      <4>7. CASE i - 1 \in 2 .. i - 1
        BY <4>3, <4>5, <4>7
      <4>8. QED
        BY <4>2, <4>6, <4>7
    <3>4. i <= Len(sleep_queue) => now + ticks <= due[sleep_queue[i]]
      <4>1. SUFFICES ASSUME i <= Len(sleep_queue) PROVE now + ticks <= due[sleep_queue[i]]
        OBVIOUS
      <4>2. /\ sleep_queue[i] \in Task /\ param(sleep_queue[i]) = due[sleep_queue[i]]
            /\ due[sleep_queue[i]] \in Int /\ now + ticks \in Int
        BY <1>1, <2>3, <2>5, <3>1, <4>1
      <4>3. \/ now + ticks < param(sleep_queue[1]) /\ i = 1
            \/ sleep_queue = <<>>
            \/ now + ticks <= param(sleep_queue[i])
        BY <2>2, <2>4, <4>1 DEF SortedAt
      <4>4. sleep_queue # <<>>
        BY <3>1, <4>1
      <4>5. QED
        BY <4>2, <4>3, <4>4
    <3>5. due \in [Task -> Int] /\ due' \in [Task -> Int]
      BY <1>1, <2>1, <2>3
    <3>6. SortedBy(queue_pushsort(sleep_queue, t, i), due')
      <4> DEFINE d == due'
      <4>1. /\ \A j \in DOMAIN sleep_queue : d[sleep_queue[j]] = due[sleep_queue[j]]
            /\ i > 1 => due[sleep_queue[i - 1]] <= d[t]
            /\ i <= Len(sleep_queue) => d[t] <= due[sleep_queue[i]]
            /\ d \in [Task -> Int] /\ SortedBy(sleep_queue, due)
        BY <2>7, <3>2, <3>3, <3>4, <3>5 DEF QueueInv
      <4> HIDE DEF d
      <4>2. SortedBy(queue_pushsort(sleep_queue, t, i), d)
        BY <1>1, <3>5, <4>1, SortedInsert, ZenonT(60)
      <4>3. QED
        BY <4>2 DEF d
    <3>7. QED
      BY <2>2, <3>6 DEF SortedBy
  <2>12. NoOversleep'
    <3>1. now < now + ticks
      BY <1>1, <2>3
    <3>2. QED
      BY <2>1, <2>6, <2>7, <3>1 DEF QueueInv, NoOversleep
  <2>13. ActiveState' /\ SleepWindow' /\ SlotsKept
    <3>1. now + ticks > now + 1
      BY <1>1, <2>3
    <3>2. QED
      BY <1>1, <2>7, <3>1 DEF ActiveState, SleepWindow, SlotsKept, KeptBut
  <2>14. QED
    BY <2>9, <2>10, <2>11, <2>12, <2>13 DEF QueueInv
<1>4. QED
  BY <1>2, <1>3
\* A supervisor call that waits and signals in one go leaves its caller on the ready
\* queue, on the wait queue behind others, or running.
LEMMA SectionQueues ==
  ASSUME TypeOK, QueueInv, UnlinkedKept, NEW s \in Sem, NEW p \in Task \cup {NoSlot},
         Section(active_task, s, p), state[active_task] = "CURR", p \in Task => state[p] = "FREE",
         UNCHANGED <<sleep_queue, active_task, now, due>>
  PROVE  QueueInv' /\ KeptBut(p) /\ (p \in Task => state'[p] = "SUSP")
<1> DEFINE t == active_task
           w == waitq[s]
           q == Waiting(t, s)
           h == Head(q)
<1>1. /\ t \in Task /\ state \in [Task -> State] /\ waitq \in [Sem -> Seq(Task)]
      /\ ready_queue \in Seq(Task) /\ q \in Seq(Task) /\ NoSlot \notin Task
  <2>1. NoSlot \notin Task
    BY NTaskAssumption DEF Task, NoSlot
  <2>2. t \in Task
    BY DEF TypeOK
  <2>3. q \in Seq(Task)
    BY <2>2, SectionQueue
  <2>4. QED
    BY <2>1, <2>2, <2>3 DEF TypeOK
<1>0. p # t /\ (p \in Task => /\ p \notin Members(sleep_queue) /\ p \notin Members(ready_queue)
                               /\ \A r \in Sem : p \notin Members(waitq[r]))
  BY <1>1 DEF QueueInv, QueueMatchesState
<1>2. CASE q = <<>>
  <2>1. /\ UNCHANGED <<ready_queue, value, waitq, pendsv>> /\ (p \in Task => state'[p] = "SUSP")
        /\ \A u \in Task \ {p} : state'[u] = state[u]
    BY <1>1, <1>2, SectionIdle
  <2>2. QED
    BY <1>0, <1>1, <2>1 DEF QueueInv, QueuesDistinct, QueueMatchesState, UnlinkedKept, ActiveState, SleepWindow,
                      NoOversleep, SlotsKept, KeptBut
<1>3. CASE q # <<>>
  <2>0. h = Head(q)
    OBVIOUS
  <2> HIDE DEF h
  <2>1. /\ h \in Members(q) /\ h \in Task
        /\ state'[h] = "READY" /\ p # h /\ (p \in Task => state'[p] = "SUSP")
        /\ t # h => state'[t] = IF value[s] = 0 THEN "WAIT" ELSE state[t]
        /\ ready_queue' = queue_push(ready_queue, h)
        /\ Members(ready_queue') = Members(ready_queue) \cup {h}
        /\ waitq' = [waitq EXCEPT ![s] = Tail(q)]
        /\ pendsv' = TRUE
    <3>1. h \in Members(q) /\ h \in Task
      BY <1>1, <1>3, <2>0, SectionPush
    <3>3. p # h
      <4>1. Members(q) \subseteq Members(w) \cup {t}
        BY <1>1, SectionQueue
      <4>2. QED
        BY <1>0, <3>1, <4>1
    <3>2. /\ state'[h] = "READY" /\ (p \in Task => state'[p] = "SUSP")
          /\ t # h => state'[t] = IF value[s] = 0 THEN "WAIT" ELSE state[t]
      BY <1>0, <1>1, <1>3, <2>0, <3>1, <3>3, SectionCaller
    <3>4. QED
      BY <1>1, <1>3, <2>0, <3>1, <3>2, <3>3, SectionPush, ZenonT(60)
  <2>2. \A u \in Task \ {p, h, t} : state'[u] = state[u]
    BY <1>1, <1>3, <2>0, SectionOthers
  <2>3. \A r \in Sem : t \notin Members(waitq[r])
    BY <1>1 DEF QueueInv, QueueMatchesState, UnlinkedKept
  <2>4. w \in Seq(Task) /\ Distinct(w) /\ t \notin Members(w)
    BY <1>1, <2>3 DEF QueueInv, QueuesDistinct
  <2>5. Distinct(q) /\ Members(q) = IF value[s] = 0 THEN Members(w) \cup {t} ELSE Members(w)
    <3>1. Distinct(queue_push(w, t)) /\ Members(queue_push(w, t)) = Members(w) \cup {t}
      BY <1>1, <2>4, DistinctAppend, MembersAppend
    <3>2. q = IF value[s] = 0 THEN queue_push(w, t) ELSE w
      BY DEF Waiting
    <3>3. QED
      BY <2>4, <3>1, <3>2
  <2>6. \A r \in Sem \ {s} : waitq'[r] = waitq[r] /\ Members(w) \cap Members(waitq[r]) = {}
    BY <1>1, <2>1 DEF QueueInv, QueuesDistinct
  <2>7. waitq'[s] = Tail(q)
    BY <1>1, <2>1
  <2>8. \A u \in Task : u \in Members(w) => state[u] = "WAIT"
    BY DEF QueueInv, QueueMatchesState, UnlinkedKept
  <2> HIDE DEF q, w
  <2>9. Distinct(Tail(q)) /\ Members(Tail(q)) = Members(q) \ {h}
    BY <1>1, <1>3, <2>0, <2>5, DistinctTail
  <2>10. h \notin Members(ready_queue) /\ h \notin Members(sleep_queue)
         /\ \A r \in Sem \ {s} : h \notin Members(waitq[r])
    <3>1. CASE h \in Members(w)
      BY <1>1, <2>1, <2>6, <2>8, <3>1 DEF QueueInv, QueueMatchesState, UnlinkedKept
    <3>2. CASE h = t
      BY <1>1, <2>3, <3>2 DEF QueueInv, QueueMatchesState, UnlinkedKept
    <3>3. QED
      BY <2>1, <2>5, <3>1, <3>2
  <2>11. Distinct(ready_queue')
    BY <1>1, <2>1, <2>10, DistinctAppend DEF QueueInv, QueuesDistinct
  <2>12. Members(waitq'[s]) = (IF value[s] = 0 THEN Members(w) \cup {t} ELSE Members(w)) \ {h}
    BY <2>5, <2>7, <2>9
  <2>13. \A r \in Sem \ {s} : Members(waitq'[s]) \cap Members(waitq'[r]) = {}
    BY <2>3, <2>6, <2>12
  <2>14. QueuesDistinct'
    <3>1. \A r \in Sem \ {s} : waitq'[r] = waitq[r]
      BY <2>6
    <3>2. Distinct(waitq'[s])
      BY <2>7, <2>9
    <3>3. QED
      BY <2>11, <2>13, <3>1, <3>2 DEF QueueInv, QueuesDistinct
  <2>15. \A u \in Task \ {h, t} : \A r \in Sem : u \in Members(waitq'[r]) <=> u \in Members(waitq[r])
    BY <2>6, <2>12 DEF w
  <2>16. \A r \in Sem : h \notin Members(waitq'[r])
    BY <2>6, <2>10, <2>12
  <2>17. t # h => \A r \in Sem : t \in Members(waitq'[r]) <=> r = s /\ value[s] = 0
    BY <2>3, <2>4, <2>6, <2>12
  <2>18. t \notin Members(ready_queue) /\ t \notin Members(sleep_queue)
    BY <1>1 DEF QueueInv, QueueMatchesState, UnlinkedKept
  <2>19. QueueMatchesState'
    <3>1. ASSUME NEW u \in Task \ {p, h, t}
          PROVE  /\ u \in Members(sleep_queue') <=> state'[u] = "SLEEP"
                 /\ (\E r \in Sem : u \in Members(waitq'[r])) <=> state'[u] = "WAIT"
                 /\ u \in Members(ready_queue')
                      <=> state'[u] = "READY" \/ (state'[u] = "CURR" /\ u # active_task' /\ ~ Unlinked(u)')
      BY <2>1, <2>2, <2>15 DEF QueueInv, QueueMatchesState, UnlinkedKept
    <3>2. /\ h \notin Members(sleep_queue') /\ h \in Members(ready_queue')
          /\ \A r \in Sem : h \notin Members(waitq'[r])
      BY <2>1, <2>10, <2>16
    <3>3. t # h => /\ t \notin Members(sleep_queue') /\ t \notin Members(ready_queue')
                   /\ (\E r \in Sem : t \in Members(waitq'[r])) <=> state'[t] = "WAIT"
                   /\ state'[t] \in {"WAIT", "CURR"}
      BY <2>1, <2>17, <2>18
    <3>4. p \in Task => /\ p \notin Members(sleep_queue') /\ p \notin Members(ready_queue')
                        /\ \A r \in Sem : p \notin Members(waitq'[r])
      BY <1>0, <1>1, <2>1, <2>15
    <3>5. QED
      BY <2>1, <3>1, <3>2, <3>3, <3>4 DEF QueueMatchesState, UnlinkedKept
  <2>20. state'[t] \in {"READY", "WAIT", "CURR"} /\ state[h] \in {"WAIT", "CURR"}
    BY <1>1, <2>1, <2>5, <2>8
  <2>21. KeptBut(p)
    <3>1. \A u \in Task \ {p, h, t} : state'[u] = state[u]
      BY <2>2
    <3>2. /\ state'[h] = "READY" /\ state[h] \in {"WAIT", "CURR"}
          /\ state[h] = "CURR" => h = t
      BY <2>1, <2>5, <2>8, <2>20
    <3>3. state'[t] \in {"READY", "WAIT", "CURR"} /\ state[t] = "CURR"
      BY <2>20
    <3>4. QED
      BY <3>1, <3>2, <3>3 DEF KeptBut
  <2>22. ActiveState' /\ SleepWindow' /\ NoOversleep'
    BY <2>1, <2>20 DEF QueueInv, ActiveState, SleepWindow, NoOversleep
  <2>23. SortedBy(sleep_queue, due)'
    BY DEF QueueInv, SortedBy
  <2>24. QED
    BY <2>1, <2>14, <2>19, <2>21, <2>22, <2>23 DEF QueueInv
<1>4. QED
  BY <1>2, <1>3

\* TIM2_Handler moves the sleepers whose tick has come, and never the active task.
LEMMA TickQueues ==
  ASSUME TypeOK, ClockAssumption, QueueInv, MadeInv, UnlinkedKept, TIM2_Handler
  PROVE  QueueInv' /\ SlotsKept
<1>1. /\ active_task \in Task /\ state \in [Task -> State] /\ waitq \in [Sem -> Seq(Task)]
      /\ sleep_queue \in Seq(Task) /\ ready_queue \in Seq(Task)
      /\ due \in [Task -> 0 .. MaxTicks] /\ now \in 0 .. MaxTicks
  BY DEF TypeOK
<1>2. /\ ~ pendsv /\ ticked' = (pc[active_task] = "pend")
      /\ ~ (ticked /\ pc[active_task] = "pend" /\ state[active_task] = "SLEEP")
      /\ now' = IF now < MaxTicks THEN now + 1 ELSE now
      /\ UNCHANGED <<active_task, waitq, pc>>
  BY DEF TIM2_Handler, NextTick, semVars
<1>3. PICK n \in 0 .. Len(sleep_queue) :
        /\ Expired(n, now' % Word)
        /\ sleep_queue' = SubSeq(sleep_queue, n + 1, Len(sleep_queue))
        /\ ready_queue' = ready_queue \o SubSeq(sleep_queue, 1, n)
        /\ state' = [t \in Task |->
                       IF \E i \in 1 .. n : sleep_queue[i] = t THEN "CURR" ELSE state[t]]
        /\ due' = [t \in Task |-> IF \E i \in 1 .. n : sleep_queue[i] = t THEN 0 ELSE due[t]]
  BY DEF TIM2_Handler
<1> DEFINE a == SubSeq(sleep_queue, 1, n)
           b == SubSeq(sleep_queue, n + 1, Len(sleep_queue))
<1>4. /\ Len(sleep_queue) \in Nat /\ DOMAIN sleep_queue = 1 .. Len(sleep_queue)
      /\ \A i \in 1 .. Len(sleep_queue) : sleep_queue[i] \in Task
  BY <1>1, LenProperties, ElementOfSeq
<1>5. now' \in 0 .. MaxTicks /\ now' <= now + 1 /\ now' % Word = now'
      /\ \A t \in Task : param(t) = due[t]
  <2>1. now' \in 0 .. MaxTicks /\ now' <= now + 1
    BY <1>1, <1>2, WordAssumption
  <2>2. QED
    BY <2>1, ClockFits
<1>6. /\ \A i \in 1 .. n : now' >= due[sleep_queue[i]]
      /\ n < Len(sleep_queue) => now' < due[sleep_queue[n + 1]]
  <2>1. \A i \in 1 .. n : i \in 1 .. Len(sleep_queue)
    BY <1>4
  <2>2. n < Len(sleep_queue) => n + 1 \in 1 .. Len(sleep_queue)
    BY <1>4
  <2>3. QED
    BY <1>3, <1>4, <1>5, <2>1, <2>2 DEF Expired
<1>7. Distinct(sleep_queue) /\ SortedBy(sleep_queue, due)
  BY DEF QueueInv, QueuesDistinct
<1>8. /\ a \in Seq(Task) /\ b \in Seq(Task)
      /\ DOMAIN b = 1 .. Len(sleep_queue) - n
      /\ \A i \in 1 .. Len(sleep_queue) - n : b[i] = sleep_queue[n + i]
      /\ Members(sleep_queue) = Members(a) \cup Members(b) /\ Members(a) \cap Members(b) = {}
      /\ Members(a) = {sleep_queue[i] : i \in 1 .. n}
      /\ Distinct(a) /\ Distinct(b)
  BY <1>1, <1>7, SplitElements, SplitMembers
<1>9. ready_queue' = ready_queue \o a /\ sleep_queue' = b
  BY <1>3
<1> HIDE DEF a, b
<1>10. /\ \A t \in Task : state'[t] = IF t \in Members(a) THEN "CURR" ELSE state[t]
       /\ \A t \in Task : due'[t] = IF t \in Members(a) THEN 0 ELSE due[t]
  BY <1>3, <1>8
<1>11. \A t \in Task : t \in Members(a) => state[t] = "SLEEP" /\ due[t] <= now'
  <2>1. ASSUME NEW t \in Task, t \in Members(a) PROVE state[t] = "SLEEP" /\ due[t] <= now'
    <3>1. PICK i \in 1 .. n : t = sleep_queue[i]
      BY <1>8, <2>1
    <3>2. due[t] <= now'
      BY <1>1, <1>5, <1>6, <3>1
    <3>3. state[t] = "SLEEP"
      BY <1>8, <2>1 DEF QueueInv, QueueMatchesState, UnlinkedKept
    <3>4. QED
      BY <3>2, <3>3
  <2>2. QED
    BY <2>1
<1>12. active_task \notin Members(a)
  <2>1. SUFFICES ASSUME active_task \in Members(a) PROVE FALSE
    OBVIOUS
  <2>2. state[active_task] = "SLEEP" /\ due[active_task] <= now'
    BY <1>1, <1>11, <2>1
  <2>3. pc[active_task] = "pend" /\ ~ ticked
    BY <1>2, <2>2 DEF QueueInv, ActiveState
  <2>4. due[active_task] > now + 1
    BY <1>2, <2>2, <2>3 DEF QueueInv, SleepWindow
  <2>5. due[active_task] \in Int
    BY <1>1
  <2>6. QED
    BY <1>1, <1>5, <2>2, <2>4, <2>5
<1>13. /\ Members(ready_queue') = Members(ready_queue) \cup Members(a)
       /\ Distinct(ready_queue')
  <2>1. Members(ready_queue) \cap Members(a) = {}
    <3>1. \A t \in Members(a) : t \in Task
      BY <1>4, <1>8
    <3>2. QED
      BY <1>11, <3>1 DEF QueueInv, QueueMatchesState, UnlinkedKept
  <2>2. Distinct(ready_queue)
    BY DEF QueueInv, QueuesDistinct
  <2>3. QED
    BY <1>1, <1>8, <1>9, <2>1, <2>2, DistinctConcat
<1>14. QueuesDistinct'
  BY <1>2, <1>8, <1>9, <1>13 DEF QueueInv, QueuesDistinct
<1>15. QueueMatchesState'
  <2>1. ASSUME NEW u \in Task
        PROVE  /\ u \in Members(sleep_queue') <=> state'[u] = "SLEEP"
               /\ (\E s \in Sem : u \in Members(waitq'[s])) <=> state'[u] = "WAIT"
               /\ u \in Members(ready_queue')
                    <=> state'[u] = "READY" \/ (state'[u] = "CURR" /\ u # active_task' /\ ~ Unlinked(u)')
    <3>1. /\ u \in Members(sleep_queue) <=> state[u] = "SLEEP"
          /\ (\E s \in Sem : u \in Members(waitq[s])) <=> state[u] = "WAIT"
          /\ u \in Members(ready_queue)
               <=> state[u] = "READY" \/ (state[u] = "CURR" /\ u # active_task /\ ~ Unlinked(u))
      BY DEF QueueInv, QueueMatchesState, UnlinkedKept
    <3>0. Unlinked(u)' <=> Unlinked(u)
      BY DEF UnlinkedKept
    <3>2. CASE u \in Members(a)
      <4>1. ~ Unlinked(u)
        BY <1>11, <3>2 DEF MadeInv, Unlinked
      <4>2. QED
        BY <1>2, <1>8, <1>9, <1>10, <1>11, <1>12, <1>13, <3>0, <3>1, <3>2, <4>1
    <3>3. CASE u \notin Members(a)
      BY <1>2, <1>8, <1>9, <1>10, <1>13, <3>0, <3>1, <3>3
    <3>4. QED
      BY <3>2, <3>3
  <2>2. QED
    BY <2>1 DEF QueueMatchesState, UnlinkedKept
<1>16. \A t \in Members(b) : t \in Task /\ due'[t] = due[t]
  <2>1. \A t \in Members(b) : t \in Task /\ t \notin Members(a)
    <3>1. \A t \in Members(sleep_queue) : t \in Task
      BY <1>4 DEF Members
    <3>2. QED
      BY <1>8, <3>1
  <2>2. QED
    BY <1>10, <2>1
<1>17. SortedBy(b, due')
  <2>1. ASSUME NEW i \in DOMAIN b, NEW j \in DOMAIN b, i < j
        PROVE  due'[b[i]] <= due'[b[j]]
    <3>1. n + i \in DOMAIN sleep_queue /\ n + j \in DOMAIN sleep_queue /\ n + i < n + j
      BY <1>4, <1>8, <2>1
    <3>2. due[b[i]] <= due[b[j]]
      BY <1>7, <1>8, <3>1 DEF SortedBy
    <3>3. b[i] \in Members(b) /\ b[j] \in Members(b)
      BY DEF Members
    <3>4. QED
      BY <1>16, <3>2, <3>3
  <2>2. QED
    BY <2>1 DEF SortedBy
<1>18. \A t \in Members(b) : now' < due'[t]
  <2>1. ASSUME NEW i \in DOMAIN b PROVE now' < due'[b[i]]
    <3>1. /\ n + 1 \in DOMAIN sleep_queue /\ n + i \in DOMAIN sleep_queue /\ n < Len(sleep_queue)
          /\ n + 1 < n + i \/ n + 1 = n + i
      BY <1>4, <1>8
    <3>2. due[sleep_queue[n + 1]] <= due[sleep_queue[n + i]]
      <4>1. CASE n + 1 < n + i
        BY <1>7, <3>1, <4>1 DEF SortedBy
      <4>2. CASE n + 1 = n + i
        BY <1>1, <1>4, <3>1, <4>2
      <4>3. QED
        BY <3>1, <4>1, <4>2
    <3>3. due[sleep_queue[n + 1]] \in Int /\ due[sleep_queue[n + i]] \in Int /\ now' \in Int
      BY <1>1, <1>4, <1>5, <3>1
    <3>4. now' < due[sleep_queue[n + i]]
      BY <1>6, <3>1, <3>2, <3>3
    <3>5. b[i] = sleep_queue[n + i] /\ b[i] \in Members(b)
      BY <1>8 DEF Members
    <3>6. QED
      BY <1>16, <3>4, <3>5
  <2>2. QED
    BY <2>1 DEF Members
<1>19. ActiveState' /\ SleepWindow' /\ SlotsKept
  <2>1. state'[active_task] = state[active_task]
    BY <1>1, <1>10, <1>12
  <2>2. state[active_task] = "SLEEP" => ticked'
    BY <1>2 DEF QueueInv, ActiveState
  <2>3. ActiveState'
    BY <1>2, <2>1 DEF QueueInv, ActiveState
  <2>4. SleepWindow'
    BY <1>2, <2>1, <2>2 DEF SleepWindow
  <2>5. SlotsKept
    BY <1>10, <1>11 DEF SlotsKept, KeptBut
  <2>6. QED
    BY <2>3, <2>4, <2>5
<1>20. QED
  BY <1>9, <1>14, <1>15, <1>17, <1>18, <1>19 DEF QueueInv, NoOversleep

\* PendSV_Handler moves the task it preempts to the end of the ready queue and takes the
\* first.
LEMMA DispatchQueues ==
  ASSUME TypeOK, NullReady, QueueInv, MadeInv, UnlinkedKept, PendSV_Handler
  PROVE  QueueInv' /\ SlotsKept /\ ~ Unlinked(active_task')
<1> DEFINE t == active_task
           h == Head(Rotated)
<1>1. /\ t \in Task /\ state \in [Task -> State] /\ waitq \in [Sem -> Seq(Task)]
      /\ ready_queue \in Seq(Task) /\ NULLTHREAD \in Task
  BY NTaskAssumption DEF TypeOK, Task, NULLTHREAD
<1>2. state[t] = "CURR" => t \notin Members(ready_queue)
  BY <1>1 DEF QueueInv, QueueMatchesState, UnlinkedKept
<1>3. /\ Rotated \in Seq(Task) /\ Distinct(Rotated)
      /\ Members(Rotated) = IF state[t] = "CURR" THEN Members(ready_queue) \cup {t}
                                                 ELSE Members(ready_queue)
  <2>1. Distinct(ready_queue)
    BY DEF QueueInv, QueuesDistinct
  <2>2. CASE state[t] = "CURR"
    <3>1. /\ queue_push(ready_queue, t) \in Seq(Task) /\ Distinct(queue_push(ready_queue, t))
          /\ Members(queue_push(ready_queue, t)) = Members(ready_queue) \cup {t}
      BY <1>1, <1>2, <2>1, <2>2, DistinctAppend, MembersAppend
    <3>2. QED
      BY <2>2, <3>1 DEF Rotated
  <2>3. CASE state[t] # "CURR"
    BY <1>1, <2>1, <2>3 DEF Rotated
  <2>4. QED
    BY <2>2, <2>3
<1>4. Rotated # <<>>
  BY <1>3 DEF NullReady, Members, PendSV_Handler
<1>5. /\ active_task' = h /\ ready_queue' = Tail(Rotated)
      /\ state' = [[state EXCEPT ![t] = IF state[t] = "CURR" THEN "READY" ELSE state[t]]
                     EXCEPT ![h] = "CURR"]
      /\ UNCHANGED <<sleep_queue, now, waitq, due>>
  BY <1>4 DEF PendSV_Handler, semVars
<1>6. h \in Task /\ h \in Members(Rotated) /\ Distinct(ready_queue')
      /\ Members(ready_queue') = Members(Rotated) \ {h}
  BY <1>3, <1>4, <1>5, TailMembers, DistinctTail
<1> HIDE DEF h
<1>7. /\ state'[h] = "CURR"
      /\ h # t => state'[t] = IF state[t] = "CURR" THEN "READY" ELSE state[t]
      /\ \A u \in Task \ {h, t} : state'[u] = state[u]
  BY <1>1, <1>5, <1>6
<1>8. state[h] \in {"READY", "CURR"}
  BY <1>1, <1>3, <1>6 DEF QueueInv, QueueMatchesState, UnlinkedKept
<1>9. QueuesDistinct'
  BY <1>5, <1>6 DEF QueueInv, QueuesDistinct
<1>10. QueueMatchesState'
  <2>1. ASSUME NEW u \in Task
        PROVE  /\ u \in Members(sleep_queue') <=> state'[u] = "SLEEP"
               /\ (\E s \in Sem : u \in Members(waitq'[s])) <=> state'[u] = "WAIT"
               /\ u \in Members(ready_queue')
                    <=> state'[u] = "READY" \/ (state'[u] = "CURR" /\ u # active_task' /\ ~ Unlinked(u)')
    <3> /\ u \in Members(sleep_queue) <=> state[u] = "SLEEP"
        /\ (\E s \in Sem : u \in Members(waitq[s])) <=> state[u] = "WAIT"
        /\ u \in Members(ready_queue)
             <=> state[u] = "READY" \/ (state[u] = "CURR" /\ u # active_task /\ ~ Unlinked(u))
      BY DEF QueueInv, QueueMatchesState, UnlinkedKept
    <3>1. CASE u = h
      BY <1>5, <1>6, <1>7, <1>8, <3>1
    <3>2. CASE u = t /\ u # h
      <4>1. u \in Members(ready_queue') <=> state[t] \in {"CURR", "READY"}
        BY <1>3, <1>6, <3>2
      <4>2. QED
        BY <1>5, <1>7, <3>2, <4>1
    <3>3. CASE u # t /\ u # h
      <4>1. Unlinked(u)' <=> Unlinked(u)
        BY DEF UnlinkedKept
      <4>2. QED
        BY <1>3, <1>5, <1>6, <1>7, <3>3, <4>1
    <3>4. QED
      BY <3>1, <3>2, <3>3
  <2>2. QED
    BY <2>1 DEF QueueMatchesState, UnlinkedKept
<1>11. ActiveState' /\ SleepWindow' /\ SlotsKept
  BY <1>1, <1>5, <1>7, <1>8 DEF ActiveState, SleepWindow, SlotsKept, KeptBut
<1>12. ~ Unlinked(active_task')
  <2>1. h = t \/ h \in Members(ready_queue)
    BY <1>3, <1>6
  <2>2. h \in Members(ready_queue) => state[h] = "READY" \/ ~ Unlinked(h)
    BY <1>6 DEF QueueInv, QueueMatchesState
  <2>3. state[h] = "READY" => ~ Unlinked(h)
    BY <1>6 DEF MadeInv, Unlinked
  <2>4. ~ Unlinked(t)
    BY DEF MadeInv, Unlinked
  <2>5. QED
    BY <1>5, <2>1, <2>2, <2>3, <2>4
<1>13. QED
  BY <1>5, <1>9, <1>10, <1>11, <1>12 DEF QueueInv, NoOversleep
\* printf from a loaded program puts its running caller on the ready queue.
LEMMA PutsQueues ==
  ASSUME TypeOK, QueueInv, UnlinkedKept, NEW t \in Task, Puts(t)
  PROVE  QueueInv' /\ SlotsKept
<1>1. /\ t \in Task /\ state \in [Task -> State] /\ ready_queue \in Seq(Task)
  BY DEF TypeOK
<1>2. active_task = t /\ state[t] = "CURR"
  BY RunningCurr DEF QueueInv, Puts, At
<1>3. /\ state' = [state EXCEPT ![t] = "READY"] /\ pendsv' = TRUE
      /\ ready_queue' = queue_push(ready_queue, t)
      /\ UNCHANGED <<sleep_queue, active_task, now, waitq, due>>
  BY DEF Puts, timeVars, semVars
<1>4. t \notin Members(ready_queue) /\ t \notin Members(sleep_queue)
      /\ \A s \in Sem : t \notin Members(waitq[s])
  BY <1>2 DEF QueueInv, QueueMatchesState, UnlinkedKept
<1>5. /\ Distinct(ready_queue') /\ Members(ready_queue') = Members(ready_queue) \cup {t}
  BY <1>1, <1>3, <1>4, DistinctAppend, MembersAppend DEF QueueInv, QueuesDistinct
<1>6. QueuesDistinct'
  BY <1>3, <1>5 DEF QueueInv, QueuesDistinct
<1>7. state'[t] = "READY" /\ \A u \in Task \ {t} : state'[u] = state[u]
  BY <1>1, <1>3
<1>8. QueueMatchesState'
  BY <1>2, <1>3, <1>4, <1>5, <1>7 DEF QueueInv, QueueMatchesState, UnlinkedKept
<1>9. QED
  BY <1>2, <1>3, <1>6, <1>7, <1>8
     DEF QueueInv, ActiveState, SleepWindow, NoOversleep, SlotsKept, KeptBut

\* A task that exits is on no queue, and neither is the task of a slot that create fills.
LEMMA SlotQueues ==
  ASSUME TypeOK, QueueInv, UnlinkedKept, NEW p \in Task,
         UNCHANGED <<ready_queue, sleep_queue, active_task, now, waitq, due, pendsv, ticked>>,
         \/ state[p] = "CURR" /\ p = active_task /\ state' = [state EXCEPT ![p] = "FREE"]
              /\ pc'[p] = "gone"
         \/ state[p] = "FREE" /\ p # active_task /\ state' = [state EXCEPT ![p] = "SUSP"]
              /\ state[active_task] = "CURR"
  PROVE  QueueInv'
<1>1. state \in [Task -> State] /\ active_task \in Task
  BY DEF TypeOK
<1>2. /\ state[p] \in {"CURR", "FREE"} /\ state'[p] \in {"FREE", "SUSP"}
      /\ \A u \in Task \ {p} : state'[u] = state[u]
  BY <1>1
<1>3. /\ p \notin Members(sleep_queue) /\ p \notin Members(ready_queue)
      /\ \A s \in Sem : p \notin Members(waitq[s])
  BY <1>1 DEF QueueInv, QueueMatchesState
<1>4. QueueMatchesState'
  BY <1>2, <1>3 DEF QueueInv, QueueMatchesState, UnlinkedKept
<1>5. ActiveState' /\ SleepWindow'
  BY <1>1, <1>2 DEF QueueInv, ActiveState, SleepWindow
<1>6. QED
  BY <1>4, <1>5 DEF QueueInv, QueuesDistinct, NoOversleep

\* A task that is on no queue is linked, marked before or in the same step.
LEMMA LinkQueues ==
  ASSUME TypeOK, QueueInv, NEW p \in Task, p # active_task, state[active_task] = "CURR",
         p \notin Members(sleep_queue), p \notin Members(ready_queue),
         \A s \in Sem : p \notin Members(waitq[s]),
         state'[p] = "CURR", \A u \in Task \ {p} : state'[u] = state[u],
         ready_queue' = queue_push(ready_queue, p),
         ~ Unlinked(p)', \A u \in Task \ {p} : Unlinked(u)' <=> Unlinked(u),
         UNCHANGED <<sleep_queue, active_task, now, waitq, due, pendsv, ticked>>
  PROVE  QueueInv'
<1>1. active_task \in Task /\ ready_queue \in Seq(Task)
  BY DEF TypeOK
<1>2. /\ Distinct(ready_queue') /\ Members(ready_queue') = Members(ready_queue) \cup {p}
  BY <1>1, DistinctAppend, MembersAppend DEF QueueInv, QueuesDistinct
<1>3. QueueMatchesState'
  BY <1>1, <1>2 DEF QueueInv, QueueMatchesState
<1>4. ActiveState' /\ SleepWindow'
  BY <1>1 DEF QueueInv, ActiveState, SleepWindow
<1>5. QED
  BY <1>2, <1>3, <1>4 DEF QueueInv, QueuesDistinct, NoOversleep

-----------------------------------------------------------------------------
(* Slots between create and ready.                                         *)

\* Whether a step leaves the claims of the tasks that link theirs alone.
PushersKept == \A u \in Task : /\ pc'[u] \in Pushing <=> pc[u] \in Pushing
                               /\ pc[u] \in Pushing => claim'[u] = claim[u]

\* Such a step leaves the tasks that are marked and not linked yet as they are.
LEMMA PushersUnlinked == PushersKept => UnlinkedKept
  BY DEF PushersKept, UnlinkedKept, Unlinked

\* A step that leaves create and ready alone keeps the claims.
LEMMA MadeKept ==
  ASSUME TypeInv, MadeInv, SlotsKept, PushersKept,
         \A u \in Task : pc'[u] = "made" <=> pc[u] = "made",
         \A u \in Task : pc[u] = "made" => claim'[u] = claim[u],
         \A u \in Task : state[u] \in {"FREE", "SUSP"} => pc'[u] = pc[u],
         active_task' = active_task \/ ~ Unlinked(active_task')
  PROVE  MadeInv'
<1>1. /\ \A u \in Task : pc[u] \in Claiming => claim[u] \in Task
      /\ NoSlot \notin Task
  BY NTaskAssumption DEF TypeInv, TypeOK, MadeHasSlot, Claiming, Task, NoSlot
<1>2. \A u \in Task : /\ state'[u] \in {"FREE", "SUSP"} => state'[u] = state[u]
                      /\ state[u] = "SUSP" => state'[u] = "SUSP"
                      /\ state[u] = "CURR" /\ u # active_task => state'[u] = "CURR"
  BY <1>1 DEF SlotsKept, KeptBut
<1>3. \A u \in Task : /\ pc'[u] \in Claiming <=> pc[u] \in Claiming
                      /\ pc[u] \in Claiming => claim'[u] = claim[u]
  BY DEF PushersKept, Claiming
<1>4. \A u \in Task : pc[u] \in Pushing => claim[u] # active_task'
  BY <1>1 DEF MadeInv, Unlinked, Claiming
<1>5. (\A t \in Task : state[t] \in {"FREE", "SUSP"} => pc[t] \in {"run", "gone"})'
  BY <1>2 DEF MadeInv
<1>6. (\A t \in Task : pc[t] = "made" => state[claim[t]] = "SUSP")'
  BY <1>1, <1>2 DEF MadeInv, Claiming
<1>7. (\A t \in Task : pc[t] \in Pushing => state[claim[t]] = "CURR" /\ claim[t] # active_task)'
  BY <1>1, <1>2, <1>4 DEF MadeInv, PushersKept, Claiming
<1>8. (\A t, u \in Task :
         pc[t] \in Claiming /\ pc[u] \in Claiming /\ claim[t] = claim[u] => t = u)'
  BY <1>3 DEF MadeInv
<1>9. QED
  BY <1>5, <1>6, <1>7, <1>8 DEF MadeInv

\* A creator that fills a slot which is free is the only one that has claimed it.
LEMMA MadeTaken ==
  ASSUME TypeInv, MadeInv, NEW t \in Task, NEW p \in Task, t = active_task, state[t] = "CURR",
         state[p] = "FREE", pc[t] \notin Claiming, KeptBut(p), state'[p] = "SUSP",
         pc' = [pc EXCEPT ![p] = "run", ![t] = "made"], claim'[t] = p,
         \A u \in Task \ {t} : claim'[u] = claim[u], active_task' = active_task
  PROVE  MadeInv'
<1>1. /\ pc \in [Task -> Stage] /\ p # t
      /\ \A u \in Task : pc[u] \in Claiming => claim[u] \in Task
  BY DEF TypeInv, TypeOK, MadeHasSlot, Claiming
<1>2. pc'[p] = "run" /\ pc'[t] = "made" /\ \A u \in Task \ {p, t} : pc'[u] = pc[u]
  BY <1>1
<1>3. \A u \in Task \ {p} :
        /\ state'[u] \in {"FREE", "SUSP"} => state'[u] = state[u]
        /\ state[u] = "SUSP" => state'[u] = "SUSP"
        /\ state[u] = "CURR" /\ u # active_task => state'[u] = "CURR"
  BY DEF KeptBut
<1>4. \A u \in Task : pc[u] \in Claiming => claim[u] # p /\ u # t
  <2>1. \A u \in Task : pc[u] \in Claiming => state[claim[u]] \in {"SUSP", "CURR"}
    BY DEF MadeInv, Claiming
  <2>2. QED
    BY <2>1
<1>5. (\A u \in Task : state[u] \in {"FREE", "SUSP"} => pc[u] \in {"run", "gone"})'
  <2>1. SUFFICES ASSUME NEW u \in Task, state'[u] \in {"FREE", "SUSP"}
                 PROVE  pc'[u] \in {"run", "gone"}
    OBVIOUS
  <2>2. CASE u = p
    BY <1>2, <2>2
  <2>3. CASE u # p
    <3>1. state[u] \in {"FREE", "SUSP"} /\ u # t
      BY <1>3, <2>1, <2>3
    <3>2. QED
      BY <1>2, <2>3, <3>1 DEF MadeInv
  <2>4. QED
    BY <2>2, <2>3
<1>6. (\A u \in Task : pc[u] = "made" => state[claim[u]] = "SUSP")'
  BY <1>1, <1>2, <1>3, <1>4 DEF MadeInv, Claiming
<1>7. (\A u \in Task : pc[u] \in Pushing => state[claim[u]] = "CURR" /\ claim[u] # active_task)'
  <2>1. SUFFICES ASSUME NEW u \in Task, pc'[u] \in Pushing
                 PROVE  state'[claim'[u]] = "CURR" /\ claim'[u] # active_task'
    OBVIOUS
  <2>2. u # t /\ u # p
    BY <1>2, <2>1 DEF Pushing
  <2>3. pc[u] \in Pushing /\ claim'[u] = claim[u] /\ claim[u] \in Task \ {p}
    BY <1>1, <1>2, <1>4, <2>1, <2>2 DEF Claiming
  <2>4. QED
    BY <1>3, <2>3 DEF MadeInv
<1>8. (\A u, v \in Task :
         pc[u] \in Claiming /\ pc[v] \in Claiming /\ claim[u] = claim[v] => u = v)'
  <2>1. \A u \in Task : pc'[u] \in Claiming => u = t \/ (pc[u] \in Claiming /\ u # t)
    BY <1>2 DEF Claiming, Pushing
  <2>2. QED
    BY <1>4, <2>1 DEF MadeInv
<1>9. QED
  BY <1>5, <1>6, <1>7, <1>8 DEF MadeInv

\* Nobody links a task then that did not before.
LEMMA TakenPushers ==
  ASSUME TypeInv, MadeInv, NEW t \in Task, NEW p \in Task,
         state[p] = "FREE", pc[t] \notin Claiming,
         pc' = [pc EXCEPT ![p] = "run", ![t] = "made"],
         \A u \in Task \ {t} : claim'[u] = claim[u]
  PROVE  PushersKept
<1>1. pc \in [Task -> Stage]
  BY DEF TypeInv, TypeOK
<1>2. /\ pc'[t] = "made" /\ (p # t => pc'[p] = "run")
      /\ \A u \in Task \ {p, t} : pc'[u] = pc[u]
  BY <1>1
<1>3. pc[p] \notin Pushing /\ pc[t] \notin Pushing
  BY DEF MadeInv, Pushing, Claiming
<1>4. QED
  BY <1>2, <1>3 DEF PushersKept, Pushing

\* create fills the slot it has claimed if it is still free, and faults if it is not.
LEMMA FillQueues ==
  ASSUME TypeInv, QueueInv, MadeInv, NEW t \in Task, CreateFill(t)
  PROVE  QueueInv' /\ MadeInv'
<1>1. /\ active_task = t /\ pc[t] = "fill" /\ state[t] = "CURR" /\ ~ pendsv
      /\ UNCHANGED <<ready_queue, sleep_queue, active_task, now, waitq, due, pendsv, ticked, claim>>
  BY RunningCurr DEF CreateFill, At, Running, QueueInv, timeVars, semVars, callVars
<1>2. /\ state \in [Task -> State] /\ claim \in [Task -> Task \cup {NoSlot}] /\ TypeOK
  BY DEF TypeInv, TypeOK
<1>3. CASE UNCHANGED <<state, pc>>
  <2>1. PushersKept /\ UnlinkedKept
    BY <1>1, <1>3, PushersUnlinked DEF PushersKept
  <2>2. QueueInv'
    BY <1>1, <1>3, <2>1 DEF QueueInv, QueuesDistinct, QueueMatchesState, UnlinkedKept,
                            ActiveState, SleepWindow, NoOversleep
  <2>3. MadeInv'
    BY <1>1, <1>3 DEF MadeInv
  <2>4. QED
    BY <2>2, <2>3
<1>4. CASE claim[t] # NoSlot /\ state[claim[t]] = "FREE"
  <2>1. PICK p \in Task : p = claim[t]
    BY <1>2, <1>4
  <2>2. /\ state' = [state EXCEPT ![p] = "SUSP"]
        /\ pc' = [pc EXCEPT ![p] = "run", ![t] = "made"]
    BY <1>4, <2>1 DEF CreateFill
  <2>3. state[p] = "FREE" /\ p # t /\ pc[t] \notin Claiming
    BY <1>1, <1>4, <2>1 DEF Claiming, Pushing
  <2>4. state'[p] = "SUSP" /\ \A u \in Task \ {p} : state'[u] = state[u]
    BY <1>2, <2>2
  <2>5. KeptBut(p)
    BY <2>4 DEF KeptBut
  <2>6. UnlinkedKept
    BY <1>1, <2>2, <2>3, TakenPushers, PushersUnlinked
  <2>7. QueueInv'
    BY <1>1, <1>2, <2>2, <2>3, <2>6, SlotQueues
  <2>8. MadeInv'
    BY <1>1, <2>1, <2>2, <2>3, <2>4, <2>5, MadeTaken
  <2>9. QED
    BY <2>7, <2>8
<1>5. QED
  BY <1>3, <1>4 DEF CreateFill

\* create inside a supervisor call fills the slot it has just found free.
LEMMA SvcCreateQueues ==
  ASSUME TypeInv, QueueInv, MadeInv, NEW t \in Task, SvcCreate(t)
  PROVE  QueueInv' /\ MadeInv'
<1>1. /\ active_task = t /\ pc[t] = "run" /\ state[t] = "CURR" /\ "sem_malloc" \in Sem
      /\ UNCHANGED <<sleep_queue, active_task, now, due>>
  BY RunningCurr DEF SvcCreate, Svc, At, QueueInv, timeVars, Sem
<1>2. PICK p \in Task : p = newpid /\ state[p] = "FREE"
  BY NewpidFree DEF SvcCreate
<1>3. /\ Section(t, "sem_malloc", p)
      /\ pc' = [pc EXCEPT ![p] = "run", ![t] = "made"]
      /\ claim' = [claim EXCEPT ![t] = p]
  BY <1>2 DEF SvcCreate
<1>4. claim'[t] = p /\ \A u \in Task \ {t} : claim'[u] = claim[u]
  BY <1>3 DEF TypeInv, TypeOK
<1>5. pc[t] \notin Claiming
  BY <1>1 DEF Claiming, Pushing
<1>6. UnlinkedKept
  BY <1>2, <1>3, <1>4, <1>5, TakenPushers, PushersUnlinked
<1>7. QueueInv' /\ KeptBut(p) /\ state'[p] = "SUSP"
  BY <1>1, <1>2, <1>3, <1>6, SectionQueues DEF TypeInv
<1>8. MadeInv'
  BY <1>1, <1>2, <1>3, <1>4, <1>5, <1>7, MadeTaken
<1>9. QED
  BY <1>7, <1>8

\* What the caller of ready() knows of its claim.
LEMMA ClaimFacts ==
  ASSUME TypeInv, QueueInv, MadeInv, NEW t \in Task, Running(t), pc[t] \in Claiming,
         NEW p, p = claim[t]
  PROVE  /\ p \in Task /\ active_task = t /\ state[t] = "CURR" /\ p # t
         /\ state[p] = IF pc[t] = "made" THEN "SUSP" ELSE "CURR"
         /\ p \notin Members(sleep_queue) /\ p \notin Members(ready_queue)
         /\ \A s \in Sem : p \notin Members(waitq[s])
         /\ \A u \in Task \ {t} : pc[u] \in Claiming => claim[u] # p
<1>1. p \in Task /\ active_task = t /\ state[t] = "CURR"
  BY RunningCurr DEF TypeInv, TypeOK, MadeHasSlot, Claiming, Pushing, QueueInv
<1>2. /\ p # t /\ state[p] = IF pc[t] = "made" THEN "SUSP" ELSE "CURR"
      /\ pc[t] = "made" \/ Unlinked(p)
  BY <1>1 DEF MadeInv, Claiming, Pushing, Unlinked
<1>3. /\ p \notin Members(sleep_queue) /\ p \notin Members(ready_queue)
      /\ \A s \in Sem : p \notin Members(waitq[s])
  BY <1>1, <1>2 DEF QueueInv, QueueMatchesState
<1>4. QED
  BY <1>1, <1>2, <1>3 DEF MadeInv

\* Between the mark and the link the task is on no queue, and that is all.
LEMMA TestQueues ==
  ASSUME TypeInv, QueueInv, MadeInv, NEW t \in Task, ReadyTest(t)
  PROVE  QueueInv' /\ MadeInv'
<1>0. PICK p : p = claim[t]
  OBVIOUS
<1>1. /\ Running(t) /\ pc[t] = "made"
      /\ state' = [state EXCEPT ![p] = "CURR"]
      /\ \/ pc' = [pc EXCEPT ![t] = "first"]
         \/ pc' = [pc EXCEPT ![t] = "load"]
      /\ UNCHANGED <<ready_queue, sleep_queue, active_task, now, waitq, due, pendsv, ticked, claim>>
  BY <1>0 DEF ReadyTest, MarkReady, At, Goto, readyFrame, timeVars, semVars
<1>2. /\ p \in Task /\ active_task = t /\ state[t] = "CURR" /\ p # t /\ state[p] = "SUSP"
      /\ p \notin Members(sleep_queue) /\ p \notin Members(ready_queue)
      /\ \A s \in Sem : p \notin Members(waitq[s])
      /\ \A u \in Task \ {t} : pc[u] \in Claiming => claim[u] # p
  BY <1>0, <1>1, ClaimFacts DEF Claiming
<1>3. /\ state \in [Task -> State] /\ pc \in [Task -> Stage] /\ active_task \in Task
      /\ \A u \in Task : pc[u] \in Claiming => claim[u] \in Task
  BY DEF TypeInv, TypeOK, MadeHasSlot, Claiming
<1>4. /\ state'[p] = "CURR" /\ \A u \in Task \ {p} : state'[u] = state[u]
      /\ pc'[t] \in Pushing /\ \A u \in Task \ {t} : pc'[u] = pc[u]
  BY <1>1, <1>2, <1>3 DEF Pushing
<1>5. Unlinked(p)' /\ \A u \in Task \ {p} : Unlinked(u)' <=> Unlinked(u)
  BY <1>0, <1>1, <1>4 DEF Unlinked, Pushing
<1>6. QueueMatchesState'
  BY <1>1, <1>2, <1>4, <1>5 DEF QueueInv, QueueMatchesState
<1>7. ActiveState' /\ SleepWindow' /\ NoOversleep' /\ QueuesDistinct' /\ SortedBy(sleep_queue, due)'
  BY <1>1, <1>2, <1>4 DEF QueueInv, ActiveState, SleepWindow, NoOversleep, QueuesDistinct, SortedBy
<1>8. (\A u \in Task : state[u] \in {"FREE", "SUSP"} => pc[u] \in {"run", "gone"})'
  BY <1>2, <1>4 DEF MadeInv
<1>9. (\A u \in Task : pc[u] = "made" => state[claim[u]] = "SUSP")'
  <2>1. \A u \in Task : pc'[u] = "made" => u # t /\ pc[u] = "made"
    BY <1>4 DEF Pushing
  <2>2. QED
    BY <1>1, <1>2, <1>3, <1>4, <2>1 DEF MadeInv, Claiming
<1>10. (\A u \in Task : pc[u] \in Pushing => state[claim[u]] = "CURR" /\ claim[u] # active_task)'
  <2>1. state'[claim[t]] = "CURR" /\ claim[t] # active_task
    BY <1>0, <1>2, <1>4
  <2>2. \A u \in Task \ {t} : pc[u] \in Pushing => state'[claim[u]] = "CURR" /\ claim[u] # active_task
    BY <1>2, <1>3, <1>4 DEF MadeInv, Claiming
  <2>3. QED
    BY <1>1, <1>4, <2>1, <2>2
<1>11. (\A u, v \in Task :
          pc[u] \in Claiming /\ pc[v] \in Claiming /\ claim[u] = claim[v] => u = v)'
  <2>1. \A u \in Task : pc'[u] \in Claiming <=> pc[u] \in Claiming
    BY <1>1, <1>4 DEF Claiming
  <2>2. QED
    BY <1>1, <2>1 DEF MadeInv
<1>12. QED
  BY <1>6, <1>7, <1>8, <1>9, <1>10, <1>11 DEF QueueInv, MadeInv

\* The claim is given up, or is not read any more, when its task has been linked.
LEMMA MadeGiven ==
  ASSUME TypeInv, MadeInv, NEW t \in Task, NEW p \in Task, p = claim[t], pc[t] \in Claiming,
         state[t] = "CURR", t = active_task,
         state'[p] = "CURR", \A u \in Task \ {p} : state'[u] = state[u],
         pc'[t] \notin Claiming, \A u \in Task \ {t} : pc'[u] = pc[u] /\ claim'[u] = claim[u],
         active_task' = active_task
  PROVE  MadeInv' /\ ~ Unlinked(p)' /\ \A u \in Task \ {p} : Unlinked(u)' <=> Unlinked(u)
<1>1. /\ \A u \in Task : pc[u] \in Claiming => claim[u] \in Task
      /\ \A u \in Task \ {t} : pc[u] \in Claiming => claim[u] # p
      /\ p # t
  BY DEF TypeInv, TypeOK, MadeHasSlot, Claiming, MadeInv
<1>2. \A u \in Task : pc'[u] \in Claiming => u # t /\ pc[u] \in Claiming
  OBVIOUS
<1>3. (\A u \in Task : state[u] \in {"FREE", "SUSP"} => pc[u] \in {"run", "gone"})'
  BY <1>1 DEF MadeInv
<1>4. (\A u \in Task : pc[u] = "made" => state[claim[u]] = "SUSP")'
  BY <1>1, <1>2 DEF MadeInv, Claiming
<1>5. (\A u \in Task : pc[u] \in Pushing => state[claim[u]] = "CURR" /\ claim[u] # active_task)'
  BY <1>1, <1>2 DEF MadeInv, Claiming
<1>6. (\A u, v \in Task :
         pc[u] \in Claiming /\ pc[v] \in Claiming /\ claim[u] = claim[v] => u = v)'
  BY <1>2 DEF MadeInv
<1>7. ~ Unlinked(p)' /\ \A u \in Task \ {p} : Unlinked(u)' <=> Unlinked(u)
  BY <1>1, <1>2 DEF Unlinked, Claiming
<1>8. QED
  BY <1>3, <1>4, <1>5, <1>6, <1>7 DEF MadeInv

\* The store that links the task, if the list is what the load before it saw.
LEMMA PushQueues ==
  ASSUME TypeInv, QueueInv, MadeInv, NEW t \in Task, ReadyFirst(t) \/ ReadyLink(t)
  PROVE  QueueInv' /\ MadeInv'
<1>0. PICK p : p = claim[t]
  OBVIOUS
<1>1. PICK torn \in BOOLEAN : Running(t) /\ pc[t] \in Pushing /\ PushStep(t, torn)
  BY DEF ReadyFirst, ReadyLink, At, Pushing
<1>2. UNCHANGED <<sleep_queue, active_task, now, waitq, due, pendsv, ticked, claim, state>>
  BY <1>1 DEF PushStep, readyFrame, timeVars, semVars
<1>3. /\ p \in Task /\ active_task = t /\ state[t] = "CURR" /\ p # t /\ state[p] = "CURR"
      /\ p \notin Members(sleep_queue) /\ p \notin Members(ready_queue)
      /\ \A s \in Sem : p \notin Members(waitq[s])
  BY <1>0, <1>1, ClaimFacts DEF Claiming, Pushing
<1>4. CASE UNCHANGED <<ready_queue, pc>>
  <2>1. PushersKept /\ UnlinkedKept
    BY <1>2, <1>4, PushersUnlinked DEF PushersKept
  <2>2. QueueInv'
    BY <1>2, <1>4, <2>1 DEF QueueInv, QueuesDistinct, QueueMatchesState, UnlinkedKept,
                            ActiveState, SleepWindow, NoOversleep
  <2>3. MadeInv'
    BY <1>2, <1>4 DEF MadeInv
  <2>4. QED
    BY <2>2, <2>3
<1>5. CASE ready_queue' = queue_push(ready_queue, p) /\ pc' = [pc EXCEPT ![t] = "last"]
  <2>1. pc'[t] \notin Claiming /\ \A u \in Task \ {t} : pc'[u] = pc[u]
    BY <1>5 DEF TypeInv, TypeOK, Claiming, Pushing
  <2>2. state'[p] = "CURR" /\ \A u \in Task \ {p} : state'[u] = state[u]
    BY <1>2, <1>3
  <2>3. MadeInv' /\ ~ Unlinked(p)' /\ \A u \in Task \ {p} : Unlinked(u)' <=> Unlinked(u)
    BY <1>1, <1>2, <1>3, <2>1, <2>2, <1>0, MadeGiven DEF Claiming
  <2>4. QueueInv'
    BY <1>2, <1>3, <1>5, <2>2, <2>3, LinkQueues DEF TypeInv
  <2>5. QED
    BY <2>3, <2>4
<1>6. QED
  BY <1>0, <1>1, <1>4, <1>5 DEF PushStep, Goto

\* ready() in a supervisor call marks and links in one step.
LEMMA SvcReadyQueues ==
  ASSUME TypeInv, QueueInv, MadeInv, NEW t \in Task, SvcReady(t)
  PROVE  QueueInv' /\ MadeInv'
<1>0. PICK p : p = claim[t]
  OBVIOUS
<1>1. /\ Running(t) /\ pc[t] = "made" /\ state' = [state EXCEPT ![p] = "CURR"]
      /\ ready_queue' = queue_push(ready_queue, p)
      /\ claim' = [claim EXCEPT ![t] = NoSlot] /\ pc' = [pc EXCEPT ![t] = "run"]
      /\ UNCHANGED <<sleep_queue, active_task, now, waitq, due, pendsv, ticked>>
  BY <1>0 DEF SvcReady, MarkReady, At, Goto, readyFrame, timeVars, semVars
<1>2. /\ p \in Task /\ active_task = t /\ state[t] = "CURR" /\ p # t
      /\ p \notin Members(sleep_queue) /\ p \notin Members(ready_queue)
      /\ \A s \in Sem : p \notin Members(waitq[s])
  BY <1>0, <1>1, ClaimFacts DEF Claiming
<1>3. /\ state'[p] = "CURR" /\ \A u \in Task \ {p} : state'[u] = state[u]
      /\ pc'[t] \notin Claiming /\ \A u \in Task \ {t} : pc'[u] = pc[u] /\ claim'[u] = claim[u]
  BY <1>1, <1>2 DEF TypeInv, TypeOK, Claiming, Pushing
<1>4. MadeInv' /\ ~ Unlinked(p)' /\ \A u \in Task \ {p} : Unlinked(u)' <=> Unlinked(u)
  BY <1>1, <1>2, <1>3, <1>0, MadeGiven DEF Claiming
<1>5. QueueInv'
  BY <1>1, <1>2, <1>3, <1>4, LinkQueues DEF TypeInv
<1>6. QED
  BY <1>4, <1>5

\* The load of ready_queue.last.
LEMMA LoadQueues ==
  ASSUME TypeInv, QueueInv, MadeInv, NEW t \in Task, ReadyLoad(t)
  PROVE  QueueInv' /\ MadeInv'
<1>1. /\ pc[t] = "load" /\ Running(t)
      /\ pc' = pc \/ pc' = [pc EXCEPT ![t] = "link"]
      /\ UNCHANGED <<ready_queue, sleep_queue, active_task, now, waitq, due, pendsv, ticked, claim,
                     state>>
  BY DEF ReadyLoad, At, Goto, readyFrame, timeVars, semVars
<1>2. state[active_task] = "CURR"
  BY <1>1, RunningCurr DEF QueueInv
<1>3. /\ pc'[t] \in Pushing /\ pc[t] \in Pushing /\ \A u \in Task \ {t} : pc'[u] = pc[u]
  BY <1>1 DEF TypeInv, TypeOK, Pushing
<1>4. PushersKept /\ UnlinkedKept
  BY <1>1, <1>3, PushersUnlinked DEF PushersKept
<1>5. QueueInv'
  BY <1>1, <1>2, <1>4 DEF QueueInv, QueuesDistinct, QueueMatchesState, UnlinkedKept,
                          ActiveState, SleepWindow, NoOversleep
<1>6. MadeInv'
  <2>1. active_task = t
    BY <1>1 DEF Running
  <2>2. (\A u \in Task : state[u] \in {"FREE", "SUSP"} => pc[u] \in {"run", "gone"})'
    BY <1>1, <1>2, <1>3, <2>1 DEF MadeInv
  <2>3. \A u \in Task : /\ pc'[u] = "made" <=> pc[u] = "made"
                        /\ pc'[u] \in Pushing <=> pc[u] \in Pushing
    BY <1>3 DEF Pushing
  <2>4. QED
    BY <1>1, <2>2, <2>3 DEF MadeInv, Claiming
<1>7. QED
  BY <1>5, <1>6

\* A task that exits has claimed nothing, and nobody has claimed its slot.
LEMMA ExitQueues ==
  ASSUME TypeInv, QueueInv, MadeInv, NEW t \in Task, ExitSlot(t)
  PROVE  QueueInv' /\ MadeInv'
<1>1. /\ active_task = t /\ pc[t] = "die" /\ state[t] = "CURR"
      /\ UNCHANGED <<ready_queue, sleep_queue, active_task, now, waitq, due, pendsv, ticked, claim>>
      /\ state' = [state EXCEPT ![t] = "FREE"] /\ pc' = [pc EXCEPT ![t] = "gone"]
  BY RunningCurr DEF ExitSlot, At, Goto, QueueInv, timeVars, semVars, callVars
<1>2. /\ state \in [Task -> State] /\ pc \in [Task -> Stage] /\ TypeOK
      /\ \A u \in Task : pc[u] \in Claiming => claim[u] \in Task
  BY DEF TypeInv, TypeOK, MadeHasSlot, Claiming
<1>3. /\ state'[t] = "FREE" /\ \A u \in Task \ {t} : state'[u] = state[u]
      /\ pc'[t] = "gone" /\ \A u \in Task \ {t} : pc'[u] = pc[u]
  BY <1>1, <1>2
<1>4. PushersKept /\ UnlinkedKept
  BY <1>1, <1>3, PushersUnlinked DEF PushersKept, Pushing
<1>5. QueueInv'
  BY <1>1, <1>2, <1>3, <1>4, SlotQueues
<1>6. \A u \in Task : pc'[u] \in Claiming => pc[u] \in Claiming /\ u # t /\ claim[u] # t
  BY <1>1, <1>3 DEF MadeInv, Claiming, Pushing
<1>7. MadeInv'
  <2>1. \A u \in Task : pc'[u] \in Claiming => state'[claim[u]] = state[claim[u]] /\ pc'[u] = pc[u]
    BY <1>2, <1>3, <1>6
  <2>2. (\A u \in Task : state[u] \in {"FREE", "SUSP"} => pc[u] \in {"run", "gone"})'
    BY <1>3 DEF MadeInv
  <2>3. QED
    BY <1>1, <1>6, <2>1, <2>2 DEF MadeInv, Claiming
<1>8. QED
  BY <1>5, <1>7

-----------------------------------------------------------------------------
(* One step.                                                               *)

\* What a thread leaves of the claims, create and ready aside.
LEMMA ThreadClaims ==
  ASSUME TypeInv, QueueInv, MadeInv, NEW t \in Task, Thread(t),
         ~ CreateFill(t), ~ SvcCreate(t), ~ ReadyTest(t), ~ ReadyFirst(t), ~ ReadyLoad(t),
         ~ ReadyLink(t), ~ SvcReady(t), ~ ExitSlot(t)
  PROVE  /\ PushersKept /\ UnlinkedKept
         /\ \A u \in Task : pc'[u] = "made" <=> pc[u] = "made"
         /\ \A u \in Task : pc[u] = "made" => claim'[u] = claim[u]
         /\ \A u \in Task : state[u] \in {"FREE", "SUSP"} => pc'[u] = pc[u]
<1> USE DEF At, Svc, Goto
<1>1. pc \in [Task -> Stage] /\ claim \in [Task -> Task \cup {NoSlot}]
  BY DEF TypeInv, TypeOK
<1>2. Running(t) /\ state[t] \in {"FREE", "SUSP"} => pc[t] = "gone"
  BY DEF QueueInv, ActiveState, Running
<1> DEFINE Still == /\ Running(t) /\ pc[t] \notin Claiming /\ pc'[t] \notin Claiming
                    /\ \A u \in Task \ {t} : pc'[u] = pc[u] /\ claim'[u] = claim[u]
                    /\ pc[t] = "gone" => pc'[t] = "gone"
<1>3. CASE \/ Sleep(t) \/ SleepPend(t) \/ GpioEnter(t) \/ GpioLeave(t) \/ HeapEnter(t)
           \/ HeapLeave(t) \/ HeapFails(t) \/ NoMemFree(t) \/ NullFree(t)
  <2>1. Still
    BY <1>1, <1>3 DEF Sleep, SleepPend, GpioEnter, GpioLeave, HeapEnter, HeapLeave, HeapFails,
                      NoMemFree, NullFree, callVars, Claiming, Pushing
  <2>2. QED
    BY <1>2, <2>1, PushersUnlinked DEF PushersKept, Claiming
<1>4. CASE CreateBegin(t) \/ CreateAlloc(t) \/ CreatePanic(t) \/ PanicEnter(t) \/ PanicLeave(t)
  <2>1. Still
    BY <1>1, <1>4 DEF CreateBegin, CreateAlloc, CreatePanic, PanicEnter, PanicLeave, callVars,
                      Claiming, Pushing
  <2>2. QED
    BY <1>2, <2>1, PushersUnlinked DEF PushersKept, Claiming
<1>5. CASE \/ ExitBegin(t) \/ ExitFreeStack(t) \/ ExitNextImage(t) \/ ExitFreeImage(t)
           \/ ExitPend(t) \/ ReadyLast(t)
  <2>1. Still
    BY <1>1, <1>5 DEF ExitBegin, ExitFreeStack, ExitNextImage, ExitFreeImage, ExitPend, ReadyLast,
                      callVars, Claiming, Pushing
  <2>2. QED
    BY <1>2, <2>1, PushersUnlinked DEF PushersKept, Claiming
<1>6. CASE Puts(t) \/ SvcSleep(t) \/ SvcPin(t) \/ SvcMalloc(t) \/ SvcMallocFails(t) \/ SvcCreateFails(t)
  <2>1. Still
    BY <1>1, <1>6 DEF Puts, SvcSleep, SvcPin, SvcMalloc, SvcMallocFails, SvcCreateFails, callVars,
                      Claiming, Pushing
  <2>2. QED
    BY <1>2, <2>1, PushersUnlinked DEF PushersKept, Claiming
<1>7. QED
  BY <1>3, <1>4, <1>5, <1>6 DEF Thread

\* What it does to the queues.
LEMMA ThreadQueues ==
  ASSUME TypeInv, ClockAssumption, QueueInv, UnlinkedKept, NEW t \in Task, Thread(t),
         ~ CreateFill(t), ~ SvcCreate(t), ~ ReadyTest(t), ~ ReadyFirst(t), ~ ReadyLoad(t),
         ~ ReadyLink(t), ~ SvcReady(t), ~ ExitSlot(t)
  PROVE  QueueInv' /\ SlotsKept
<1>1. /\ active_task = t /\ active_task' = t /\ TypeOK
      /\ pc \in [Task -> Stage] /\ "sem_gpio" \in Sem /\ "sem_malloc" \in Sem
  BY ThreadGrows DEF TypeInv, TypeOK, Sem
<1>2. \A stage \in Stage \ {"pend", "gone"} :
        At(t, stage) => state[active_task] = "CURR" /\ ~ pendsv
  BY RunningCurr DEF QueueInv, At, Running
<1>3. CASE \/ GpioEnter(t) \/ HeapEnter(t) \/ CreateBegin(t) \/ CreatePanic(t) \/ PanicEnter(t)
           \/ ExitBegin(t) \/ ExitNextImage(t) \/ SvcMallocFails(t) \/ NoMemFree(t)
  <2>1. PICK s \in Sem : sem_wait(active_task, s)
    BY <1>1, <1>3 DEF GpioEnter, HeapEnter, CreateBegin, CreatePanic, PanicEnter, ExitBegin,
                      ExitNextImage, SvcMallocFails, NoMemFree
  <2>2. state[active_task] = "CURR"
    BY <1>2, <1>3 DEF GpioEnter, HeapEnter, CreateBegin, CreatePanic, PanicEnter, ExitBegin,
                      ExitNextImage, SvcMallocFails, NoMemFree, Svc, Stage
  <2>3. UNCHANGED <<ready_queue, sleep_queue, active_task, now, due>>
    BY <1>3 DEF GpioEnter, HeapEnter, CreateBegin, CreatePanic, PanicEnter, ExitBegin,
                ExitNextImage, SvcMallocFails, NoMemFree, timeVars
  <2>4. QED
    BY <1>1, <2>1, <2>2, <2>3, WaitQueues
<1>4. CASE \/ GpioLeave(t) \/ HeapLeave(t) \/ CreateAlloc(t) \/ PanicLeave(t) \/ ExitFreeStack(t)
           \/ ExitFreeImage(t)
  <2>1. PICK s \in Sem : sem_signal(s)
    BY <1>1, <1>4 DEF GpioLeave, HeapLeave, CreateAlloc, PanicLeave, ExitFreeStack, ExitFreeImage
  <2>2. state[active_task] = "CURR"
    BY <1>2, <1>4 DEF GpioLeave, HeapLeave, CreateAlloc, PanicLeave, ExitFreeStack, ExitFreeImage,
                      Stage
  <2>3. UNCHANGED <<sleep_queue, active_task, now, due>>
    BY <1>4 DEF GpioLeave, HeapLeave, CreateAlloc, PanicLeave, ExitFreeStack, ExitFreeImage,
                timeVars
  <2>4. QED
    BY <1>1, <2>1, <2>2, <2>3, SignalQueues
<1>5. CASE Sleep(t) \/ SvcSleep(t)
  <2>1. PICK ticks \in Delays \cup {0} : Park(active_task, ticks)
    BY <1>1, <1>5 DEF Sleep, SvcSleep
  <2>2. state[active_task] = "CURR" /\ ~ pendsv
    BY <1>2, <1>5 DEF Sleep, SvcSleep, Svc, Stage
  <2>3. UNCHANGED <<ready_queue, active_task, now, waitq>>
    BY <1>5 DEF Sleep, SvcSleep, timeVars, semVars
  <2>4. pendsv' = TRUE \/ (pendsv' = pendsv /\ pc'[active_task] = "pend")
    BY <1>1, <1>5 DEF Sleep, SvcSleep, Goto
  <2>5. QED
    BY <1>1, <2>1, <2>2, <2>3, <2>4, ParkQueues
<1>6. CASE SvcPin(t) \/ SvcMalloc(t)
  <2>1. PICK s \in Sem : Section(active_task, s, NoSlot)
    BY <1>1, <1>6 DEF SvcPin, SvcMalloc
  <2>2. state[active_task] = "CURR"
    BY <1>2, <1>6 DEF SvcPin, SvcMalloc, Svc, Stage
  <2>3. UNCHANGED <<sleep_queue, active_task, now, due>>
    BY <1>6 DEF SvcPin, SvcMalloc, timeVars
  <2>4. NoSlot \notin Task
    BY NTaskAssumption DEF Task, NoSlot
  <2>5. QED
    BY <1>1, <2>1, <2>2, <2>3, <2>4, SectionQueues DEF SlotsKept
<1>7. CASE SleepPend(t) \/ ExitPend(t)
  <2>1. /\ UNCHANGED <<state, ready_queue, sleep_queue, active_task, now, waitq, due>>
        /\ pendsv' = TRUE
    BY <1>7 DEF SleepPend, ExitPend, timeVars, semVars
  <2>2. QED
    BY <2>1 DEF QueueInv, QueuesDistinct, QueueMatchesState, UnlinkedKept, ActiveState,
                SleepWindow, NoOversleep, SlotsKept, KeptBut
<1>8. CASE HeapFails(t) \/ NullFree(t) \/ SvcCreateFails(t) \/ ReadyLast(t)
  <2>1. /\ UNCHANGED <<state, ready_queue, sleep_queue, active_task, now, waitq, due, pendsv, ticked>>
        /\ state[active_task] = "CURR"
    BY <1>2, <1>8 DEF HeapFails, NullFree, SvcCreateFails, ReadyLast, Svc, Stage, readyFrame,
                      timeVars, semVars
  <2>2. QED
    BY <2>1 DEF QueueInv, QueuesDistinct, QueueMatchesState, UnlinkedKept, ActiveState,
                SleepWindow, NoOversleep, SlotsKept, KeptBut
<1>9. CASE Puts(t)
  BY <1>1, <1>9, PutsQueues
<1>10. QED
  BY <1>3, <1>4, <1>5, <1>6, <1>7, <1>8, <1>9 DEF Thread

\* The table that init_kernel leaves: all queues empty, nothing claimed.
LEMMA QueueInit == Init => QueueInv /\ MadeInv
<1> SUFFICES ASSUME Init PROVE QueueInv /\ MadeInv
  OBVIOUS
<1> USE DEF Init
<1>1. NULLTHREAD \in Task
  BY NTaskAssumption DEF Task, NULLTHREAD
<1>2. QueuesDistinct
  BY DEF QueuesDistinct, Distinct, Members
<1>3. QueueMatchesState
  BY <1>1 DEF QueueMatchesState, Members
<1>4. ActiveState /\ SleepWindow /\ NoOversleep
  BY <1>1 DEF ActiveState, SleepWindow, NoOversleep, Members
<1>5. SortedBy(sleep_queue, due)
  BY DEF SortedBy
<1>6. MadeInv
  BY DEF MadeInv, Claiming, Pushing
<1>7. QED
  BY <1>2, <1>3, <1>4, <1>5, <1>6 DEF QueueInv

\* No step breaks the order of the queues, moves a task that ready() is linking or lets
\* two creators fill one slot.
THEOREM QueueStep ==
  ASSUME ClockAssumption
  PROVE  IInv /\ QueueInv /\ MadeInv /\ [Next]_vars => QueueInv' /\ MadeInv'
<1> SUFFICES ASSUME IInv, QueueInv, MadeInv, [Next]_vars PROVE QueueInv' /\ MadeInv'
  OBVIOUS
<1>1. TypeInv /\ TypeOK /\ NullReady
  BY DEF IInv, TypeInv
<1>2. CASE UNCHANGED vars \/ TornPush
  <2>1. UNCHANGED <<state, ready_queue, sleep_queue, active_task, now, ticked, pendsv, waitq,
                    pc, claim, due>>
    BY <1>2 DEF vars, TornPush, timeVars, semVars, callVars
  <2>2. PushersKept /\ UnlinkedKept
    BY <2>1, PushersUnlinked DEF PushersKept
  <2>3. QueueInv'
    BY <2>1, <2>2 DEF QueueInv, QueuesDistinct, QueueMatchesState, UnlinkedKept, ActiveState,
                      SleepWindow, NoOversleep
  <2>4. MadeInv'
    BY <2>1 DEF MadeInv
  <2>5. QED
    BY <2>3, <2>4
<1>3. CASE PendSV_Handler \/ TIM2_Handler
  <2>1. UNCHANGED <<claim, pc>>
    BY <1>3 DEF PendSV_Handler, TIM2_Handler, callVars
  <2>2. PushersKept /\ UnlinkedKept
    BY <2>1, PushersUnlinked DEF PushersKept
  <2>3. QueueInv' /\ SlotsKept /\ (active_task' = active_task \/ ~ Unlinked(active_task'))
    BY <1>1, <1>3, <2>2, DispatchQueues, TickQueues DEF TIM2_Handler
  <2>4. MadeInv'
    BY <1>1, <2>1, <2>2, <2>3, MadeKept
  <2>5. QED
    BY <2>3, <2>4
<1>4. ASSUME NEW t \in Task, Thread(t) PROVE QueueInv' /\ MadeInv'
  <2>1. CASE CreateFill(t) \/ SvcCreate(t)
    BY <1>1, <2>1, FillQueues, SvcCreateQueues
  <2>2. CASE ReadyTest(t) \/ ReadyLoad(t)
    BY <1>1, <2>2, TestQueues, LoadQueues
  <2>3. CASE ReadyFirst(t) \/ ReadyLink(t)
    BY <1>1, <2>3, PushQueues
  <2>4. CASE SvcReady(t) \/ ExitSlot(t)
    BY <1>1, <2>4, SvcReadyQueues, ExitQueues
  <2>5. CASE ~ (\/ CreateFill(t) \/ SvcCreate(t) \/ ReadyTest(t) \/ ReadyFirst(t) \/ ReadyLoad(t)
                \/ ReadyLink(t) \/ SvcReady(t) \/ ExitSlot(t))
    <3>1. /\ PushersKept /\ UnlinkedKept
          /\ \A u \in Task : pc'[u] = "made" <=> pc[u] = "made"
          /\ \A u \in Task : pc[u] = "made" => claim'[u] = claim[u]
          /\ \A u \in Task : state[u] \in {"FREE", "SUSP"} => pc'[u] = pc[u]
      BY <1>1, <1>4, <2>5, ThreadClaims
    <3>2. QueueInv' /\ SlotsKept
      BY <1>1, <1>4, <2>5, <3>1, ThreadQueues
    <3>3. active_task' = active_task
      BY <1>1, <1>4, ThreadGrows
    <3>4. QED
      BY <1>1, <3>1, <3>2, <3>3, MadeKept
  <2>6. QED
    BY <2>1, <2>2, <2>3, <2>4, <2>5
<1>5. QED
  BY <1>2, <1>3, <1>4 DEF Next, Halted

-----------------------------------------------------------------------------
(* The theorems.                                                           *)

-----------------------------------------------------------------------------
(* The theorems.                                                           *)

\* The state of a task tells which queue it is on, in every run in which no thread
\* sleeps for a single tick: a task that a ready() under way has marked and not linked
\* is the only one between two queues.
THEOREM QueueMatchesStateHolds ==
  ASSUME ClockAssumption
  PROVE  Spec => []QueueMatchesState
<1>1. QueueInv => QueueMatchesState
  BY DEF QueueInv
<1>2. Init => IInv /\ QueueInv /\ MadeInv
  BY NullInit, QueueInit
<1>3. IInv /\ QueueInv /\ MadeInv /\ [Next]_vars => (IInv /\ QueueInv /\ MadeInv)'
  BY NullStep, QueueStep
<1>4. QED
  BY <1>1, <1>2, <1>3, PTL DEF Spec

\* In such runs no task is linked twice, whoever creates and exits.
THEOREM OnOneQueueHolds ==
  ASSUME ClockAssumption
  PROVE  Spec => []OnOneQueue
<1>1. TypeOK /\ QueueInv => OnOneQueue
  <2>1. SUFFICES ASSUME TypeOK, QueueInv PROVE OnOneQueue
    OBVIOUS
  <2> DEFINE r == ready_queue
             l == sleep_queue
             m == waitq["sem_malloc"]
             g == waitq["sem_gpio"]
  <2>2. /\ r \in Seq(Task) /\ l \in Seq(Task) /\ m \in Seq(Task) /\ g \in Seq(Task)
        /\ active_task \in Task
    BY <2>1 DEF TypeOK, Sem
  <2>3. Distinct(r) /\ Distinct(l) /\ Distinct(m) /\ Distinct(g) /\ Members(m) \cap Members(g) = {}
    BY <2>1 DEF QueueInv, QueuesDistinct, Sem
  <2>4. /\ \A t \in Task : t \in Members(l) <=> state[t] = "SLEEP"
        /\ \A t \in Task : t \in Members(m) \cup Members(g) => state[t] = "WAIT"
        /\ \A t \in Task : t \in Members(r)
             <=> state[t] = "READY" \/ (state[t] = "CURR" /\ t # active_task /\ ~ Unlinked(t))
    BY <2>1 DEF QueueInv, QueueMatchesState, Sem
  <2> HIDE DEF r, l, m, g
  <2>5. /\ Members(r) \subseteq Task /\ Members(l) \subseteq Task
        /\ Members(m) \subseteq Task /\ Members(g) \subseteq Task
    BY <2>2, ElementOfSeq, LenProperties DEF Members
  <2>6. /\ Members(r) \cap Members(l) = {} /\ Members(r) \cap Members(m) = {}
        /\ Members(r) \cap Members(g) = {} /\ Members(l) \cap Members(m) = {}
        /\ Members(l) \cap Members(g) = {}
    <3>1. \A t \in Task : t \in Members(r) => state[t] \in {"READY", "CURR"}
      BY <2>4
    <3>2. \A t \in Task : t \in Members(m) \cup Members(g) => state[t] = "WAIT"
      BY <2>4
    <3>3. \A t \in Task : t \in Members(l) => state[t] = "SLEEP"
      BY <2>4
    <3>4. ASSUME NEW t \in Task
          PROVE  /\ ~(t \in Members(r) /\ t \in Members(l))
                 /\ ~(t \in Members(r) /\ t \in Members(m) \cup Members(g))
                 /\ ~(t \in Members(l) /\ t \in Members(m) \cup Members(g))
      BY <3>1, <3>2, <3>3
    <3>5. QED
      BY <2>5, <3>4, Zenon
  <2>7. /\ r \o l \in Seq(Task) /\ Members(r \o l) = Members(r) \cup Members(l) /\ Distinct(r \o l)
    BY <2>2, <2>3, <2>6, ConcatProperties, DistinctConcat
  <2> DEFINE rl == r \o l
             rlm == rl \o m
  <2>8. /\ rlm \in Seq(Task) /\ Members(rlm) = Members(r) \cup Members(l) \cup Members(m)
        /\ Distinct(rlm)
    <3>1. rl \in Seq(Task) /\ Distinct(rl) /\ Members(rl) \cap Members(m) = {}
          /\ Members(rl) = Members(r) \cup Members(l)
      BY <2>6, <2>7
    <3> HIDE DEF rl
    <3>2. QED
      BY <2>2, <2>3, <3>1, ConcatProperties, DistinctConcat
  <2>9. /\ Members(rlm \o g) = Members(r) \cup Members(l) \cup Members(m) \cup Members(g)
        /\ Distinct(rlm \o g)
    <3>1. Members(rlm) \cap Members(g) = {}
      BY <2>3, <2>6, <2>8
    <3> HIDE DEF rlm
    <3>2. QED
      BY <2>2, <2>3, <2>8, <3>1, DistinctConcat
  <2>10. Links = rlm \o g
    BY DEF Links, r, l, m, g
  <2>11. state[active_task] = "CURR" => active_task \notin Members(Links)
    BY <2>2, <2>4, <2>9, <2>10
  <2>12. QED
    BY <2>9, <2>10, <2>11 DEF OnOneQueue, Distinct
<1>2. Init => IInv /\ QueueInv /\ MadeInv
  BY NullInit, QueueInit
<1>3. IInv /\ QueueInv /\ MadeInv /\ [Next]_vars => (IInv /\ QueueInv /\ MadeInv)'
  BY NullStep, QueueStep
<1>4. IInv => TypeOK
  BY DEF IInv, TypeInv
<1>5. QED
  BY <1>1, <1>2, <1>3, <1>4, PTL DEF Spec

\* In such runs TIM2_Handler wakes every sleeper on its tick: none is still asleep when
\* its time has come.
THEOREM NoOversleepHolds ==
  ASSUME ClockAssumption
  PROVE  Spec => []NoOversleep
<1>1. QueueInv => NoOversleep
  BY DEF QueueInv
<1>2. Init => IInv /\ QueueInv /\ MadeInv
  BY NullInit, QueueInit
<1>3. IInv /\ QueueInv /\ MadeInv /\ [Next]_vars => (IInv /\ QueueInv /\ MadeInv)'
  BY NullStep, QueueStep
<1>4. QED
  BY <1>1, <1>2, <1>3, PTL DEF Spec

-----------------------------------------------------------------------------
(* Semaphores: who is inside a section, and how many.                      *)

\* The tokens of s that failing mallocs have kept.
Leak(s) == IF s = "sem_malloc" THEN leaked ELSE 0

\* The token of s is where TokenConserved says it is.
TokenAt(s) ==
  /\ value[s] + Cardinality(Holders(s)) + Leak(s) = 1 + Cardinality(Overrun(s))
  /\ value[s] > 0 => waitq[s] = <<>>

TokenInv == \A s \in Sem : TokenAt(s)

\* There are finitely many tasks, so both sets can be counted.
LEMMA TokenCounts ==
  ASSUME TypeOK, NEW s \in Sem
  PROVE  /\ IsFiniteSet(Holders(s)) /\ Cardinality(Holders(s)) \in Nat
         /\ IsFiniteSet(Overrun(s)) /\ Cardinality(Overrun(s)) \in Nat
         /\ Members(waitq[s]) \subseteq Task /\ value[s] \in Nat /\ Leak(s) \in Nat
<1>1. IsFiniteSet(Task)
  BY FS_Interval, NTaskAssumption DEF Task
<1>2. waitq[s] \in Seq(Task) /\ value[s] \in Nat
  BY DEF TypeOK
<1>3. Members(waitq[s]) \subseteq Task
  BY <1>2, ElementOfSeq, LenProperties DEF Members
<1>4. Holders(s) \in SUBSET Task /\ Overrun(s) \in SUBSET Task
  BY <1>3 DEF Holders, Overrun
<1>5. Leak(s) \in Nat
  BY DEF TypeOK, Leak
<1>6. QED
  BY <1>1, <1>2, <1>3, <1>4, <1>5, FS_Subset, FS_CardinalityType

\* As long as no malloc fails no token is kept.
LEMMA LeakKept == leaked' = leaked => \A s \in Sem : Leak(s)' = Leak(s)
  BY DEF Leak

\* A step that moves nobody into a section of s or out of it.
LEMMA TokenKept ==
  ASSUME TypeOK, NEW s \in Sem, TokenAt(s), value'[s] = value[s], waitq'[s] = waitq[s],
         leaked' = leaked, \A u \in Task : pc'[u] \in Inside(s) <=> pc[u] \in Inside(s)
  PROVE  TokenAt(s)'
<1>1. Holders(s)' = Holders(s)
  BY DEF Holders
<1>2. Members(waitq[s]) \subseteq Task
  BY TokenCounts
<1>3. Overrun(s)' = Overrun(s)
  BY <1>2 DEF Overrun
<1>4. QED
  BY <1>1, <1>3, LeakKept DEF TokenAt

\* sem_wait before a section: the caller has the token, or it is queued for it.
LEMMA TokenTaken ==
  ASSUME TypeOK, NEW t \in Task, NEW s \in Sem, NEW stage, TokenAt(s), sem_wait(t, s),
         pc' = [pc EXCEPT ![t] = stage], stage \in Inside(s), pc[t] \notin Inside(s),
         t \notin Members(waitq[s]), leaked' = leaked
  PROVE  TokenAt(s)'
<1>1. /\ Members(waitq[s]) \subseteq Task /\ value[s] \in Nat /\ pc \in [Task -> Stage]
      /\ value \in [Sem -> Nat]
      /\ Leak(s) \in Nat /\ Leak(s)' = Leak(s)
      /\ IsFiniteSet(Holders(s)) /\ Cardinality(Holders(s)) \in Nat
      /\ Cardinality(Overrun(s)) \in Nat
  BY TokenCounts, LeakKept DEF TypeOK
<1>2. pc'[t] = stage /\ \A u \in Task \ {t} : pc'[u] = pc[u]
  BY <1>1
<1>3. CASE value[s] > 0
  <2>1. value'[s] = value[s] - 1 /\ waitq'[s] = waitq[s]
    BY <1>1, <1>3 DEF sem_wait
  <2>2. Holders(s)' = Holders(s) \cup {t} /\ t \notin Holders(s)
    BY <1>2, <2>1 DEF Holders
  <2>3. Overrun(s)' = Overrun(s)
    BY <1>1, <1>2, <2>1 DEF Overrun
  <2>4. Cardinality(Holders(s)') = Cardinality(Holders(s)) + 1
    BY <1>1, <2>2, FS_AddElement
  <2>5. QED
    BY <1>1, <1>3, <2>1, <2>3, <2>4 DEF TokenAt
<1>4. CASE value[s] = 0
  <2>1. value'[s] = 0 /\ Members(waitq'[s]) = Members(waitq[s]) \cup {t}
    <3>1. value' = value
      BY <1>4 DEF sem_wait
    <3>2. waitq[s] \in Seq(Task) /\ waitq'[s] = queue_push(waitq[s], t)
      BY <1>4 DEF sem_wait, TypeOK
    <3>3. QED
      BY <1>4, <3>1, <3>2, MembersAppend
  <2>2. Holders(s)' = Holders(s)
    BY <1>2, <2>1 DEF Holders
  <2>3. Overrun(s)' = Overrun(s)
    BY <1>1, <1>2, <2>1 DEF Overrun
  <2>4. QED
    BY <1>1, <1>4, <2>1, <2>2, <2>3 DEF TokenAt
<1>5. QED
  BY <1>1, <1>3, <1>4

\* sem_signal after a section: the token goes to the head of the queue, which is a thread
\* that enters or a supervisor call that has long gone on, or back to the semaphore.
LEMMA TokenGiven ==
  ASSUME TypeOK, NEW t \in Task, NEW s \in Sem, NEW stage, TokenAt(s), sem_signal(s),
         pc' = [pc EXCEPT ![t] = stage], stage \notin Inside(s), pc[t] \in Inside(s),
         t \notin Members(waitq[s]), Distinct(waitq[s]), leaked' = leaked
  PROVE  TokenAt(s)'
<1>1. /\ Members(waitq[s]) \subseteq Task /\ value[s] \in Nat /\ pc \in [Task -> Stage]
      /\ value \in [Sem -> Nat] /\ waitq \in [Sem -> Seq(Task)]
      /\ Leak(s) \in Nat /\ Leak(s)' = Leak(s)
      /\ IsFiniteSet(Holders(s)) /\ Cardinality(Holders(s)) \in Nat
      /\ IsFiniteSet(Overrun(s)) /\ Cardinality(Overrun(s)) \in Nat
  BY TokenCounts, LeakKept DEF TypeOK
<1>2. pc'[t] = stage /\ \A u \in Task \ {t} : pc'[u] = pc[u]
  BY <1>1
<1>3. t \in Holders(s) /\ t \notin Overrun(s)
  BY DEF Holders, Overrun
<1>4. CASE waitq[s] = <<>>
  <2>1. value'[s] = value[s] + 1 /\ waitq'[s] = waitq[s]
    BY <1>1, <1>4 DEF sem_signal
  <2>2. Holders(s)' = Holders(s) \ {t}
    BY <1>2, <2>1 DEF Holders
  <2>3. Overrun(s)' = Overrun(s)
    BY <1>1, <1>2, <2>1 DEF Overrun
  <2>4. Cardinality(Holders(s)') = Cardinality(Holders(s)) - 1
    BY <1>1, <1>3, <2>2, FS_RemoveElement
  <2>5. QED
    BY <1>1, <1>4, <2>1, <2>3, <2>4 DEF TokenAt
<1>5. CASE waitq[s] # <<>>
  <2> DEFINE w == waitq[s]
             h == Head(w)
  <2>1. w \in Seq(Task) /\ w # <<>> /\ Distinct(w)
    BY <1>1, <1>5
  <2>2. value'[s] = value[s] /\ waitq'[s] = Tail(w) /\ value[s] = 0
    BY <1>1, <1>5 DEF sem_signal, TokenAt
  <2> HIDE DEF w
  <2>4. h \in Members(w) /\ Members(Tail(w)) = Members(w) \ {h}
    BY <2>1, DistinctTail
  <2> HIDE DEF h
  <2>5. h \in Task /\ h # t /\ Members(waitq[s]') = Members(waitq[s]) \ {h}
        /\ h \in Members(waitq[s])
    BY <1>1, <2>2, <2>4 DEF w
  <2>6. CASE pc[h] \in Inside(s)
    <3> DEFINE D == Holders(s) \ {t}
    <3>1. Holders(s)' = D \cup {h} /\ h \notin D
      BY <1>2, <2>5, <2>6 DEF Holders
    <3>2. Overrun(s)' = Overrun(s)
      BY <1>1, <1>2, <2>5, <2>6 DEF Overrun
    <3>3. IsFiniteSet(D) /\ Cardinality(D) = Cardinality(Holders(s)) - 1
      BY <1>1, <1>3, FS_RemoveElement
    <3> HIDE DEF D
    <3>4. Cardinality(D \cup {h}) = Cardinality(D) + 1
      BY <3>1, <3>3, FS_AddElement
    <3>5. Cardinality(Holders(s)') = Cardinality(D) + 1
      BY <3>1, <3>4
    <3>6. QED
      BY <1>1, <2>2, <3>2, <3>3, <3>5 DEF TokenAt
  <2>7. CASE pc[h] \notin Inside(s)
    <3>1. Holders(s)' = Holders(s) \ {t}
      BY <1>2, <2>5, <2>7 DEF Holders
    <3>2. Overrun(s)' = Overrun(s) \ {h} /\ h \in Overrun(s)
      BY <1>1, <1>2, <2>5, <2>7 DEF Overrun
    <3>3. Cardinality(Holders(s)') = Cardinality(Holders(s)) - 1
      BY <1>1, <1>3, <3>1, FS_RemoveElement
    <3>4. Cardinality(Overrun(s)') = Cardinality(Overrun(s)) - 1
      BY <1>1, <3>2, FS_RemoveElement
    <3>5. QED
      BY <1>1, <2>2, <3>3, <3>4 DEF TokenAt
  <2>9. QED
    BY <2>6, <2>7
<1>6. QED
  BY <1>4, <1>5

\* A section inside a supervisor call.  If the token is free nothing moves.  If not, the
\* caller takes a place in the queue that it does not wait in, and the head of the queue
\* is let into its section, or out of the queue, in the place of the token.
LEMMA TokenPassed ==
  ASSUME TypeOK, NEW t \in Task, NEW s \in Sem, NEW p, TokenAt(s), Section(t, s, p),
         leaked' = leaked, \A u \in Task : pc'[u] \in Inside(s) <=> pc[u] \in Inside(s),
         pc[t] \notin Inside(s), t \notin Members(waitq[s]), Distinct(waitq[s])
  PROVE  TokenAt(s)'
<1>1. /\ Members(waitq[s]) \subseteq Task /\ value[s] \in Nat /\ waitq[s] \in Seq(Task)
      /\ Leak(s) \in Nat /\ Leak(s)' = Leak(s)
      /\ IsFiniteSet(Holders(s)) /\ Cardinality(Holders(s)) \in Nat
      /\ IsFiniteSet(Overrun(s)) /\ Cardinality(Overrun(s)) \in Nat
  BY TokenCounts, LeakKept DEF TypeOK
<1>2. CASE value[s] > 0
  <2>1. Waiting(t, s) = <<>>
    BY <1>1, <1>2 DEF Waiting, TokenAt
  <2>2. UNCHANGED <<value, waitq>>
    BY <2>1, SectionIdle
  <2>3. QED
    BY <2>2, TokenKept
<1>3. CASE value[s] = 0
  <2> DEFINE q == Waiting(t, s)
             h == Head(q)
  <2>1. q \in Seq(Task) /\ q # <<>>
    BY <1>3, SectionQueue
  <2>2. Distinct(q) /\ Members(q) = Members(waitq[s]) \cup {t}
    BY <1>1, <1>3, DistinctAppend, MembersAppend DEF Waiting
  <2>3. h \in Task /\ value' = value /\ waitq'[s] = Tail(q)
    BY <1>3, <2>1, SectionPush
  <2> HIDE DEF q
  <2>4. h \in Members(q) /\ Members(Tail(q)) = Members(q) \ {h}
    BY <2>1, <2>2, DistinctTail
  <2> HIDE DEF h
  <2>5. /\ Members(waitq[s]') = (Members(waitq[s]) \cup {t}) \ {h}
        /\ h \in Members(waitq[s]) \cup {t}
    BY <2>2, <2>3, <2>4
  <2>6. CASE h = t
    <3>1. Members(waitq[s]') = Members(waitq[s])
      BY <2>5, <2>6
    <3>2. Holders(s)' = Holders(s) /\ Overrun(s)' = Overrun(s)
      BY <1>1, <3>1 DEF Holders, Overrun
    <3>3. QED
      BY <1>1, <1>3, <2>3, <3>2 DEF TokenAt
  <2>7. CASE h # t /\ pc[h] \in Inside(s)
    <3>1. Holders(s)' = Holders(s) \cup {h} /\ h \notin Holders(s)
      BY <1>1, <2>3, <2>5, <2>7 DEF Holders
    <3>2. Overrun(s)' = Overrun(s) \cup {t} /\ t \notin Overrun(s)
      BY <1>1, <2>5, <2>7 DEF Overrun
    <3>3. Cardinality(Holders(s)') = Cardinality(Holders(s)) + 1
      BY <1>1, <3>1, FS_AddElement
    <3>4. Cardinality(Overrun(s)') = Cardinality(Overrun(s)) + 1
      BY <1>1, <3>2, FS_AddElement
    <3>5. QED
      BY <1>1, <1>3, <2>3, <3>3, <3>4 DEF TokenAt
  <2>8. CASE h # t /\ pc[h] \notin Inside(s)
    <3>1. Holders(s)' = Holders(s)
      BY <1>1, <2>5, <2>8 DEF Holders
    <3>2. /\ Overrun(s)' = (Overrun(s) \ {h}) \cup {t} /\ t \notin Overrun(s) \ {h}
          /\ h \in Overrun(s)
      BY <1>1, <2>5, <2>8 DEF Overrun
    <3>3. IsFiniteSet(Overrun(s) \ {h}) /\ Cardinality(Overrun(s) \ {h}) = Cardinality(Overrun(s)) - 1
      BY <1>1, <3>2, FS_RemoveElement
    <3>4. ASSUME NEW D, IsFiniteSet(D), t \notin D
          PROVE  Cardinality(D \cup {t}) = Cardinality(D) + 1
      BY <3>4, FS_AddElement
    <3>5. Cardinality(Overrun(s)') = Cardinality(Overrun(s))
      BY <1>1, <3>2, <3>3, <3>4
    <3>6. QED
      BY <1>1, <1>3, <2>3, <3>1, <3>5 DEF TokenAt
  <2>9. QED
    BY <2>6, <2>7, <2>8
<1>4. QED
  BY <1>1, <1>2, <1>3


\* A malloc that fails keeps the token its caller has taken.
LEMMA TokenDropped ==
  ASSUME TypeOK, NEW t \in Task, HeapFails(t), t \notin Members(waitq["sem_malloc"]),
         NEW s \in Sem, TokenAt(s)
  PROVE  TokenAt(s)'
<1>1. /\ Members(waitq[s]) \subseteq Task /\ value[s] \in Nat /\ pc \in [Task -> Stage]
      /\ leaked \in Nat
      /\ IsFiniteSet(Holders(s)) /\ Cardinality(Holders(s)) \in Nat
      /\ Cardinality(Overrun(s)) \in Nat
  BY TokenCounts DEF TypeOK
<1>2. /\ pc[t] = "heap" /\ pc'[t] = "nomem" /\ \A u \in Task \ {t} : pc'[u] = pc[u]
      /\ UNCHANGED <<value, waitq>> /\ leaked' = leaked + 1
  BY <1>1 DEF HeapFails, At, Goto, semVars
<1>4. CASE s = "sem_malloc"
  <2>1. Holders(s)' = Holders(s) \ {t} /\ t \in Holders(s)
    BY <1>2, <1>4 DEF Holders, Inside, Panicking
  <2>2. Overrun(s)' = Overrun(s)
    BY <1>1, <1>2, <1>4 DEF Overrun, Inside, Panicking
  <2>3. Cardinality(Holders(s)') = Cardinality(Holders(s)) - 1
    BY <1>1, <2>1, FS_RemoveElement
  <2>4. QED
    BY <1>1, <1>2, <1>4, <2>2, <2>3 DEF TokenAt, Leak
<1>5. CASE s # "sem_malloc"
  <2>1. \A u \in Task : pc'[u] \in Inside(s) <=> pc[u] \in Inside(s)
    BY <1>2, <1>5 DEF Inside, Panicking, Sem
  <2>2. Holders(s)' = Holders(s) /\ Overrun(s)' = Overrun(s)
    BY <1>1, <1>2, <2>1 DEF Holders, Overrun
  <2>3. QED
    BY <1>2, <1>5, <2>2 DEF TokenAt, Leak
<1>6. QED
  BY <1>4, <1>5

\* So does one in a supervisor call: it has the token, or it went on without one and
\* will be handed it for nothing.
LEMMA TokenUnspent ==
  ASSUME TypeOK, NEW t \in Task, NEW s \in Sem, s = "sem_malloc", TokenAt(s), sem_wait(t, s),
         leaked' = leaked + 1, pc' = pc, pc[t] \notin Inside(s), t \notin Members(waitq[s])
  PROVE  TokenAt(s)'
<1>1. /\ Members(waitq[s]) \subseteq Task /\ value[s] \in Nat /\ value \in [Sem -> Nat]
      /\ leaked \in Nat /\ Leak(s)' = Leak(s) + 1 /\ Leak(s) \in Nat
      /\ Cardinality(Holders(s)) \in Nat
      /\ IsFiniteSet(Overrun(s)) /\ Cardinality(Overrun(s)) \in Nat
  BY TokenCounts DEF TypeOK, Leak
<1>2. CASE value[s] > 0
  <2>1. value'[s] = value[s] - 1 /\ waitq'[s] = waitq[s]
    BY <1>1, <1>2 DEF sem_wait
  <2>2. Holders(s)' = Holders(s) /\ Overrun(s)' = Overrun(s)
    BY <2>1 DEF Holders, Overrun
  <2>3. QED
    BY <1>1, <1>2, <2>1, <2>2 DEF TokenAt
<1>3. CASE value[s] = 0
  <2>1. value'[s] = 0 /\ Members(waitq'[s]) = Members(waitq[s]) \cup {t}
    <3>1. value' = value
      BY <1>3 DEF sem_wait
    <3>2. waitq[s] \in Seq(Task) /\ waitq'[s] = queue_push(waitq[s], t)
      BY <1>3 DEF sem_wait, TypeOK
    <3>3. QED
      BY <1>3, <3>1, <3>2, MembersAppend
  <2>2. Holders(s)' = Holders(s)
    BY <2>1 DEF Holders
  <2>3. Overrun(s)' = Overrun(s) \cup {t} /\ t \notin Overrun(s)
    BY <2>1 DEF Overrun
  <2>4. Cardinality(Overrun(s)') = Cardinality(Overrun(s)) + 1
    BY <1>1, <2>3, FS_AddElement
  <2>5. QED
    BY <1>1, <1>3, <2>1, <2>2, <2>4 DEF TokenAt
<1>4. QED
  BY <1>1, <1>2, <1>3

-----------------------------------------------------------------------------
(* No step loses or doubles a token.                                       *)

\* A step of a thread, by the semaphore it waits for or signals, leaves the other alone.
LEMMA TokenOther ==
  ASSUME TypeOK, NEW t \in Task, NEW s \in Sem, NEW r \in Sem \ {s}, NEW p,
         sem_wait(t, s) \/ sem_signal(s) \/ Section(t, s, p)
  PROVE  value'[r] = value[r] /\ waitq'[r] = waitq[r]
  BY DEF sem_wait, sem_signal, Section, semVars, TypeOK

\* The stages a thread moves between are inside a section of the one semaphore or of the
\* other, or of neither.
LEMMA TokenThread ==
  ASSUME TypeInv, QueueInv, NEW t \in Task, Thread(t), ~ CreateFill(t), ~ SvcCreate(t), NEW s \in Sem, TokenAt(s)
  PROVE  TokenAt(s)'
<1>1. /\ active_task = t /\ TypeOK /\ pc \in [Task -> Stage] /\ claim \in [Task -> Task \cup {NoSlot}]
      /\ "sem_gpio" \in Sem /\ "sem_malloc" \in Sem
  BY ThreadGrows DEF TypeInv, TypeOK, Sem
<1>2. Distinct(waitq[s])
  BY DEF QueueInv, QueuesDistinct
<1>3. \A stage \in Stage \ {"pend", "gone"} :
        At(t, stage) => \A r \in Sem : t \notin Members(waitq[r])
  <2>1. ASSUME NEW stage \in Stage \ {"pend", "gone"}, At(t, stage)
        PROVE  state[t] = "CURR"
    BY <2>1, RunningCurr DEF QueueInv, At, Running
  <2>2. QED
    BY <2>1 DEF QueueInv, QueueMatchesState
<1> USE DEF Inside, Panicking, Goto, At, Svc, Sem, Stage
<1>4. CASE \/ GpioEnter(t) \/ HeapEnter(t) \/ CreateBegin(t) \/ CreatePanic(t) \/ PanicEnter(t)
           \/ ExitBegin(t) \/ ExitNextImage(t) \/ NoMemFree(t)
  <2>1. PICK r \in Sem, stage \in Stage :
          /\ sem_wait(t, r) /\ pc' = [pc EXCEPT ![t] = stage]
          /\ stage \in Inside(r) /\ pc[t] \notin Inside(r) /\ t \notin Members(waitq[r])
          /\ leaked' = leaked
          /\ \A q \in Sem \ {r} : stage \in Inside(q) <=> pc[t] \in Inside(q)
    BY <1>1, <1>3, <1>4 DEF GpioEnter, HeapEnter, CreateBegin, CreatePanic, PanicEnter, ExitBegin,
                      ExitNextImage, NoMemFree, callVars
  <2>2. CASE s = r
    BY <1>1, <2>1, <2>2, TokenTaken
  <2>3. CASE s # r
    BY <1>1, <2>1, <2>3, TokenOther, TokenKept
  <2>4. QED
    BY <2>2, <2>3
<1>5. CASE \/ GpioLeave(t) \/ HeapLeave(t) \/ CreateAlloc(t) \/ PanicLeave(t) \/ ExitFreeStack(t)
           \/ ExitFreeImage(t)
  <2>1. PICK r \in Sem, stage \in Stage :
          /\ sem_signal(r) /\ pc' = [pc EXCEPT ![t] = stage]
          /\ stage \notin Inside(r) /\ pc[t] \in Inside(r) /\ t \notin Members(waitq[r])
          /\ leaked' = leaked
          /\ \A q \in Sem \ {r} : stage \in Inside(q) <=> pc[t] \in Inside(q)
    BY <1>1, <1>3, <1>5 DEF GpioLeave, HeapLeave, CreateAlloc, PanicLeave, ExitFreeStack,
                      ExitFreeImage, callVars
  <2>2. CASE s = r
    BY <1>1, <1>2, <2>1, <2>2, TokenGiven
  <2>3. CASE s # r
    BY <1>1, <2>1, <2>3, TokenOther, TokenKept
  <2>4. QED
    BY <2>2, <2>3
<1>6. CASE SvcPin(t) \/ SvcMalloc(t)
  <2>1. PICK r \in Sem : Section(t, r, NoSlot) /\ t \notin Members(waitq[r]) /\ pc' = pc /\ pc[t] = "run"
                        /\ leaked' = leaked
    BY <1>1, <1>3, <1>6 DEF SvcPin, SvcMalloc, callVars
  <2>2. CASE s = r
    BY <1>1, <1>2, <2>1, <2>2, TokenPassed
  <2>3. CASE s # r
    BY <1>1, <2>1, <2>3, TokenOther, TokenKept
  <2>4. QED
    BY <2>2, <2>3
<1>7. CASE \/ Sleep(t) \/ SleepPend(t) \/ ExitSlot(t) \/ ExitPend(t) \/ Puts(t) \/ SvcSleep(t)
           \/ NullFree(t) \/ SvcCreateFails(t)
  <2>1. /\ UNCHANGED <<value, waitq, leaked>>
        /\ \A u \in Task : pc'[u] \in Inside(s) <=> pc[u] \in Inside(s)
    BY <1>1, <1>7 DEF Sleep, SleepPend, ExitSlot, ExitPend, Puts, SvcSleep, NullFree,
                      SvcCreateFails, semVars, callVars
  <2>2. QED
    BY <1>1, <2>1, TokenKept
<1>8. CASE \/ ReadyTest(t) \/ ReadyFirst(t) \/ ReadyLoad(t) \/ ReadyLink(t) \/ ReadyLast(t)
           \/ SvcReady(t)
  <2>1. /\ UNCHANGED <<value, waitq, leaked>>
        /\ \/ pc' = pc
           \/ \E stage \in {"first", "load", "link", "last", "run"} : pc' = [pc EXCEPT ![t] = stage]
        /\ pc[t] \in {"made", "first", "load", "link", "last"}
    BY <1>1, <1>8 DEF ReadyTest, ReadyFirst, ReadyLoad, ReadyLink, ReadyLast, SvcReady, PushStep,
                      readyFrame, semVars
  <2>2. \A u \in Task : pc'[u] \in Inside(s) <=> pc[u] \in Inside(s)
    BY <1>1, <2>1
  <2>3. QED
    BY <1>1, <2>1, <2>2, TokenKept
<1>9. CASE HeapFails(t)
  <2>1. t \notin Members(waitq["sem_malloc"])
    BY <1>1, <1>3, <1>9 DEF HeapFails
  <2>2. QED
    BY <1>1, <1>9, <2>1, TokenDropped
<1>10. CASE SvcMallocFails(t)
  <2>1. /\ sem_wait(t, "sem_malloc") /\ leaked' = leaked + 1 /\ pc' = pc /\ pc[t] = "run"
        /\ t \notin Members(waitq["sem_malloc"])
    BY <1>1, <1>3, <1>10 DEF SvcMallocFails
  <2>2. CASE s = "sem_malloc"
    BY <1>1, <2>1, <2>2, TokenUnspent
  <2>3. CASE s # "sem_malloc"
    <3>1. value'[s] = value[s] /\ waitq'[s] = waitq[s]
      BY <1>1, <2>1, <2>3, TokenOther
    <3>2. Holders(s)' = Holders(s) /\ Overrun(s)' = Overrun(s)
      BY <2>1, <3>1 DEF Holders, Overrun
    <3>3. QED
      BY <2>3, <3>1, <3>2 DEF TokenAt, Leak
  <2>4. QED
    BY <2>2, <2>3
<1>11. QED
  BY <1>4, <1>5, <1>6, <1>7, <1>8, <1>9, <1>10 DEF Thread

\* create fills a slot that is at rest, so it moves nobody out of a section.
LEMMA SlotAtRest ==
  ASSUME TypeOK, MadeInv, NEW t \in Task, NEW p \in Task, state[p] \in {"FREE", "SUSP"},
         pc[t] \in {"run", "fill"}, pc' = [pc EXCEPT ![p] = "run", ![t] = "made"], NEW s \in Sem
  PROVE  \A u \in Task : pc'[u] \in Inside(s) <=> pc[u] \in Inside(s)
<1>1. /\ pc'[t] = "made" /\ (p # t => pc'[p] = "run")
      /\ \A u \in Task \ {p, t} : pc'[u] = pc[u]
  BY DEF TypeOK
<1>2. pc[p] \in {"run", "gone"}
  BY DEF MadeInv
<1>3. \A stage \in {"run", "gone", "fill", "made"} : stage \notin Inside(s)
  BY DEF Inside, Panicking
<1>4. ASSUME NEW u \in {p, t} PROVE pc'[u] \notin Inside(s) /\ pc[u] \notin Inside(s)
  BY <1>1, <1>2, <1>3
<1>5. QED
  BY <1>1, <1>4

\* Whether its slot is free or taken.
LEMMA TokenFill ==
  ASSUME TypeOK, MadeInv, NEW t \in Task, CreateFill(t), NEW s \in Sem, TokenAt(s)
  PROVE  TokenAt(s)'
<1>1. /\ claim \in [Task -> Task \cup {NoSlot}]
      /\ pc[t] = "fill" /\ UNCHANGED <<value, waitq, leaked>>
  BY DEF TypeOK, CreateFill, At, semVars, callVars
<1>2. CASE UNCHANGED pc
  BY <1>1, <1>2, TokenKept
<1>3. CASE claim[t] # NoSlot /\ state[claim[t]] = "FREE"
  <2>1. PICK p \in Task : p = claim[t]
    BY <1>1, <1>3
  <2>2. pc' = [pc EXCEPT ![p] = "run", ![t] = "made"]
    BY <1>3, <2>1 DEF CreateFill
  <2>3. \A u \in Task : pc'[u] \in Inside(s) <=> pc[u] \in Inside(s)
    BY <1>1, <1>3, <2>1, <2>2, SlotAtRest
  <2>4. QED
    BY <1>1, <2>3, TokenKept
<1>4. QED
  BY <1>2, <1>3 DEF CreateFill

\* create in a supervisor call passes the section of malloc and fills its slot at once.
LEMMA TokenCreate ==
  ASSUME TypeOK, QueueInv, MadeInv, NEW t \in Task, SvcCreate(t), NEW s \in Sem, TokenAt(s)
  PROVE  TokenAt(s)'
<1>1. /\ pc[t] = "run" /\ leaked' = leaked /\ "sem_malloc" \in Sem
      /\ \A r \in Sem : t \notin Members(waitq[r])
  BY RunningCurr DEF SvcCreate, Svc, At, Running, QueueInv, QueueMatchesState, Sem
<1>2. PICK p \in Task : p = newpid /\ state[p] = "FREE"
  BY NewpidFree DEF SvcCreate
<1>3. Section(t, "sem_malloc", p) /\ pc' = [pc EXCEPT ![p] = "run", ![t] = "made"]
  BY <1>2 DEF SvcCreate
<1>4. \A u \in Task : pc'[u] \in Inside(s) <=> pc[u] \in Inside(s)
  BY <1>1, <1>2, <1>3, SlotAtRest
<1>5. CASE s = "sem_malloc"
  <2>1. pc[t] \notin Inside(s) /\ Distinct(waitq[s])
    BY <1>1 DEF Inside, Panicking, QueueInv, QueuesDistinct
  <2>2. QED
    BY <1>1, <1>3, <1>4, <1>5, <2>1, TokenPassed
<1>6. CASE s # "sem_malloc"
  <2>1. value'[s] = value[s] /\ waitq'[s] = waitq[s]
    BY <1>1, <1>3, <1>6, TokenOther
  <2>2. QED
    BY <1>1, <1>4, <2>1, TokenKept
<1>7. QED
  BY <1>5, <1>6

\* The free tokens of boot.
LEMMA TokenInit == Init => TokenInv
<1> SUFFICES ASSUME Init, NEW s \in Sem PROVE TokenAt(s)
  BY DEF TokenInv
<1>1. value[s] = 1 /\ waitq[s] = <<>> /\ Leak(s) = 0
  BY DEF Init, Leak
<1>2. Holders(s) = {}
  BY DEF Init, Holders, Inside, Panicking
<1>3. Overrun(s) = {}
  BY <1>1 DEF Overrun, Members
<1>4. QED
  BY <1>1, <1>2, <1>3, FS_EmptySet DEF TokenAt

\* No step, of a handler or of a thread, loses a token or makes a second one.
THEOREM TokenStep == IInv /\ QueueInv /\ MadeInv /\ TokenInv /\ [Next]_vars => TokenInv'
<1> SUFFICES ASSUME IInv, QueueInv, MadeInv, TokenInv, [Next]_vars, NEW s \in Sem PROVE TokenAt(s)'
  BY DEF TokenInv, Sem
<1>1. TypeInv /\ TypeOK /\ TokenAt(s)
  BY DEF IInv, TypeInv, TokenInv
<1>2. CASE UNCHANGED vars \/ PendSV_Handler \/ TIM2_Handler \/ TornPush
  <2>1. UNCHANGED <<pc, value, waitq, leaked>>
    BY <1>2 DEF vars, PendSV_Handler, TIM2_Handler, TornPush, semVars, callVars
  <2>2. QED
    BY <1>1, <2>1, TokenKept
<1>3. ASSUME NEW t \in Task, Thread(t) PROVE TokenAt(s)'
  <2>1. CASE CreateFill(t)
    BY <1>1, <2>1, TokenFill
  <2>2. CASE SvcCreate(t)
    BY <1>1, <2>2, TokenCreate
  <2>3. CASE ~ CreateFill(t) /\ ~ SvcCreate(t)
    BY <1>1, <1>3, <2>3, TokenThread
  <2>4. QED
    BY <2>1, <2>2, <2>3
<1>4. QED
  BY <1>2, <1>3 DEF Next, Halted

-----------------------------------------------------------------------------
(* No sleeper is woken early.                                              *)

\* The tick takes the head of the queue, up to the first sleeper whose time is to come.
LEMMA TickWakes ==
  ASSUME TypeOK, MaxTicks < Word, TIM2_Handler,
         NEW t \in Members(sleep_queue), t \notin Members(sleep_queue')
  PROVE  now' >= due[t]
<1>1. /\ sleep_queue \in Seq(Task) /\ due \in [Task -> 0 .. MaxTicks] /\ now \in 0 .. MaxTicks
  BY DEF TypeOK
<1>2. now' \in 0 .. MaxTicks
  BY <1>1, WordAssumption DEF TIM2_Handler, NextTick
<1>3. \A m \in 0 .. MaxTicks : m % Word = m
  <2>1. ASSUME NEW m \in 0 .. MaxTicks PROVE m % Word = m
    <3>1. m \in Nat /\ Word \in Nat \ {0} /\ m < Word
      BY WordAssumption
    <3>2. QED
      BY <3>1
  <2>2. QED
    BY <2>1
<1>4. PICK n \in 0 .. Len(sleep_queue) :
        /\ Expired(n, now' % Word)
        /\ sleep_queue' = SubSeq(sleep_queue, n + 1, Len(sleep_queue))
  BY DEF TIM2_Handler
<1>5. /\ Len(sleep_queue) \in Nat /\ DOMAIN sleep_queue = 1 .. Len(sleep_queue)
  BY <1>1, LenProperties
<1>6. PICK i \in 1 .. Len(sleep_queue) : t = sleep_queue[i]
  BY <1>5 DEF Members
<1>7. i <= n
  <2>1. SUFFICES ASSUME i > n PROVE FALSE
    BY <1>5
  <2> DEFINE b == SubSeq(sleep_queue, n + 1, Len(sleep_queue))
  <2>2. /\ DOMAIN b = 1 .. Len(sleep_queue) - n
        /\ \A j \in 1 .. Len(sleep_queue) - n : b[j] = sleep_queue[n + j]
    BY <1>1, SplitElements
  <2>3. i - n \in 1 .. Len(sleep_queue) - n /\ n + (i - n) = i
    BY <1>5, <2>1
  <2>4. sleep_queue' = b
    BY <1>4
  <2> HIDE DEF b
  <2>5. b[i - n] = t
    BY <1>6, <2>2, <2>3
  <2>6. QED
    BY <2>2, <2>3, <2>4, <2>5 DEF Members
<1>8. now' % Word >= param(t)
  BY <1>4, <1>5, <1>6, <1>7 DEF Expired
<1>9. t \in Task
  BY <1>1, <1>6, <1>5, ElementOfSeq
<1>10. QED
  BY <1>1, <1>2, <1>3, <1>8, <1>9 DEF param

\* Every other step leaves the sleepers where they are, or adds one.
LEMMA SleepersStay ==
  ASSUME TypeInv, NEW t \in Task, Thread(t)
  PROVE  Members(sleep_queue) \subseteq Members(sleep_queue')
<1>1. CASE Sleep(t) \/ SvcSleep(t)
  <2>1. PICK ticks \in Delays \cup {0} : Park(t, ticks)
    BY <1>1 DEF Sleep, SvcSleep
  <2>2. QED
    BY <2>1, ParkMoves DEF TypeInv
<1>2. CASE ~ Sleep(t) /\ ~ SvcSleep(t)
  <2>1. sleep_queue' = sleep_queue
    BY <1>2 DEF Thread, SleepPend, GpioEnter, GpioLeave, HeapEnter, HeapLeave, CreateBegin,
           CreateAlloc, CreatePanic, CreateFill, PanicEnter, PanicLeave, ExitBegin,
           ExitFreeStack, ExitNextImage, ExitFreeImage, ExitSlot, ExitPend, Puts, SvcPin,
           SvcMalloc, SvcMallocFails, SvcCreate, SvcCreateFails, HeapFails, NoMemFree, NullFree,
           ReadyTest, ReadyFirst, ReadyLoad, ReadyLink, ReadyLast, SvcReady, PushStep, readyFrame
  <2>2. QED
    BY <2>1
<1>3. QED
  BY <1>1, <1>2

-----------------------------------------------------------------------------
(* The theorems.                                                           *)

\* The token of each semaphore is where a reader of the code expects it, for every
\* number of tasks and every interleaving, whoever creates and whichever malloc fails, as
\* long as no thread sleeps for one tick.
THEOREM TokenConservedHolds ==
  ASSUME ClockAssumption
  PROVE  Spec => []TokenConserved
<1>1. TokenInv => TokenConserved
  BY DEF TokenInv, TokenAt, TokenConserved, Leak
<1>2. Init => IInv /\ QueueInv /\ MadeInv /\ TokenInv
  BY NullInit, QueueInit, TokenInit
<1>3. IInv /\ QueueInv /\ MadeInv /\ TokenInv /\ [Next]_vars
        => (IInv /\ QueueInv /\ MadeInv /\ TokenInv)'
  BY NullStep, QueueStep, TokenStep
<1>4. QED
  BY <1>1, <1>2, <1>3, PTL DEF Spec

\* TIM2_Handler wakes no sleeper before its time, whoever creates, sleeps for however
\* short a time or runs out of memory, while the clock has not wrapped.
THEOREM WakeNotEarlyHolds ==
  ASSUME MaxTicks < Word
  PROVE  Spec => WakeNotEarly
<1>1. TypeInv /\ [Next]_vars
        => [\A t \in Members(sleep_queue) : t \notin Members(sleep_queue') => now' >= due[t]]_vars
  <2>1. SUFFICES ASSUME TypeInv, Next,
                        NEW t \in Members(sleep_queue), t \notin Members(sleep_queue')
                 PROVE  now' >= due[t]
    OBVIOUS
  <2>2. CASE TIM2_Handler
    BY <2>1, <2>2, TickWakes DEF TypeInv
  <2>3. CASE PendSV_Handler \/ TornPush \/ Halted
    BY <2>1, <2>3 DEF PendSV_Handler, TornPush, Halted, vars
  <2>4. CASE \E u \in Task : Thread(u)
    BY <2>1, <2>4, SleepersStay
  <2>5. QED
    BY <2>1, <2>2, <2>3, <2>4 DEF Next
<1>2. QED
  BY TypeInit, TypeStep, <1>1, PTL DEF Spec, WakeNotEarly

-----------------------------------------------------------------------------
(* kill of another task.  Nothing is assumed of who creates, who kills and *)
(* how often.                                                              *)

\* From the load of tmp->next to the store that links tmp again, tmp is a task.
Popping == {"next", "store", "end", "push", "first", "load", "link"}
KillInv == /\ TypeInv /\ KillTypeOK
           /\ \A t \in Task : kpc[t] \in Popping => tmp[t] # NoSlot

\* The steps of kill that take or give the heap.
LEMMA KillHeapKeeps ==
  ASSUME KillInv, NEW t \in Task,
         KillBegin(t) \/ KillFreeStack(t) \/ KillNextImage(t) \/ KillFreeImage(t)
  PROVE  KillInv'
<1>1. TypeOK /\ MadeHasSlot /\ KillTypeOK /\ "sem_malloc" \in Sem
  BY DEF KillInv, TypeInv, Sem
<1>2. /\ UNCHANGED heapFrame
      /\ \E stage \in {"freestk", "nextimg", "freeimg", "switch"} : KillGoto(t, stage)
  BY DEF KillBegin, KillFreeStack, KillNextImage, KillFreeImage
<1>3. /\ state' \in [Task -> State] /\ value' \in [Sem -> Nat] /\ ready_queue' \in Seq(Task)
      /\ waitq' \in [Sem -> Seq(Task)] /\ pendsv' \in BOOLEAN /\ fault' \in Fault
  <2>1. CASE sem_wait(t, "sem_malloc") /\ UNCHANGED ready_queue
    BY <1>1, <2>1, SemWaitType DEF TypeOK
  <2>2. CASE sem_signal("sem_malloc")
    BY <1>1, <2>2, SemSignalType
  <2>3. QED
    BY <2>1, <2>2 DEF KillBegin, KillFreeStack, KillNextImage, KillFreeImage
<1>4. stk' \in [Task -> Stack] /\ elf' \in [Task -> BOOLEAN]
  <2>1. CASE KillFreeStack(t)
    <3>1. {victim[t]} \cup {u \in Task : state[victim[t]] = "FREE"} \subseteq Task
      BY <1>1 DEF KillTypeOK
    <3>2. PICK u \in Task : stk' = [stk EXCEPT ![u] = IF stk[u] = "held" THEN "freed" ELSE stk[u]]
      BY <2>1, <3>1 DEF KillFreeStack
    <3>3. QED
      BY <1>1, <2>1, <3>2 DEF TypeOK, Stack, KillFreeStack
  <2>2. CASE KillFreeImage(t)
    BY <1>1, <2>2 DEF TypeOK, KillFreeImage
  <2>3. CASE KillBegin(t) \/ KillNextImage(t)
    BY <1>1, <2>3 DEF TypeOK, KillBegin, KillNextImage
  <2>4. QED
    BY <2>1, <2>2, <2>3
<1>5. TypeInv'
  BY <1>1, <1>2, <1>3, <1>4 DEF TypeInv, TypeOK, MadeHasSlot, heapFrame, timeVars, callVars
<1>6. victim' \in [Task -> Task] /\ kills' \in 0 .. MaxKills
  <2>1. CASE KillBegin(t)
    BY <1>1, <2>1, KillAssumption DEF KillBegin, KillTypeOK
  <2>2. CASE UNCHANGED callFrame
    BY <1>1, <2>2 DEF callFrame, KillTypeOK
  <2>3. QED
    BY <2>1, <2>2 DEF KillBegin, KillFreeStack, KillNextImage, KillFreeImage, callFrame
<1>7. /\ kpc' \in [Task -> KillStage]
      /\ \A u \in Task : kpc'[u] \in Popping => kpc[u] \in Popping /\ tmp'[u] = tmp[u]
  BY <1>1, <1>2 DEF KillTypeOK, KillGoto, KillStage, Popping, heapFrame, localVars
<1>8. KillTypeOK'
  BY <1>1, <1>2, <1>5, <1>6, <1>7 DEF KillTypeOK, TypeInv, heapFrame, localVars
<1>9. QED
  BY <1>5, <1>7, <1>8 DEF KillInv

\* The types of what the switch and the loops change.
LoopTypes == /\ state' \in [Task -> State] /\ fault' \in Fault
             /\ ready_queue' \in Seq(Task) /\ sleep_queue' \in Seq(Task)
             /\ kpc' \in [Task -> KillStage]
             /\ victim' \in [Task -> Task] /\ kills' \in 0 .. MaxKills
             /\ looks' \in [Task -> {"SLEEP", "READY", "no"}]
             /\ tmp' \in [Task -> Task \cup {NoSlot}] /\ nxt' \in [Task -> Task \cup {NoSlot}]
PopTypes == /\ \A u \in Task : kpc'[u] \in Popping => tmp'[u] # NoSlot
            /\ \/ pc' = pc
               \/ \E t \in Task, stage \in {"last", "run"} : pc' = [pc EXCEPT ![t] = stage]

\* A step of the loops that keeps those types, and all that the loops leave alone, keeps
\* KillInv.
LEMMA LoopInv ==
  ASSUME KillInv, UNCHANGED scanFrame, LoopTypes, PopTypes
  PROVE  KillInv'
<1>1. pc' \in [Task -> Stage] /\ MadeHasSlot'
  BY DEF KillInv, TypeInv, TypeOK, MadeHasSlot, PopTypes, Stage, scanFrame, callVars, Pushing
<1>2. TypeInv'
  BY <1>1 DEF KillInv, LoopTypes, TypeInv, TypeOK, scanFrame, timeVars, semVars, roleVars,
              callVars
<1>3. KillTypeOK'
  BY <1>2 DEF KillTypeOK, LoopTypes, TypeInv
<1>4. QED
  BY <1>2, <1>3 DEF KillInv, PopTypes

\* A step that stores nothing but to the locals of kill.
LEMMA LocalTypes ==
  ASSUME KillInv, UNCHANGED <<listVars, pc, callFrame>>,
         state' \in [Task -> State], fault' \in Fault, kpc' \in [Task -> KillStage],
         looks' \in [Task -> {"SLEEP", "READY", "no"}],
         tmp' \in [Task -> Task \cup {NoSlot}], nxt' \in [Task -> Task \cup {NoSlot}],
         \A u \in Task : kpc'[u] \in Popping => tmp'[u] # NoSlot
  PROVE  LoopTypes /\ PopTypes
  BY DEF KillInv, LoopTypes, PopTypes, KillTypeOK, TypeOK, listVars, callFrame

\* A step that ends in a fault.
LEMMA StopsTypes ==
  ASSUME KillInv, NEW f \in Fault, Stops(f)
  PROVE  LoopTypes /\ PopTypes
  BY DEF KillInv, LoopTypes, PopTypes, KillTypeOK, TypeOK, Stops, listVars, killVars

\* The end of kill.
LEMMA EndTypes ==
  ASSUME KillInv, NEW t \in Task, KillEnd(t), UNCHANGED <<listVars, pc, fault>>,
         state' \in [Task -> State]
  PROVE  LoopTypes /\ PopTypes
<1>1. NULLTHREAD \in Task
  BY NTaskAssumption DEF Task, NULLTHREAD
<1>2. LoopTypes
  BY <1>1 DEF KillInv, LoopTypes, KillTypeOK, KillStage, TypeOK, KillEnd, KillGoto, listVars
<1>3. PopTypes
  BY DEF KillInv, PopTypes, KillTypeOK, Popping, KillEnd, KillGoto
<1>4. QED
  BY <1>2, <1>3

\* The heads of the queues are tasks.
LEMMA Heads ==
  ASSUME NEW q \in Seq(Task)
  PROVE  /\ q # <<>> => Head(q) \in Task /\ Tail(q) \in Seq(Task)
         /\ Second(q) \in Task \cup {NoSlot} /\ EndOf(q) \in Task \cup {NoSlot}
<1>1. q # <<>> => Head(q) \in Task /\ Tail(q) \in Seq(Task) /\ Len(q) \in 1 .. Len(q)
  BY TailMembers, LenProperties, EmptySeq
<1>2. \A i \in 1 .. Len(q) : q[i] \in Task
  BY ElementOfSeq
<1>3. QED
  BY <1>1, <1>2, LenProperties DEF Second, EndOf

\* The steps that look.
LEMMA KillLooksKeep ==
  ASSUME KillInv, NEW t \in Task,
         \/ KillSwitch(t) \/ KillFree(t) \/ KillPeek(t) \/ KillTest(t) \/ KillPop(t)
         \/ KillNextLoad(t) \/ KillEmptied(t) \/ KillPush(t) \/ KillLoad(t)
  PROVE  KillInv'
<1>1. TypeOK /\ KillTypeOK /\ UNCHANGED scanFrame
  BY DEF KillInv, KillTypeOK, KillSwitch, KillFree, KillPeek, KillTest, KillPop, KillNextLoad,
         KillEmptied, KillPush, KillLoad, LoadFirst
<1>2. /\ state \in [Task -> State] /\ fault \in Fault /\ {"null_pop", "torn"} \subseteq Fault
      /\ kpc \in [Task -> KillStage] /\ looks \in [Task -> {"SLEEP", "READY", "no"}]
      /\ tmp \in [Task -> Task \cup {NoSlot}] /\ nxt \in [Task -> Task \cup {NoSlot}]
  BY <1>1 DEF TypeOK, KillTypeOK, Fault
<1>3. /\ Searched(t) \in Seq(Task)
      /\ tmp = [tmp EXCEPT ![t] = tmp[t]] /\ nxt = [nxt EXCEPT ![t] = nxt[t]]
  BY <1>1, <1>2 DEF Searched, TypeOK
<1>4. \A u \in Task : kpc[u] \in Popping => tmp[u] # NoSlot
  BY DEF KillInv
<1> USE DEF KillAt, KillStage, Popping
<1>5. CASE KillSwitch(t)
  <2>1. PICK x \in {"SLEEP", "READY", "no"}, stage \in {"peek", "free"} :
          /\ looks' = [looks EXCEPT ![t] = x] /\ KillGoto(t, stage)
          /\ UNCHANGED <<state, listVars, pc, callFrame, tmp, nxt, fault>>
    BY <1>5 DEF KillSwitch
  <2>2. kpc' \in [Task -> KillStage] /\ looks' \in [Task -> {"SLEEP", "READY", "no"}]
        /\ \A u \in Task : kpc'[u] \in Popping => tmp'[u] # NoSlot
    BY <1>2, <1>4, <2>1 DEF KillGoto
  <2>3. LoopTypes /\ PopTypes
    BY <1>2, <2>1, <2>2, LocalTypes
  <2>4. QED
    BY <1>1, <2>3, LoopInv
<1>6. CASE KillFree(t) \/ (KillTest(t) /\ KillEnd(t) /\ UNCHANGED state)
  <2>1. state' \in [Task -> State] /\ KillEnd(t) /\ UNCHANGED <<listVars, pc, fault>>
    BY <1>2, <1>6 DEF KillFree, KillTest, State
  <2>2. QED
    BY <1>1, <2>1, EndTypes, LoopInv
<1>7. CASE \E f \in {"null_pop", "torn"} : Stops(f)
  BY <1>1, <1>2, <1>7, StopsTypes, LoopInv
<1>8. CASE /\ KillPeek(t) \/ KillPop(t) \/ KillNextLoad(t) \/ KillLoad(t)
           /\ ~ \E f \in {"null_pop", "torn"} : Stops(f)
  <2>1. PICK stage \in {"test", "next", "store", "link"},
             y \in Task \cup {tmp[t]}, z \in Task \cup {NoSlot, nxt[t]} :
          /\ KillGoto(t, stage) /\ UNCHANGED <<state, listVars, pc, callFrame, looks, fault>>
          /\ tmp' = [tmp EXCEPT ![t] = y] /\ nxt' = [nxt EXCEPT ![t] = z]
          /\ y \in Task \/ kpc[t] \in {"next", "load"}
    <3>1. CASE KillPeek(t) \/ KillPop(t)
      <4>1. PICK stage \in {"test", "next"} : LoadFirst(t, stage)
        BY <3>1 DEF KillPeek, KillPop
      <4>2. /\ Searched(t) # <<>> /\ KillGoto(t, stage)
            /\ tmp' = [tmp EXCEPT ![t] = Head(Searched(t))]
            /\ UNCHANGED <<state, listVars, pc, callFrame, looks, nxt, fault>>
        BY <1>8, <4>1 DEF LoadFirst
      <4>3. Head(Searched(t)) \in Task /\ nxt' = [nxt EXCEPT ![t] = nxt[t]]
        BY <1>3, <4>2, Heads
      <4>4. QED
        BY <4>2, <4>3
    <3>2. CASE KillNextLoad(t)
      <4>1. /\ KillGoto(t, "store") /\ nxt' = [nxt EXCEPT ![t] = Second(Searched(t))]
            /\ UNCHANGED <<state, listVars, pc, callFrame, looks, tmp, fault>>
            /\ kpc[t] = "next"
        BY <1>8, <3>2 DEF KillNextLoad
      <4>2. QED
        BY <1>2, <1>3, <4>1, Heads
    <3>3. CASE KillLoad(t)
      <4>1. /\ KillGoto(t, "link") /\ nxt' = [nxt EXCEPT ![t] = EndOf(Searched(t))]
            /\ UNCHANGED <<state, listVars, pc, callFrame, looks, tmp, fault>>
            /\ kpc[t] = "load"
        BY <1>8, <3>3 DEF KillLoad
      <4>2. QED
        BY <1>2, <1>3, <4>1, Heads
    <3>4. QED
      BY <1>8, <3>1, <3>2, <3>3
  <2>2. y \in Task /\ y # NoSlot /\ z \in Task \cup {NoSlot}
    BY <1>2, <1>4, <2>1, NTaskAssumption DEF Task, NoSlot
  <2>3. /\ kpc' \in [Task -> KillStage]
        /\ tmp' \in [Task -> Task \cup {NoSlot}] /\ nxt' \in [Task -> Task \cup {NoSlot}]
        /\ \A u \in Task : kpc'[u] \in Popping => tmp'[u] # NoSlot
    BY <1>2, <1>4, <2>1, <2>2 DEF KillGoto
  <2>4. LoopTypes /\ PopTypes
    BY <1>2, <2>1, <2>3, LocalTypes
  <2>5. QED
    BY <1>1, <2>4, LoopInv
<1>9. CASE \/ (KillTest(t) /\ ~ KillEnd(t))
           \/ (KillEmptied(t) /\ ~ Stops("torn")) \/ KillPush(t)
  <2>1. PICK stage \in {"pop", "free", "push", "first", "load"} :
          /\ KillGoto(t, stage) /\ UNCHANGED <<state, listVars, pc, callFrame, localVars, fault>>
          /\ stage \in Popping => kpc[t] \in Popping
    BY <1>9 DEF KillTest, KillEmptied, KillPush, Popped
  <2>2. LoopTypes /\ PopTypes
    <3>1. /\ kpc' \in [Task -> KillStage]
          /\ \A u \in Task : kpc'[u] \in Popping => tmp'[u] # NoSlot
      BY <1>2, <1>4, <2>1 DEF KillGoto, localVars
    <3>2. UNCHANGED <<looks, tmp, nxt>>
      BY <2>1 DEF localVars
    <3>3. QED
      BY <1>2, <2>1, <3>1, <3>2, LocalTypes
  <2>3. QED
    BY <1>1, <2>2, LoopInv
<1>10. KillTest(t) /\ KillEnd(t) => UNCHANGED state
  BY DEF KillTest
<1>11. QED
  BY <1>5, <1>6, <1>7, <1>8, <1>9, <1>10

\* The steps that store to a queue.
LEMMA KillStoresKeep ==
  ASSUME KillInv, NEW t \in Task, KillStore(t) \/ KillFirst(t) \/ KillLink(t) \/ KillLast(t)
  PROVE  KillInv'
<1>1. TypeOK /\ KillTypeOK /\ UNCHANGED scanFrame
  BY DEF KillInv, KillTypeOK, KillStore, KillFirst, KillLink, KillLast, Linking
<1>2. Searched(t) \in Seq(Task) /\ "torn" \in Fault
  BY <1>1 DEF Searched, TypeOK, Fault
<1>3. kpc[t] \in Popping => tmp[t] \in Task
  BY <1>1 DEF KillInv, KillTypeOK
<1> USE DEF KillAt
<1>4. CASE Stops("torn")
  BY <1>1, <1>2, <1>4, StopsTypes, LoopInv
<1>5. CASE ~ Stops("torn")
  <2>1. /\ UNCHANGED <<state, callFrame, localVars>> /\ fault' \in Fault
        /\ \E stage \in {"end", "free", "push", "last", "test"} :
             KillGoto(t, stage) /\ (stage \in Popping => kpc[t] \in Popping)
        /\ \/ pc' = pc
           \/ \E stage \in {"last", "run", pc[t]} : pc' = [pc EXCEPT ![t] = stage]
    BY <1>1, <1>5 DEF KillStore, KillFirst, KillLink, KillLast, Linking, Popped, Goto, FaultIf,
                      TypeOK, Fault, Popping
  <2>2. ready_queue' \in Seq(Task) /\ sleep_queue' \in Seq(Task)
    <3>1. CASE UNCHANGED listVars
      BY <1>1, <3>1 DEF TypeOK, listVars
    <3>2. CASE \E q \in Seq(Task) : Store(t, q)
      BY <1>1, <3>2 DEF TypeOK, Store
    <3>3. KillStore(t) => \E q \in Seq(Task) : Store(t, q)
      <4>1. SUFFICES ASSUME KillStore(t) PROVE \E q \in Seq(Task) : Store(t, q)
        OBVIOUS
      <4>2. Store(t, Tail(Searched(t))) /\ FirstOf(Searched(t)) = tmp[t] /\ tmp[t] \in Task
        BY <1>3, <1>5, <4>1 DEF KillStore, Unlink, Popping
      <4>3. Searched(t) # <<>>
        BY <4>2, NTaskAssumption DEF FirstOf, Task, NoSlot
      <4>4. QED
        BY <1>2, <4>2, <4>3, Heads
    <3>4. KillFirst(t) \/ KillLink(t) => \E q \in Seq(Task) : Store(t, q)
      <4>1. SUFFICES ASSUME KillFirst(t) \/ KillLink(t) PROVE \E q \in Seq(Task) : Store(t, q)
        OBVIOUS
      <4>2. Store(t, queue_push(Searched(t), tmp[t])) /\ tmp[t] \in Task
        BY <1>3, <1>5, <4>1 DEF KillFirst, KillLink, Linking, Popping
      <4>3. QED
        BY <1>2, <4>2, MembersAppend
    <3>5. QED
      BY <1>5, <3>1, <3>2, <3>3, <3>4 DEF KillLast
  <2>3. LoopTypes
    BY <1>1, <2>1, <2>2 DEF LoopTypes, KillTypeOK, TypeOK, KillGoto, KillStage, callFrame, localVars
  <2>4. \A u \in Task : kpc'[u] \in Popping => tmp'[u] # NoSlot
    BY <1>1, <2>1 DEF KillInv, KillTypeOK, KillGoto, localVars
  <2>5. \/ pc' = pc
        \/ \E stage \in {"last", "run"} : pc' = [pc EXCEPT ![t] = stage]
    BY <1>1, <2>1 DEF TypeOK
  <2>6. QED
    BY <1>1, <2>3, <2>4, <2>5, LoopInv DEF PopTypes
<1>6. QED
  BY <1>4, <1>5

\* The others, and the handlers.
LEMMA KillOthersKeep ==
  ASSUME KillInv,
         \/ (PendSV_Handler \/ TIM2_Handler \/ TornPush \/ Halted) /\ UNCHANGED killVars
         \/ \E t \in Task : Other(t)
  PROVE  KillInv'
<1>1. [Next]_vars
  BY DEF Next, Other
<1>2. TypeInv'
  BY <1>1, TypeStep DEF KillInv
<1>3. CASE UNCHANGED killVars
  BY <1>2, <1>3 DEF KillInv, KillTypeOK, TypeInv, killVars
<1>4. ASSUME NEW t \in Task, Other(t) PROVE KillInv'
  <2>1. NULLTHREAD \in Task
    BY NTaskAssumption DEF Task, NULLTHREAD
  <2> DEFINE new == {u \in Task : state[u] # "SUSP" /\ state'[u] = "SUSP"}
  <2>2. /\ kills' = kills
        /\ kpc' = [u \in Task |-> IF u \in new THEN "out" ELSE kpc[u]]
        /\ victim' = [u \in Task |-> IF u \in new THEN NULLTHREAD ELSE victim[u]]
        /\ looks' = [u \in Task |-> IF u \in new THEN "no" ELSE looks[u]]
        /\ tmp' = [u \in Task |-> IF u \in new THEN NoSlot ELSE tmp[u]]
        /\ nxt' = [u \in Task |-> IF u \in new THEN NoSlot ELSE nxt[u]]
    BY <1>4 DEF Other
  <2> HIDE DEF new
  <2>3. KillTypeOK'
    BY <1>2, <2>1, <2>2 DEF KillInv, KillTypeOK, KillStage, TypeInv
  <2>4. \A u \in Task : kpc'[u] \in Popping => tmp'[u] # NoSlot
    BY <2>2 DEF KillInv, Popping
  <2>5. QED
    BY <1>2, <2>3, <2>4 DEF KillInv
<1>5. QED
  BY <1>3, <1>4

\* No thread runs kill yet.
LEMMA KillStart == KillInit => KillInv
<1> SUFFICES ASSUME KillInit PROVE KillInv
  OBVIOUS
<1>1. TypeInv
  BY TypeInit DEF KillInit
<1>2. NULLTHREAD \in Task
  BY NTaskAssumption DEF Task, NULLTHREAD
<1>3. KillTypeOK
  BY <1>1, <1>2, KillAssumption DEF KillInit, KillTypeOK, KillStage, TypeInv
<1>4. QED
  BY <1>1, <1>3 DEF KillInit, KillInv, Popping

\* Whatever a kill divided by interrupts leaves of the lists, every variable of Kernel
\* and of KernelKill keeps its type: kill never pushes a task it has not popped.
THEOREM KillTypeCorrect == KillSpec => []KillTypeOK
<1>1. KillInv /\ [KillNext]_allVars => KillInv'
  <2> SUFFICES ASSUME KillInv, [KillNext]_allVars PROVE KillInv'
    OBVIOUS
  <2>1. CASE UNCHANGED allVars
    <3>1. [Next]_vars /\ UNCHANGED killVars
      BY <2>1 DEF allVars
    <3>2. TypeInv'
      BY <3>1, TypeStep DEF KillInv
    <3>3. QED
      BY <3>1, <3>2 DEF KillInv, KillTypeOK, TypeInv, killVars
  <2>2. ASSUME NEW t \in Task, KillThread(t) PROVE KillInv'
    BY <2>2, KillHeapKeeps, KillLooksKeep, KillStoresKeep DEF KillThread
  <2>3. QED
    BY <2>1, <2>2, KillOthersKeep DEF KillNext
<1>2. KillInv => KillTypeOK
  BY DEF KillInv
<1>3. QED
  BY KillStart, <1>1, <1>2, PTL DEF KillSpec
=============================================================================
