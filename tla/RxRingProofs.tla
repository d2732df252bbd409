---------------------------- MODULE RxRingProofs ----------------------------
(***************************************************************************)
(* Proofs about RxRing: the receive ring implements the queue of RxFifo,   *)
(* whatever the size of the ring, of a packet and of the shell's buffer.   *)
(* The indices are masked in the code and taken modulo Size in the model;  *)
(* the first lemmas replace the remainder by what it is for a sum of two   *)
(* indices, so that the rest is linear arithmetic.                         *)
(***************************************************************************)
EXTENDS RxRing, SequenceTheorems, TLAPS

\* A sum of two indices, reduced by hand.
Wrap(a) == IF a < Size THEN a ELSE a - Size

\* How far the head is ahead of the tail.
Gap(head, tail) == IF head >= tail THEN head - tail ELSE Size + head - tail

\* The remainder of a sum of two indices is one subtraction at most.
LEMMA WrapIsMod ==
  ASSUME NEW a \in 0 .. 2 * Size - 1
  PROVE  a % Size = Wrap(a) /\ Wrap(a) \in Index
<1>1. Size \in Nat /\ Size > 0 BY SizeAssumption
<1>2. CASE a < Size
  <2>1. a \in 0 .. Size - 1 BY <1>1, <1>2
  <2>2. a % Size = a BY <1>1, <2>1
  <2> QED BY <1>2, <2>1, <2>2 DEF Wrap, Index
<1>3. CASE ~(a < Size)
  <2>1. a \in Size .. 2 * Size - 1 BY <1>1, <1>3
  <2>2. a % Size = a - Size BY <1>1, <2>1
  <2> QED BY <1>1, <1>3, <2>1, <2>2 DEF Wrap, Index
<1> QED BY <1>2, <1>3

\* The length that usb_available computes is the gap.
LEMMA GapIsMod ==
  ASSUME NEW head \in Index, NEW tail \in Index
  PROVE  /\ (Size + head - tail) % Size = Gap(head, tail)
         /\ Gap(head, tail) \in 0 .. Size - 1
         /\ Gap(head, tail) = 0 <=> head = tail
         /\ head = Wrap(tail + Gap(head, tail))
<1>1. Size \in Nat /\ Size > 0 BY SizeAssumption
<1>2. (Size + head - tail) \in 0 .. 2 * Size - 1 BY <1>1 DEF Index
<1>3. (Size + head - tail) % Size = Wrap(Size + head - tail) BY <1>2, WrapIsMod
<1> QED BY <1>1, <1>3 DEF Wrap, Gap, Index

\* Going on from a slot is going on from the tail: the wraps add up.
LEMMA WrapAdds ==
  ASSUME NEW i \in Index, NEW j \in Nat, NEW k \in Nat, j + k <= Size
  PROVE  Wrap(Wrap(i + j) + k) = Wrap(i + (j + k)) 
BY SizeAssumption DEF Wrap, Index

\* Less than a turn apart, two slots differ.
LEMMA WrapDiffers ==
  ASSUME NEW i \in Index, NEW j \in 0 .. Size - 1, NEW k \in 0 .. Size - 1, Wrap(i + j) = Wrap(i + k)
  PROVE  j = k
BY SizeAssumption DEF Wrap, Index

\* The slot d after the tail is d ahead of it.
LEMMA GapOfWrap ==
  ASSUME NEW tail \in Index, NEW d \in 0 .. Size - 1
  PROVE  Gap(Wrap(tail + d), tail) = d
BY SizeAssumption DEF Gap, Wrap, Index

-----------------------------------------------------------------------------
(* The inductive invariant.                                                *)

\* The consumer is past the test of the head pointer.
InGetc == rpc \in {"getc", "tail", "data", "error", "got"}

\* The reader moves the tail only over a byte it has seen, and readBytes asks for one
\* only while its buffer has room.
RingInv ==
  /\ RingTypeOK
  /\ rpc = "tail" => RxHead # RxTail
  /\ InGetc /\ booted => count < BufLen

\* The room the handler finds: the slot after head + i is free while the ring is not full.
LEMMA AcceptsRoom ==
  ASSUME RxHead \in Index, RxTail \in Index, NEW i \in Nat, Gap(RxHead, RxTail) + i < Size
  PROVE  Accepts((RxHead + i) % Size) <=> Gap(RxHead, RxTail) + i + 1 < Size
<1> DEFINE gap == Gap(RxHead, RxTail)
<1>1. Size \in Nat /\ Size > 1 BY SizeAssumption
<1>2. gap \in 0 .. Size - 1 /\ RxHead = Wrap(RxTail + gap) BY GapIsMod
<1> HIDE DEF gap
<1>3. gap + i < Size BY DEF gap
<1>4. (RxHead + i) % Size = Wrap(RxHead + i) /\ Wrap(RxHead + i) \in Index
  <2>1. RxHead + i \in 0 .. 2 * Size - 1 BY <1>1, <1>2, <1>3 DEF Index
  <2> QED BY <2>1, WrapIsMod
<1>5. Wrap(RxHead + i) = Wrap(RxTail + (gap + i)) BY <1>1, <1>2, <1>3, WrapAdds
<1>6. After(Wrap(RxHead + i)) = Wrap(RxTail + (gap + i + 1))
  <2>1. After(Wrap(RxHead + i)) = Wrap(Wrap(RxHead + i) + 1)
    <3>1. Wrap(RxHead + i) + 1 \in 0 .. 2 * Size - 1 BY <1>1, <1>4 DEF Index
    <3> QED BY <3>1, WrapIsMod DEF After
  <2>2. gap + i \in Nat /\ (gap + i) + 1 <= Size BY <1>1, <1>2, <1>3
  <2>3. Wrap(Wrap(RxTail + (gap + i)) + 1) = Wrap(RxTail + ((gap + i) + 1)) BY <2>2, WrapAdds
  <2> QED BY <1>5, <2>1, <2>3
<1>7. Wrap(RxTail + (gap + i + 1)) = RxTail <=> gap + i + 1 = Size
  BY <1>1, <1>2, <1>3 DEF Wrap, Index
<1> QED BY <1>1, <1>2, <1>3, <1>4, <1>6, <1>7 DEF Accepts, gap

\* What is stored of a packet is the whole of it, or what the ring has room for.
LEMMA StoredFits ==
  ASSUME RxHead \in Index, RxTail \in Index, NEW packet, Len(packet) \in Nat,
         NEW n \in 0 .. Len(packet), Stored(n, packet)
  PROVE  /\ Gap(RxHead, RxTail) + n < Size
         /\ n < Len(packet) => Gap(RxHead, RxTail) + n + 1 = Size
<1> DEFINE gap == Gap(RxHead, RxTail)
<1>1. Size \in Nat /\ Size > 1 BY SizeAssumption
<1>2. gap \in 0 .. Size - 1 BY GapIsMod
<1>3. n \in Nat OBVIOUS
<1> HIDE DEF gap
<1>4. gap + n < Size
  <2>1. SUFFICES ASSUME gap + n >= Size PROVE FALSE BY <1>1, <1>2, <1>3
  <2> DEFINE i == Size - 1 - gap
  <2>2. i \in 0 .. n - 1 /\ i \in Nat /\ gap + i < Size /\ ~(gap + i + 1 < Size)
    BY <1>1, <1>2, <1>3, <2>1
  <2>3. Accepts((RxHead + i) % Size) BY <2>2 DEF Stored
  <2>4. gap + i + 1 < Size BY <2>2, <2>3, AcceptsRoom DEF gap
  <2> QED BY <2>2, <2>4
<1>5. ASSUME n < Len(packet) PROVE gap + n + 1 = Size
  <2>1. ~Accepts((RxHead + n) % Size) BY <1>5 DEF Stored
  <2>2. ~(gap + n + 1 < Size) BY <1>3, <1>4, <2>1, AcceptsRoom DEF gap
  <2> QED BY <1>1, <1>2, <1>3, <1>4, <2>2
<1> QED BY <1>4, <1>5 DEF gap

\* The i-th slot after the head, and the buffer cdc_loopback leaves.
Ahead(i) == (RxHead + i) % Size
Written(packet, n) ==
  [j \in Index |-> IF \E i \in 1 .. n : j = Ahead(i)
                   THEN packet[CHOOSE i \in 1 .. n : j = Ahead(i)]
                   ELSE RxBuf[j]]

\* What the handler writes to the ring: n bytes behind those that are there, none of
\* which it touches, nor the slot last read.
LEMMA StoredBehind ==
  ASSUME RxHead \in Index, RxTail \in Index, NEW packet, NEW n \in Nat,
         Gap(RxHead, RxTail) + n < Size,
         NEW buf, buf = Written(packet, n)
  PROVE  /\ \A i \in 0 .. Gap(RxHead, RxTail) : buf[(RxTail + i) % Size] = RxBuf[(RxTail + i) % Size]
         /\ \A k \in 1 .. n : buf[(RxTail + (Gap(RxHead, RxTail) + k)) % Size] = packet[k]
         /\ (RxHead + n) % Size \in Index
         /\ Gap((RxHead + n) % Size, RxTail) = Gap(RxHead, RxTail) + n
<1> DEFINE gap == Gap(RxHead, RxTail)
           Slot(i) == (RxTail + i) % Size
<1>1. Size \in Nat /\ Size > 1 BY SizeAssumption
<1>2. gap \in 0 .. Size - 1 /\ RxHead = Wrap(RxTail + gap) BY GapIsMod
<1> HIDE DEF gap
<1>3. gap + n < Size BY DEF gap
<1>4. ASSUME NEW i \in 0 .. Size PROVE Slot(i) = Wrap(RxTail + i) /\ Slot(i) \in Index
  <2>1. RxTail + i \in 0 .. 2 * Size - 1 BY <1>1 DEF Index
  <2> QED BY <2>1, WrapIsMod
<1>5. ASSUME NEW i \in 0 .. n PROVE Ahead(i) = Slot(gap + i)
  <2>1. i \in Nat /\ gap + i <= Size /\ gap + i \in 0 .. Size BY <1>1, <1>2, <1>3
  <2>2. RxHead + i \in 0 .. 2 * Size - 1 BY <1>1, <1>2, <1>3 DEF Index
  <2>3. (RxHead + i) % Size = Wrap(RxHead + i) BY <2>2, WrapIsMod
  <2>4. Wrap(RxHead + i) = Wrap(RxTail + (gap + i)) BY <1>2, <2>1, WrapAdds
  <2> QED BY <1>4, <2>1, <2>3, <2>4 DEF Ahead
<1>6. ASSUME NEW i \in 0 .. Size - 1, NEW j \in 0 .. Size - 1, Slot(i) = Slot(j) PROVE i = j
  <2>1. Wrap(RxTail + i) = Wrap(RxTail + j) BY <1>1, <1>4, <1>6
  <2> QED BY <2>1, WrapDiffers
<1> HIDE DEF Slot
<1>7. ASSUME NEW i \in 0 .. gap PROVE buf[Slot(i)] = RxBuf[Slot(i)]
  <2>1. ASSUME NEW k \in 1 .. n, Slot(i) = Ahead(k) PROVE FALSE
    <3>1. Slot(i) = Slot(gap + k) BY <1>5, <2>1
    <3>2. i \in 0 .. Size - 1 /\ gap + k \in 0 .. Size - 1 /\ i # gap + k BY <1>1, <1>2, <1>3
    <3> QED BY <1>6, <3>1, <3>2
  <2>2. i \in 0 .. Size BY <1>1, <1>2
  <2>3. Slot(i) \in Index BY <1>4, <2>2
  <2> QED BY <2>1, <2>3, Zenon DEF Written
<1>8. ASSUME NEW k \in 1 .. n PROVE buf[Slot(gap + k)] = packet[k]
  <2>1. Slot(gap + k) = Ahead(k) BY <1>5
  <2>2. ASSUME NEW m \in 1 .. n, Slot(gap + k) = Ahead(m) PROVE m = k
    <3>1. Slot(gap + k) = Slot(gap + m) BY <1>5, <2>2
    <3>2. gap + k \in 0 .. Size - 1 /\ gap + m \in 0 .. Size - 1 BY <1>1, <1>2, <1>3
    <3>3. gap + k = gap + m BY <1>6, <3>1, <3>2
    <3> QED BY <1>2, <3>3
  <2>3. (CHOOSE m \in 1 .. n : Slot(gap + k) = Ahead(m)) = k BY <2>1, <2>2
  <2>4. gap + k \in 0 .. Size BY <1>1, <1>2, <1>3
  <2>5. Slot(gap + k) \in Index BY <1>4, <2>4
  <2> QED BY <2>1, <2>3, <2>5, Zenon DEF Written
<1>9. (RxHead + n) % Size = Wrap(RxTail + (gap + n)) /\ (RxHead + n) % Size \in Index
  <2>1. gap + n \in 0 .. Size BY <1>1, <1>2, <1>3
  <2> QED BY <1>4, <1>5, <2>1 DEF Ahead
<1>10. Gap(Wrap(RxTail + (gap + n)), RxTail) = gap + n
  <2>1. gap + n \in 0 .. Size - 1 BY <1>1, <1>2, <1>3
  <2> QED BY <2>1, GapOfWrap
<1> QED BY <1>7, <1>8, <1>9, <1>10 DEF gap, Slot

-----------------------------------------------------------------------------
(* The invariant is inductive.                                             *)

\* A packet is a sequence of bytes of the host.
LEMMA PacketType ==
  ASSUME NEW packet \in Packet
  PROVE  Len(packet) \in 1 .. DataSize /\ packet \in [1 .. Len(packet) -> Byte]
<1>1. PICK n \in 1 .. DataSize : packet \in [1 .. n -> Byte] BY DEF Packet
<1>2. n \in Nat /\ Len(packet) = n BY <1>1, SizeAssumption
<1> QED BY <1>1, <1>2

\* What the handler does, in the terms of the lemmas.
LEMMA LoopbackStep ==
  ASSUME RingInv, NEW packet \in Packet, cdc_loopback(packet)
  PROVE  \E n \in 0 .. Len(packet) :
           /\ Gap(RxHead, RxTail) + n < Size
           /\ n < Len(packet) => Gap(RxHead, RxTail) + n + 1 = Size
           /\ RxHead' = Ahead(n) /\ RxHead' \in Index
           /\ Gap(RxHead', RxTail) = Gap(RxHead, RxTail) + n
           /\ RxBuf' = Written(packet, n)
<1>1. RxHead \in Index /\ RxTail \in Index BY DEF RingInv, RingTypeOK
<1>2. PICK n \in 0 .. Len(packet) :
        Stored(n, packet) /\ RxHead' = Ahead(n) /\ RxBuf' = Written(packet, n)
  BY DEF cdc_loopback, Ahead, Written
<1>3. Len(packet) \in Nat BY PacketType, SizeAssumption
<1>4. /\ Gap(RxHead, RxTail) + n < Size
      /\ n < Len(packet) => Gap(RxHead, RxTail) + n + 1 = Size
  BY <1>1, <1>2, <1>3, StoredFits
<1>5. n \in Nat BY <1>3
<1>6. Ahead(n) \in Index /\ Gap(Ahead(n), RxTail) = Gap(RxHead, RxTail) + n
  BY <1>1, <1>4, <1>5, StoredBehind DEF Ahead
<1> QED BY <1>2, <1>4, <1>6

\* The handler keeps the types of what it writes.
LEMMA LoopbackType ==
  ASSUME RingInv, NEW packet \in Packet, cdc_loopback(packet)
  PROVE  RxHead' \in Index /\ RxBuf' \in [Index -> Byte \cup {0}]
<1>1. PICK n \in 0 .. Len(packet) : RxHead' \in Index /\ RxBuf' = Written(packet, n)
  BY LoopbackStep
<1>2. packet \in [1 .. Len(packet) -> Byte] /\ Len(packet) \in Nat BY PacketType, SizeAssumption
<1>3. RxBuf \in [Index -> Byte \cup {0}] BY DEF RingInv, RingTypeOK
<1>4. ASSUME NEW j \in Index
      PROVE  (IF \E i \in 1 .. n : j = Ahead(i)
              THEN packet[CHOOSE i \in 1 .. n : j = Ahead(i)]
              ELSE RxBuf[j]) \in Byte \cup {0}
  <2>1. CASE \E i \in 1 .. n : j = Ahead(i)
    <3>1. (CHOOSE i \in 1 .. n : j = Ahead(i)) \in 1 .. n BY <2>1, Zenon
    <3>2. 1 .. n \subseteq 1 .. Len(packet) BY <1>2
    <3>3. packet[CHOOSE i \in 1 .. n : j = Ahead(i)] \in Byte BY <1>2, <3>1, <3>2, Zenon
    <3> QED BY <2>1, <3>3, Zenon
  <2>2. CASE ~\E i \in 1 .. n : j = Ahead(i) BY <1>3, <2>2, Zenon
  <2> QED BY <2>1, <2>2
<1>5. Written(packet, n) \in [Index -> Byte \cup {0}] BY <1>4, Zenon DEF Written
<1> QED BY <1>1, <1>5

\* The zeroed ring of boot satisfies the invariant.
LEMMA InitInv == Init => RingInv
<1> SUFFICES ASSUME Init PROVE RingInv OBVIOUS
<1>1. 0 \in Index /\ 0 \in 0 .. BufLen BY SizeAssumption DEF Index
<1>2. RxBuf \in [Index -> Byte \cup {0}] BY DEF Init
<1>3. result \in [data : Byte \cup {0, NO_DATA}, error : {0, BUFFER_OVERFLOW}] BY DEF Init
<1> QED BY <1>1, <1>2, <1>3 DEF Init, RingInv, RingTypeOK, InGetc

\* Every step keeps it, an interrupt between any two statements of the consumer included.
LEMMA StepInv == RingInv /\ [Next]_vars => RingInv'
<1> SUFFICES ASSUME RingInv, [Next]_vars PROVE RingInv' OBVIOUS
<1> USE SizeAssumption DEF RingInv, RingTypeOK, InGetc, Goto, Idle, ring
<1>1. CASE OTG_FS_Handler
  <2>1. PICK packet \in Packet : cdc_loopback(packet) BY <1>1 DEF OTG_FS_Handler
  <2>2. RxHead' \in Index /\ RxBuf' \in [Index -> Byte \cup {0}] BY <2>1, LoopbackType
  <2>3. LastRxError' \in {0, BUFFER_OVERFLOW} BY <2>1 DEF cdc_loopback
  <2>4. UNCHANGED <<RxTail, rpc, booted, count, result>> BY <2>1 DEF cdc_loopback
  <2>5. rpc = "tail" => RxHead' # RxTail
    <3>1. PICK n \in 0 .. Len(packet) : Gap(RxHead', RxTail) = Gap(RxHead, RxTail) + n
      BY <2>1, LoopbackStep
    <3>2. Len(packet) \in Nat /\ n \in Nat BY PacketType
    <3> QED BY <2>2, <3>1, <3>2, GapIsMod
  <2> QED BY <2>2, <2>3, <2>4, <2>5
<1>2. CASE MainButton BY <1>2 DEF MainButton
<1>3. CASE Reader
  <2>1. CASE MainPoll BY <2>1 DEF MainPoll
  <2>2. CASE MainTest BY <2>2 DEF MainTest
  <2>3. CASE ShellPoll BY <2>3 DEF ShellPoll
  <2>4. CASE ShellRead BY <2>4 DEF ShellRead
  <2>5. CASE ShellLine BY <2>5 DEF ShellLine
  <2>6. CASE ReadNext BY <2>6 DEF ReadNext
  <2>7. CASE GetcEmpty BY <2>7 DEF GetcEmpty
  <2>8. CASE GetcSome BY <2>8 DEF GetcSome
  <2>9. CASE GetcTail
    <3>1. RxTail' \in Index
      <4>1. RxTail + 1 \in 0 .. 2 * Size - 1 BY DEF Index
      <4> QED BY <2>9, <4>1, WrapIsMod DEF GetcTail, After
    <3> QED BY <2>9, <3>1 DEF GetcTail
  <2>10. CASE GetcData BY <2>10 DEF GetcData
  <2>11. CASE GetcError BY <2>11 DEF GetcError
  <2> QED BY <1>3, <2>1, <2>2, <2>3, <2>4, <2>5, <2>6, <2>7, <2>8, <2>9, <2>10, <2>11 DEF Reader
<1>4. CASE UNCHANGED vars BY <1>4 DEF vars
<1> QED BY <1>1, <1>2, <1>3, <1>4 DEF Next

\* The types of the ring and of its readers, and what the reader knows between its
\* loads: a tail about to move has a byte before it (usb_getc, usb_cdc_api.c), and
\* readBytes never asks for a byte it has no room for.
THEOREM RingTypeCorrect == Spec => []RingInv
BY InitInv, StepInv, PTL DEF Spec

-----------------------------------------------------------------------------
(* The ring implements the queue.                                          *)

\* What the reader has got, as the mapping of FifoSpec sees it.
Got == IF rpc = "data" THEN RxBuf[RxTail] ELSE result.data

\* The slots after a tail hold a sequence of bytes.
LEMMA SlotsAreBytes ==
  ASSUME NEW tail \in Index, NEW n \in 0 .. Size - 1, NEW buf \in [Index -> Byte \cup {0}]
  PROVE  [i \in 1 .. n |-> buf[(tail + i) % Size]] \in Seq(Byte \cup {0})
<1>1. n \in Nat BY SizeAssumption
<1>2. ASSUME NEW i \in 1 .. n PROVE (tail + i) % Size \in Index
  <2>1. tail + i \in 0 .. 2 * Size - 1 BY SizeAssumption DEF Index
  <2> QED BY <2>1, WrapIsMod
<1>3. [i \in 1 .. n |-> buf[(tail + i) % Size]] \in [1 .. n -> Byte \cup {0}] BY <1>2, Zenon
<1> QED BY <1>1, <1>3

\* The mapping's queue, without the remainder in its length.
LEMMA UnreadIs ==
  ASSUME RxHead \in Index, RxTail \in Index
  PROVE  /\ Unread = [i \in 1 .. Gap(RxHead, RxTail) |-> RxBuf[(RxTail + i) % Size]]
         /\ Len(Unread) = Gap(RxHead, RxTail)
<1>1. (Size + RxHead - RxTail) % Size = Gap(RxHead, RxTail) /\ Gap(RxHead, RxTail) \in 0 .. Size - 1
  BY GapIsMod
<1>2. Gap(RxHead, RxTail) \in Nat BY <1>1, SizeAssumption
<1>3. Unread = [i \in 1 .. Gap(RxHead, RxTail) |-> RxBuf[(RxTail + i) % Size]] BY <1>1 DEF Unread
<1> QED BY <1>2, <1>3

\* A packet whose first n bytes are stored is, to the queue, a packet of at most
\* Capacity bytes: the rest cannot make a difference.
LEMMA LoopbackReceives ==
  ASSUME RingInv, RingInv', NEW packet \in Packet, cdc_loopback(packet)
  PROVE  \E p \in F!Packet : F!Receive(p)
<1> DEFINE gap == Gap(RxHead, RxTail)
           len == IF Len(packet) <= Size - 1 THEN Len(packet) ELSE Size - 1
           p == [i \in 1 .. len |-> packet[i]]
<1>1. RxHead \in Index /\ RxTail \in Index /\ RxTail' = RxTail /\ RxHead' \in Index
  BY DEF RingInv, RingTypeOK, cdc_loopback
<1>2. Size \in Nat /\ Size > 1 BY SizeAssumption
<1>3. Len(packet) \in Nat /\ Len(packet) >= 1 /\ packet \in [1 .. Len(packet) -> Byte]
  BY PacketType, SizeAssumption
<1>4. PICK n \in 0 .. Len(packet) :
        /\ gap + n < Size
        /\ n < Len(packet) => gap + n + 1 = Size
        /\ Gap(RxHead', RxTail) = gap + n
        /\ RxBuf' = Written(packet, n)
  BY LoopbackStep
<1>5. gap \in 0 .. Size - 1 BY <1>1, GapIsMod
<1> HIDE DEF gap
<1>6. len \in 1 .. Size - 1 /\ len <= Len(packet) /\ len \in Nat BY <1>2, <1>3
<1>7. p \in F!Packet /\ Len(p) = len
  <2>1. p \in [1 .. len -> Byte] BY <1>3, <1>6
  <2> HIDE DEF p
  <2>2. Len(p) = len BY <1>6, <2>1
  <2> HIDE DEF len
  <2> QED BY <1>6, <2>1, <2>2 DEF F!Packet
<1>8. n <= len /\ n \in Nat /\ n = (IF len <= Size - 1 - gap THEN len ELSE Size - 1 - gap)
  <2>1. Len(packet) \in Nat /\ Len(packet) >= 1 BY <1>3
  <2>2. gap + n < Size /\ (n < Len(packet) => gap + n + 1 = Size) /\ n \in 0 .. Len(packet) BY <1>4
  <2> HIDE DEF p
  <2>3. len = Len(packet) \/ (len = Size - 1 /\ len < Len(packet)) BY <1>2, <2>1
  <2> HIDE DEF len
  <2> QED BY <1>2, <1>5, <1>6, <2>1, <2>2, <2>3
<1>9. Unread' = [i \in 1 .. gap + n |-> IF i <= gap THEN Unread[i] ELSE p[i - gap]]
  <2>1. Unread' = [i \in 1 .. gap + n |-> RxBuf'[(RxTail + i) % Size]]
    BY <1>1, <1>4, UnreadIs, GapIsMod DEF Unread
  <2>2. ASSUME NEW i \in 1 .. gap + n
        PROVE  RxBuf'[(RxTail + i) % Size] = IF i <= gap THEN Unread[i] ELSE p[i - gap]
    <3>1. /\ \A k \in 0 .. gap : RxBuf'[(RxTail + k) % Size] = RxBuf[(RxTail + k) % Size]
          /\ \A k \in 1 .. n : RxBuf'[(RxTail + (gap + k)) % Size] = packet[k]
      BY <1>1, <1>4, <1>8, StoredBehind DEF gap
    <3>2. CASE i <= gap
      <4>1. i \in 0 .. gap /\ i \in 1 .. gap BY <1>4, <1>5, <1>8, <3>2
      <4>2. Unread[i] = RxBuf[(RxTail + i) % Size] BY <1>1, <4>1, UnreadIs DEF gap
      <4> QED BY <3>1, <3>2, <4>1, <4>2
    <3>3. CASE ~(i <= gap)
      <4>1. i - gap \in 1 .. n /\ i - gap \in 1 .. len /\ gap + (i - gap) = i
        BY <1>2, <1>5, <1>6, <1>8, <3>3
      <4>2. RxBuf'[(RxTail + i) % Size] = packet[i - gap] BY <3>1, <4>1
      <4> QED BY <3>3, <4>1, <4>2
    <3> QED BY <3>2, <3>3
  <2> HIDE DEF p
  <2> QED BY <2>1, <2>2, Zenon
<1>10. Unread \in Seq(Byte \cup {0}) /\ Len(Unread) = gap /\ Unread' \in Seq(Byte \cup {0})
  <2>1. RxBuf \in [Index -> Byte \cup {0}] /\ RxBuf' \in [Index -> Byte \cup {0}]
    BY DEF RingInv, RingTypeOK
  <2>2. Unread' \in Seq(Byte \cup {0})
    <3>1. (Size + RxHead' - RxTail') % Size \in 0 .. Size - 1 BY <1>1, GapIsMod
    <3> QED BY <1>1, <2>1, <3>1, SlotsAreBytes DEF Unread
  <2>3. Unread \in Seq(Byte \cup {0})
    <3>1. (Size + RxHead - RxTail) % Size \in 0 .. Size - 1 BY <1>1, GapIsMod
    <3> QED BY <1>1, <2>1, <3>1, SlotsAreBytes DEF Unread
  <2> QED BY <1>1, <2>2, <2>3, UnreadIs DEF gap
<1>11. Unread' = Unread \o SubSeq(p, 1, n)
  <2>1. p \in [1 .. len -> Byte] BY <1>3, <1>6
  <2> HIDE DEF p, len
  <2> DEFINE kept == SubSeq(p, 1, n)
  <2>2. kept \in Seq(Byte \cup {0}) /\ Len(kept) = n /\ \A i \in 1 .. n : kept[i] = p[i]
    <3>1. \A i \in 1 .. n : p[i] \in Byte \cup {0} BY <1>6, <1>8, <2>1
    <3>2. /\ kept \in Seq(Byte \cup {0})
          /\ Len(kept) = IF 1 <= n THEN n - 1 + 1 ELSE 0
          /\ \A i \in 1 .. n - 1 + 1 : kept[i] = p[1 + i - 1]
      BY <1>8, <3>1, SubSeqProperties
    <3> QED BY <1>8, <3>2
  <2> HIDE DEF kept
  <2>3. /\ Unread \o kept \in Seq(Byte \cup {0})
        /\ Len(Unread \o kept) = gap + n
        /\ \A i \in 1 .. gap + n : (Unread \o kept)[i] = IF i <= gap THEN Unread[i] ELSE kept[i - gap]
    BY <1>10, <2>2, ConcatProperties
  <2>4. gap + n \in Nat BY <1>2, <1>5, <1>8
  <2>5. Len(Unread') = gap + n BY <1>9, <2>4
  <2>6. ASSUME NEW i \in 1 .. gap + n PROVE Unread'[i] = (Unread \o kept)[i]
    <3>1. Unread'[i] = IF i <= gap THEN Unread[i] ELSE p[i - gap] BY <1>9
    <3>2. ~(i <= gap) => i - gap \in 1 .. n BY <1>2, <1>5, <1>8
    <3> QED BY <2>2, <2>3, <3>1, <3>2
  <2>7. Unread' = Unread \o kept BY <1>10, <2>3, <2>5, <2>6, SeqEqual
  <2> QED BY <2>7 DEF kept
<1>12. Got' = Got
  <2>1. RxTail = (RxTail + 0) % Size
    <3>1. RxTail + 0 \in 0 .. 2 * Size - 1 /\ Wrap(RxTail + 0) = RxTail
      BY <1>1, <1>2 DEF Index, Wrap
    <3> QED BY <3>1, WrapIsMod
  <2>2. RxBuf'[RxTail] = RxBuf[RxTail]
    <3>1. 0 \in 0 .. gap BY <1>2, <1>5
    <3>2. RxBuf'[(RxTail + 0) % Size] = RxBuf[(RxTail + 0) % Size]
      BY <1>1, <1>4, <1>8, <3>1, StoredBehind DEF gap
    <3> QED BY <2>1, <3>2
  <2> QED BY <1>1, <2>2 DEF Got, cdc_loopback
<1>13. F!Receive(p)
  <2> HIDE DEF p, len
  <2> QED BY <1>7, <1>8, <1>10, <1>11, <1>12 DEF F!Receive, Got
<1> QED BY <1>7, <1>13, Zenon

\* Moving the tail over a byte takes it: the reader has the byte although it reads the
\* slot one step later.
LEMMA TailTakes ==
  ASSUME RingInv, GetcTail
  PROVE  F!Take
<1> DEFINE gap == Gap(RxHead, RxTail)
           Value == Byte \cup {0}
<1>1. /\ RxHead \in Index /\ RxTail \in Index /\ RxBuf \in [Index -> Value]
      /\ RxHead' = RxHead /\ RxBuf' = RxBuf /\ RxTail' = After(RxTail)
      /\ rpc = "tail" /\ rpc' = "data" /\ RxHead # RxTail
  BY DEF RingInv, RingTypeOK, GetcTail, Goto
<1>2. Size \in Nat /\ Size > 1 BY SizeAssumption
<1>3. gap \in 1 .. Size - 1 /\ RxHead = Wrap(RxTail + gap) BY <1>1, <1>2, GapIsMod
<1> HIDE DEF gap
<1>4. RxTail' = Wrap(RxTail + 1) /\ RxTail' \in Index
  <2>1. RxTail + 1 \in 0 .. 2 * Size - 1 BY <1>1, <1>2 DEF Index
  <2> QED BY <1>1, <2>1, WrapIsMod DEF After
<1>5. Gap(RxHead', RxTail') = gap - 1
  <2>1. gap - 1 \in 0 .. Size - 1 /\ 1 + (gap - 1) = gap /\ 1 + (gap - 1) <= Size BY <1>2, <1>3
  <2>2. RxHead = Wrap(RxTail' + (gap - 1)) BY <1>1, <1>2, <1>3, <1>4, <2>1, WrapAdds
  <2> QED BY <1>1, <1>4, <2>1, <2>2, GapOfWrap
<1>6. ASSUME NEW i \in 0 .. gap - 1 PROVE (RxTail' + i) % Size = (RxTail + (i + 1)) % Size
  <2>1. RxTail' + i \in 0 .. 2 * Size - 1 /\ RxTail + (i + 1) \in 0 .. 2 * Size - 1
    BY <1>1, <1>2, <1>3, <1>4 DEF Index
  <2>2. 1 \in Nat /\ i \in Nat /\ 1 + i <= Size /\ 1 + i = i + 1 BY <1>2, <1>3
  <2>3. Wrap(Wrap(RxTail + 1) + i) = Wrap(RxTail + (i + 1)) BY <1>1, <2>2, WrapAdds
  <2> QED BY <1>4, <2>1, <2>3, WrapIsMod
<1>7. Unread = [i \in 1 .. gap |-> RxBuf[(RxTail + i) % Size]] /\ Len(Unread) = gap
  BY <1>1, UnreadIs DEF gap
<1>8. Unread' = [i \in 1 .. gap - 1 |-> RxBuf[(RxTail' + i) % Size]]
  BY <1>1, <1>4, <1>5, GapIsMod DEF Unread
<1>9. Unread \in Seq(Value) /\ Unread' \in Seq(Value)
  <2>1. gap \in 0 .. Size - 1 /\ gap - 1 \in 0 .. Size - 1 BY <1>2, <1>3
  <2> QED BY <1>1, <1>4, <1>7, <1>8, <2>1, SlotsAreBytes
<1>10. Unread # <<>> BY <1>3, <1>7, <1>9
<1>11. Head(Unread) = RxBuf[RxTail']
  <2>1. 1 \in 1 .. gap /\ 0 \in 0 .. gap - 1 BY <1>2, <1>3
  <2>2. Unread[1] = RxBuf[(RxTail + 1) % Size] BY <1>7, <2>1
  <2>3. (RxTail + 1) % Size = RxTail' BY <1>1 DEF After
  <2> QED BY <1>9, <1>10, <2>2, <2>3
<1>12. Unread' = Tail(Unread)
  <2>1. gap - 1 \in Nat BY <1>2, <1>3
  <2>2. /\ Tail(Unread) \in Seq(Value) /\ Len(Tail(Unread)) = gap - 1
        /\ \A i \in 1 .. gap - 1 : Tail(Unread)[i] = Unread[i + 1]
    BY <1>7, <1>9, <1>10, HeadTailProperties
  <2>3. Len(Unread') = gap - 1 BY <1>8, <2>1
  <2>4. ASSUME NEW i \in 1 .. gap - 1 PROVE Unread'[i] = Tail(Unread)[i]
    <3>1. i \in 0 .. gap - 1 /\ i + 1 \in 1 .. gap BY <1>2, <1>3
    <3>2. Unread'[i] = RxBuf[(RxTail' + i) % Size] BY <1>8
    <3>3. Unread[i + 1] = RxBuf[(RxTail + (i + 1)) % Size] BY <1>7, <3>1
    <3> QED BY <1>6, <2>2, <3>1, <3>2, <3>3
  <2> QED BY <1>9, <2>2, <2>3, <2>4, SeqEqual
<1>13. Got' = RxBuf[RxTail'] BY <1>1 DEF Got
<1> QED BY <1>10, <1>11, <1>12, <1>13 DEF F!Take, Got

\* An empty ring is an empty queue.
LEMMA EmptyTakesNothing ==
  ASSUME RingInv, GetcEmpty
  PROVE  F!TakeNothing
<1>1. RxHead \in Index /\ RxTail \in Index /\ RxHead = RxTail BY DEF RingInv, RingTypeOK, GetcEmpty
<1>2. Gap(RxHead, RxTail) = 0 BY <1>1, GapIsMod
<1>3. Unread = <<>> BY <1>1, <1>2, UnreadIs
<1>4. Unread' = Unread BY DEF GetcEmpty, ring, Unread
<1>5. Got' = NO_DATA BY DEF GetcEmpty, Goto, RingInv, RingTypeOK, Got
<1> QED BY <1>3, <1>4, <1>5 DEF F!TakeNothing, Got

\* The other steps of the readers change neither what is unread nor what was taken.
LEMMA ReaderStutters ==
  ASSUME RingInv,
         \/ MainButton \/ MainPoll \/ MainTest \/ ShellPoll \/ ShellRead \/ ShellLine \/ ReadNext
         \/ GetcSome \/ GetcData \/ GetcError \/ UNCHANGED vars
  PROVE  Unread' = Unread /\ Got' = Got
<1>1. Unread' = Unread
  <2>1. UNCHANGED ring
    BY DEF MainButton, MainPoll, MainTest, ShellPoll, ShellRead, ShellLine, ReadNext, GetcSome,
           GetcData, GetcError, vars, Idle
  <2> QED BY <2>1 DEF ring, Unread
<1>2. Got' = Got
  <2> USE DEF Got, Goto, Idle, ring, RingInv, RingTypeOK
  <2>1. CASE GetcData BY <2>1 DEF GetcData
  <2>2. CASE GetcError BY <2>2 DEF GetcError
  <2>3. CASE UNCHANGED vars BY <2>3 DEF vars
  <2>4. CASE MainButton \/ MainPoll \/ MainTest \/ ShellPoll
    BY <2>4 DEF MainButton, MainPoll, MainTest, ShellPoll
  <2>5. CASE ShellRead \/ ShellLine \/ ReadNext \/ GetcSome
    BY <2>5 DEF ShellRead, ShellLine, ReadNext, GetcSome
  <2> QED BY <2>1, <2>2, <2>3, <2>4, <2>5
<1> QED BY <1>1, <1>2

\* Every step of the ring is a step of the FIFO or leaves it as it is.
LEMMA StepRefines == RingInv /\ RingInv' /\ [Next]_vars => [F!Next]_<<Unread, Got>>
<1> SUFFICES ASSUME RingInv, RingInv', [Next]_vars PROVE F!Next \/ UNCHANGED <<Unread, Got>>
  OBVIOUS
<1>1. CASE OTG_FS_Handler
  <2>1. PICK packet \in Packet : cdc_loopback(packet) BY <1>1 DEF OTG_FS_Handler
  <2>2. \E p \in F!Packet : F!Receive(p) BY <2>1, LoopbackReceives
  <2> QED BY <2>2 DEF F!Next
<1>2. CASE GetcTail BY <1>2, TailTakes DEF F!Next
<1>3. CASE GetcEmpty BY <1>3, EmptyTakesNothing DEF F!Next
<1>4. CASE ~OTG_FS_Handler /\ ~GetcTail /\ ~GetcEmpty
  BY <1>4, ReaderStutters DEF Next, Reader
<1> QED BY <1>1, <1>2, <1>3, <1>4

\* An empty ring is an empty FIFO.
LEMMA InitRefines == Init => F!Init
<1> SUFFICES ASSUME Init PROVE F!Init OBVIOUS
<1>1. 0 \in Index /\ RxHead = 0 /\ RxTail = 0 BY SizeAssumption DEF Init, Index
<1>2. Unread = <<>> BY <1>1, UnreadIs, GapIsMod
<1>3. Got = NO_DATA BY DEF Init, Got
<1> QED BY <1>2, <1>3 DEF F!Init, Got

\* cdc_loopback and usb_getc (usb_cdc_api.c) together are a queue of Size - 1 bytes: for
\* every size of the ring and of a packet, the bytes of the host reach the readers once
\* and in order, and only the end of a packet that does not fit is lost.
THEOREM RingImplementsFifo == Spec => FifoSpec
<1>1. F!Spec <=> F!Init /\ [][F!Next]_<<Unread, Got>> BY DEF F!Spec, Got
<1> QED BY <1>1, InitRefines, StepRefines, RingTypeCorrect, PTL DEF Spec, FifoSpec
=============================================================================
