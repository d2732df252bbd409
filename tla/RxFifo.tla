------------------------------- MODULE RxFifo -------------------------------
(***************************************************************************)
(* What the receive ring promises: the bytes of the host arrive once and   *)
(* in order; what does not fit any more is lost from the end of a packet.  *)
(***************************************************************************)
EXTENDS Integers, Sequences

CONSTANTS Byte, NoData, Capacity

VARIABLES
  queue,   \* the bytes received and not yet taken
  data     \* what was taken last

Init == queue = <<>> /\ data = NoData

\* The whole packet, or as much of it as fits.
Receive(packet) ==
  LET room == Capacity - Len(queue)
      kept == IF Len(packet) <= room THEN Len(packet) ELSE room IN
  /\ queue' = queue \o SubSeq(packet, 1, kept)
  /\ UNCHANGED data

Take == queue # <<>> /\ data' = Head(queue) /\ queue' = Tail(queue)
TakeNothing == queue = <<>> /\ data' = NoData /\ UNCHANGED queue

\* A packet is worth what fits: Capacity bytes at most make a difference.
Packet == UNION {[1 .. n -> Byte] : n \in 1 .. Capacity}

Next == (\E packet \in Packet : Receive(packet)) \/ Take \/ TakeNothing

Spec == Init /\ [][Next]_<<queue, data>>
=============================================================================
