---------------------------- MODULE UsbDeviceProofs ----------------------------
(***************************************************************************)
(* Theorems about UsbDevice for every set of control requests, packet size *)
(* and buffer size: the types, that the host never gets an answer that is  *)
(* not the whole answer to its request, that no request the device knows   *)
(* is stalled, and that a configured device listens.                       *)
(***************************************************************************)
EXTENDS UsbDevice, SequenceTheorems, TLAPS

-----------------------------------------------------------------------------
(* Types.                                                                  *)

EntryType == [ep : {0, 1}, kind : {"setup", "out", "completed"}, n : Nat,
              req : Request \cup {NoRequest}]
UnitType == [req : Request \cup {NoRequest}, at : Nat]

\* The types of the FIFOs and of the host, on top of those UsbTypeOK lists.
TypeInv ==
  /\ UsbTypeOK
  /\ rx \in Seq(EntryType) /\ txFifo \in Seq(UnitType)
  /\ \A i \in DOMAIN rx : rx[i].kind = "setup" => rx[i].ep = 0 /\ rx[i].req \in Request
  /\ ask \in Request \cup {NoRequest} /\ done \in Nat
  /\ phase = "dataout" => done < ask.wLength

\* What is known of a request, the empty one among them.
LEMMA RequestFields ==
  ASSUME NEW r \in Request \cup {NoRequest}
  PROVE  /\ r.in \in BOOLEAN /\ r.wLength \in Nat /\ r.n \in Nat /\ Answer(r) \in Nat
         /\ r.kind \in {"data", "buffer", "ack", "address", "config", "fail"}
         /\ r.kind = "config" => r.n \in {0, 1}
<1>1. r \in RequestType
  <2>1. NoRequest \in RequestType
    BY DEF RequestType, NoRequest
  <2>2. QED
    BY <2>1, RequestAssumption
<1>2. r.kind = "config" => r.n \in {0, 1}
  BY RequestAssumption DEF NoRequest
<1>3. /\ r.in \in BOOLEAN /\ r.wLength \in Nat /\ r.n \in Nat
      /\ r.kind \in {"data", "buffer", "ack", "address", "config", "fail"}
  BY <1>1 DEF RequestType
<1>4. Answer(r) \in Nat
  BY <1>3, SizeAssumption DEF Answer
<1>5. QED
  BY <1>2, <1>3, <1>4

\* A packet is at most EP0Size long, and shorter only when it is the rest.
LEMMA LesserFits ==
  ASSUME NEW a \in Nat
  PROVE  /\ Lesser(a, EP0Size) \in Nat /\ Lesser(a, EP0Size) <= a /\ Lesser(a, EP0Size) <= EP0Size
         /\ Lesser(a, EP0Size) < EP0Size => Lesser(a, EP0Size) = a
         /\ a > 0 => Lesser(a, EP0Size) > 0
  BY SizeAssumption DEF Lesser

\* The units of a packet.
LEMMA UnitsLength ==
  ASSUME NEW r \in Request \cup {NoRequest}, NEW a \in Nat, NEW b \in Nat, a <= b
  PROVE  /\ Units(r, a, b) \in Seq(UnitType) /\ Len(Units(r, a, b)) = b - a
         /\ DOMAIN Units(r, a, b) = 1 .. b - a
<1> DEFINE f(i) == [req |-> r, at |-> a + i - 1]
           u == Units(r, a, b)
<1>1. b - a \in Nat
  OBVIOUS
<1>2. \A i \in 1 .. b - a : f(i) \in UnitType
  BY DEF UnitType
<1>3. u = [i \in 1 .. b - a |-> f(i)]
  BY DEF Units
<1>4. DOMAIN u = 1 .. b - a /\ u \in [1 .. b - a -> UnitType]
  BY <1>2, <1>3
<1> HIDE DEF f, u
<1>5. u \in Seq(UnitType) /\ Len(u) = b - a
  BY <1>1, <1>4, SeqDef, LenProperties
<1>6. QED
  BY <1>4, <1>5 DEF u

\* Two entries behind the receive FIFO.
LEMMA AppendTwo ==
  ASSUME NEW S, NEW q \in Seq(S), NEW e \in S, NEW f \in S
  PROVE  /\ q \o <<e, f>> \in Seq(S) /\ Len(q \o <<e, f>>) = Len(q) + 2 /\ Len(q) \in Nat
         /\ DOMAIN q = 1 .. Len(q) /\ DOMAIN (q \o <<e, f>>) = 1 .. Len(q) + 2
         /\ \A i \in 1 .. Len(q) : (q \o <<e, f>>)[i] = q[i]
         /\ (q \o <<e, f>>)[Len(q) + 1] = e /\ (q \o <<e, f>>)[Len(q) + 2] = f
<1> DEFINE t == <<e, f>>
           c == q \o t
<1>1. t \in Seq(S) /\ Len(t) = 2 /\ t[1] = e /\ t[2] = f
  OBVIOUS
<1> HIDE DEF t
<1>2. /\ c \in Seq(S) /\ Len(c) = Len(q) + 2 /\ Len(q) \in Nat
      /\ \A i \in 1 .. Len(q) + 2 : c[i] = IF i <= Len(q) THEN q[i] ELSE t[i - Len(q)]
  <2>1. /\ c \in Seq(S) /\ Len(c) = Len(q) + Len(t)
        /\ \A i \in 1 .. Len(q) + Len(t) : c[i] = IF i <= Len(q) THEN q[i] ELSE t[i - Len(q)]
    BY <1>1, ConcatProperties
  <2>2. Len(q) \in Nat
    BY LenProperties
  <2> HIDE DEF c
  <2>3. QED
    BY <1>1, <2>1, <2>2
<1>3. DOMAIN q = 1 .. Len(q) /\ DOMAIN c = 1 .. Len(q) + 2
  BY <1>2, LenProperties
<1> HIDE DEF c
<1> DEFINE n == Len(q)
<1> HIDE DEF n
<1>4. \A i \in 1 .. n : i \in 1 .. n + 2 /\ i <= n
  <2>1. n \in Nat
    BY <1>2 DEF n
  <2>2. QED
    BY <2>1
<1>5. \A i \in 1 .. Len(q) : c[i] = q[i]
  BY <1>2, <1>4 DEF n
<1>6. /\ Len(q) + 1 \in 1 .. Len(q) + 2 /\ Len(q) + 2 \in 1 .. Len(q) + 2
      /\ ~ (Len(q) + 1 <= Len(q)) /\ ~ (Len(q) + 2 <= Len(q))
      /\ Len(q) + 1 - Len(q) = 1 /\ Len(q) + 2 - Len(q) = 2
  BY <1>2
<1>7. c[Len(q) + 1] = t[1] /\ c[Len(q) + 2] = t[2]
  BY <1>2, <1>6
<1>8. QED
  BY <1>1, <1>2, <1>3, <1>5, <1>7 DEF c, t

\* The receive FIFO without its first entry.
LEMMA PopOne ==
  ASSUME NEW S, NEW q \in Seq(S), q # <<>>
  PROVE  /\ Tail(q) \in Seq(S) /\ Len(q) \in Nat \ {0} /\ Len(Tail(q)) = Len(q) - 1
         /\ DOMAIN q = 1 .. Len(q) /\ DOMAIN Tail(q) = 1 .. Len(q) - 1
         /\ \A i \in 1 .. Len(q) - 1 : Tail(q)[i] = q[i + 1] /\ i + 1 \in 1 .. Len(q)
         /\ Head(q) = q[1] /\ Head(q) \in S /\ 1 \in DOMAIN q
<1>1. /\ Head(q) \in S /\ Tail(q) \in Seq(S) /\ Len(q) \in Nat \ {0}
      /\ Len(Tail(q)) = Len(q) - 1
      /\ \A i \in 1 .. Len(Tail(q)) : Tail(q)[i] = q[i + 1]
      /\ Head(q) = q[1]
  BY HeadTailProperties, EmptySeq, LenProperties, ElementOfSeq
<1>2. DOMAIN q = 1 .. Len(q) /\ DOMAIN Tail(q) = 1 .. Len(Tail(q))
  BY <1>1, LenProperties
<1>3. QED
  BY <1>1, <1>2

\* The part of the types that the device writes, and the part it does not.
DeviceType ==
  /\ control_state \in ControlState /\ device_state \in DeviceState
  /\ req \in Request \cup {NoRequest} /\ data_ptr \in Nat /\ data_count \in Nat
  /\ loopback \in BOOLEAN /\ active \in BOOLEAN /\ txPending \in BOOLEAN
  /\ accepts \subseteq {0, 1} /\ armed \subseteq {0, 1} /\ stalled \subseteq {"in", "out"}
  /\ txSize \in 0 .. EP0Size /\ txFifo \in Seq(UnitType)
RestType ==
  /\ xfrc \subseteq {0, 1} /\ bus \in {"up", "reset", "enumerated"}
  /\ phase \in {"idle", "datain", "dataout", "statusin", "statusout"}
  /\ outcome \in {"none", "ok", "stalled", "garbled", "cut", "gaveup", "reset"}
  /\ ask \in Request \cup {NoRequest} /\ done \in Nat
  /\ phase = "dataout" => done < ask.wLength
RxType ==
  /\ rx \in Seq(EntryType)
  /\ \A i \in DOMAIN rx : rx[i].kind = "setup" => rx[i].ep = 0 /\ rx[i].req \in Request

\* The types are these three parts.
LEMMA TypeParts ==
  ASSUME TypeInv
  PROVE  DeviceType /\ RestType /\ RxType
  BY DEF TypeInv, UsbTypeOK, DeviceType, RestType, RxType

\* And so are those of the next state.
LEMMA TypeJoin ==
  ASSUME DeviceType', RestType', RxType'
  PROVE  TypeInv'
  BY DEF TypeInv, UsbTypeOK, DeviceType, RestType, RxType

\* What SendData leaves: the next packet of the answer behind the queue, and the rest.
LEMMA SendDataEffect ==
  ASSUME NEW r \in Request \cup {NoRequest}, NEW state, NEW from \in Nat, NEW count \in Nat,
         NEW queue \in Seq(UnitType), SendData(r, state, from, count, queue),
         NEW sent, sent = Lesser(count, EP0Size)
  PROVE  /\ sent \in 0 .. EP0Size /\ sent <= count /\ (sent < EP0Size => sent = count)
         /\ txFifo' = queue \o Units(r, from, from + sent) /\ txFifo' \in Seq(UnitType)
         /\ txSize' = sent /\ txPending' = TRUE
         /\ stalled' = stalled \ {"in"} /\ armed' = armed \cup {0}
         /\ req' = r /\ data_ptr' = from + sent /\ data_count' = count - sent
         /\ data_ptr' \in Nat /\ data_count' \in Nat
         /\ control_state' = IF count = sent /\ NoZlp(state, sent) THEN "lastdata" ELSE state
         /\ UNCHANGED <<device_state, loopback, accepts, active>>
<1>1. sent \in Nat /\ sent <= count /\ sent <= EP0Size /\ (sent < EP0Size => sent = count)
  BY LesserFits
<1> DEFINE u == Units(r, from, from + sent)
<1>2. u \in Seq(UnitType) /\ Len(u) = sent
  <2> DEFINE to == from + sent
  <2>1. to \in Nat /\ from <= to /\ to - from = sent
    BY <1>1
  <2> HIDE DEF to
  <2>2. Units(r, from, to) \in Seq(UnitType) /\ Len(Units(r, from, to)) = sent
    BY <2>1, UnitsLength
  <2>3. QED
    BY <2>2 DEF to
<1>3. /\ txFifo' = queue \o u /\ txSize' = Len(u) /\ txPending' = TRUE
      /\ stalled' = stalled \ {"in"} /\ armed' = armed \cup {0}
      /\ req' = r /\ data_ptr' = from + sent /\ data_count' = count - sent
      /\ control_state' = IF count = sent /\ NoZlp(state, sent) THEN "lastdata" ELSE state
      /\ UNCHANGED <<device_state, loopback, accepts, active>>
  BY DEF SendData, ep_write, Buffer
<1> HIDE DEF u
<1>4. queue \o u \in Seq(UnitType)
  BY <1>2, ConcatProperties
<1>5. sent \in 0 .. EP0Size /\ from + sent \in Nat /\ count - sent \in Nat
  BY <1>1, SizeAssumption
<1>6. QED
  BY <1>1, <1>2, <1>3, <1>4, <1>5 DEF u

\* The answer to a request keeps the types.
LEMMA ReturnTypes ==
  ASSUME DeviceType, NEW r \in Request \cup {NoRequest}, NEW queue \in Seq(UnitType), ReturnData(r, queue)
  PROVE  DeviceType'
<1>1. PICK state \in {"txdata", "ztxdata"}, count \in Nat : SendData(r, state, 0, count, queue)
  BY RequestFields DEF ReturnData
<1>2. PICK sent : sent = Lesser(count, EP0Size)
  OBVIOUS
<1>3. /\ txSize' \in 0 .. EP0Size /\ txFifo' \in Seq(UnitType) /\ txPending' = TRUE
      /\ stalled' = stalled \ {"in"} /\ armed' = armed \cup {0}
      /\ req' = r /\ data_ptr' \in Nat /\ data_count' \in Nat
      /\ control_state' \in {"lastdata", "txdata", "ztxdata"}
      /\ UNCHANGED <<device_state, loopback, accepts, active>>
  BY <1>1, <1>2, SendDataEffect
<1>4. QED
  BY <1>3 DEF DeviceType, ControlState

\* So does the confirmation of one.
LEMMA ConfirmTypes ==
  ASSUME DeviceType, NEW r \in Request \cup {NoRequest}, NEW queue \in Seq(UnitType), Confirm(r, queue)
  PROVE  DeviceType'
<1>1. /\ txFifo' = queue \o <<>> /\ txSize' = 0 /\ txPending' = TRUE /\ stalled' = stalled \ {"in"}
      /\ control_state' = "statusin" /\ req' = r /\ data_ptr' = 0 /\ data_count' = MaxSize
  BY DEF Confirm, ep_write, Buffer
<1>2. txFifo' \in Seq(UnitType)
  BY <1>1, ConcatProperties, EmptySeq
<1>3. device_state' \in DeviceState
  BY DEF Confirm, Obey, DeviceType, DeviceState
<1>4. /\ loopback' \in BOOLEAN /\ active' \in BOOLEAN /\ accepts' \subseteq {0, 1}
      /\ armed' \subseteq {0, 1}
  <2>1. CASE r.kind = "config"
    <3>1. /\ loopback' = (r.n = 1) /\ active' = (r.n = 1)
          /\ accepts' \subseteq accepts \cup {1} /\ armed' = (armed \ {1}) \cup {0}
      BY <2>1 DEF Confirm, Obey
    <3>2. QED
      BY <3>1 DEF DeviceType
  <2>2. CASE r.kind # "config"
    BY <2>2 DEF Confirm, Obey, DeviceType
  <2>3. QED
    BY <2>1, <2>2
<1>5. 0 \in 0 .. EP0Size /\ "statusin" \in ControlState /\ MaxSize \in Nat
  BY SizeAssumption DEF ControlState
<1>6. stalled \ {"in"} \subseteq {"in", "out"}
  BY DEF DeviceType
<1>7. /\ control_state' \in ControlState /\ req' \in Request \cup {NoRequest}
      /\ data_ptr' \in Nat /\ data_count' \in Nat /\ txPending' \in BOOLEAN
      /\ stalled' \subseteq {"in", "out"} /\ txSize' \in 0 .. EP0Size
  BY <1>1, <1>5, <1>6
<1>8. QED
  BY <1>2, <1>3, <1>4, <1>7 DEF DeviceType

\* And so does all that the device does on a request.
LEMMA BeginTypes ==
  ASSUME DeviceType, NEW r \in Request \cup {NoRequest}, NEW queue \in Seq(UnitType),
         Begin(r, queue) \/ Process(r, queue)
  PROVE  DeviceType'
<1>1. MaxSize \in Nat /\ r.wLength \in Nat
  BY RequestFields, SizeAssumption
<1>2. ASSUME NEW n \in Nat, usbd_stall_pid(queue), Buffer(r, 0, n) PROVE DeviceType'
  BY <1>2 DEF usbd_stall_pid, Buffer, DeviceType, ControlState
<1>3. CASE Process(r, queue)
  BY <1>1, <1>2, <1>3, ReturnTypes, ConfirmTypes DEF Process
<1>4. CASE ~ Process(r, queue)
  <2>1. CASE control_state' = "rxdata"
    <3>1. /\ Buffer(r, 0, r.wLength) /\ txFifo' = queue
          /\ UNCHANGED <<device_state, loopback, txSize, txPending, armed, stalled, accepts, active>>
      BY <1>4, <2>1 DEF Begin, usbd_stall_pid
    <3>2. QED
      BY <1>1, <2>1, <3>1 DEF Buffer, DeviceType, ControlState
  <2>2. CASE control_state' # "rxdata"
    <3>1. usbd_stall_pid(queue) /\ Buffer(r, 0, r.wLength)
      BY <1>4, <2>2 DEF Begin
    <3>2. QED
      BY <1>1, <1>2, <3>1
  <2>3. QED
    BY <2>1, <2>2
<1>5. QED
  BY <1>3, <1>4

\* A move of the state machine that sends nothing.
LEMMA MovesTypes ==
  ASSUME DeviceType, NEW state \in ControlState, Moves(state)
  PROVE  DeviceType'
  BY DEF Moves, KeepsBuffer, DeviceType, ep0in

\* The receive FIFO keeps its type when an entry leaves it, and when two are received.
LEMMA RxTypes ==
  ASSUME RxType
  PROVE  /\ rx' = rx => RxType'
         /\ rx # <<>> /\ rx' = Tail(rx) => RxType'
         /\ rx' = <<>> => RxType'
<1>1. ASSUME rx # <<>>, rx' = Tail(rx) PROVE RxType'
  <2>1. /\ Tail(rx) \in Seq(EntryType) /\ DOMAIN Tail(rx) = 1 .. Len(rx) - 1
        /\ DOMAIN rx = 1 .. Len(rx)
        /\ \A i \in 1 .. Len(rx) - 1 : Tail(rx)[i] = rx[i + 1] /\ i + 1 \in 1 .. Len(rx)
    BY <1>1, PopOne DEF RxType
  <2>2. QED
    BY <1>1, <2>1 DEF RxType
<1>2. ASSUME rx' = <<>> PROVE RxType'
  BY <1>2, EmptySeq DEF RxType
<1>3. QED
  BY <1>1, <1>2 DEF RxType

\* And when the peripheral or the host writes two.
LEMMA RxAppendTypes ==
  ASSUME RxType, NEW e \in EntryType, NEW f \in EntryType, rx' = rx \o <<e, f>>,
         e.kind = "setup" => e.ep = 0 /\ e.req \in Request, f.kind # "setup"
  PROVE  RxType'
<1>1. /\ rx' \in Seq(EntryType) /\ DOMAIN rx = 1 .. Len(rx) /\ DOMAIN rx' = 1 .. Len(rx) + 2
      /\ \A i \in 1 .. Len(rx) : rx'[i] = rx[i]
      /\ rx'[Len(rx) + 1] = e /\ rx'[Len(rx) + 2] = f /\ Len(rx) \in Nat
  BY AppendTwo DEF RxType
<1>2. \A i \in 1 .. Len(rx) + 2 : i \in 1 .. Len(rx) \/ i = Len(rx) + 1 \/ i = Len(rx) + 2
  BY <1>1
<1>3. QED
  BY <1>1, <1>2 DEF RxType

\* The entries that the peripheral and the host write.
LEMMA EntryTypes ==
  /\ \A ep \in {0, 1}, n \in Nat : /\ Entry(ep, "out", n) \in EntryType
                                   /\ Entry(ep, "completed", n) \in EntryType
  /\ \A r \in Request : Setup(r) \in EntryType
  BY DEF Entry, Setup, EntryType

\* The steps of the host and of the peripheral keep the types.
LEMMA HostStepTypes ==
  ASSUME TypeInv,
         \/ HostGoesOn \/ HostReads \/ \E r \in Request : HostSetup(r)
         \/ HostEarly \/ HostGivesUp \/ BusReset \/ HostTypes \/ lib_putc
  PROVE  TypeInv'
<1>1. DeviceType /\ RestType /\ RxType
  BY TypeParts
<1>2. ASSUME UNCHANGED software PROVE
         UNCHANGED <<control_state, device_state, req, data_ptr, data_count, loopback>>
  BY <1>2 DEF software
<1>3. ASSUME NEW r \in Request, HostSetup(r) PROVE TypeInv'
  <2>1. /\ phase' \in {"statusin", "datain", "dataout"} /\ ask' = r /\ done' = 0 /\ outcome' = "none"
        /\ phase' = "dataout" => r.wLength # 0
        /\ accepts' = accepts \ {0} /\ armed' = armed \ {0} /\ stalled' = {}
        /\ UNCHANGED <<software, ep0in, xfrc, active, bus>>
    BY <1>3 DEF HostSetup
  <2>2. rx' = rx \o <<Setup(r), Entry(0, "completed", 0)>>
    BY <1>3 DEF HostSetup
  <2>3. DeviceType' /\ RestType'
    <3>1. r.wLength \in Nat
      BY RequestFields
    <3>2. RestType'
      BY <1>1, <2>1, <3>1 DEF RestType
    <3>3. DeviceType'
      BY <1>1, <2>1 DEF DeviceType, software, ep0in
    <3>4. QED
      BY <3>2, <3>3
  <2>4. RxType'
    <3>1. /\ Setup(r).ep = 0 /\ Setup(r).req = r /\ Entry(0, "completed", 0).kind = "completed"
      BY DEF Setup, Entry
    <3>2. QED
      BY <1>1, <2>2, <3>1, EntryTypes, RxAppendTypes
  <2>5. QED
    BY <2>3, <2>4, TypeJoin
<1>4. ASSUME Delivers, RestType' PROVE TypeInv'
  <2>1. SubSeq(txFifo, txSize + 1, Len(txFifo)) \in Seq(UnitType)
    <3>1. txFifo \in Seq(UnitType) /\ txSize + 1 \in Nat /\ Len(txFifo) \in Nat
          /\ \A i \in 1 .. Len(txFifo) : txFifo[i] \in UnitType
      BY <1>1, ElementOfSeq, LenProperties DEF DeviceType
    <3>2. \A i \in txSize + 1 .. Len(txFifo) : txFifo[i] \in UnitType
      BY <1>1, <3>1 DEF DeviceType
    <3>3. txSize + 1 \in Int /\ Len(txFifo) \in Int
      BY <3>1
    <3>4. QED
      BY <3>2, <3>3, SubSeqProperties
  <2>2. DeviceType'
    BY <1>1, <1>4, <2>1 DEF Delivers, DeviceType, software
  <2>3. RxType'
    BY <1>1, <1>4, RxTypes DEF Delivers
  <2>4. QED
    BY <1>4, <2>2, <2>3, TypeJoin
<1>5. CASE HostDataIn
  <2>1. /\ Delivers /\ phase' \in {"idle", "statusout", phase} /\ phase = "datain"
        /\ outcome' \in {"garbled", outcome}
    BY <1>5 DEF HostDataIn
  <2>2. done' = done + Len(Sent) /\ ask' = ask
    BY <1>5 DEF HostDataIn
  <2>3. xfrc' = xfrc \cup {0} /\ bus' = bus
    BY <2>1 DEF Delivers
  <2>4. Len(Sent) \in Nat
    <3>1. txFifo \in Seq(UnitType) /\ txSize \in Nat /\ Len(txFifo) \in Nat
          /\ \A i \in 1 .. Len(txFifo) : txFifo[i] \in UnitType
      BY <1>1, ElementOfSeq, LenProperties DEF DeviceType
    <3>2. QED
      BY <3>1, SubSeqProperties DEF Sent
  <2>5. RestType'
    BY <1>1, <2>1, <2>2, <2>3, <2>4 DEF RestType
  <2>6. QED
    BY <1>4, <2>1, <2>5
<1>6. CASE HostStatusIn
  <2>1. Delivers /\ RestType'
    BY <1>1, <1>6 DEF HostStatusIn, Ends, Delivers, RestType
  <2>2. QED
    BY <1>4, <2>1
<1>7. ASSUME NEW ep \in {0, 1}, NEW n \in Nat, SendsOut(ep, n), RestType' PROVE TypeInv'
  <2>1. DeviceType'
    BY <1>1, <1>7 DEF SendsOut, DeviceType, software, ep0in
  <2>2. Entry(ep, "out", n).kind = "out" /\ Entry(ep, "completed", 0).kind = "completed"
    BY DEF Entry
  <2>3. RxType'
    BY <1>1, <1>7, <2>2, EntryTypes, RxAppendTypes DEF SendsOut
  <2>4. QED
    BY <1>7, <2>1, <2>3, TypeJoin
<1>8. CASE HostDataOut
  <2> DEFINE n == Lesser(ask.wLength - done, EP0Size)
  <2>1. /\ SendsOut(0, n) /\ done' = done + n /\ UNCHANGED <<ask, outcome>>
        /\ phase' = IF done' = ask.wLength THEN "statusin" ELSE phase
        /\ phase = "dataout"
    BY <1>8 DEF HostDataOut
  <2>2. ask.wLength \in Nat /\ done \in Nat /\ done < ask.wLength
    BY <1>1, <2>1, RequestFields DEF RestType
  <2> DEFINE left == ask.wLength - done
  <2>3. left \in Nat /\ done + left = ask.wLength
    BY <2>2
  <2>4. n \in Nat /\ n <= left
    <3> HIDE DEF left
    <3>1. Lesser(left, EP0Size) \in Nat /\ Lesser(left, EP0Size) <= left
      BY <2>3, LesserFits
    <3>2. QED
      BY <3>1 DEF left
  <2> HIDE DEF n
  <2>5. done + n \in Nat /\ done + n <= ask.wLength
    BY <2>2, <2>3, <2>4
  <2>6. xfrc' = xfrc /\ bus' = bus
    BY <2>1 DEF SendsOut
  <2>7. RestType'
    BY <1>1, <2>1, <2>2, <2>5, <2>6 DEF RestType
  <2>8. QED
    BY <1>7, <2>1, <2>4, <2>7
<1>9. CASE HostStatusOut
  <2>1. SendsOut(0, 0) /\ RestType'
    BY <1>1, <1>9 DEF HostStatusOut, Ends, SendsOut, RestType
  <2>2. QED
    BY <1>7, <2>1
<1>10. CASE HostTypes
  <2>1. SendsOut(1, 1) /\ RestType'
    BY <1>1, <1>10 DEF HostTypes, host, SendsOut, RestType
  <2>2. QED
    BY <1>7, <2>1
<1>11. ASSUME UNCHANGED <<software, rx, ep0in, active>>, accepts' \subseteq accepts,
              armed' \subseteq armed \cup {1}, stalled' \subseteq stalled, RestType'
       PROVE  TypeInv'
  <2>1. DeviceType'
    BY <1>1, <1>11 DEF DeviceType, software, ep0in
  <2>2. RxType'
    BY <1>1, <1>11, RxTypes
  <2>3. QED
    BY <1>11, <2>1, <2>2, TypeJoin
<1>12. CASE HostStalled \/ HostEarly \/ HostGivesUp
  <2>1. RestType' /\ UNCHANGED <<software, hardware>>
    BY <1>1, <1>12 DEF HostStalled, HostEarly, HostGivesUp, Ends, hardware, RestType
  <2>2. QED
    BY <1>11, <2>1 DEF hardware
<1>13. CASE BusReset \/ lib_putc \/ HostReads
  <2>1. RestType'
    BY <1>1, <1>13 DEF BusReset, lib_putc, HostReads, Ends, host, RestType
  <2>2. UNCHANGED <<software, rx, ep0in, active>> /\ accepts' \subseteq accepts
        /\ armed' \subseteq armed \cup {1} /\ stalled' \subseteq stalled
    BY <1>13 DEF BusReset, lib_putc, HostReads
  <2>3. QED
    BY <1>11, <2>1, <2>2
<1>14. QED
  BY <1>3, <1>5, <1>6, <1>8, <1>9, <1>10, <1>12, <1>13 DEF HostGoesOn

\* So does every turn of evt_poll.
LEMMA PollTypes ==
  ASSUME TypeInv, evt_poll
  PROVE  TypeInv'
<1>1. DeviceType /\ RestType /\ RxType
  BY TypeParts
<1>2. RestType'
  <2>1. /\ xfrc' \subseteq xfrc /\ UNCHANGED host /\ bus' \in {bus, "enumerated", "up"}
    BY DEF evt_poll, PollReset, PollEnumerated, PollTx0, PollTx1, PollRx, PollCompleted, PollSetup,
           PollOut0, PollOut1, Receives
  <2>2. QED
    BY <1>1, <2>1 DEF RestType, host
<1>3. RxType'
  <2>1. \/ rx' = rx \/ rx' = <<>> \/ (rx # <<>> /\ rx' = Tail(rx))
    BY DEF evt_poll, PollReset, PollEnumerated, PollTx0, PollTx1, PollRx, PollCompleted, PollSetup,
           PollOut0, PollOut1, Receives
  <2>2. QED
    BY <1>1, <2>1, RxTypes
<1>4. CASE PollReset \/ PollEnumerated \/ PollTx1 \/ PollCompleted \/ PollOut1
  <2>1. DeviceType'
    BY <1>1, <1>4, EmptySeq DEF PollReset, PollEnumerated, usbd_process_reset, PollTx1, PollCompleted,
           PollOut1, software, ep0in, DeviceType, ControlState, DeviceState
  <2>2. QED
    BY <1>2, <1>3, <2>1, TypeJoin
<1>5. CASE PollTx0
  <2>1. usbd_process_eptx
    BY <1>5 DEF PollTx0
  <2>2. CASE SendData(req, control_state, data_ptr, data_count, txFifo)
             /\ control_state \in {"txdata", "ztxdata"}
    <3>1. PICK r \in Request \cup {NoRequest}, state \in {"txdata", "ztxdata"}, from \in Nat,
                count \in Nat, queue \in Seq(UnitType), sent \in {Lesser(data_count, EP0Size)} :
            /\ SendData(r, state, from, count, queue) /\ sent = Lesser(count, EP0Size)
            /\ r = req /\ state = control_state
      BY <1>1, <2>2 DEF DeviceType
    <3>2. /\ txSize' \in 0 .. EP0Size /\ txFifo' \in Seq(UnitType) /\ txPending' = TRUE
          /\ stalled' = stalled \ {"in"} /\ armed' = armed \cup {0}
          /\ req' = r /\ data_ptr' \in Nat /\ data_count' \in Nat
          /\ control_state' \in {"lastdata", state}
          /\ UNCHANGED <<device_state, loopback, accepts, active>>
      BY <3>1, SendDataEffect
    <3>3. DeviceType'
      BY <1>1, <3>1, <3>2 DEF DeviceType, ControlState
    <3>4. QED
      BY <1>2, <1>3, <3>3, TypeJoin
  <2>3. CASE \E state \in ControlState : Moves(state)
    BY <1>1, <1>2, <1>3, <2>3, MovesTypes, TypeJoin
  <2>4. QED
    BY <2>1, <2>2, <2>3 DEF usbd_process_eptx, ControlState
<1>6. ASSUME NEW r \in Request \cup {NoRequest}, NEW queue \in Seq(UnitType), Begin(r, queue) \/ Process(r, queue)
      PROVE  TypeInv'
  BY <1>1, <1>2, <1>3, <1>6, BeginTypes, TypeJoin
<1>7. CASE PollSetup
  <2>1. Head(rx).req \in Request
    <3>1. rx # <<>> /\ rx \in Seq(EntryType) /\ Head(rx).kind = "setup"
      BY <1>1, <1>7 DEF PollSetup, Receives, RxType
    <3>2. Head(rx) = rx[1] /\ 1 \in DOMAIN rx
      BY <3>1, PopOne
    <3>3. QED
      BY <1>1, <3>1, <3>2 DEF RxType
  <2>2. Flushed \in Seq(UnitType)
    BY <1>1, EmptySeq DEF Flushed, DeviceType
  <2>3. Begin(Head(rx).req, Flushed)
    BY <1>7 DEF PollSetup
  <2>4. QED
    BY <1>6, <2>1, <2>2, <2>3
<1>8. CASE PollOut0
  <2>0. txFifo \in Seq(UnitType) /\ Head(rx).n \in Nat /\ data_count \in Nat /\ data_ptr \in Nat
    <3>1. rx # <<>> /\ rx \in Seq(EntryType)
      BY <1>1, <1>8 DEF PollOut0, Receives, RxType
    <3>2. Head(rx) \in EntryType
      BY <3>1, PopOne
    <3>3. QED
      BY <1>1, <3>2 DEF DeviceType, EntryType
  <2>1. CASE \E r \in Request : Begin(r, txFifo) \/ Process(r, txFifo)
    BY <1>6, <2>0, <2>1
  <2>2. CASE Process(req, txFifo)
    BY <1>1, <1>6, <2>0, <2>2 DEF DeviceType
  <2>3. CASE \E state \in ControlState : Moves(state)
    BY <1>1, <1>2, <1>3, <2>3, MovesTypes, TypeJoin
  <2>4. CASE usbd_stall_pid(txFifo) /\ KeepsBuffer
    <3>1. DeviceType'
      BY <1>1, <2>4 DEF usbd_stall_pid, KeepsBuffer, DeviceType, ControlState
    <3>2. QED
      BY <1>2, <1>3, <3>1, TypeJoin
  <2>5. CASE \E n \in Nat : /\ n <= data_count /\ Buffer(req, data_ptr + n, data_count - n)
                            /\ UNCHANGED <<control_state, device_state, loopback>>
                            /\ UNCHANGED <<ep0in, armed, stalled, accepts, active>>
    <3>1. DeviceType'
      BY <1>1, <2>0, <2>5 DEF Buffer, DeviceType, ep0in
    <3>2. QED
      BY <1>2, <1>3, <3>1, TypeJoin
  <2>6. Lesser(Head(rx).n, data_count) \in Nat /\ Lesser(Head(rx).n, data_count) <= data_count
    BY <2>0 DEF Lesser
  <2>7. QED
    <3>1. "idle" \in ControlState
      BY DEF ControlState
    <3>2. QED
      BY <1>8, <2>1, <2>2, <2>3, <2>4, <2>5, <2>6, <3>1 DEF PollOut0
<1>9. QED
  BY <1>4, <1>5, <1>7, <1>8 DEF evt_poll, PollRx

\* The state the device starts in is typed.
LEMMA TypeInit == Init => TypeInv
<1> SUFFICES ASSUME Init PROVE TypeInv
  OBVIOUS
<1>1. 0 \in 0 .. EP0Size
  BY SizeAssumption
<1>2. UsbTypeOK
  BY <1>1 DEF Init, UsbTypeOK, ControlState, DeviceState
<1>3. rx \in Seq(EntryType) /\ txFifo \in Seq(UnitType) /\ DOMAIN rx = {}
  BY EmptySeq DEF Init
<1>4. ask \in Request \cup {NoRequest} /\ done \in Nat /\ phase # "dataout"
  BY DEF Init
<1>5. QED
  BY <1>2, <1>3, <1>4 DEF TypeInv

\* Every step keeps the types.
LEMMA TypeStep == TypeInv /\ [Next]_vars => TypeInv'
<1> SUFFICES ASSUME TypeInv, [Next]_vars PROVE TypeInv'
  OBVIOUS
<1>1. CASE UNCHANGED vars
  BY <1>1 DEF vars, software, hardware, ep0in, host, TypeInv, UsbTypeOK
<1>2. CASE Next
  BY <1>2, HostStepTypes, PollTypes DEF Next
<1>3. QED
  BY <1>1, <1>2

-----------------------------------------------------------------------------
(* What the receive FIFO holds of endpoint 0.                              *)

Out(e) == e.ep = 0 /\ e.kind = "out"
Size(e) == IF Out(e) THEN e.n ELSE 0

\* The entries an event of the other endpoint, or a completion, leaves in their order.
NoSetup(q) == \A i \in 1 .. Len(q) : q[i].kind # "setup"
NoOut(q) == \A i \in 1 .. Len(q) : ~ Out(q[i])
Full(q) == \A i \in 1 .. Len(q) : Out(q[i]) => q[i].n > 0
Empty(q) == \A i \in 1 .. Len(q) : Out(q[i]) => q[i].n = 0

\* In front of entry k there is at most the empty packet that ended the transfer before.
Old(q, k) ==
  \A i \in 1 .. k - 1 : Out(q[i]) => /\ q[i].n = 0
                                     /\ \A j \in 1 .. k - 1 : Out(q[j]) => i = j
HasOut(q, k) == \E i \in 1 .. k - 1 : Out(q[i])

\* The only request that waits is r, at k; its data, if it sends any, is behind it.
Waits(q, k, r) ==
  /\ k \in 1 .. Len(q) /\ q[k].kind = "setup" /\ q[k].req = r /\ Old(q, k)
  /\ \A i \in 1 .. Len(q) : q[i].kind = "setup" => i = k
  /\ \A i \in k + 1 .. Len(q) : Out(q[i]) => q[i].n > 0 /\ ~ r.in

\* The packets that wait carry the data of a transfer from the unit from to the unit to:
\* at[i] units are before entry i.
Carries(q, from, to) ==
  \E at \in [1 .. Len(q) + 1 -> Nat] :
    /\ at[1] = from /\ at[Len(q) + 1] = to
    /\ \A i \in 1 .. Len(q) : at[i + 1] = at[i] + Size(q[i])
    /\ \A i, j \in 1 .. Len(q) + 1 : i <= j => at[i] <= at[j]

\* A change of the FIFO that does not concern endpoint 0, but for completions.
Harmless(q, p) ==
  /\ NoSetup(q) => NoSetup(p)
  /\ NoOut(q) => NoOut(p)
  /\ Full(q) => Full(p)
  /\ Empty(q) => Empty(p)
  /\ Old(q, Len(q) + 1) => Old(p, Len(p) + 1)
  /\ HasOut(p, Len(p) + 1) => HasOut(q, Len(q) + 1)
  /\ \A a, b \in Nat : Carries(q, a, b) => Carries(p, a, b)
  /\ \A k : \A r : Waits(q, k, r) => \E m : Waits(p, m, r) /\ (HasOut(p, m) => HasOut(q, k))

\* Without its first entry the FIFO carries what it did, from behind that entry on.
LEMMA PopCarries ==
  ASSUME NEW q \in Seq(EntryType), q # <<>>, NEW a \in Nat, NEW b \in Nat, Carries(q, a, b)
  PROVE  /\ Carries(Tail(q), a + Size(Head(q)), b)
         /\ a + Size(Head(q)) \in Nat /\ a + Size(Head(q)) <= b
<1> DEFINE t == Tail(q)
           h == Head(q)
           n == Len(q)
<1>1. /\ n \in Nat \ {0} /\ Len(t) = n - 1
      /\ \A i \in 1 .. n - 1 : t[i] = q[i + 1] /\ i + 1 \in 1 .. n
      /\ h = q[1] /\ h \in EntryType
  BY PopOne
<1>2. Size(h) \in Nat
  BY <1>1 DEF Size, EntryType
<1>3. PICK at \in [1 .. n + 1 -> Nat] :
        /\ at[1] = a /\ at[n + 1] = b
        /\ \A i \in 1 .. n : at[i + 1] = at[i] + Size(q[i])
        /\ \A i, j \in 1 .. n + 1 : i <= j => at[i] <= at[j]
  BY DEF Carries
<1> HIDE DEF t, h, n
<1> DEFINE at2 == [i \in 1 .. n |-> at[i + 1]]
<1>4. /\ 1 \in 1 .. n /\ n \in 1 .. n /\ n - 1 + 1 = n /\ 2 \in 1 .. n + 1 /\ n + 1 \in 1 .. n + 1
      /\ \A i \in 1 .. n : i + 1 \in 1 .. n + 1
      /\ \A i \in 1 .. n - 1 : i \in 1 .. n /\ i + 1 \in 1 .. n
  BY <1>1
<1>5. at[2] = a + Size(h) /\ at[2] <= b
  BY <1>1, <1>3, <1>4
<1>6. at2 \in [1 .. n -> Nat] /\ at2[1] = a + Size(h) /\ at2[n] = b
  BY <1>3, <1>4, <1>5
<1>7. \A i \in 1 .. n - 1 : at2[i + 1] = at2[i] + Size(t[i])
  <2>1. ASSUME NEW i \in 1 .. n - 1 PROVE at2[i + 1] = at2[i] + Size(t[i])
    <3>1. at2[i] = at[i + 1] /\ at2[i + 1] = at[i + 1 + 1]
      BY <1>4
    <3>2. at[i + 1 + 1] = at[i + 1] + Size(q[i + 1])
      BY <1>3, <1>4
    <3>3. QED
      BY <1>1, <3>1, <3>2
  <2>2. QED
    BY <2>1
<1>8. \A i, j \in 1 .. n : i <= j => at2[i] <= at2[j]
  <2>1. ASSUME NEW i \in 1 .. n, NEW j \in 1 .. n, i <= j PROVE at2[i] <= at2[j]
    <3>1. i + 1 <= j + 1 /\ at2[i] = at[i + 1] /\ at2[j] = at[j + 1]
      BY <2>1
    <3>2. QED
      BY <1>3, <1>4, <3>1
  <2>2. QED
    BY <2>1
<1> HIDE DEF at2
<1>9. Carries(t, a + Size(h), b)
  <2>1. at2 \in [1 .. Len(t) + 1 -> Nat] /\ Len(t) + 1 = n
    BY <1>1, <1>4, <1>6
  <2>2. QED
    BY <1>1, <1>6, <1>7, <1>8, <2>1 DEF Carries
<1>10. a + Size(h) \in Nat /\ a + Size(h) <= b
  BY <1>2, <1>5
<1>11. QED
  BY <1>9, <1>10 DEF t, h

\* A packet behind it is the next part of the data.
LEMMA AppendCarries ==
  ASSUME NEW q \in Seq(EntryType), NEW e \in EntryType, NEW f \in EntryType, ~ Out(f),
         NEW a \in Nat, NEW b \in Nat, Carries(q, a, b)
  PROVE  Carries(q \o <<e, f>>, a, b + Size(e)) /\ b + Size(e) \in Nat
<1> DEFINE p == q \o <<e, f>>
           n == Len(q)
<1>1. /\ n \in Nat /\ Len(p) = n + 2 /\ \A i \in 1 .. n : p[i] = q[i]
      /\ p[n + 1] = e /\ p[n + 2] = f
  BY AppendTwo
<1>2. Size(e) \in Nat /\ Size(f) = 0 /\ b + Size(e) \in Nat
  BY DEF Size, EntryType
<1>3. PICK at \in [1 .. n + 1 -> Nat] :
        /\ at[1] = a /\ at[n + 1] = b
        /\ \A i \in 1 .. n : at[i + 1] = at[i] + Size(q[i])
        /\ \A i, j \in 1 .. n + 1 : i <= j => at[i] <= at[j]
  BY DEF Carries
<1> HIDE DEF p, n
<1> DEFINE s == b + Size(e)
           at2 == [i \in 1 .. n + 3 |-> IF i <= n + 1 THEN at[i] ELSE s]
<1>4. at2 \in [1 .. n + 3 -> Nat] /\ s \in Nat /\ b <= s
  BY <1>1, <1>2, <1>3
<1> HIDE DEF s
<1>5. /\ \A i \in 1 .. n + 1 : at2[i] = at[i]
      /\ \A i \in 1 .. n + 3 : ~ (i <= n + 1) => at2[i] = s
  BY <1>1
<1>6. at2[1] = a /\ at2[n + 3] = s /\ at2[n + 1] = b /\ at2[n + 2] = s
  BY <1>1, <1>3, <1>5
<1> HIDE DEF at2
<1>7. ASSUME NEW i \in 1 .. n + 2 PROVE at2[i + 1] = at2[i] + Size(p[i])
  <2>1. CASE i \in 1 .. n
    <3>1. i + 1 \in 1 .. n + 1 /\ i \in 1 .. n + 1
      BY <1>1, <2>1
    <3>2. QED
      BY <1>1, <1>3, <1>5, <2>1, <3>1
  <2>2. CASE i = n + 1
    <3>1. i + 1 = n + 2
      BY <1>1, <2>2
    <3>2. QED
      BY <1>1, <1>6, <2>2, <3>1 DEF s
  <2>3. CASE i = n + 2
    <3>1. i + 1 = n + 3
      BY <1>1, <2>3
    <3>2. QED
      BY <1>1, <1>2, <1>4, <1>6, <2>3, <3>1
  <2>4. QED
    BY <1>1, <2>1, <2>2, <2>3
<1>8. ASSUME NEW i \in 1 .. n + 3, NEW j \in 1 .. n + 3, i <= j PROVE at2[i] <= at2[j]
  <2>1. CASE j <= n + 1
    <3>1. i \in 1 .. n + 1 /\ j \in 1 .. n + 1
      BY <1>1, <1>8, <2>1
    <3>2. QED
      BY <1>3, <1>5, <1>8, <3>1
  <2>2. CASE i <= n + 1 /\ ~ (j <= n + 1)
    <3>1. i \in 1 .. n + 1 /\ n + 1 \in 1 .. n + 1
      BY <1>1, <2>2
    <3>2. at2[i] = at[i] /\ at[i] <= b /\ at[i] \in Nat /\ at2[j] = s
      BY <1>3, <1>5, <2>2, <3>1
    <3>3. QED
      BY <1>4, <3>2
  <2>3. CASE ~ (i <= n + 1)
    <3>1. ~ (j <= n + 1)
      BY <1>1, <1>8, <2>3
    <3>2. QED
      BY <1>4, <1>5, <2>3, <3>1
  <2>4. QED
    BY <2>1, <2>2, <2>3
<1>9. Carries(p, a, s)
  <2>1. at2 \in [1 .. Len(p) + 1 -> Nat] /\ Len(p) + 1 = n + 3
    BY <1>1, <1>4
  <2>2. QED
    BY <1>1, <1>6, <1>7, <1>8, <2>1 DEF Carries
<1>10. QED
  BY <1>2, <1>9 DEF p, s

\* A full packet never stands behind the end of the data.
LEMMA CarriesAll ==
  ASSUME NEW q \in Seq(EntryType), NEW a \in Nat, Carries(q, a, a), Full(q)
  PROVE  NoOut(q)
<1>1. SUFFICES ASSUME NEW i \in 1 .. Len(q), Out(q[i]) PROVE FALSE
  BY DEF NoOut
<1>2. PICK at \in [1 .. Len(q) + 1 -> Nat] :
        /\ at[1] = a /\ at[Len(q) + 1] = a
        /\ \A k \in 1 .. Len(q) : at[k + 1] = at[k] + Size(q[k])
        /\ \A k, j \in 1 .. Len(q) + 1 : k <= j => at[k] <= at[j]
  BY DEF Carries
<1>3. Len(q) \in Nat /\ q[i] \in EntryType
  BY LenProperties, ElementOfSeq
<1>4. q[i].n > 0 /\ Size(q[i]) = q[i].n /\ q[i].n \in Nat
  BY <1>1, <1>3 DEF Full, Size, EntryType
<1>5. /\ 1 \in 1 .. Len(q) + 1 /\ i \in 1 .. Len(q) + 1 /\ i + 1 \in 1 .. Len(q) + 1
      /\ Len(q) + 1 \in 1 .. Len(q) + 1 /\ 1 <= i /\ i + 1 <= Len(q) + 1
  BY <1>3
<1>6. at[1] <= at[i] /\ at[i + 1] <= at[Len(q) + 1] /\ at[i + 1] = at[i] + q[i].n
  BY <1>2, <1>4, <1>5
<1>7. at[i] \in Nat /\ at[i + 1] \in Nat
  BY <1>2, <1>5
<1>8. QED
  BY <1>2, <1>4, <1>6, <1>7

\* An entry that is neither a request nor a packet of endpoint 0 leaves without effect.
LEMMA PopHarmless ==
  ASSUME NEW q \in Seq(EntryType), q # <<>>, Head(q).kind # "setup", ~ Out(Head(q))
  PROVE  Harmless(q, Tail(q))
<1> DEFINE t == Tail(q)
           h == Head(q)
           n == Len(q)
<1>1. /\ n \in Nat \ {0} /\ Len(t) = n - 1
      /\ \A i \in 1 .. n - 1 : t[i] = q[i + 1] /\ i + 1 \in 1 .. n
      /\ h = q[1] /\ h \in EntryType
  BY PopOne
<1>2. h.kind # "setup" /\ ~ Out(h)
  OBVIOUS
<1>3. \A a, b \in Nat : Carries(q, a, b) => Carries(t, a, b)
  <2>1. ASSUME NEW a \in Nat, NEW b \in Nat, Carries(q, a, b) PROVE Carries(t, a, b)
    <3>1. Carries(t, a + Size(h), b)
      BY <2>1, PopCarries
    <3>2. a + Size(h) = a
      BY <1>2 DEF Size
    <3>3. QED
      BY <3>1, <3>2
  <2>2. QED
    BY <2>1
<1> HIDE DEF t, h, n
<1>4. /\ NoSetup(q) => NoSetup(t)
      /\ NoOut(q) => NoOut(t)
      /\ Full(q) => Full(t)
      /\ Empty(q) => Empty(t)
  BY <1>1 DEF NoSetup, NoOut, Full, Empty, n
<1>5. ASSUME NEW k \in 2 .. n + 1, Old(q, k) PROVE Old(t, k - 1)
  <2>1. \A i \in 1 .. k - 1 - 1 : i + 1 \in 1 .. k - 1 /\ t[i] = q[i + 1]
    BY <1>1
  <2>2. ASSUME NEW i \in 1 .. k - 1 - 1, Out(t[i]),
               NEW j \in 1 .. k - 1 - 1, Out(t[j])
        PROVE  t[i].n = 0 /\ i = j
    <3>1. i + 1 \in 1 .. k - 1 /\ Out(q[i + 1]) /\ j + 1 \in 1 .. k - 1 /\ Out(q[j + 1])
      BY <2>1, <2>2
    <3>2. q[i + 1].n = 0 /\ i + 1 = j + 1
      BY <1>5, <3>1 DEF Old
    <3>3. QED
      BY <2>1, <3>2
  <2>3. QED
    BY <2>2 DEF Old
<1>6. ASSUME NEW k \in 2 .. n + 1, HasOut(t, k - 1) PROVE HasOut(q, k)
  <2>1. PICK i \in 1 .. k - 1 - 1 : Out(t[i])
    BY <1>6 DEF HasOut
  <2>2. i + 1 \in 1 .. k - 1 /\ t[i] = q[i + 1]
    BY <1>1
  <2>3. QED
    BY <2>1, <2>2 DEF HasOut
<1>7. n + 1 \in 2 .. n + 1 /\ n + 1 - 1 = Len(t) + 1
  BY <1>1
<1>8. ASSUME NEW k, NEW r, Waits(q, k, r)
      PROVE  \E m : Waits(t, m, r) /\ (HasOut(t, m) => HasOut(q, k))
  <2>1. /\ k \in 1 .. n /\ q[k].kind = "setup" /\ q[k].req = r /\ Old(q, k)
        /\ \A i \in 1 .. n : q[i].kind = "setup" => i = k
        /\ \A i \in k + 1 .. n : Out(q[i]) => q[i].n > 0 /\ ~ r.in
    BY <1>8 DEF Waits, n
  <2>2. k # 1
    BY <1>1, <1>2, <2>1
  <2>3. k \in 2 .. n + 1 /\ k - 1 \in 1 .. n - 1 /\ k - 1 + 1 = k
    BY <1>1, <2>1, <2>2
  <2>4. t[k - 1].kind = "setup" /\ t[k - 1].req = r
    BY <1>1, <2>1, <2>3
  <2>5. \A i \in 1 .. n - 1 : t[i].kind = "setup" => i = k - 1
    <3>1. ASSUME NEW i \in 1 .. n - 1, t[i].kind = "setup" PROVE i = k - 1
      <4>1. q[i + 1].kind = "setup" /\ i + 1 \in 1 .. n
        BY <1>1, <3>1
      <4>2. i + 1 = k
        BY <2>1, <4>1
      <4>3. QED
        BY <2>3, <4>2
    <3>2. QED
      BY <3>1
  <2>6. \A i \in k - 1 + 1 .. n - 1 : Out(t[i]) => t[i].n > 0 /\ ~ r.in
    <3>1. ASSUME NEW i \in k - 1 + 1 .. n - 1, Out(t[i]) PROVE t[i].n > 0 /\ ~ r.in
      <4>1. i \in 1 .. n - 1 /\ i + 1 \in k + 1 .. n
        BY <1>1, <2>3
      <4>2. t[i] = q[i + 1]
        BY <1>1, <4>1
      <4>3. QED
        BY <2>1, <3>1, <4>1, <4>2
    <3>2. QED
      BY <3>1
  <2>7. Waits(t, k - 1, r)
    BY <1>1, <1>5, <2>1, <2>3, <2>4, <2>5, <2>6 DEF Waits
  <2>8. QED
    BY <1>6, <2>3, <2>7
<1>9. /\ Old(q, n + 1) => Old(t, Len(t) + 1)
      /\ HasOut(t, Len(t) + 1) => HasOut(q, n + 1)
  <2> DEFINE k == n + 1
             m == k - 1
  <2>1. k \in 2 .. n + 1 /\ m = Len(t) + 1
    BY <1>1, <1>7
  <2> HIDE DEF k
  <2>2. (Old(q, k) => Old(t, m)) /\ (HasOut(t, m) => HasOut(q, k))
    BY <1>5, <1>6, <2>1
  <2> HIDE DEF m
  <2>3. (Old(q, k) => Old(t, Len(t) + 1)) /\ (HasOut(t, Len(t) + 1) => HasOut(q, k))
    BY <2>1, <2>2
  <2>4. QED
    BY <2>3 DEF k
<1>10. QED
  BY <1>3, <1>4, <1>8, <1>9 DEF Harmless, t, n

\* Nor do two such entries change anything when they come.
LEMMA AppendHarmless ==
  ASSUME NEW q \in Seq(EntryType), NEW e \in EntryType, NEW f \in EntryType,
         e.kind # "setup", f.kind # "setup", ~ Out(e), ~ Out(f)
  PROVE  Harmless(q, q \o <<e, f>>)
<1> DEFINE p == q \o <<e, f>>
           n == Len(q)
<1>1. /\ n \in Nat /\ Len(p) = n + 2 /\ \A i \in 1 .. n : p[i] = q[i]
      /\ p[n + 1] = e /\ p[n + 2] = f
  BY AppendTwo
<1>2. \A a, b \in Nat : Carries(q, a, b) => Carries(p, a, b)
  <2>1. ASSUME NEW a \in Nat, NEW b \in Nat, Carries(q, a, b) PROVE Carries(p, a, b)
    <3>1. Carries(p, a, b + Size(e))
      BY <2>1, AppendCarries
    <3>2. b + Size(e) = b
      BY DEF Size
    <3>3. QED
      BY <3>1, <3>2
  <2>2. QED
    BY <2>1
<1> HIDE DEF p, n
<1>3. \A i \in 1 .. n + 2 : i \in 1 .. n \/ (p[i].kind # "setup" /\ ~ Out(p[i]))
  <2>1. \A i \in 1 .. n + 2 : i \in 1 .. n \/ i = n + 1 \/ i = n + 2
    BY <1>1
  <2>2. QED
    BY <1>1, <2>1
<1>4. /\ NoSetup(q) => NoSetup(p)
      /\ NoOut(q) => NoOut(p)
      /\ Full(q) => Full(p)
      /\ Empty(q) => Empty(p)
  BY <1>1, <1>3 DEF NoSetup, NoOut, Full, Empty, n
<1>5. n + 2 + 1 - 1 = n + 2 /\ n + 1 - 1 = n
  BY <1>1
<1>6. Old(q, n + 1) => Old(p, n + 2 + 1)
  BY <1>1, <1>3, <1>5 DEF Old
<1>7. HasOut(p, n + 2 + 1) => HasOut(q, n + 1)
  BY <1>1, <1>3, <1>5 DEF HasOut
<1>8. ASSUME NEW k, NEW r, Waits(q, k, r)
      PROVE  Waits(p, k, r) /\ (HasOut(p, k) => HasOut(q, k))
  <2>1. /\ k \in 1 .. n /\ q[k].kind = "setup" /\ q[k].req = r /\ Old(q, k)
        /\ \A i \in 1 .. n : q[i].kind = "setup" => i = k
        /\ \A i \in k + 1 .. n : Out(q[i]) => q[i].n > 0 /\ ~ r.in
    BY <1>8 DEF Waits, n
  <2>2. k \in 1 .. n + 2 /\ \A i \in 1 .. k - 1 : i \in 1 .. n /\ p[i] = q[i]
    BY <1>1, <2>1
  <2>3. Old(p, k)
    BY <2>1, <2>2 DEF Old
  <2>4. HasOut(p, k) => HasOut(q, k)
    BY <2>2 DEF HasOut
  <2>5. \A i \in k + 1 .. n + 2 : i \in 1 .. n + 2 /\ (i \in 1 .. n => i \in k + 1 .. n)
    BY <1>1, <2>1
  <2>6. \A i \in k + 1 .. n + 2 : Out(p[i]) => p[i].n > 0 /\ ~ r.in
    BY <1>1, <1>3, <2>1, <2>5
  <2>7. \A i \in 1 .. n + 2 : p[i].kind = "setup" => i = k
    BY <1>1, <1>3, <2>1
  <2>8. QED
    BY <1>1, <2>1, <2>2, <2>3, <2>4, <2>6, <2>7 DEF Waits
<1>9. QED
  BY <1>1, <1>2, <1>4, <1>6, <1>7, <1>8 DEF Harmless, p, n

\* Nothing changes when nothing happens.
LEMMA SameHarmless == \A q : Harmless(q, q)
  BY DEF Harmless

\* The packet of the transfer before leaves the FIFO.
LEMMA PopOld ==
  ASSUME NEW q \in Seq(EntryType), q # <<>>, Out(Head(q)), NEW k \in 1 .. Len(q) + 1,
         k # 1, Old(q, k)
  PROVE  Old(Tail(q), k - 1) /\ ~ HasOut(Tail(q), k - 1) /\ HasOut(q, k)
<1> DEFINE t == Tail(q)
           h == Head(q)
           n == Len(q)
<1>1. /\ n \in Nat \ {0} /\ Len(t) = n - 1
      /\ \A i \in 1 .. n - 1 : t[i] = q[i + 1] /\ i + 1 \in 1 .. n
      /\ h = q[1]
  BY PopOne
<1>2. Out(h) /\ k \in 1 .. n + 1
  OBVIOUS
<1> HIDE DEF t, h, n
<1>3. 1 \in 1 .. k - 1 /\ Out(q[1])
  BY <1>1, <1>2
<1>4. \A i \in 1 .. k - 1 - 1 : ~ Out(t[i])
  <2>1. ASSUME NEW i \in 1 .. k - 1 - 1, Out(t[i]) PROVE FALSE
    <3>1. i + 1 \in 1 .. k - 1 /\ t[i] = q[i + 1] /\ i + 1 # 1
      BY <1>1, <1>2
    <3>2. QED
      BY <1>3, <2>1, <3>1 DEF Old
  <2>2. QED
    BY <2>1
<1>5. QED
  BY <1>3, <1>4 DEF Old, HasOut, t

\* A request that waits behind it comes one nearer.
LEMMA PopWaits ==
  ASSUME NEW q \in Seq(EntryType), q # <<>>, Out(Head(q)), NEW k, NEW r, Waits(q, k, r)
  PROVE  Waits(Tail(q), k - 1, r) /\ ~ HasOut(Tail(q), k - 1) /\ HasOut(q, k)
         /\ Size(Head(q)) = 0
<1> DEFINE t == Tail(q)
           h == Head(q)
           n == Len(q)
<1>1. /\ n \in Nat \ {0} /\ Len(t) = n - 1
      /\ \A i \in 1 .. n - 1 : t[i] = q[i + 1] /\ i + 1 \in 1 .. n
      /\ h = q[1]
  BY PopOne
<1>2. Out(h)
  OBVIOUS
<1>3. /\ k \in 1 .. n /\ q[k].kind = "setup" /\ q[k].req = r /\ Old(q, k)
      /\ \A i \in 1 .. n : q[i].kind = "setup" => i = k
      /\ \A i \in k + 1 .. n : Out(q[i]) => q[i].n > 0 /\ ~ r.in
  BY DEF Waits
<1>4. k # 1
  BY <1>1, <1>2, <1>3 DEF Out
<1>5. Old(t, k - 1) /\ ~ HasOut(t, k - 1) /\ HasOut(q, k)
  <2>1. k \in 1 .. n + 1
    BY <1>1, <1>3
  <2>2. QED
    BY <1>3, <1>4, <2>1, PopOld
<1> HIDE DEF t, h, n
<1>6. k - 1 \in 1 .. n - 1 /\ k - 1 + 1 = k /\ 1 \in 1 .. k - 1
  BY <1>1, <1>3, <1>4
<1>7. t[k - 1].kind = "setup" /\ t[k - 1].req = r
  BY <1>1, <1>3, <1>6
<1>8. ASSUME NEW i \in 1 .. n - 1, t[i].kind = "setup" PROVE i = k - 1
  <2>1. q[i + 1].kind = "setup" /\ i + 1 \in 1 .. n
    BY <1>1, <1>8
  <2>2. i + 1 = k
    BY <1>3, <2>1
  <2>3. QED
    BY <1>6, <2>2
<1>9. ASSUME NEW i \in k - 1 + 1 .. n - 1, Out(t[i]) PROVE t[i].n > 0 /\ ~ r.in
  <2>1. i \in 1 .. n - 1 /\ i + 1 \in k + 1 .. n
    BY <1>1, <1>6
  <2>2. t[i] = q[i + 1]
    BY <1>1, <2>1
  <2>3. QED
    BY <1>3, <1>9, <2>1, <2>2
<1>10. Waits(t, k - 1, r)
  BY <1>1, <1>5, <1>6, <1>7, <1>8, <1>9 DEF Waits
<1>11. Size(h) = 0
  BY <1>1, <1>2, <1>3, <1>6 DEF Old, Size
<1>12. QED
  BY <1>5, <1>10, <1>11 DEF t, h

\* When the request leaves, only its data is behind it.
LEMMA PopRequest ==
  ASSUME NEW q \in Seq(EntryType), q # <<>>, Head(q).kind = "setup", NEW k, NEW r, Waits(q, k, r)
  PROVE  /\ k = 1 /\ Head(q).req = r /\ Size(Head(q)) = 0
         /\ NoSetup(Tail(q)) /\ Full(Tail(q)) /\ (r.in => NoOut(Tail(q)))
<1> DEFINE t == Tail(q)
           h == Head(q)
           n == Len(q)
<1>1. /\ n \in Nat \ {0} /\ Len(t) = n - 1
      /\ \A i \in 1 .. n - 1 : t[i] = q[i + 1] /\ i + 1 \in 1 .. n
      /\ h = q[1]
  BY PopOne
<1>2. h.kind = "setup"
  OBVIOUS
<1>3. /\ k \in 1 .. n /\ q[k].kind = "setup" /\ q[k].req = r
      /\ \A i \in 1 .. n : q[i].kind = "setup" => i = k
      /\ \A i \in k + 1 .. n : Out(q[i]) => q[i].n > 0 /\ ~ r.in
  BY DEF Waits
<1> HIDE DEF t, h, n
<1>4. k = 1 /\ h.req = r
  BY <1>1, <1>2, <1>3
<1>5. Size(h) = 0
  BY <1>2 DEF Size, Out
<1>6. \A i \in 1 .. n - 1 : t[i].kind # "setup" /\ (Out(t[i]) => t[i].n > 0 /\ ~ r.in)
  <2>1. ASSUME NEW i \in 1 .. n - 1
        PROVE  t[i].kind # "setup" /\ (Out(t[i]) => t[i].n > 0 /\ ~ r.in)
    <3>1. i + 1 \in k + 1 .. n /\ i + 1 # k /\ t[i] = q[i + 1] /\ i + 1 \in 1 .. n
      BY <1>1, <1>4
    <3>2. QED
      BY <1>3, <3>1
  <2>2. QED
    BY <2>1
<1>7. NoSetup(t) /\ Full(t) /\ (r.in => NoOut(t))
  BY <1>1, <1>6 DEF NoSetup, Full, NoOut
<1>8. QED
  BY <1>4, <1>5, <1>7 DEF t, h

\* What holds of every entry holds of those behind the first.
LEMMA PopRest ==
  ASSUME NEW q \in Seq(EntryType), q # <<>>
  PROVE  /\ NoSetup(q) => NoSetup(Tail(q))
         /\ NoOut(q) => NoOut(Tail(q)) /\ ~ Out(Head(q))
         /\ Full(q) => Full(Tail(q))
         /\ Empty(q) => Empty(Tail(q)) /\ (Out(Head(q)) => Head(q).n = 0)
<1> DEFINE t == Tail(q)
           h == Head(q)
           n == Len(q)
<1>1. /\ n \in Nat \ {0} /\ Len(t) = n - 1
      /\ \A i \in 1 .. n - 1 : t[i] = q[i + 1] /\ i + 1 \in 1 .. n
      /\ h = q[1]
  BY PopOne
<1> HIDE DEF t, h, n
<1>2. 1 \in 1 .. n
  BY <1>1
<1>3. QED
  BY <1>1, <1>2 DEF NoSetup, NoOut, Full, Empty, t, h, n

\* Empty packets carry nothing.
LEMMA OldCarries ==
  ASSUME NEW q \in Seq(EntryType), Old(q, Len(q) + 1)
  PROVE  Carries(q, 0, 0)
<1> DEFINE n == Len(q)
           at == [i \in 1 .. n + 1 |-> 0]
<1>1. n \in Nat
  BY LenProperties
<1>2. \A i \in 1 .. n : Size(q[i]) = 0
  <2>1. n + 1 - 1 = n
    BY <1>1
  <2>2. QED
    BY <2>1 DEF Old, Size
<1> HIDE DEF n
<1>3. \A i \in 1 .. n : i \in 1 .. n + 1 /\ i + 1 \in 1 .. n + 1
  BY <1>1
<1>4. at \in [1 .. n + 1 -> Nat] /\ at[1] = 0 /\ at[n + 1] = 0
  BY <1>1
<1>5. \A i \in 1 .. n + 1 : at[i] = 0
  OBVIOUS
<1> HIDE DEF at
<1>6. \A i \in 1 .. n : at[i + 1] = at[i] + Size(q[i])
  BY <1>2, <1>3, <1>5
<1>7. \A i, j \in 1 .. n + 1 : i <= j => at[i] <= at[j]
  BY <1>5
<1>8. QED
  BY <1>4, <1>6, <1>7 DEF Carries, n

\* The empty receive FIFO.
LEMMA EmptyFifo ==
  ASSUME NEW q \in Seq(EntryType), q = <<>>
  PROVE  /\ NoSetup(q) /\ NoOut(q) /\ Full(q) /\ Empty(q)
         /\ Old(q, Len(q) + 1) /\ ~ HasOut(q, Len(q) + 1)
<1>1. Len(q) = 0
  BY EmptySeq
<1>2. QED
  BY <1>1 DEF NoSetup, NoOut, Full, Empty, Old, HasOut

\* A request behind the end of the transfer before is the one that waits.
LEMMA AppendRequest ==
  ASSUME NEW q \in Seq(EntryType), NoSetup(q), Old(q, Len(q) + 1), NEW r \in Request,
         NEW p, p = q \o <<Setup(r), Entry(0, "completed", 0)>>
  PROVE  /\ Waits(p, Len(q) + 1, r) /\ Carries(p, 0, 0)
         /\ HasOut(p, Len(q) + 1) => HasOut(q, Len(q) + 1)
<1> DEFINE e == Setup(r)
           f == Entry(0, "completed", 0)
           n == Len(q)
<1>1. e \in EntryType /\ f \in EntryType
  BY EntryTypes
<1>2. e.kind = "setup" /\ e.req = r /\ ~ Out(e) /\ f.kind # "setup" /\ ~ Out(f)
  BY DEF Setup, Entry, Out
<1> HIDE DEF e, f
<1>3. /\ n \in Nat /\ Len(p) = n + 2 /\ \A i \in 1 .. n : p[i] = q[i]
      /\ p[n + 1] = e /\ p[n + 2] = f
  <2>1. p = q \o <<e, f>>
    BY DEF e, f
  <2>2. QED
    BY <1>1, <2>1, AppendTwo
<1>4. Carries(p, 0, 0)
  <2>1. Carries(q, 0, 0)
    BY OldCarries
  <2>2. p = q \o <<e, f>> /\ 0 + Size(e) = 0
    BY <1>2 DEF e, f, Size
  <2>3. Carries(q \o <<e, f>>, 0, 0 + Size(e))
    BY <1>1, <1>2, <2>1, AppendCarries
  <2>4. QED
    BY <2>2, <2>3
<1> HIDE DEF n
<1>5. Old(q, n + 1) /\ NoSetup(q)
  BY DEF n
<1>7. Old(p, n + 1) /\ (HasOut(p, n + 1) => HasOut(q, n + 1))
  <2> DEFINE k == n + 1
  <2> HIDE DEF k
  <2>0. Old(q, k)
    BY <1>5 DEF k
  <2>1. \A i \in 1 .. k - 1 : p[i] = q[i]
    BY <1>3 DEF k
  <2>2. Old(p, k)
    BY <2>0, <2>1 DEF Old
  <2>3. HasOut(p, k) => HasOut(q, k)
    BY <2>1 DEF HasOut
  <2>4. QED
    BY <2>2, <2>3 DEF k
<1>8. \A i \in 1 .. n + 2 : i \in 1 .. n \/ i = n + 1 \/ i = n + 2
  <2>1. n \in Nat
    BY <1>3
  <2>2. QED
    BY <2>1
<1>9. \A i \in 1 .. n + 2 : p[i].kind = "setup" => i = n + 1
  BY <1>2, <1>3, <1>5, <1>8 DEF NoSetup, n
<1>10. \A i \in n + 1 + 1 .. n + 2 : ~ Out(p[i])
  <2>1. \A i \in n + 1 + 1 .. n + 2 : i = n + 2
    BY <1>3
  <2>2. QED
    BY <1>2, <1>3, <2>1
<1>11. n + 1 \in 1 .. n + 2
  BY <1>3
<1>12. Waits(p, n + 1, r)
  BY <1>2, <1>3, <1>7, <1>9, <1>10, <1>11 DEF Waits
<1>13. QED
  BY <1>4, <1>7, <1>12 DEF n

\* It is the next part of the data.
LEMMA DataCarries ==
  ASSUME NEW q \in Seq(EntryType), NEW m \in Nat, NEW a \in Nat, NEW b \in Nat, Carries(q, a, b),
         NEW p, p = q \o <<Entry(0, "out", m), Entry(0, "completed", 0)>>
  PROVE  Carries(p, a, b + m)
<1> DEFINE e == Entry(0, "out", m)
           f == Entry(0, "completed", 0)
<1>1. e \in EntryType /\ f \in EntryType
  BY EntryTypes
<1>2. Size(e) = m /\ ~ Out(f)
  BY DEF Entry, Out, Size
<1>3. p = q \o <<e, f>>
  OBVIOUS
<1> HIDE DEF e, f
<1>4. Carries(q \o <<e, f>>, a, b + Size(e))
  BY <1>1, <1>2, AppendCarries
<1>5. QED
  BY <1>2, <1>3, <1>4

\* It comes behind the request that sends it.
LEMMA AppendBehindRequest ==
  ASSUME NEW q \in Seq(EntryType), NEW m \in Nat \ {0}, NEW k, NEW r, Waits(q, k, r), ~ r.in,
         NEW p, p = q \o <<Entry(0, "out", m), Entry(0, "completed", 0)>>
  PROVE  Waits(p, k, r) /\ (HasOut(p, k) => HasOut(q, k))
<1> DEFINE e == Entry(0, "out", m)
           f == Entry(0, "completed", 0)
<1>0. PICK n : n = Len(q)
  OBVIOUS
<1>1. /\ n \in Nat /\ Len(p) = n + 2 /\ \A i \in 1 .. n : p[i] = q[i]
      /\ \A i \in 1 .. n + 2 : i \in 1 .. n \/ p[i].kind # "setup"
      /\ \A i \in 1 .. n + 2 : i \in 1 .. n \/ p[i].n > 0 \/ ~ Out(p[i])
  <2>1. e \in EntryType /\ f \in EntryType
    BY EntryTypes
  <2>2. e.kind # "setup" /\ e.n > 0 /\ f.kind # "setup" /\ ~ Out(f)
    BY DEF Entry, Out
  <2>3. p = q \o <<e, f>>
    OBVIOUS
  <2> HIDE DEF e, f
  <2>4. /\ n \in Nat /\ Len(p) = n + 2 /\ \A i \in 1 .. n : p[i] = q[i]
        /\ p[n + 1] = e /\ p[n + 2] = f
    BY <1>0, <2>1, <2>3, AppendTwo
  <2>5. \A i \in 1 .. n + 2 : i \in 1 .. n \/ i = n + 1 \/ i = n + 2
    BY <2>4
  <2>6. QED
    BY <2>2, <2>4, <2>5
<1>2. /\ k \in 1 .. n /\ q[k].kind = "setup" /\ q[k].req = r /\ Old(q, k)
      /\ \A i \in 1 .. n : q[i].kind = "setup" => i = k
      /\ \A i \in k + 1 .. n : Out(q[i]) => q[i].n > 0 /\ ~ r.in
  BY <1>0 DEF Waits
<1>3. k \in 1 .. n + 2 /\ \A i \in 1 .. k - 1 : i \in 1 .. n /\ p[i] = q[i]
  BY <1>1, <1>2
<1>4. Old(p, k) /\ (HasOut(p, k) => HasOut(q, k))
  BY <1>2, <1>3 DEF Old, HasOut
<1>5. \A i \in k + 1 .. n + 2 : i \in 1 .. n + 2 /\ (i \in 1 .. n => i \in k + 1 .. n)
  BY <1>1, <1>2
<1>6. \A i \in k + 1 .. n + 2 : Out(p[i]) => p[i].n > 0 /\ ~ r.in
  BY <1>1, <1>2, <1>5
<1>7. \A i \in 1 .. n + 2 : p[i].kind = "setup" => i = k
  BY <1>1, <1>2
<1>8. QED
  BY <1>1, <1>2, <1>3, <1>4, <1>6, <1>7 DEF Waits

\* Or behind the data before it.
LEMMA AppendBehindData ==
  ASSUME NEW q \in Seq(EntryType), NEW m \in Nat \ {0}, NoSetup(q), Full(q),
         NEW p, p = q \o <<Entry(0, "out", m), Entry(0, "completed", 0)>>
  PROVE  NoSetup(p) /\ Full(p)
<1> DEFINE e == Entry(0, "out", m)
           f == Entry(0, "completed", 0)
<1>0. PICK n : n = Len(q)
  OBVIOUS
<1>1. /\ n \in Nat /\ Len(p) = n + 2 /\ \A i \in 1 .. n : p[i] = q[i]
      /\ \A i \in 1 .. n + 2 : i \in 1 .. n \/ p[i].kind # "setup"
      /\ \A i \in 1 .. n + 2 : i \in 1 .. n \/ p[i].n > 0 \/ ~ Out(p[i])
  <2>1. e \in EntryType /\ f \in EntryType
    BY EntryTypes
  <2>2. e.kind # "setup" /\ e.n > 0 /\ f.kind # "setup" /\ ~ Out(f)
    BY DEF Entry, Out
  <2>3. p = q \o <<e, f>>
    OBVIOUS
  <2> HIDE DEF e, f
  <2>4. /\ n \in Nat /\ Len(p) = n + 2 /\ \A i \in 1 .. n : p[i] = q[i]
        /\ p[n + 1] = e /\ p[n + 2] = f
    BY <1>0, <2>1, <2>3, AppendTwo
  <2>5. \A i \in 1 .. n + 2 : i \in 1 .. n \/ i = n + 1 \/ i = n + 2
    BY <2>4
  <2>6. QED
    BY <2>2, <2>4, <2>5
<1>2. /\ \A i \in 1 .. n : q[i].kind # "setup"
      /\ \A i \in 1 .. n : Out(q[i]) => q[i].n > 0
  BY <1>0 DEF NoSetup, Full
<1>3. QED
  BY <1>1, <1>2 DEF NoSetup, Full

\* The empty packet that ends a transfer is the only packet of endpoint 0.
LEMMA AppendStatus ==
  ASSUME NEW q \in Seq(EntryType), NoOut(q),
         NEW p, p = q \o <<Entry(0, "out", 0), Entry(0, "completed", 0)>>
  PROVE  Old(p, Len(p) + 1) /\ Empty(p) /\ (NoSetup(q) => NoSetup(p))
<1> DEFINE e == Entry(0, "out", 0)
           f == Entry(0, "completed", 0)
           n == Len(q)
<1>1. e \in EntryType /\ f \in EntryType
  BY EntryTypes
<1>2. e.kind # "setup" /\ e.n = 0 /\ f.kind # "setup" /\ ~ Out(f)
  BY DEF Entry, Out
<1>3. p = q \o <<e, f>>
  OBVIOUS
<1> HIDE DEF e, f
<1>4. /\ n \in Nat /\ Len(p) = n + 2 /\ \A i \in 1 .. n : p[i] = q[i]
      /\ p[n + 1] = e /\ p[n + 2] = f
  BY <1>1, <1>3, AppendTwo
<1> HIDE DEF n
<1>5. \A i \in 1 .. n + 2 : Out(p[i]) => i = n + 1
  <2>1. \A i \in 1 .. n + 2 : i \in 1 .. n \/ i = n + 1 \/ i = n + 2
    BY <1>4
  <2>2. \A i \in 1 .. n : ~ Out(p[i])
    BY <1>4 DEF NoOut, n
  <2>3. QED
    BY <1>2, <1>4, <2>1, <2>2
<1>6. Len(p) + 1 - 1 = n + 2
  BY <1>4
<1>7. Old(p, Len(p) + 1) /\ Empty(p)
  <2>1. \A i \in 1 .. n + 2 : Out(p[i]) => p[i].n = 0 /\ i = n + 1
    BY <1>2, <1>4, <1>5
  <2> DEFINE k == Len(p) + 1
  <2>2. \A i \in 1 .. k - 1 : i \in 1 .. n + 2
    BY <1>6
  <2> HIDE DEF k
  <2>3. Old(p, k)
    BY <2>1, <2>2 DEF Old
  <2>4. QED
    BY <1>4, <2>1, <2>3 DEF Empty, k
<1>8. NoSetup(q) => NoSetup(p)
  <2>1. \A i \in 1 .. n + 2 : i \in 1 .. n \/ i = n + 1 \/ i = n + 2
    BY <1>4
  <2>2. QED
    BY <1>2, <1>4, <2>1 DEF NoSetup, n
<1>9. QED
  BY <1>7, <1>8

\* A FIFO without packets of endpoint 0.
LEMMA NoOutOld ==
  ASSUME NEW q \in Seq(EntryType), NoOut(q)
  PROVE  Old(q, Len(q) + 1) /\ ~ HasOut(q, Len(q) + 1) /\ Empty(q) /\ Full(q)
<1>1. Len(q) \in Nat
  BY LenProperties
<1>2. Len(q) + 1 - 1 = Len(q)
  BY <1>1
<1>3. QED
  BY <1>2 DEF NoOut, Old, HasOut, Empty, Full

-----------------------------------------------------------------------------
(* The protocol: where host and device are in a transfer.                  *)

\* The request of the host whose transfer goes on.
Whose == ask \in Request /\ outcome = "none"

\* The phase of a transfer that the device has not answered.
PhaseOf ==
  /\ done <= ask.wLength
  /\ phase = IF ask.in /\ ask.wLength > 0 THEN "datain"
             ELSE IF done < ask.wLength THEN "dataout" ELSE "statusin"

\* The device comes to the end of the transfer before: an event of its last packet, and
\* in front of entry k the empty packet of the host, are what it has left to handle.
Settles(k) ==
  /\ Old(rx, k)
  /\ 0 \in xfrc => control_state \in {"lastdata", "statusin"}
  /\ HasOut(rx, k) => control_state = IF 0 \in xfrc THEN "lastdata" ELSE "statusout"

\* No transfer.
Idle ==
  /\ phase = "idle" /\ outcome \notin {"cut", "garbled"}
  /\ outcome = "stalled" => ask.kind = "fail"
  /\ NoSetup(rx) /\ Settles(Len(rx) + 1)

\* The host has cut an answer short and does not care what the device makes of it.
CutShort ==
  /\ phase \in {"idle", "statusout"} /\ outcome = "cut"
  /\ control_state # "rxdata"
  /\ NoSetup(rx) /\ Empty(rx)
  /\ phase = "statusout" => NoOut(rx) /\ stalled = {}

\* The device has not seen the request yet.
Fresh ==
  /\ Whose /\ PhaseOf /\ stalled = {} /\ 0 \notin armed
  /\ Carries(rx, 0, done) /\ (ask.in => done = 0)
  /\ ask.kind = "address" => ~ active
  /\ \E k : Waits(rx, k, ask) /\ Settles(k)

\* It does not know the request and has stalled it.
Refused ==
  /\ Whose /\ ask.kind = "fail"
  /\ phase \in {"datain", "statusin"} /\ (phase = "datain" => done = 0)
  /\ NoSetup(rx) /\ NoOut(rx) /\ control_state = "idle" /\ 0 \notin armed /\ 0 \notin xfrc

\* It takes the data of the request.
Receiving ==
  /\ Whose /\ PhaseOf /\ stalled = {} /\ 0 \notin armed /\ 0 \notin xfrc
  /\ ~ ask.in /\ control_state = "rxdata" /\ req = ask /\ txFifo = <<>>
  /\ data_count \in 1 .. ask.wLength
  /\ NoSetup(rx) /\ Full(rx) /\ Carries(rx, ask.wLength - data_count, done)
  /\ ask.kind = "address" => ~ active

\* It has said that it obeys.
Confirming ==
  /\ Whose /\ phase = "statusin" /\ stalled = {} /\ 0 \in armed /\ 0 \notin xfrc
  /\ NoSetup(rx) /\ NoOut(rx) /\ control_state \in {"statusin", "lastdata"}
  /\ txSize = 0 /\ txFifo = <<>>

\* All of the answer fits, or an empty packet may be needed.
Fills == Answer(ask) >= ask.wLength

\* A packet of the answer waits for the host.
Offered ==
  /\ 0 \in armed /\ 0 \notin xfrc
  /\ txFifo = Units(ask, done, done + txSize) /\ data_ptr = done + txSize
  /\ txSize < EP0Size => data_count = 0
  /\ control_state = IF data_count = 0 /\ (Fills \/ txSize < EP0Size) THEN "lastdata"
                     ELSE IF Fills THEN "txdata" ELSE "ztxdata"

\* The host has got one, and there is another.
Taken ==
  /\ 0 \notin armed /\ 0 \in xfrc /\ txFifo = <<>> /\ data_ptr = done
  /\ control_state = IF Fills THEN "txdata" ELSE "ztxdata"

\* The device sends its answer.
Sending ==
  /\ Whose /\ PhaseOf /\ phase = "datain" /\ stalled = {} /\ NoSetup(rx) /\ NoOut(rx)
  /\ req = ask /\ ask.kind # "fail"
  /\ data_ptr + data_count = Lesser(ask.wLength, Answer(ask))
  /\ Offered \/ Taken

\* The host has got the whole answer.
Finishing ==
  /\ Whose /\ phase = "statusout" /\ stalled = {} /\ NoSetup(rx) /\ NoOut(rx)
  /\ control_state = IF 0 \in xfrc THEN "lastdata" ELSE "statusout"

Protocol ==
  Idle \/ CutShort \/ Fresh \/ Refused \/ Receiving \/ Confirming \/ Sending \/ Finishing

\* The bus is in reset, or the device has not taken notice of its end.
Off ==
  /\ phase = "idle" /\ armed = {} /\ accepts = {} /\ outcome \in {"none", "reset"}
  /\ bus = "enumerated" => ~ active /\ rx = <<>> /\ txFifo = <<>> /\ xfrc = {}

\* Nothing is in the transmit FIFO that is not pending, or that has been sent.
FifoClean == (txFifo # <<>> => txPending) /\ (0 \in xfrc => txFifo = <<>>)

\* The console is served as long as its endpoint is there.
Configured == (active => loopback) /\ ConfiguredIsActive

\* The inductive invariant.
UsbInv ==
  /\ TypeInv /\ FifoClean /\ Configured
  /\ bus = "up" => Protocol
  /\ bus # "up" => Off

\* What a host writes fits in the request buffer.
WritesFit == \A r \in Request : ~ r.in => r.wLength <= MaxSize

-----------------------------------------------------------------------------
(* Steps that do not concern endpoint 0, or only its completions.          *)

\* Such a step leaves the host and the device where they are in the transfer.
LEMMA Bystander ==
  ASSUME TypeInv, Protocol, Harmless(rx, rx'),
         0 \in xfrc' <=> 0 \in xfrc, 0 \in armed' <=> 0 \in armed,
         UNCHANGED <<control_state, req, data_ptr, data_count, txFifo, txSize, stalled, active>>,
         UNCHANGED <<phase, ask, done, outcome>>
  PROVE  Protocol'
<1>1. /\ NoSetup(rx) => NoSetup(rx')
      /\ NoOut(rx) => NoOut(rx')
      /\ Full(rx) => Full(rx')
      /\ Empty(rx) => Empty(rx')
      /\ Old(rx, Len(rx) + 1) => Old(rx', Len(rx') + 1)
      /\ HasOut(rx', Len(rx') + 1) => HasOut(rx, Len(rx) + 1)
      /\ \A a, b \in Nat : Carries(rx, a, b) => Carries(rx', a, b)
      /\ \A k : \A r : Waits(rx, k, r) => \E m : Waits(rx', m, r) /\ (HasOut(rx', m) => HasOut(rx, k))
  BY DEF Harmless
<1>2. Whose' = Whose /\ PhaseOf' = PhaseOf /\ Fills' = Fills
  BY DEF Whose, PhaseOf, Fills, Answer
<1>3. CASE Idle
  <2>1. Settles(Len(rx) + 1)'
    BY <1>1, <1>3 DEF Idle, Settles
  <2>2. QED
    BY <1>1, <1>3, <2>1 DEF Protocol, Idle
<1>4. CASE CutShort
  BY <1>1, <1>4 DEF Protocol, CutShort
<1>5. CASE Fresh
  <2>1. PICK k : Waits(rx, k, ask) /\ Settles(k)
    BY <1>5 DEF Fresh
  <2>2. PICK m : Waits(rx', m, ask) /\ (HasOut(rx', m) => HasOut(rx, k))
    BY <1>1, <2>1
  <2>3. Old(rx', m)
    BY <2>2 DEF Waits
  <2>4. Settles(m)'
    BY <2>1, <2>2, <2>3 DEF Settles
  <2>5. Carries(rx', 0, done')
    BY <1>1, <1>5 DEF Fresh, TypeInv
  <2>6. QED
    BY <1>2, <1>5, <2>2, <2>4, <2>5 DEF Protocol, Fresh
<1>6. CASE Refused
  BY <1>1, <1>2, <1>6 DEF Protocol, Refused
<1>7. CASE Receiving
  <2>1. ask.wLength - data_count \in Nat /\ done \in Nat
    BY <1>7, RequestFields DEF Receiving, TypeInv
  <2>2. Carries(rx', ask'.wLength - data_count', done')
    BY <1>1, <1>7, <2>1 DEF Receiving
  <2>3. QED
    BY <1>1, <1>2, <1>7, <2>2 DEF Protocol, Receiving
<1>8. CASE Confirming
  BY <1>1, <1>2, <1>8 DEF Protocol, Confirming
<1>9. CASE Sending
  <2>1. Offered \/ Taken
    BY <1>9 DEF Sending
  <2>2. CASE Offered
    <3>1. Offered'
      BY <1>2, <2>2 DEF Offered
    <3>2. QED
      BY <1>1, <1>2, <1>9, <3>1 DEF Protocol, Sending
  <2>3. CASE Taken
    <3>1. Taken'
      BY <1>2, <2>3 DEF Taken
    <3>2. QED
      BY <1>1, <1>2, <1>9, <3>1 DEF Protocol, Sending
  <2>4. QED
    BY <2>1, <2>2, <2>3
<1>10. CASE Finishing
  BY <1>1, <1>2, <1>10 DEF Protocol, Finishing
<1>11. QED
  BY <1>3, <1>4, <1>5, <1>6, <1>7, <1>8, <1>9, <1>10 DEF Protocol

\* The invariant while the bus is up.
LEMMA UpInv ==
  ASSUME TypeInv', FifoClean', Configured', Protocol', bus' = "up"
  PROVE  UsbInv'
  BY DEF UsbInv

\* The console, its endpoint 1, and the entries that complete a packet.
LEMMA BystanderSteps ==
  ASSUME UsbInv, TypeInv',
         HostTypes \/ lib_putc \/ HostReads \/ PollTx1 \/ PollCompleted \/ PollOut1
  PROVE  UsbInv'
<1>1. TypeInv /\ FifoClean /\ Configured
  BY DEF UsbInv
<1>2. bus = "up" /\ Protocol
  <2>1. armed # {} \/ bus = "up"
    BY DEF HostTypes, lib_putc, HostReads, PollTx1, PollCompleted, PollOut1, Receives
  <2>2. QED
    BY <2>1 DEF UsbInv, Off
<1>3. /\ UNCHANGED <<control_state, device_state, req, data_ptr, data_count, loopback>>
      /\ UNCHANGED <<txFifo, txSize, txPending, stalled, active, bus>>
      /\ UNCHANGED <<phase, ask, done, outcome>>
  BY DEF HostTypes, lib_putc, HostReads, PollTx1, PollCompleted, PollOut1, Receives, SendsOut,
         software, ep0in, host
<1>4. (0 \in xfrc' <=> 0 \in xfrc) /\ (0 \in armed' <=> 0 \in armed)
  BY DEF HostTypes, lib_putc, HostReads, PollTx1, PollCompleted, PollOut1, Receives, SendsOut
<1>5. rx \in Seq(EntryType) /\ \A i \in DOMAIN rx : rx[i].kind = "setup" => rx[i].ep = 0
  BY <1>1 DEF TypeInv
<1>6. Harmless(rx, rx')
  <2>1. ASSUME rx # <<>>, Head(rx).kind # "setup", ~ Out(Head(rx)), rx' = Tail(rx)
        PROVE  Harmless(rx, rx')
    BY <1>5, <2>1, PopHarmless
  <2>2. CASE rx' = rx
    BY <2>2, SameHarmless
  <2>3. CASE HostTypes
    <3>1. rx' = rx \o <<Entry(1, "out", 1), Entry(1, "completed", 0)>>
      BY <2>3 DEF HostTypes, SendsOut
    <3>2. Entry(1, "out", 1) \in EntryType /\ Entry(1, "completed", 0) \in EntryType
      BY EntryTypes
    <3>3. /\ Entry(1, "out", 1).kind # "setup" /\ Entry(1, "completed", 0).kind # "setup"
          /\ ~ Out(Entry(1, "out", 1)) /\ ~ Out(Entry(1, "completed", 0))
      BY DEF Entry, Out
    <3>4. QED
      BY <1>5, <3>1, <3>2, <3>3, AppendHarmless
  <2>4. CASE lib_putc \/ HostReads
    BY <2>2, <2>4 DEF lib_putc, HostReads
  <2>5. CASE PollCompleted
    <3>1. rx # <<>> /\ Head(rx).kind = "completed" /\ rx' = Tail(rx)
      BY <2>5 DEF PollCompleted, Receives
    <3>2. QED
      BY <2>1, <3>1 DEF Out
  <2>6. CASE PollTx1 \/ PollOut1
    <3>1. rx' = rx \/ (rx # <<>> /\ Head(rx).ep = 1 /\ rx' = Tail(rx))
      BY <2>6 DEF PollTx1, PollOut1, Receives
    <3>2. CASE rx # <<>> /\ Head(rx).ep = 1 /\ rx' = Tail(rx)
      <4>1. Head(rx) = rx[1] /\ 1 \in DOMAIN rx
        BY <1>5, <3>2, PopOne
      <4>2. Head(rx).kind # "setup" /\ ~ Out(Head(rx))
        BY <1>5, <3>2, <4>1 DEF Out
      <4>3. QED
        BY <2>1, <3>2, <4>2
    <3>3. QED
      BY <2>2, <3>1, <3>2
  <2>7. QED
    BY <2>3, <2>4, <2>5, <2>6
<1>7. Protocol'
  BY <1>1, <1>2, <1>3, <1>4, <1>6, Bystander
<1>8. FifoClean' /\ Configured'
  BY <1>1, <1>3, <1>4 DEF FifoClean, Configured, ConfiguredIsActive
<1>9. QED
  BY <1>2, <1>3, <1>7, <1>8, UpInv

\* No units.
LEMMA NoUnits ==
  ASSUME NEW r \in Request \cup {NoRequest}, NEW a \in Nat
  PROVE  Units(r, a, a) = <<>>
<1>1. PICK b \in Nat : b = a /\ a <= b
  OBVIOUS
<1>2. Units(r, a, b) \in Seq(UnitType) /\ Len(Units(r, a, b)) = b - a
  BY <1>1, UnitsLength
<1>3. b - a = 0
  BY <1>1
<1>4. Units(r, a, b) = <<>>
  BY <1>2, <1>3, EmptySeq
<1>5. QED
  BY <1>1, <1>4

\* A packet of the answer, once written, is the one the host waits for.
LEMMA Offers ==
  ASSUME TypeInv, ask \in Request, NEW state, NEW from, NEW count,
         SendData(ask, state, from, count, <<>>),
         from \in Nat, count \in Nat, from = done, state = IF Fills THEN "txdata" ELSE "ztxdata",
         from + count = Lesser(ask.wLength, Answer(ask)),
         UNCHANGED <<ask, done>>, 0 \notin xfrc'
  PROVE  /\ Offered' /\ req' = ask' /\ data_ptr' + data_count' = Lesser(ask.wLength, Answer(ask))'
         /\ stalled' = stalled \ {"in"} /\ txPending' = TRUE /\ txSize' = Lesser(count, EP0Size)
         /\ (count = 0 /\ Fills => control_state' = "lastdata")
         /\ UNCHANGED <<device_state, loopback, active>>
<1>1. PICK sent : sent = Lesser(count, EP0Size)
  OBVIOUS
<1>2. <<>> \in Seq(UnitType)
  BY EmptySeq
<1>3. PICK r \in Request \cup {NoRequest}, s \in {"txdata", "ztxdata"}, f \in Nat, c \in Nat,
           queue \in Seq(UnitType) :
        /\ r = ask /\ s = state /\ f = from /\ c = count /\ queue = <<>>
        /\ SendData(r, s, f, c, queue) /\ sent = Lesser(c, EP0Size)
  BY <1>1, <1>2
<1>4. /\ sent \in 0 .. EP0Size /\ sent <= c /\ (sent < EP0Size => sent = c)
      /\ txFifo' = queue \o Units(r, f, f + sent) /\ txFifo' \in Seq(UnitType)
      /\ txSize' = sent /\ txPending' = TRUE
      /\ stalled' = stalled \ {"in"} /\ armed' = armed \cup {0}
      /\ req' = r /\ data_ptr' = f + sent /\ data_count' = c - sent
      /\ data_ptr' \in Nat /\ data_count' \in Nat
      /\ control_state' = IF c = sent /\ NoZlp(s, sent) THEN "lastdata" ELSE s
      /\ UNCHANGED <<device_state, loopback, accepts, active>>
  <2>1. SendData(r, s, f, c, queue)
    BY <1>3
  <2>2. sent = Lesser(c, EP0Size)
    BY <1>3
  <2>3. sent \in 0 .. EP0Size /\ sent <= c /\ (sent < EP0Size => sent = c)
    <3>1. /\ Lesser(c, EP0Size) \in Nat /\ Lesser(c, EP0Size) <= c /\ Lesser(c, EP0Size) <= EP0Size
          /\ Lesser(c, EP0Size) < EP0Size => Lesser(c, EP0Size) = c
      BY LesserFits
    <3>2. QED
      BY <2>2, <3>1, SizeAssumption
  <2>4. txFifo' = queue \o Units(r, f, f + sent)
    BY <2>1, <2>2, SendDataEffect
  <2>5. txFifo' \in Seq(UnitType) /\ txSize' = sent /\ txPending' = TRUE
    BY <2>1, <2>2, SendDataEffect
  <2>6. stalled' = stalled \ {"in"} /\ armed' = armed \cup {0}
    BY <2>1, <2>2, SendDataEffect
  <2>7. /\ req' = r /\ data_ptr' = f + sent /\ data_count' = c - sent
        /\ control_state' = IF c = sent /\ NoZlp(s, sent) THEN "lastdata" ELSE s
        /\ UNCHANGED <<device_state, loopback, accepts, active>>
    BY <2>1, <2>2 DEF SendData, Buffer
  <2>8. f + sent \in Nat /\ c - sent \in Nat
    BY <2>3
  <2>9. QED
    BY <2>3, <2>4, <2>5, <2>6, <2>7, <2>8
<1>5. Units(r, f, f + sent) \in Seq(UnitType)
  <2> DEFINE to == f + sent
  <2>1. to \in Nat /\ f <= to
    BY <1>3, <1>4
  <2> HIDE DEF to
  <2>2. Units(r, f, to) \in Seq(UnitType)
    BY <2>1, UnitsLength
  <2>3. QED
    BY <2>2 DEF to
<1>6. txFifo' = Units(r, f, f + sent)
  BY <1>3, <1>4, <1>5, ConcatEmptySeq
<1>7. txFifo' = Units(ask', done', done' + txSize') /\ data_ptr' = done' + txSize'
  BY <1>3, <1>4, <1>6
<1>8. (c = sent <=> data_count' = 0) /\ (sent < EP0Size <=> sent # EP0Size)
  BY <1>3, <1>4, SizeAssumption
<1>9. control_state' = IF data_count' = 0 /\ (Fills' \/ txSize' < EP0Size) THEN "lastdata"
                       ELSE IF Fills' THEN "txdata" ELSE "ztxdata"
  <2>1. Fills' = Fills
    BY DEF Fills, Answer
  <2>2. CASE Fills
    BY <1>3, <1>4, <1>8, <2>1, <2>2 DEF NoZlp
  <2>3. CASE ~ Fills
    BY <1>3, <1>4, <1>8, <2>1, <2>3 DEF NoZlp
  <2>4. QED
    BY <2>2, <2>3
<1>10. Offered'
  BY <1>4, <1>7, <1>8, <1>9 DEF Offered
<1>11. data_ptr' + data_count' = Lesser(ask.wLength, Answer(ask))'
  <2>1. data_ptr' + data_count' = f + c
    BY <1>3, <1>4
  <2>2. Lesser(ask.wLength, Answer(ask))' = Lesser(ask.wLength, Answer(ask))
    BY DEF Lesser, Answer
  <2>3. QED
    BY <1>3, <2>1, <2>2
<1>12. count = 0 /\ Fills => control_state' = "lastdata"
  BY <1>3, <1>4 DEF NoZlp
<1>13. QED
  BY <1>1, <1>3, <1>4, <1>10, <1>11, <1>12

\* What the device makes of a request it has received in full, the data of it too.
LEMMA Answers ==
  ASSUME TypeInv, TypeInv', Configured, Whose, PhaseOf, Process(ask, <<>>),
         stalled = {}, xfrc = {}, 0 \notin armed, bus = "up",
         phase \in {"datain", "statusin"}, ask.in => done = 0,
         ask.kind = "address" => ~ active,
         NoSetup(rx'), NoOut(rx'),
         UNCHANGED <<xfrc, bus, phase, ask, done, outcome>>
  PROVE  (Refused \/ Confirming \/ Sending)' /\ FifoClean' /\ Configured'
<1>1. ask.wLength \in Nat /\ ask.n \in Nat /\ Answer(ask) \in Nat /\ ask.in \in BOOLEAN
      /\ (ask.kind = "config" => ask.n \in {0, 1}) /\ done \in Nat
  BY RequestFields DEF TypeInv
<1>2. Whose' /\ PhaseOf' /\ Fills' = Fills /\ 0 \notin xfrc'
  BY DEF Whose, PhaseOf, Fills, Answer
<1>3. CASE ask.kind = "fail"
  <2>1. usbd_stall_pid(<<>>)
    BY <1>3 DEF Process
  <2>2. /\ control_state' = "idle" /\ txFifo' = <<>>
        /\ UNCHANGED <<device_state, loopback, armed, active>>
    BY <2>1 DEF usbd_stall_pid
  <2>3. phase = "datain" => ask.in
    BY DEF PhaseOf
  <2>4. Refused'
    BY <1>2, <1>3, <2>2, <2>3 DEF Refused
  <2>5. QED
    BY <2>2, <2>4 DEF FifoClean, Configured, ConfiguredIsActive
<1>4. CASE ask.kind # "fail" /\ ask.in
  <2>1. ReturnData(ask, <<>>) /\ done = 0
    BY <1>4 DEF Process
  <2>2. PICK count \in Nat, state \in {"txdata", "ztxdata"} :
          /\ SendData(ask, state, 0, count, <<>>)
          /\ count = IF Fills THEN ask.wLength ELSE Answer(ask)
          /\ state = IF Fills THEN "txdata" ELSE "ztxdata"
    <3>1. CASE Fills
      BY <1>1, <2>1, <3>1 DEF ReturnData, Fills
    <3>2. CASE ~ Fills
      BY <1>1, <2>1, <3>2 DEF ReturnData, Fills
    <3>3. QED
      BY <3>1, <3>2
  <2>3. 0 + count = Lesser(ask.wLength, Answer(ask))
    BY <1>1, <2>2 DEF Lesser, Fills
  <2>4. /\ Offered' /\ req' = ask' /\ data_ptr' + data_count' = Lesser(ask.wLength, Answer(ask))'
        /\ stalled' = stalled \ {"in"} /\ txPending' = TRUE /\ txSize' = Lesser(count, EP0Size)
        /\ (count = 0 /\ Fills => control_state' = "lastdata")
        /\ UNCHANGED <<device_state, loopback, active>>
    BY <1>2, <2>1, <2>2, <2>3, Offers DEF Whose
  <2>5. FifoClean' /\ Configured'
    BY <1>2, <2>4 DEF FifoClean, Configured, ConfiguredIsActive
  <2>6. CASE phase = "datain"
    BY <1>2, <1>4, <2>4, <2>5, <2>6 DEF Sending
  <2>7. CASE phase = "statusin"
    <3>1. ask.wLength = 0
      BY <1>1, <1>4, <2>7 DEF PhaseOf
    <3>2. count = 0 /\ Fills
      BY <1>1, <2>2, <3>1 DEF Fills
    <3>3. txSize' = 0
      BY <2>4, <3>2, SizeAssumption DEF Lesser
    <3>4. txFifo' = Units(ask, done, done + 0) /\ 0 \in armed'
      BY <2>4, <3>3 DEF Offered
    <3>5. txFifo' = <<>>
      <4>1. done + 0 = done /\ Units(ask, done, done) = <<>>
        BY <1>1, NoUnits DEF Whose
      <4>2. QED
        BY <3>4, <4>1
    <3>6. Confirming'
      BY <1>2, <2>4, <2>7, <3>2, <3>3, <3>4, <3>5 DEF Confirming
    <3>7. QED
      BY <2>5, <3>6
  <2>8. QED
    BY <2>6, <2>7
<1>5. CASE ask.kind # "fail" /\ ~ ask.in
  <2>1. Confirm(ask, <<>>)
    BY <1>5 DEF Process
  <2>2. /\ txFifo' = <<>> \o <<>> /\ txSize' = Len(<<>>) /\ txPending' = TRUE
        /\ stalled' = stalled \ {"in"} /\ control_state' = "statusin" /\ Obey(ask)
    BY <2>1 DEF Confirm, ep_write
  <2>3. txFifo' = <<>> /\ txSize' = 0
    BY <2>2, EmptySeq, ConcatEmptySeq
  <2>4. phase = "statusin"
    BY <1>5 DEF PhaseOf
  <2>5. 0 \in armed'
    BY <2>2 DEF Obey
  <2>6. Confirming'
    BY <1>2, <2>2, <2>3, <2>4, <2>5 DEF Confirming
  <2>7. Configured'
    <3>1. CASE ask.kind = "config"
      <4>1. device_state' = IF ask.n = 0 THEN "addressed" ELSE "configured"
        BY <2>2, <3>1 DEF Obey
      <4>2. loopback' = (ask.n = 1) /\ active' = (ask.n = 1)
        BY <2>2, <3>1 DEF Obey
      <4>3. CASE ask.n = 0
        <5>1. device_state' = "addressed" /\ ~ (ask.n = 1)
          BY <4>1, <4>3
        <5>2. ~ loopback' /\ ~ active'
          BY <4>2, <5>1, Zenon
        <5>3. QED
          BY <5>1, <5>2 DEF Configured, ConfiguredIsActive
      <4>4. CASE ask.n = 1
        <5>1. device_state' = "configured" /\ ask.n = 1
          BY <4>1, <4>4
        <5>2. loopback' /\ active'
          BY <4>2, <5>1, Zenon
        <5>3. QED
          BY <5>1, <5>2 DEF Configured, ConfiguredIsActive
      <4>5. QED
        BY <1>1, <3>1, <4>3, <4>4
    <3>2. CASE ask.kind = "address"
      BY <2>2, <3>2 DEF Obey, Configured, ConfiguredIsActive
    <3>3. CASE ask.kind \notin {"config", "address"}
      BY <2>2, <3>3 DEF Obey, Configured, ConfiguredIsActive
    <3>4. QED
      BY <3>1, <3>2, <3>3
  <2>8. QED
    BY <1>2, <2>2, <2>3, <2>6, <2>7 DEF FifoClean
<1>6. QED
  BY <1>1, <1>3, <1>4, <1>5

\* The device takes a request out of the FIFO.
LEMMA PollSetupStep ==
  ASSUME WritesFit, UsbInv, TypeInv', PollSetup
  PROVE  UsbInv'
<1>1. /\ bus = "up" /\ xfrc = {} /\ rx # <<>> /\ Head(rx).kind = "setup"
      /\ rx' = Tail(rx) /\ Begin(Head(rx).req, Flushed)
      /\ UNCHANGED <<xfrc, bus, phase, ask, done, outcome>>
  BY DEF PollSetup, Receives, NoneCompleted, host
<1>2. TypeInv /\ FifoClean /\ Configured /\ Protocol
  BY <1>1 DEF UsbInv
<1>3. rx \in Seq(EntryType) /\ done \in Nat /\ data_count \in Nat
  BY <1>2 DEF TypeInv, UsbTypeOK
<1>4. Fresh
  <2>1. ~ NoSetup(rx)
    BY <1>1, <1>3, PopOne DEF NoSetup
  <2>2. QED
    BY <1>2, <2>1 DEF Protocol, Idle, CutShort, Refused, Receiving, Confirming, Sending, Finishing
<1>5. /\ Whose /\ PhaseOf /\ stalled = {} /\ 0 \notin armed
      /\ Carries(rx, 0, done) /\ (ask.in => done = 0)
      /\ (ask.kind = "address" => ~ active)
  BY <1>4 DEF Fresh
<1>6. PICK k : Waits(rx, k, ask)
  BY <1>4 DEF Fresh
<1>7. /\ Head(rx).req = ask /\ Size(Head(rx)) = 0
      /\ NoSetup(rx') /\ Full(rx') /\ (ask.in => NoOut(rx'))
  BY <1>1, <1>3, <1>6, PopRequest
<1>8. Carries(rx', 0, done)
  <2>1. Carries(Tail(rx), 0 + Size(Head(rx)), done)
    BY <1>1, <1>3, <1>5, PopCarries
  <2>2. 0 + Size(Head(rx)) = 0
    BY <1>7
  <2>3. QED
    BY <1>1, <2>1, <2>2
<1>9. Begin(ask, <<>>)
  <2>1. Flushed = <<>>
    BY <1>2 DEF Flushed, FifoClean
  <2>2. QED
    BY <1>1, <1>7, <2>1
<1>10. ask.wLength \in Nat /\ rx' \in Seq(EntryType)
  BY <1>2, RequestFields DEF TypeInv
<1>11. CASE ask.in \/ ask.wLength = 0
  <2>1. Process(ask, <<>>)
    BY <1>9, <1>11 DEF Begin
  <2>2. phase \in {"datain", "statusin"} /\ (~ ask.in => done = 0)
    BY <1>3, <1>5, <1>10, <1>11 DEF PhaseOf
  <2>3. NoOut(rx')
    <3>1. CASE ask.in
      BY <1>7, <3>1
    <3>2. CASE ~ ask.in
      <4>1. Carries(rx', 0, 0)
        BY <1>8, <2>2, <3>2
      <4>2. QED
        BY <1>7, <1>10, <4>1, CarriesAll
    <3>3. QED
      BY <3>1, <3>2
  <2>4. (Refused \/ Confirming \/ Sending)' /\ FifoClean' /\ Configured'
    BY <1>1, <1>2, <1>5, <1>7, <2>1, <2>2, <2>3, Answers
  <2>5. Protocol'
    BY <2>4 DEF Protocol
  <2>6. QED
    BY <1>1, <2>4, <2>5, UpInv
<1>12. CASE ~ ask.in /\ ask.wLength # 0
  <2>1. ask.wLength <= MaxSize
    BY <1>5, <1>12 DEF WritesFit, Whose
  <2>2. ~ (ask.wLength > MaxSize)
    BY <1>10, <2>1, SizeAssumption
  <2>3. /\ control_state' = "rxdata" /\ req' = ask /\ data_count' = ask.wLength /\ txFifo' = <<>>
        /\ UNCHANGED <<device_state, loopback, txSize, txPending, armed, stalled, accepts, active>>
    BY <1>9, <1>12, <2>2 DEF Begin, Buffer
  <2>4. data_count' \in 1 .. ask.wLength /\ ask.wLength - data_count' = 0
    BY <1>10, <1>12, <2>3
  <2>5. Carries(rx', ask.wLength - data_count', done)
    BY <1>8, <2>4
  <2>6. Whose' /\ PhaseOf'
    BY <1>1, <1>5 DEF Whose, PhaseOf
  <2>7. Receiving'
    BY <1>1, <1>5, <1>7, <1>12, <2>3, <2>4, <2>5, <2>6 DEF Receiving
  <2>8. FifoClean' /\ Configured'
    BY <1>1, <1>2, <2>3 DEF FifoClean, Configured, ConfiguredIsActive
  <2>9. QED
    BY <1>1, <2>7, <2>8, UpInv DEF Protocol
<1>13. QED
  BY <1>11, <1>12

\* It handles a packet of endpoint 0.
LEMMA PollOut0Step ==
  ASSUME UsbInv, TypeInv', PollOut0
  PROVE  UsbInv'
<1> DEFINE n == Lesser(Head(rx).n, data_count)
<1>1. /\ bus = "up" /\ xfrc = {} /\ rx # <<>> /\ Out(Head(rx))
      /\ UNCHANGED <<xfrc, bus, phase, ask, done, outcome>>
  BY DEF PollOut0, Receives, NoneCompleted, host, Out
<1>2. \/ /\ control_state = "rxdata" /\ n < data_count
         /\ rx' = Tail(rx) /\ Buffer(req, data_ptr + n, data_count - n)
         /\ UNCHANGED <<control_state, device_state, loopback>>
         /\ UNCHANGED <<ep0in, armed, stalled, accepts, active>>
      \/ /\ control_state = "rxdata" /\ n = data_count
         /\ rx' = Tail(rx) /\ Process(req, txFifo)
      \/ control_state = "statusout" /\ rx' = Tail(rx) /\ Moves("idle")
      \/ /\ control_state = "idle" /\ rx' = Tail(rx)
         /\ IF Head(rx).n = EP0Size THEN \E r \in Request : Begin(r, txFifo)
                                    ELSE usbd_stall_pid(txFifo) /\ KeepsBuffer
      \/ /\ control_state \in {"txdata", "ztxdata", "lastdata", "statusin"}
         /\ rx' = rx /\ usbd_stall_pid(txFifo) /\ KeepsBuffer
  BY DEF PollOut0
<1>3. TypeInv /\ FifoClean /\ Configured /\ Protocol
  BY <1>1 DEF UsbInv
<1>4. /\ rx \in Seq(EntryType) /\ done \in Nat /\ data_count \in Nat /\ Head(rx) \in EntryType
      /\ Head(rx).n \in Nat /\ ask.wLength \in Nat /\ rx' \in Seq(EntryType)
  <2>1. rx \in Seq(EntryType) /\ done \in Nat /\ data_count \in Nat /\ ask.wLength \in Nat
        /\ rx' \in Seq(EntryType)
    BY <1>3, RequestFields DEF TypeInv, UsbTypeOK
  <2>2. Head(rx) \in EntryType
    BY <1>1, <2>1, PopOne
  <2>3. QED
    BY <2>1, <2>2 DEF EntryType
<1>5. ~ NoOut(rx)
  BY <1>1, <1>4, PopRest
<1> HIDE DEF n
<1>6. ASSUME control_state = "statusout"
      PROVE  /\ rx' = Tail(rx) /\ control_state' = "idle"
             /\ UNCHANGED <<req, data_ptr, data_count, device_state, loopback>>
             /\ UNCHANGED <<txFifo, txSize, txPending, armed, stalled, active>>
             /\ FifoClean' /\ Configured'
  <2>1. rx' = Tail(rx) /\ Moves("idle")
    BY <1>2, <1>6
  <2>2. /\ control_state' = "idle" /\ UNCHANGED <<req, data_ptr, data_count, device_state, loopback>>
        /\ UNCHANGED <<txFifo, txSize, txPending, armed, stalled, active>>
    BY <2>1 DEF Moves, KeepsBuffer, ep0in
  <2>3. QED
    BY <1>1, <1>3, <2>1, <2>2 DEF FifoClean, Configured, ConfiguredIsActive
<1>7. CASE Idle
  <2>1. Old(rx, Len(rx) + 1) /\ NoSetup(rx)
    BY <1>7 DEF Idle, Settles
  <2>2. /\ Old(Tail(rx), Len(Tail(rx)) + 1) /\ ~ HasOut(Tail(rx), Len(Tail(rx)) + 1)
        /\ HasOut(rx, Len(rx) + 1)
    <3> DEFINE k == Len(rx) + 1
               m == k - 1
    <3>1. Len(rx) \in Nat \ {0} /\ Len(Tail(rx)) = Len(rx) - 1
      BY <1>1, <1>4, PopOne
    <3>2. k \in 1 .. Len(rx) + 1 /\ k # 1 /\ m = Len(Tail(rx)) + 1
      BY <3>1
    <3>3. Old(rx, k)
      BY <2>1
    <3> HIDE DEF k
    <3>4. Old(Tail(rx), m) /\ ~ HasOut(Tail(rx), m) /\ HasOut(rx, k)
      BY <1>1, <1>4, <3>2, <3>3, PopOld
    <3> HIDE DEF m
    <3>5. QED
      BY <3>2, <3>4 DEF k
  <2>3. control_state = "statusout"
    BY <1>1, <1>7, <2>2 DEF Idle, Settles
  <2>4. NoSetup(Tail(rx))
    BY <1>1, <1>4, <2>1, PopRest
  <2>5. Idle'
    <3>1. Old(rx', Len(rx') + 1) /\ ~ HasOut(rx', Len(rx') + 1) /\ NoSetup(rx') /\ xfrc' = {}
      BY <1>1, <1>6, <2>2, <2>3, <2>4
    <3>2. QED
      BY <1>1, <1>7, <3>1 DEF Idle, Settles
  <2>6. QED
    BY <1>1, <1>6, <2>3, <2>5, UpInv DEF Protocol
<1>8. CASE CutShort
  <2>1. phase = "idle" /\ control_state # "rxdata" /\ Empty(rx) /\ NoSetup(rx)
    BY <1>5, <1>8 DEF CutShort
  <2>2. NoSetup(Tail(rx)) /\ Empty(Tail(rx)) /\ Head(rx).n = 0
    BY <1>1, <1>4, <2>1, PopRest
  <2>3. Head(rx).n # EP0Size
    BY <2>2, SizeAssumption
  <2>4. (rx' = Tail(rx) \/ rx' = rx) /\ (Moves("idle") \/ usbd_stall_pid(txFifo))
    BY <1>2, <2>1, <2>3
  <2>5. /\ control_state' = "idle" /\ txFifo' = txFifo
        /\ UNCHANGED <<device_state, loopback, txPending, active>>
    BY <2>4 DEF Moves, usbd_stall_pid, ep0in
  <2>6. CutShort'
    BY <1>1, <1>8, <2>1, <2>2, <2>4, <2>5 DEF CutShort
  <2>7. FifoClean' /\ Configured'
    BY <1>1, <1>3, <2>5 DEF FifoClean, Configured, ConfiguredIsActive
  <2>8. QED
    BY <1>1, <2>6, <2>7, UpInv DEF Protocol
<1>9. CASE Fresh
  <2>1. PICK k : Waits(rx, k, ask) /\ Settles(k)
    BY <1>9 DEF Fresh
  <2>2. /\ Waits(Tail(rx), k - 1, ask) /\ ~ HasOut(Tail(rx), k - 1) /\ HasOut(rx, k)
        /\ Size(Head(rx)) = 0
    BY <1>1, <1>4, <2>1, PopWaits
  <2>3. control_state = "statusout"
    BY <1>1, <2>1, <2>2 DEF Settles
  <2>4. Carries(Tail(rx), 0, done)
    <3>1. Carries(rx, 0, done)
      BY <1>9 DEF Fresh
    <3>2. Carries(Tail(rx), 0 + Size(Head(rx)), done)
      BY <1>1, <1>4, <3>1, PopCarries
    <3>3. 0 + Size(Head(rx)) = 0
      BY <2>2
    <3>4. QED
      BY <3>2, <3>3
  <2>5. Old(Tail(rx), k - 1)
    BY <2>2 DEF Waits
  <2>6. Settles(k - 1)'
    BY <1>1, <1>6, <2>2, <2>3, <2>5 DEF Settles
  <2>7. Whose' /\ PhaseOf'
    BY <1>1, <1>9 DEF Fresh, Whose, PhaseOf
  <2>8. Fresh'
    <3>1. PICK m : m = k - 1
      OBVIOUS
    <3>2. Waits(rx', m, ask') /\ Settles(m)'
      BY <1>1, <1>6, <2>2, <2>3, <2>6, <3>1
    <3>3. Carries(rx', 0, done')
      BY <1>1, <1>6, <2>3, <2>4
    <3>4. stalled' = {} /\ 0 \notin armed' /\ (ask'.in => done' = 0) /\ (ask'.kind = "address" => ~ active')
      BY <1>1, <1>6, <1>9, <2>3 DEF Fresh
    <3>5. QED
      BY <2>7, <3>2, <3>3, <3>4 DEF Fresh
  <2>9. QED
    BY <1>1, <1>6, <2>3, <2>8, UpInv DEF Protocol
<1>10. CASE Receiving
  <2>1. /\ Whose /\ PhaseOf /\ stalled = {} /\ 0 \notin armed /\ ~ ask.in
        /\ control_state = "rxdata" /\ req = ask /\ txFifo = <<>>
        /\ data_count \in 1 .. ask.wLength /\ NoSetup(rx) /\ Full(rx)
        /\ Carries(rx, ask.wLength - data_count, done)
        /\ (ask.kind = "address" => ~ active)
    BY <1>10 DEF Receiving
  <2>2. PICK from \in Nat : from = ask.wLength - data_count
    BY <1>4, <2>1
  <2>3. PICK s \in Nat : s = Head(rx).n
    BY <1>4
  <2>4. Size(Head(rx)) = s
    BY <1>1, <2>3 DEF Size
  <2>5. Carries(Tail(rx), from + s, done) /\ from + s <= done
    <3>1. Carries(rx, from, done)
      BY <2>1, <2>2
    <3>2. Carries(Tail(rx), from + Size(Head(rx)), done) /\ from + Size(Head(rx)) <= done
      BY <1>1, <1>4, <3>1, PopCarries
    <3>3. QED
      BY <2>4, <3>2
  <2>6. done <= ask.wLength
    BY <2>1 DEF PhaseOf
  <2>7. s <= data_count /\ n = s
    <3>0. from + s <= done
      BY <2>5
    <3>1. from + s <= ask.wLength /\ from + data_count = ask.wLength
      BY <1>4, <2>2, <2>6, <3>0
    <3>2. s <= data_count
      BY <1>4, <3>1
    <3>3. QED
      BY <1>4, <2>3, <3>2 DEF n, Lesser
  <2>8. NoSetup(Tail(rx)) /\ Full(Tail(rx))
    BY <1>1, <1>4, <2>1, PopRest
  <2>9. CASE n < data_count
    <3>1. /\ rx' = Tail(rx) /\ req' = ask /\ data_count' = data_count - s
          /\ control_state' = "rxdata"
          /\ UNCHANGED <<device_state, loopback, txFifo, txPending, armed, stalled, active>>
      BY <1>2, <1>4, <2>1, <2>7, <2>9 DEF Buffer, ep0in
    <3>2. data_count' \in 1 .. ask.wLength /\ ask.wLength - data_count' = from + s
      BY <1>4, <2>1, <2>2, <2>7, <2>9, <3>1
    <3>3. Carries(rx', ask.wLength - data_count', done)
      BY <2>5, <3>1, <3>2
    <3>4. Whose' /\ PhaseOf'
      BY <1>1, <2>1 DEF Whose, PhaseOf
    <3>5. Receiving'
      BY <1>1, <2>1, <2>8, <3>1, <3>2, <3>3, <3>4 DEF Receiving
    <3>6. FifoClean' /\ Configured'
      BY <1>1, <1>3, <3>1 DEF FifoClean, Configured, ConfiguredIsActive
    <3>7. QED
      BY <1>1, <3>5, <3>6, UpInv DEF Protocol
  <2>10. CASE ~ (n < data_count)
    <3>1. rx' = Tail(rx) /\ Process(ask, <<>>)
      BY <1>2, <2>1, <2>10
    <3>2. s = data_count /\ done = ask.wLength /\ from + s = done
      BY <1>4, <2>1, <2>2, <2>5, <2>6, <2>7, <2>10
    <3>3. phase = "statusin"
      BY <1>4, <2>1, <3>2 DEF PhaseOf
    <3>4. Carries(Tail(rx), done, done)
      BY <2>5, <3>2
    <3>5. Tail(rx) \in Seq(EntryType)
      BY <1>4, <3>1
    <3>6. NoOut(Tail(rx))
      BY <1>4, <2>8, <3>4, <3>5, CarriesAll
    <3>7. (Refused \/ Confirming \/ Sending)' /\ FifoClean' /\ Configured'
      BY <1>1, <1>3, <2>1, <2>8, <3>1, <3>3, <3>6, Answers
    <3>8. Protocol'
      BY <3>7 DEF Protocol
    <3>9. QED
      BY <1>1, <3>7, <3>8, UpInv
  <2>11. QED
    BY <2>9, <2>10
<1>11. QED
  BY <1>3, <1>5, <1>7, <1>8, <1>9, <1>10 DEF Protocol, Refused, Confirming, Sending, Finishing

\* A packet of endpoint 0 has been sent.
LEMMA PollTx0Step ==
  ASSUME UsbInv, TypeInv', PollTx0
  PROVE  UsbInv'
<1>1. /\ bus = "up" /\ 0 \in xfrc /\ 0 \notin xfrc' /\ usbd_process_eptx
      /\ UNCHANGED <<rx, bus, phase, ask, done, outcome>>
  BY DEF PollTx0, host
<1>2. TypeInv /\ FifoClean /\ Configured /\ Protocol
  BY <1>1 DEF UsbInv
<1>3. txFifo = <<>>
  BY <1>1, <1>2 DEF FifoClean
<1>4. Whose' = Whose /\ PhaseOf' = PhaseOf /\ Fills' = Fills
  BY <1>1 DEF Whose, PhaseOf, Fills, Answer
<1>5. ASSUME control_state \notin {"txdata", "ztxdata"}
      PROVE  /\ control_state' = CASE control_state = "lastdata" -> "statusout"
                                   [] control_state = "statusin" -> "idle"
                                   [] OTHER -> control_state
             /\ UNCHANGED <<req, data_ptr, data_count, txFifo, armed, stalled, active>>
             /\ FifoClean' /\ Configured'
  <2>1. PICK state : /\ Moves(state)
                     /\ state = CASE control_state = "lastdata" -> "statusout"
                                  [] control_state = "statusin" -> "idle"
                                  [] OTHER -> control_state
    BY <1>1, <1>5 DEF usbd_process_eptx
  <2>2. /\ control_state' = state
        /\ UNCHANGED <<req, data_ptr, data_count, device_state, loopback>>
        /\ UNCHANGED <<txFifo, txSize, txPending, armed, stalled, active>>
    BY <2>1 DEF Moves, KeepsBuffer, ep0in
  <2>3. QED
    BY <1>1, <1>2, <2>1, <2>2 DEF FifoClean, Configured, ConfiguredIsActive
<1>6. ASSUME NEW k, Settles(k), control_state \notin {"txdata", "ztxdata"}
      PROVE  Settles(k)' /\ control_state \in {"lastdata", "statusin"}
  <2>1. control_state \in {"lastdata", "statusin"}
    BY <1>1, <1>6 DEF Settles
  <2>2. HasOut(rx, k) => control_state = "lastdata"
    BY <1>1, <1>6 DEF Settles
  <2>3. QED
    BY <1>1, <1>5, <1>6, <2>1, <2>2 DEF Settles
<1>7. CASE Idle
  <2>1. control_state \notin {"txdata", "ztxdata"} /\ Settles(Len(rx) + 1)
    BY <1>1, <1>7 DEF Idle, Settles
  <2>2. Settles(Len(rx) + 1)'
    BY <1>1, <1>6, <2>1
  <2>3. Idle'
    BY <1>1, <1>7, <2>2 DEF Idle
  <2>4. QED
    BY <1>1, <1>5, <2>1, <2>3, UpInv DEF Protocol
<1>8. CASE CutShort
  <2>1. CASE control_state \notin {"txdata", "ztxdata"}
    <3>1. control_state' # "rxdata" /\ stalled' = stalled /\ FifoClean' /\ Configured'
      BY <1>5, <1>8, <2>1 DEF CutShort
    <3>2. CutShort'
      BY <1>1, <1>8, <3>1 DEF CutShort
    <3>3. QED
      BY <1>1, <3>1, <3>2, UpInv DEF Protocol
  <2>2. CASE control_state \in {"txdata", "ztxdata"}
    <3>1. SendData(req, control_state, data_ptr, data_count, txFifo)
      BY <1>1, <2>2 DEF usbd_process_eptx
    <3>2. /\ control_state' \in {"lastdata", control_state} /\ stalled' = stalled \ {"in"}
          /\ txPending' = TRUE /\ UNCHANGED <<device_state, loopback, active>>
      BY <3>1 DEF SendData, ep_write
    <3>3. CutShort'
      BY <1>1, <1>8, <2>2, <3>2 DEF CutShort
    <3>4. FifoClean' /\ Configured'
      BY <1>1, <1>2, <3>2 DEF FifoClean, Configured, ConfiguredIsActive
    <3>5. QED
      BY <1>1, <3>3, <3>4, UpInv DEF Protocol
  <2>3. QED
    BY <2>1, <2>2
<1>9. CASE Fresh
  <2>1. PICK k : Waits(rx, k, ask) /\ Settles(k)
    BY <1>9 DEF Fresh
  <2>2. control_state \notin {"txdata", "ztxdata"}
    BY <1>1, <2>1 DEF Settles
  <2>3. Settles(k)' /\ Waits(rx', k, ask')
    BY <1>1, <1>6, <2>1, <2>2
  <2>4. Fresh'
    BY <1>1, <1>4, <1>5, <1>9, <2>2, <2>3 DEF Fresh
  <2>5. QED
    BY <1>1, <1>5, <2>2, <2>4, UpInv DEF Protocol
<1>10. CASE Sending
  <2>1. Taken
    BY <1>1, <1>10 DEF Sending, Offered
  <2>2. /\ Whose /\ PhaseOf /\ phase = "datain" /\ stalled = {} /\ NoSetup(rx) /\ NoOut(rx)
        /\ req = ask /\ ask.kind # "fail"
        /\ data_ptr + data_count = Lesser(ask.wLength, Answer(ask))
    BY <1>10 DEF Sending
  <2>3. /\ data_ptr = done /\ control_state = IF Fills THEN "txdata" ELSE "ztxdata"
    BY <2>1 DEF Taken
  <2>4. SendData(ask, control_state, data_ptr, data_count, <<>>)
    BY <1>1, <1>3, <2>2, <2>3 DEF usbd_process_eptx
  <2>5. data_ptr \in Nat /\ data_count \in Nat /\ ask \in Request
    BY <1>2, <2>2 DEF TypeInv, UsbTypeOK, Whose
  <2>6. /\ Offered' /\ req' = ask' /\ data_ptr' + data_count' = Lesser(ask.wLength, Answer(ask))'
        /\ stalled' = stalled \ {"in"} /\ txPending' = TRUE
        /\ UNCHANGED <<device_state, loopback, active>>
    BY <1>1, <1>2, <2>2, <2>3, <2>4, <2>5, Offers
  <2>7. Sending'
    BY <1>1, <1>4, <2>2, <2>6 DEF Sending
  <2>8. FifoClean' /\ Configured'
    BY <1>1, <1>2, <2>6 DEF FifoClean, Configured, ConfiguredIsActive
  <2>9. QED
    BY <1>1, <2>7, <2>8, UpInv DEF Protocol
<1>11. CASE Finishing
  <2>1. control_state = "lastdata"
    BY <1>1, <1>11 DEF Finishing
  <2>2. Finishing'
    BY <1>1, <1>4, <1>5, <1>11, <2>1 DEF Finishing
  <2>3. QED
    BY <1>1, <1>5, <2>1, <2>2, UpInv DEF Protocol
<1>12. QED
  BY <1>1, <1>2, <1>7, <1>8, <1>9, <1>10, <1>11 DEF Protocol, Refused, Receiving, Confirming

\* The host begins a transfer.
LEMMA HostSetupStep ==
  ASSUME UsbInv, TypeInv', NEW r \in Request, HostSetup(r)
  PROVE  UsbInv'
<1>1. /\ phase = "idle" /\ bus = "up" /\ (r.kind = "address" => ~ active)
      /\ (outcome = "cut" => Quiet)
      /\ phase' = IF r.wLength = 0 THEN "statusin" ELSE IF r.in THEN "datain" ELSE "dataout"
      /\ ask' = r /\ done' = 0 /\ outcome' = "none"
      /\ rx' = rx \o <<Setup(r), Entry(0, "completed", 0)>>
      /\ armed' = armed \ {0} /\ stalled' = {}
      /\ UNCHANGED <<control_state, device_state, loopback, txFifo, txPending, xfrc, active, bus>>
  BY DEF HostSetup, software, ep0in
<1>2. TypeInv /\ FifoClean /\ Configured /\ Protocol
  BY <1>1 DEF UsbInv
<1>3. rx \in Seq(EntryType) /\ r.wLength \in Nat /\ r.in \in BOOLEAN
  BY <1>2, RequestFields DEF TypeInv
<1>4. NoSetup(rx) /\ Settles(Len(rx) + 1)
  <2>1. Idle \/ CutShort
    <3>1. ~ Fresh /\ ~ Receiving
      BY <1>1 DEF Fresh, Receiving, PhaseOf
    <3>2. QED
      BY <1>1, <1>2, <3>1 DEF Protocol, Refused, Confirming, Sending, Finishing
  <2>2. CASE CutShort
    <3>1. rx = <<>> /\ xfrc = {}
      BY <1>1, <2>2 DEF CutShort, Quiet
    <3>2. QED
      BY <1>3, <3>1, EmptyFifo DEF Settles
  <2>3. QED
    BY <2>1, <2>2 DEF Idle
<1>5. /\ Waits(rx', Len(rx) + 1, r) /\ Carries(rx', 0, 0)
      /\ (HasOut(rx', Len(rx) + 1) => HasOut(rx, Len(rx) + 1))
  <2>1. Old(rx, Len(rx) + 1)
    BY <1>4 DEF Settles
  <2>2. QED
    BY <1>1, <1>3, <1>4, <2>1, AppendRequest
<1>6. \E k : Waits(rx', k, ask') /\ Settles(k)'
  <2>1. PICK k : k = Len(rx) + 1
    OBVIOUS
  <2>2. Waits(rx', k, ask')
    BY <1>1, <1>5, <2>1
  <2>3. Old(rx', k)
    BY <2>2 DEF Waits
  <2>4. Settles(k) /\ (HasOut(rx', k) => HasOut(rx, k))
    BY <1>4, <1>5, <2>1
  <2>5. Settles(k)'
    BY <1>1, <2>3, <2>4 DEF Settles
  <2>6. QED
    BY <2>2, <2>5
<1>7. Whose' /\ PhaseOf'
  BY <1>1, <1>3 DEF Whose, PhaseOf
<1>8. Fresh'
  BY <1>1, <1>5, <1>6, <1>7 DEF Fresh
<1>9. FifoClean' /\ Configured'
  BY <1>1, <1>2 DEF FifoClean, Configured, ConfiguredIsActive
<1>10. QED
  BY <1>1, <1>8, <1>9, UpInv DEF Protocol

\* The host goes on only while the bus is up.
LEMMA HostUp ==
  ASSUME UsbInv, phase # "idle" \/ armed # {}
  PROVE  bus = "up" /\ Protocol
  BY DEF UsbInv, Off

\* The host sends a packet of data.
LEMMA HostDataOutStep ==
  ASSUME UsbInv, TypeInv', HostDataOut
  PROVE  UsbInv'
<1>1. phase = "dataout"
  BY DEF HostDataOut
<1>2. bus = "up" /\ Protocol /\ TypeInv /\ FifoClean /\ Configured
  BY <1>1, HostUp DEF UsbInv
<1>3. /\ rx \in Seq(EntryType) /\ done \in Nat /\ ask.wLength \in Nat /\ done < ask.wLength
      /\ ask.in \in BOOLEAN /\ data_count \in Nat
  BY <1>1, <1>2, RequestFields DEF TypeInv, UsbTypeOK
<1>4. PICK left \in Nat, m \in Nat \ {0} :
        /\ left = ask.wLength - done /\ m = Lesser(left, EP0Size) /\ m > 0 /\ m <= left
  <2>1. PICK left \in Nat : left = ask.wLength - done /\ left > 0
    BY <1>3
  <2>2. QED
    BY <2>1, LesserFits
<1>5. /\ rx' = rx \o <<Entry(0, "out", m), Entry(0, "completed", 0)>> /\ done' = done + m
      /\ phase' = IF done' = ask.wLength THEN "statusin" ELSE phase
      /\ UNCHANGED <<ask, outcome>>
      /\ UNCHANGED <<control_state, device_state, req, data_ptr, data_count, loopback>>
      /\ UNCHANGED <<txFifo, txSize, txPending, armed, xfrc, stalled, active, bus>>
  BY <1>4 DEF HostDataOut, SendsOut, software, ep0in
<1>6. done' \in Nat /\ done' <= ask.wLength
  <2>1. done + m \in Nat /\ done + m <= ask.wLength
    BY <1>3, <1>4
  <2>2. QED
    BY <1>5, <2>1
<1>7. ASSUME NEW a \in Nat, NEW b \in Nat, Carries(rx, a, b) PROVE Carries(rx', a, b + m)
  BY <1>3, <1>4, <1>5, <1>7, DataCarries
<1>8. FifoClean' /\ Configured'
  BY <1>2, <1>5 DEF FifoClean, Configured, ConfiguredIsActive
<1>9. ASSUME Whose, PhaseOf PROVE Whose' /\ PhaseOf' /\ ~ ask.in
  <2>1. ~ ask.in
    BY <1>1, <1>3, <1>9 DEF PhaseOf
  <2>2. phase' = IF done' < ask.wLength THEN "dataout" ELSE "statusin"
    <3>1. done' = ask.wLength \/ done' < ask.wLength
      BY <1>3, <1>6
    <3>2. done' = ask.wLength => ~ (done' < ask.wLength)
      BY <1>3
    <3>3. phase' = IF done' = ask.wLength THEN "statusin" ELSE phase
      BY <1>5
    <3>4. QED
      BY <1>1, <3>1, <3>2, <3>3
  <2>3. QED
    BY <1>5, <1>6, <1>9, <2>1, <2>2 DEF Whose, PhaseOf
<1>10. CASE Fresh
  <2>1. PICK k : Waits(rx, k, ask) /\ Settles(k)
    BY <1>10 DEF Fresh
  <2>2. Whose' /\ PhaseOf' /\ ~ ask.in
    BY <1>9, <1>10 DEF Fresh
  <2>3. Waits(rx', k, ask) /\ (HasOut(rx', k) => HasOut(rx, k))
    <3>1. PICK r, p : r = ask /\ p = rx'
      OBVIOUS
    <3>2. p = rx \o <<Entry(0, "out", m), Entry(0, "completed", 0)>> /\ Waits(rx, k, r) /\ ~ r.in
      BY <1>5, <2>1, <2>2, <3>1
    <3>3. Waits(p, k, r) /\ (HasOut(p, k) => HasOut(rx, k))
      <4>1. rx \in Seq(EntryType) /\ m \in Nat \ {0}
        BY <1>3, <1>4
      <4>2. p = rx \o <<Entry(0, "out", m), Entry(0, "completed", 0)>>
        BY <3>2
      <4>3. Waits(rx, k, r) /\ ~ r.in
        BY <3>2
      <4>4. Waits(p, k, r)
        BY <4>1, <4>2, <4>3, AppendBehindRequest
      <4>5. HasOut(p, k) => HasOut(rx, k)
        BY <4>1, <4>2, <4>3, AppendBehindRequest
      <4>6. QED
        BY <4>4, <4>5
    <3>4. QED
      BY <3>1, <3>3
  <2>4. Old(rx', k)
    BY <2>3 DEF Waits
  <2>5. Settles(k)'
    BY <1>5, <2>1, <2>3, <2>4 DEF Settles
  <2>6. Carries(rx', 0, done')
    BY <1>3, <1>5, <1>7, <1>10 DEF Fresh
  <2>7. Fresh'
    BY <1>5, <1>10, <2>2, <2>3, <2>5, <2>6 DEF Fresh
  <2>8. QED
    BY <1>2, <1>5, <1>8, <2>7, UpInv DEF Protocol
<1>11. CASE Receiving
  <2>1. Whose' /\ PhaseOf'
    BY <1>9, <1>11 DEF Receiving
  <2>2. PICK from \in Nat : from = ask.wLength - data_count
    BY <1>3, <1>11 DEF Receiving
  <2>3. Carries(rx', from, done')
    BY <1>3, <1>5, <1>7, <1>11, <2>2 DEF Receiving
  <2>4. NoSetup(rx') /\ Full(rx')
    BY <1>3, <1>4, <1>5, <1>11, AppendBehindData DEF Receiving
  <2>5. Receiving'
    BY <1>5, <1>11, <2>1, <2>2, <2>3, <2>4 DEF Receiving
  <2>6. QED
    BY <1>2, <1>5, <1>8, <2>5, UpInv DEF Protocol
<1>12. QED
  BY <1>1, <1>2, <1>10, <1>11
     DEF Protocol, Idle, CutShort, Refused, Confirming, Sending, Finishing

\* The host takes a packet of the answer.
LEMMA HostDataInStep ==
  ASSUME UsbInv, TypeInv', HostDataIn
  PROVE  UsbInv'
<1>1. /\ phase = "datain" /\ 0 \in armed /\ ask' = ask /\ done' = done + Len(Sent)
      /\ armed' = armed \ {0} /\ xfrc' = xfrc \cup {0} /\ txPending' = FALSE
      /\ txFifo' = SubSeq(txFifo, txSize + 1, Len(txFifo))
      /\ UNCHANGED <<control_state, device_state, req, data_ptr, data_count, loopback>>
      /\ UNCHANGED <<rx, txSize, stalled, active, bus>>
  BY DEF HostDataIn, Delivers, software
<1>2. bus = "up" /\ Protocol /\ TypeInv /\ FifoClean /\ Configured
  BY <1>1, HostUp DEF UsbInv
<1>3. Sending /\ Offered
  <2>1. Sending
    <3>1. ~ Receiving
      BY <1>1 DEF Receiving, PhaseOf
    <3>2. QED
      BY <1>1, <1>2, <3>1 DEF Protocol, Idle, CutShort, Fresh, Refused, Confirming, Finishing
  <2>2. QED
    BY <1>1, <2>1 DEF Sending, Taken
<1>4. /\ Whose /\ PhaseOf /\ stalled = {} /\ NoSetup(rx) /\ NoOut(rx)
      /\ req = ask /\ ask.kind # "fail"
      /\ data_ptr + data_count = Lesser(ask.wLength, Answer(ask))
  BY <1>3 DEF Sending
<1>5. /\ 0 \notin xfrc
      /\ txFifo = Units(ask, done, done + txSize) /\ data_ptr = done + txSize
      /\ (txSize < EP0Size => data_count = 0)
      /\ control_state = IF data_count = 0 /\ (Fills \/ txSize < EP0Size) THEN "lastdata"
                         ELSE IF Fills THEN "txdata" ELSE "ztxdata"
  BY <1>3 DEF Offered
<1>6. /\ done \in Nat /\ txSize \in Nat /\ txSize <= EP0Size /\ data_count \in Nat
      /\ ask.wLength \in Nat /\ Answer(ask) \in Nat /\ ask.in \in BOOLEAN /\ ask \in Request
      /\ txFifo \in Seq(UnitType) /\ done <= ask.wLength
  BY <1>2, <1>4, RequestFields, SizeAssumption DEF TypeInv, UsbTypeOK, Whose, PhaseOf
<1>7. Len(txFifo) = txSize
  <2>1. PICK to \in Nat : to = done + txSize
    BY <1>6
  <2>2. done <= to /\ to - done = txSize
    BY <1>6, <2>1
  <2>3. Len(Units(ask, done, to)) = to - done
    BY <1>6, <2>2, UnitsLength
  <2>4. QED
    BY <1>5, <2>1, <2>2, <2>3
<1>8. Sent = txFifo /\ done' = done + txSize
  BY <1>1, <1>6, <1>7, SubSeqFull DEF Sent
<1>9. txFifo' = <<>>
  <2>1. SubSeq(txFifo, txSize + 1, txSize) = <<>>
    BY <1>6, SubSeqEmpty
  <2>2. QED
    BY <1>1, <1>7, <2>1
<1>10. PICK last \in BOOLEAN : last <=> (txSize < EP0Size \/ done' = ask.wLength)
  OBVIOUS
<1>11. /\ data_ptr' = done' /\ done' \in Nat /\ done' <= ask.wLength
       /\ done' + data_count = Lesser(ask.wLength, Answer(ask))
  <2>1. Lesser(ask.wLength, Answer(ask)) <= ask.wLength
    BY <1>6 DEF Lesser
  <2>2. data_ptr = done' /\ done' \in Nat
    BY <1>5, <1>6, <1>8
  <2>3. done' + data_count = Lesser(ask.wLength, Answer(ask))
    BY <1>4, <2>2
  <2>4. done' <= ask.wLength
    <3> DEFINE w == Lesser(ask.wLength, Answer(ask))
    <3>1. w \in Nat /\ w <= ask.wLength
      BY <1>6, <2>1 DEF Lesser
    <3> HIDE DEF w
    <3>2. done' + data_count = w
      BY <2>3 DEF w
    <3>3. QED
      <4>1. PICK d \in Nat, c \in Nat, l \in Nat : d = done' /\ c = data_count /\ l = ask.wLength
        BY <1>6, <2>2
      <4>2. d + c = w /\ w <= l
        BY <3>1, <3>2, <4>1
      <4>3. d <= l
        BY <3>1, <4>2
      <4>4. QED
        BY <4>1, <4>3
  <2>5. QED
    BY <1>1, <2>2, <2>3, <2>4
<1>12. last => data_count = 0 /\ done' = Lesser(ask.wLength, Answer(ask))
  <2>1. CASE txSize < EP0Size
    <3>1. data_count = 0
      BY <1>5, <2>1
    <3>2. QED
      BY <1>11, <3>1
  <2>2. CASE done' = ask.wLength
    <3>1. Lesser(ask.wLength, Answer(ask)) <= ask.wLength /\ Lesser(ask.wLength, Answer(ask)) \in Nat
      BY <1>6 DEF Lesser
    <3>2. data_count = 0
      BY <1>6, <1>11, <2>2, <3>1
    <3>3. QED
      BY <1>11, <3>2
  <2>3. QED
    BY <1>10, <2>1, <2>2
<1>13. Sent = Units(ask, done, done')
  BY <1>5, <1>8
<1>14. phase' = (IF last THEN "statusout" ELSE phase) /\ outcome' = outcome
  <2>1. LET last1 == txSize < EP0Size \/ done' = ask.wLength
            garbled == \/ Sent # Units(ask, done, done')
                       \/ last1 /\ done' # Lesser(ask.wLength, Answer(ask)) IN
          /\ phase' = IF garbled THEN "idle" ELSE IF last1 THEN "statusout" ELSE phase
          /\ outcome' = IF garbled THEN "garbled" ELSE outcome
    BY DEF HostDataIn
  <2>2. CASE last
    BY <1>10, <1>12, <1>13, <2>1, <2>2
  <2>3. CASE ~ last
    BY <1>10, <1>13, <2>1, <2>3
  <2>4. QED
    BY <2>2, <2>3
<1>15. FifoClean' /\ Configured'
  BY <1>1, <1>2, <1>9 DEF FifoClean, Configured, ConfiguredIsActive
<1>16. Whose' /\ (Fills' <=> Fills)
  BY <1>1, <1>4, <1>14 DEF Whose, Fills, Answer
<1>17. CASE last
  <2>1. data_count = 0 /\ (Fills \/ txSize < EP0Size)
    <3>1. CASE txSize < EP0Size
      BY <1>12, <1>17, <3>1
    <3>2. CASE done' = ask.wLength
      <4>1. ask.wLength = Lesser(ask.wLength, Answer(ask))
        BY <1>12, <1>17, <3>2
      <4>2. Fills
        BY <1>6, <4>1 DEF Lesser, Fills
      <4>3. QED
        BY <1>12, <1>17, <4>2
    <3>3. QED
      BY <1>10, <1>17, <3>1, <3>2
  <2>2. control_state' = "lastdata"
    BY <1>1, <1>5, <2>1
  <2>3. Finishing'
    BY <1>1, <1>4, <1>14, <1>16, <1>17, <2>2 DEF Finishing
  <2>4. QED
    BY <1>1, <1>2, <1>15, <2>3, UpInv DEF Protocol
<1>18. CASE ~ last
  <2>1. ~ (txSize < EP0Size) /\ done' # ask.wLength
    BY <1>10, <1>18
  <2>2. ~ (data_count = 0 /\ Fills)
    <3>1. ASSUME data_count = 0, Fills PROVE FALSE
      <4>1. done' = Lesser(ask.wLength, Answer(ask))
        BY <1>11, <3>1
      <4>2. Lesser(ask.wLength, Answer(ask)) = ask.wLength
        BY <1>6, <3>1 DEF Lesser, Fills
      <4>3. QED
        BY <2>1, <4>1, <4>2
    <3>2. QED
      BY <3>1
  <2>3. control_state' = IF Fills' THEN "txdata" ELSE "ztxdata"
    BY <1>1, <1>5, <1>16, <2>1, <2>2
  <2>4. Taken'
    BY <1>1, <1>9, <1>11, <2>3 DEF Taken
  <2>5. PhaseOf'
    <3>1. ask.in /\ ask.wLength > 0
      BY <1>1, <1>4 DEF PhaseOf
    <3>2. QED
      BY <1>1, <1>11, <1>14, <1>18, <3>1 DEF PhaseOf
  <2>6. data_ptr' + data_count' = Lesser(ask.wLength, Answer(ask))'
    <3>1. Lesser(ask.wLength, Answer(ask))' = Lesser(ask.wLength, Answer(ask))
      BY <1>1 DEF Lesser, Answer
    <3>2. QED
      BY <1>1, <1>4, <3>1
  <2>7. phase' = "datain" /\ stalled' = {} /\ NoSetup(rx') /\ NoOut(rx') /\ req' = ask' /\ ask'.kind # "fail"
    BY <1>1, <1>4, <1>14, <1>18
  <2>8. Sending'
    BY <1>16, <2>4, <2>5, <2>6, <2>7 DEF Sending
  <2>9. QED
    BY <1>1, <1>2, <1>15, <2>8, UpInv DEF Protocol
<1>19. QED
  BY <1>17, <1>18

\* The host gets the empty packet that ends a transfer it wrote.
LEMMA HostStatusInStep ==
  ASSUME UsbInv, TypeInv', HostStatusIn
  PROVE  UsbInv'
<1>1. /\ phase = "statusin" /\ 0 \in armed
      /\ armed' = armed \ {0} /\ xfrc' = xfrc \cup {0} /\ txPending' = FALSE
      /\ txFifo' = SubSeq(txFifo, txSize + 1, Len(txFifo))
      /\ UNCHANGED <<control_state, device_state, req, data_ptr, data_count, loopback>>
      /\ UNCHANGED <<rx, txSize, stalled, active, bus, ask, done>>
      /\ phase' = "idle" /\ outcome' = IF txSize = 0 THEN "ok" ELSE "garbled"
  BY DEF HostStatusIn, Delivers, Ends, software
<1>2. bus = "up" /\ Protocol /\ TypeInv /\ FifoClean /\ Configured
  BY <1>1, HostUp DEF UsbInv
<1>3. Confirming
  BY <1>1, <1>2 DEF Protocol, Idle, CutShort, Fresh, Refused, Receiving, Sending, Finishing
<1>4. /\ NoSetup(rx) /\ NoOut(rx) /\ control_state \in {"statusin", "lastdata"}
      /\ txSize = 0 /\ txFifo = <<>>
  BY <1>3 DEF Confirming
<1>5. txFifo' = <<>>
  <2>1. Len(<<>>) = 0
    BY EmptySeq
  <2>2. SubSeq(txFifo, 1, 0) = <<>>
    BY SubSeqEmpty
  <2>3. QED
    BY <1>1, <1>4, <2>1, <2>2
<1>6. rx \in Seq(EntryType)
  BY <1>2 DEF TypeInv
<1>7. Old(rx, Len(rx) + 1) /\ ~ HasOut(rx, Len(rx) + 1)
  BY <1>4, <1>6, NoOutOld
<1>8. Settles(Len(rx) + 1)'
  BY <1>1, <1>4, <1>7 DEF Settles
<1>9. Idle'
  BY <1>1, <1>4, <1>8 DEF Idle
<1>10. FifoClean' /\ Configured'
  BY <1>1, <1>2, <1>5 DEF FifoClean, Configured, ConfiguredIsActive
<1>11. QED
  BY <1>1, <1>2, <1>9, <1>10, UpInv DEF Protocol

\* The host sends the empty packet that ends a transfer it read.
LEMMA HostStatusOutStep ==
  ASSUME UsbInv, TypeInv', HostStatusOut
  PROVE  UsbInv'
<1>1. /\ phase = "statusout" /\ phase' = "idle"
      /\ outcome' = IF outcome = "cut" THEN "cut" ELSE "ok"
      /\ rx' = rx \o <<Entry(0, "out", 0), Entry(0, "completed", 0)>>
      /\ UNCHANGED <<control_state, device_state, req, data_ptr, data_count, loopback>>
      /\ UNCHANGED <<txFifo, txSize, txPending, armed, xfrc, stalled, active, bus, ask, done>>
  BY DEF HostStatusOut, SendsOut, Ends, software, ep0in
<1>2. bus = "up" /\ Protocol /\ TypeInv /\ FifoClean /\ Configured
  BY <1>1, HostUp DEF UsbInv
<1>3. CutShort \/ Finishing
  <2>1. ~ Fresh /\ ~ Receiving
    BY <1>1 DEF Fresh, Receiving, PhaseOf
  <2>2. QED
    BY <1>1, <1>2, <2>1 DEF Protocol, Idle, Refused, Confirming, Sending
<1>4. NoSetup(rx) /\ NoOut(rx) /\ rx \in Seq(EntryType)
  BY <1>1, <1>2, <1>3 DEF CutShort, Finishing, TypeInv
<1>5. Old(rx', Len(rx') + 1) /\ Empty(rx') /\ NoSetup(rx')
  BY <1>1, <1>4, AppendStatus
<1>6. FifoClean' /\ Configured'
  BY <1>1, <1>2 DEF FifoClean, Configured, ConfiguredIsActive
<1>7. CASE CutShort
  <2>1. CutShort'
    BY <1>1, <1>5, <1>7 DEF CutShort
  <2>2. QED
    BY <1>1, <1>2, <1>6, <2>1, UpInv DEF Protocol
<1>8. CASE Finishing
  <2>1. control_state = IF 0 \in xfrc THEN "lastdata" ELSE "statusout"
    BY <1>8 DEF Finishing
  <2>2. Settles(Len(rx) + 1)'
    BY <1>1, <1>5, <2>1 DEF Settles
  <2>3. outcome' = "ok"
    BY <1>1, <1>8 DEF Finishing, Whose
  <2>4. Idle'
    BY <1>1, <1>5, <2>2, <2>3 DEF Idle
  <2>5. QED
    BY <1>1, <1>2, <1>6, <2>4, UpInv DEF Protocol
<1>9. QED
  BY <1>3, <1>7, <1>8

\* The host leaves a transfer: refused, cut short or given up.
LEMMA HostLeavesStep ==
  ASSUME UsbInv, TypeInv', HostStalled \/ HostEarly \/ HostGivesUp
  PROVE  UsbInv'
<1>1. /\ UNCHANGED <<control_state, device_state, req, data_ptr, data_count, loopback>>
      /\ UNCHANGED <<rx, accepts, txFifo, txSize, txPending, armed, xfrc, stalled, active, bus>>
      /\ UNCHANGED <<ask, done>> /\ phase # "idle"
  BY DEF HostStalled, HostEarly, HostGivesUp, Ends, software, hardware, ep0in
<1>2. bus = "up" /\ Protocol /\ TypeInv /\ FifoClean /\ Configured
  BY <1>1, HostUp DEF UsbInv
<1>3. FifoClean' /\ Configured'
  BY <1>1, <1>2 DEF FifoClean, Configured, ConfiguredIsActive
<1>4. rx \in Seq(EntryType)
  BY <1>2 DEF TypeInv
<1>5. CASE HostStalled
  <2>1. stalled # {} /\ phase' = "idle" /\ outcome' = "stalled"
    BY <1>5 DEF HostStalled, Ends
  <2>2. Refused
    BY <1>1, <1>2, <2>1 DEF Protocol, Idle, CutShort, Fresh, Receiving, Confirming, Sending, Finishing
  <2>3. /\ ask.kind = "fail" /\ NoSetup(rx) /\ NoOut(rx) /\ 0 \notin xfrc
    BY <2>2 DEF Refused
  <2>4. Old(rx, Len(rx) + 1) /\ ~ HasOut(rx, Len(rx) + 1)
    BY <1>4, <2>3, NoOutOld
  <2>5. Settles(Len(rx) + 1)'
    BY <1>1, <2>3, <2>4 DEF Settles
  <2>6. Idle'
    BY <1>1, <2>1, <2>3, <2>5 DEF Idle
  <2>7. QED
    BY <1>1, <1>2, <1>3, <2>6, UpInv DEF Protocol
<1>6. CASE HostEarly
  <2>1. phase = "datain" /\ done > 0 /\ phase' = "statusout" /\ outcome' = "cut"
    BY <1>6 DEF HostEarly
  <2>2. done # 0
    BY <2>1
  <2>3. Sending
    <3>1. ~ Fresh /\ ~ Receiving
      BY <2>1, <2>2 DEF Fresh, Receiving, PhaseOf
    <3>2. QED
      BY <1>2, <2>1, <2>2, <3>1 DEF Protocol, Idle, CutShort, Refused, Confirming, Finishing
  <2>4. /\ stalled = {} /\ NoSetup(rx) /\ NoOut(rx) /\ control_state # "rxdata"
    BY <2>3 DEF Sending, Offered, Taken
  <2>5. Empty(rx)
    BY <1>4, <2>4, NoOutOld
  <2>6. CutShort'
    BY <1>1, <2>1, <2>4, <2>5 DEF CutShort
  <2>7. QED
    BY <1>1, <1>2, <1>3, <2>6, UpInv DEF Protocol
<1>7. CASE HostGivesUp
  <2>1. rx = <<>> /\ xfrc = {} /\ phase' = "idle" /\ outcome' = "gaveup"
    BY <1>7 DEF HostGivesUp, Ends, Quiet
  <2>2. NoSetup(rx) /\ Old(rx, Len(rx) + 1) /\ ~ HasOut(rx, Len(rx) + 1)
    BY <1>4, <2>1, EmptyFifo
  <2>3. Settles(Len(rx) + 1)'
    BY <1>1, <2>1, <2>2 DEF Settles
  <2>4. Idle'
    BY <1>1, <2>1, <2>2, <2>3 DEF Idle
  <2>5. QED
    BY <1>1, <1>2, <1>3, <2>4, UpInv DEF Protocol
<1>8. QED
  BY <1>5, <1>6, <1>7

\* The bus goes down, and comes up again.
LEMMA ResetSteps ==
  ASSUME UsbInv, TypeInv', BusReset \/ PollReset \/ PollEnumerated
  PROVE  UsbInv'
<1>1. TypeInv /\ FifoClean /\ Configured
  BY DEF UsbInv
<1>2. CASE BusReset
  <2>1. /\ bus' = "reset" /\ armed' = {} /\ accepts' = {} /\ phase' = "idle" /\ outcome' = "reset"
        /\ UNCHANGED <<loopback, txFifo, txPending, xfrc, active>>
    BY <1>2 DEF BusReset, Ends, software, ep0in
  <2>2. Off' /\ FifoClean' /\ Configured'
    BY <1>1, <2>1 DEF Off, FifoClean, Configured, ConfiguredIsActive
  <2>3. QED
    BY <2>1, <2>2 DEF UsbInv
<1>3. CASE PollReset
  <2>1. /\ bus = "reset" /\ bus' = "enumerated" /\ rx' = <<>> /\ txFifo' = <<>> /\ xfrc' = {}
        /\ active' = FALSE /\ UNCHANGED <<accepts, armed, phase, outcome>>
    BY <1>3 DEF PollReset, host
  <2>2. Off
    BY <2>1 DEF UsbInv
  <2>3. Off' /\ FifoClean' /\ Configured'
    BY <2>1, <2>2 DEF Off, FifoClean, Configured, ConfiguredIsActive
  <2>4. QED
    BY <2>1, <2>3 DEF UsbInv
<1>4. CASE PollEnumerated
  <2>1. /\ bus = "enumerated" /\ bus' = "up" /\ device_state' = "default" /\ control_state' = "idle"
        /\ UNCHANGED <<loopback, rx, txFifo, txPending, xfrc, active, phase, ask, outcome>>
    BY <1>4 DEF PollEnumerated, usbd_process_reset, ep0in, host
  <2>2. /\ phase = "idle" /\ outcome \in {"none", "reset"}
        /\ ~ active /\ rx = <<>> /\ txFifo = <<>> /\ xfrc = {}
    BY <2>1 DEF UsbInv, Off
  <2>3. rx \in Seq(EntryType)
    BY <1>1 DEF TypeInv
  <2>4. NoSetup(rx) /\ Old(rx, Len(rx) + 1) /\ ~ HasOut(rx, Len(rx) + 1)
    BY <2>2, <2>3, EmptyFifo
  <2>5. Settles(Len(rx) + 1)'
    BY <2>1, <2>2, <2>4 DEF Settles
  <2>6. Idle'
    BY <2>1, <2>2, <2>4, <2>5 DEF Idle
  <2>7. FifoClean' /\ Configured'
    BY <2>1, <2>2 DEF FifoClean, Configured, ConfiguredIsActive
  <2>8. QED
    BY <2>1, <2>6, <2>7, UpInv DEF Protocol
<1>5. QED
  BY <1>2, <1>3, <1>4

-----------------------------------------------------------------------------
(* The theorems.                                                           *)

\* The device starts in a state the invariant describes.
LEMMA UsbInvInit == Init => UsbInv
<1> SUFFICES ASSUME Init PROVE UsbInv
  OBVIOUS
<1>1. TypeInv
  BY TypeInit
<1>2. FifoClean /\ Configured /\ bus # "up" /\ Off
  BY DEF Init, FifoClean, Configured, ConfiguredIsActive, Off
<1>3. QED
  BY <1>1, <1>2 DEF UsbInv

\* Every step of the host, of the peripheral and of evt_poll keeps it.
THEOREM UsbInvStep ==
  ASSUME WritesFit
  PROVE  UsbInv /\ [Next]_vars => UsbInv'
<1> SUFFICES ASSUME UsbInv, [Next]_vars PROVE UsbInv'
  OBVIOUS
<1>1. TypeInv'
  BY TypeStep DEF UsbInv
<1>2. CASE UNCHANGED vars
  <2>1. /\ UNCHANGED <<control_state, device_state, req, data_ptr, data_count, loopback>>
        /\ UNCHANGED <<rx, accepts, txFifo, txSize, txPending, armed, xfrc, stalled, active, bus>>
        /\ UNCHANGED <<phase, ask, done, outcome>>
    BY <1>2 DEF vars, software, hardware, ep0in, host
  <2>2. FifoClean' /\ Configured'
    BY <2>1 DEF UsbInv, FifoClean, Configured, ConfiguredIsActive
  <2>3. CASE bus = "up"
    <3>1. Protocol /\ TypeInv
      BY <2>3 DEF UsbInv
    <3>2. Harmless(rx, rx')
      BY <2>1, SameHarmless
    <3>3. Protocol'
      BY <2>1, <3>1, <3>2, Bystander
    <3>4. QED
      BY <1>1, <2>1, <2>2, <2>3, <3>3, UpInv
  <2>4. CASE bus # "up"
    <3>1. Off
      BY <2>4 DEF UsbInv
    <3>2. Off'
      BY <2>1, <3>1 DEF Off
    <3>3. QED
      BY <1>1, <2>1, <2>2, <2>4, <3>2 DEF UsbInv
  <2>5. QED
    BY <2>3, <2>4
<1>3. CASE evt_poll
  BY <1>1, <1>3, ResetSteps, PollTx0Step, BystanderSteps, PollSetupStep, PollOut0Step
     DEF evt_poll, PollRx
<1>4. CASE HostGoesOn
  BY <1>1, <1>4, HostDataInStep, HostStatusInStep, HostDataOutStep, HostStatusOutStep, HostLeavesStep
     DEF HostGoesOn
<1>5. CASE \E r \in Request : HostSetup(r)
  BY <1>1, <1>5, HostSetupStep
<1>6. CASE HostReads \/ HostTypes \/ lib_putc
  BY <1>1, <1>6, BystanderSteps
<1>7. CASE HostEarly \/ HostGivesUp \/ BusReset
  BY <1>1, <1>7, HostLeavesStep, ResetSteps
<1>8. QED
  BY <1>2, <1>3, <1>4, <1>5, <1>6, <1>7 DEF Next

\* Every variable has its type: no packet of endpoint 0 is longer than its size, the
\* pointer and the counter of the request buffer never go below 0, whatever the host asks.
THEOREM UsbTypeCorrect == Spec => []UsbTypeOK
<1>1. TypeInv => UsbTypeOK
  BY DEF TypeInv
<1>2. QED
  BY <1>1, TypeInit, TypeStep, PTL DEF Spec

\* The host gets the whole answer to its own request and nothing else, also after
\* transfers that it gave up or cut short and after resets of the bus.
THEOREM AnswersAreWholeHolds ==
  ASSUME WritesFit
  PROVE  Spec => []AnswersAreWhole
<1>1. UsbInv => AnswersAreWhole
  <2>1. ASSUME Protocol PROVE outcome # "garbled"
    BY <2>1 DEF Protocol, Idle, CutShort, Fresh, Refused, Receiving, Confirming, Sending, Finishing, Whose
  <2>2. ASSUME Off PROVE outcome # "garbled"
    BY <2>2 DEF Off
  <2>3. QED
    BY <2>1, <2>2 DEF UsbInv, AnswersAreWhole
<1>2. UsbInv /\ [Next]_vars => UsbInv'
  BY UsbInvStep
<1>3. QED
  BY <1>1, <1>2, UsbInvInit, PTL DEF Spec

\* A request the device knows is not stalled, whatever transfer it follows.
THEOREM KnownIsServedHolds ==
  ASSUME WritesFit
  PROVE  Spec => []KnownIsServed
<1>1. UsbInv => KnownIsServed
  <2>1. ASSUME Protocol, outcome = "stalled" PROVE ask.kind = "fail"
    BY <2>1 DEF Protocol, Idle, CutShort, Fresh, Refused, Receiving, Confirming, Sending, Finishing, Whose
  <2>2. ASSUME Off PROVE outcome # "stalled"
    BY <2>2 DEF Off
  <2>3. QED
    BY <2>1, <2>2 DEF UsbInv, KnownIsServed
<1>2. UsbInv /\ [Next]_vars => UsbInv'
  BY UsbInvStep
<1>3. QED
  BY <1>1, <1>2, UsbInvInit, PTL DEF Spec

\* A configured device has its bulk endpoints and their callback, and only it has them.
THEOREM ConfiguredIsActiveHolds ==
  ASSUME WritesFit
  PROVE  Spec => []ConfiguredIsActive
<1>1. UsbInv => ConfiguredIsActive
  BY DEF UsbInv, Configured
<1>2. UsbInv /\ [Next]_vars => UsbInv'
  BY UsbInvStep
<1>3. QED
  BY <1>1, <1>2, UsbInvInit, PTL DEF Spec
===============================================================================
