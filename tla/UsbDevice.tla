------------------------------ MODULE UsbDevice ------------------------------
(***************************************************************************)
(* usb/Src/usbd_core.c with the OTG driver under it and the CDC callbacks  *)
(* above it: the control endpoint 0 and the pair of bulk endpoints 1 of    *)
(* the console.  One action per turn of the loop of evt_poll, which        *)
(* handles one event and runs to its end; the host and the peripheral move *)
(* in between.  Lengths count units of CDC_EP0_SIZE / EP0Size bytes.       *)
(***************************************************************************)
EXTENDS Integers, Sequences

CONSTANTS
  Request,   \* the control requests the host makes
  EP0Size,   \* CDC_EP0_SIZE: the longest packet of endpoint 0
  MaxSize,   \* data_maxsize: what the request buffer holds
  Host       \* what the host does besides: {"early", "giveup", "reset"}

\* A request reads (in) or writes wLength units.  kind says who answers: "data", a
\* descriptor or the line coding of n units; "buffer", GET_STATUS or GET_CONFIG from the
\* request buffer; "ack", what is accepted without an effect here; "address" and "config"
\* with the value n; "fail", what nobody knows, a third configuration among it.
RequestType == [in : BOOLEAN, wLength : Nat, n : Nat,
                kind : {"data", "buffer", "ack", "address", "config", "fail"}]
ASSUME RequestAssumption ==
  /\ Request \subseteq RequestType
  /\ \A r \in Request : r.kind = "config" => r.n \in {0, 1}
ASSUME SizeAssumption == EP0Size \in Nat \ {0} /\ MaxSize \in Nat
ASSUME HostAssumption == Host \subseteq {"early", "giveup", "reset"}

ControlState == {"idle", "rxdata", "txdata", "ztxdata", "lastdata", "statusin", "statusout"}
DeviceState == {"disabled", "default", "addressed", "configured"}

VARIABLES
  control_state, device_state,
  req,                 \* the request in the buffer
  data_ptr,            \* the next unit of the answer to send
  data_count,
  loopback,            \* endpoint[1] is cdc_loopback
  rx,                  \* the receive FIFO of the peripheral, all endpoints in one
  accepts,             \* endpoints that take the next OUT packet
  txFifo,              \* data in the transmit FIFO of endpoint 0
  txSize, txPending,   \* DIEPTSIZ of endpoint 0: size and packet count
  armed,               \* IN endpoints that answer the next IN token
  xfrc,                \* IN endpoints with a transfer completed
  stalled,             \* sides of endpoint 0 that answer STALL
  active,              \* the bulk endpoints are configured
  bus,                 \* "up", "reset" (USBRST) or "enumerated" (ENUMDNE)
  phase,               \* of the transfer the host is in
  ask,                 \* its request
  done,                \* the units it has sent or got
  outcome              \* how the last transfer ended

software == <<control_state, device_state, req, data_ptr, data_count, loopback>>
ep0in == <<txFifo, txSize, txPending>>
hardware == <<rx, accepts, ep0in, armed, xfrc, stalled, active, bus>>
host == <<phase, ask, done, outcome>>
vars == <<software, hardware, host>>

\* Mutant: a packet is as long as what is left to send.
Whole(a, b) == a

Lesser(a, b) == IF a < b THEN a ELSE b
NoRequest == [in |-> FALSE, wLength |-> 0, kind |-> "fail", n |-> 0]

\* What the function has to say to a request that reads.
Answer(r) == IF r.kind = "buffer" THEN MaxSize ELSE r.n

Init ==
  /\ control_state = "idle" /\ device_state = "disabled" /\ req = NoRequest
  /\ data_ptr = 0 /\ data_count = 0 /\ loopback = FALSE
  /\ rx = <<>> /\ accepts = {} /\ txFifo = <<>> /\ txSize = 0 /\ txPending = FALSE
  /\ armed = {} /\ xfrc = {} /\ stalled = {} /\ active = FALSE /\ bus = "reset"
  /\ phase = "idle" /\ ask = NoRequest /\ done = 0 /\ outcome = "none"

-----------------------------------------------------------------------------
(* The host and the peripheral.  A SETUP packet is always taken: it makes  *)
(* both sides of endpoint 0 answer NAK and ends a STALL.  An OUT packet is *)
(* followed by a completion entry, and no other is taken until evt_poll    *)
(* has found that entry.                                                   *)

Entry(ep, kind, n) == [ep |-> ep, kind |-> kind, n |-> n, req |-> NoRequest]
Setup(r) == [ep |-> 0, kind |-> "setup", n |-> 0, req |-> r]

\* The host leaves a transfer.
Ends(how) == phase' = "idle" /\ outcome' = how /\ UNCHANGED <<ask, done>>

\* The device has handled every event.
Quiet == rx = <<>> /\ xfrc = {}

\* The host changes the configuration only for another, and the address before it;
\* after an answer it has cut short it waits for the device.
HostSetup(r) ==
  /\ phase = "idle" /\ bus = "up"
  /\ r.kind = "config" => active = (r.n = 0)
  /\ r.kind = "address" => ~active
  /\ outcome = "cut" => Quiet
  /\ phase' = IF r.wLength = 0 THEN "statusin" ELSE IF r.in THEN "datain" ELSE "dataout"
  /\ ask' = r /\ done' = 0 /\ outcome' = "none"
  /\ rx' = rx \o <<Setup(r), Entry(0, "completed", 0)>>
  /\ accepts' = accepts \ {0} /\ armed' = armed \ {0} /\ stalled' = {}
  /\ UNCHANGED <<software, ep0in, xfrc, active, bus>>

\* The packet that endpoint 0 sends: the oldest units of the FIFO, as many as the last
\* ep_write has set.
Sent == SubSeq(txFifo, 1, txSize)
Delivers ==
  /\ 0 \in armed /\ "in" \notin stalled
  /\ armed' = armed \ {0} /\ xfrc' = xfrc \cup {0} /\ txPending' = FALSE
  /\ txFifo' = SubSeq(txFifo, txSize + 1, Len(txFifo))
  /\ UNCHANGED <<software, rx, accepts, txSize, stalled, active, bus>>

\* The units from to to - 1 of the answer to r.
Units(r, from, to) == [i \in 1 .. to - from |-> [req |-> r, at |-> from + i - 1]]

\* A packet that is not full, or the last unit asked for, ends the data.
HostDataIn ==
  /\ phase = "datain" /\ Delivers
  /\ done' = done + Len(Sent)
  /\ LET last == txSize < EP0Size \/ done' = ask.wLength
         garbled == \/ Sent # Units(ask, done, done')
                    \/ last /\ done' # Lesser(ask.wLength, Answer(ask)) IN
       /\ phase' = IF garbled THEN "idle" ELSE IF last THEN "statusout" ELSE phase
       /\ outcome' = IF garbled THEN "garbled" ELSE outcome
  /\ UNCHANGED ask

HostStatusIn ==
  /\ phase = "statusin" /\ Delivers
  /\ Ends(IF txSize = 0 THEN "ok" ELSE "garbled")

SendsOut(ep, n) ==
  /\ ep \in accepts
  /\ rx' = rx \o <<Entry(ep, "out", n), Entry(ep, "completed", 0)>>
  /\ accepts' = accepts \ {ep}
  /\ UNCHANGED <<software, ep0in, armed, xfrc, stalled, active, bus>>

HostDataOut ==
  /\ phase = "dataout" /\ "out" \notin stalled
  /\ LET n == Lesser(ask.wLength - done, EP0Size) IN
       /\ SendsOut(0, n)
       /\ done' = done + n
       /\ phase' = IF done' = ask.wLength THEN "statusin" ELSE phase
  /\ UNCHANGED <<ask, outcome>>

HostStatusOut ==
  /\ phase = "statusout" /\ "out" \notin stalled
  /\ SendsOut(0, 0) /\ Ends(IF outcome = "cut" THEN "cut" ELSE "ok")

HostStalled ==
  /\ \/ phase \in {"datain", "statusin"} /\ "in" \in stalled
     \/ phase \in {"dataout", "statusout"} /\ "out" \in stalled
  /\ Ends("stalled") /\ UNCHANGED <<software, hardware>>

\* The host has all it wants before the device has sent all.
HostEarly ==
  /\ "early" \in Host /\ phase = "datain" /\ done > 0
  /\ phase' = "statusout" /\ outcome' = "cut"
  /\ UNCHANGED <<software, hardware, ask, done>>

\* Time-outs of the host are long: the device has handled every event by then.
HostGivesUp ==
  /\ "giveup" \in Host /\ phase # "idle" /\ Quiet
  /\ Ends("gaveup") /\ UNCHANGED <<software, hardware>>

BusReset ==
  /\ "reset" \in Host /\ bus = "up"
  /\ bus' = "reset" /\ armed' = {} /\ accepts' = {} /\ stalled' = {}
  /\ Ends("reset")
  /\ UNCHANGED <<software, rx, ep0in, xfrc, active>>

\* The console: the host types, but not while it changes the configuration; lib_putc
\* writes when nothing is pending (it spins otherwise), and the host reads.
HostTypes ==
  /\ active /\ bus = "up"
  /\ phase = "idle" \/ ask.kind # "config"
  /\ SendsOut(1, 1) /\ UNCHANGED host

lib_putc ==
  /\ active /\ bus = "up" /\ 1 \notin armed
  /\ armed' = armed \cup {1}
  /\ UNCHANGED <<software, rx, accepts, ep0in, xfrc, stalled, active, bus, host>>

HostReads ==
  /\ active /\ 1 \in armed
  /\ armed' = armed \ {1} /\ xfrc' = xfrc \cup {1}
  /\ UNCHANGED <<software, rx, accepts, ep0in, stalled, active, bus, host>>

-----------------------------------------------------------------------------
(* The device: evt_poll.  A reset comes before completed transfers, these  *)
(* before received packets.                                                *)

\* USBRST: every endpoint is deconfigured and the receive FIFO flushed.
PollReset ==
  /\ bus = "reset"
  /\ bus' = "enumerated"
  /\ rx' = <<>> /\ txFifo' = <<>> /\ xfrc' = {} /\ active' = FALSE
  /\ UNCHANGED <<software, accepts, txSize, txPending, armed, stalled, host>>

\* Mutant: a reset leaves the device configured.
KeepsState ==
  /\ control_state' = "idle"
  /\ UNCHANGED <<device_state, req, data_ptr, data_count, loopback>>

usbd_process_reset ==
  /\ device_state' = "default" /\ control_state' = "idle"
  /\ UNCHANGED <<req, data_ptr, data_count, loopback>>

\* ENUMDNE: endpoint 0 takes packets again.
PollEnumerated ==
  /\ bus = "enumerated" /\ usbd_process_reset
  /\ bus' = "up" /\ accepts' = {0}
  /\ UNCHANGED <<rx, ep0in, armed, xfrc, stalled, active, host>>

\* ep_write to endpoint 0 behind what the FIFO holds.
ep_write(units, queue) ==
  /\ txFifo' = queue \o units /\ txSize' = Len(units) /\ txPending' = TRUE
  /\ stalled' = stalled \ {"in"}

usbd_stall_pid(queue) ==
  /\ stalled' = {"in", "out"} /\ txFifo' = queue
  /\ control_state' = "idle"
  /\ UNCHANGED <<device_state, loopback, txSize, txPending, armed, accepts, active>>

\* The request in the buffer and how far its data is.
Buffer(r, ptr, count) == req' = r /\ data_ptr' = ptr /\ data_count' = count
KeepsBuffer == UNCHANGED <<req, data_ptr, data_count>>

\* Mutant: an answer that fills its last packet ends without an empty one.
NeverEmpty(state, sent) == TRUE

\* "if all data is sent": no empty packet is required.
NoZlp(state, sent) == state = "txdata" \/ sent # EP0Size

\* The txdata and ztxdata states of usbd_process_eptx.
SendData(r, state, from, count, queue) ==
  LET sent == Lesser(count, EP0Size) IN
  /\ ep_write(Units(r, from, from + sent), queue)
  /\ armed' = armed \cup {0}
  /\ Buffer(r, from + sent, count - sent)
  /\ control_state' = IF count = sent /\ NoZlp(state, sent) THEN "lastdata" ELSE state
  /\ UNCHANGED <<device_state, loopback, accepts, active>>

\* The answer to a request that reads, cut to wLength.
ReturnData(r, queue) ==
  IF Answer(r) >= r.wLength THEN SendData(r, "txdata", 0, r.wLength, queue)
                            ELSE SendData(r, "ztxdata", 0, Answer(r), queue)

\* usbd_set_address and cdc_setconf: what a request does besides being accepted.
Obey(r) ==
  /\ device_state' = CASE r.kind = "address" -> IF r.n = 0 THEN "default" ELSE "addressed"
                       [] r.kind = "config" -> IF r.n = 0 THEN "addressed" ELSE "configured"
                       [] OTHER -> device_state
  /\ IF r.kind = "config"
       THEN /\ loopback' = (r.n = 1) /\ active' = (r.n = 1)
            /\ accepts' = IF r.n = 1 THEN accepts \cup {1} ELSE accepts \ {1}
            /\ armed' = (armed \ {1}) \cup {0}
       ELSE armed' = armed \cup {0} /\ UNCHANGED <<loopback, active, accepts>>

\* "confirming by ZLP in STATUS_IN stage"
Confirm(r, queue) ==
  /\ Obey(r)
  /\ ep_write(<<>>, queue)
  /\ control_state' = "statusin" /\ Buffer(r, 0, MaxSize)

\* usbd_process_request and the answer of usbd_process_eprx to it.
Process(r, queue) ==
  \/ r.kind = "fail" /\ usbd_stall_pid(queue) /\ Buffer(r, 0, MaxSize)
  \/ r.kind # "fail" /\ r.in /\ ReturnData(r, queue)
  \/ r.kind # "fail" /\ ~r.in /\ Confirm(r, queue)

\* A SETUP packet, or what is taken for one: no data to receive, too many, or some.
Begin(r, queue) ==
  IF r.in \/ r.wLength = 0 THEN Process(r, queue)
  ELSE IF r.wLength > MaxSize THEN usbd_stall_pid(queue) /\ Buffer(r, 0, r.wLength)
  ELSE /\ control_state' = "rxdata" /\ Buffer(r, 0, r.wLength)
       /\ txFifo' = queue
       /\ UNCHANGED <<device_state, loopback, txSize, txPending, armed, stalled, accepts, active>>

Moves(state) ==
  /\ control_state' = state
  /\ KeepsBuffer
  /\ UNCHANGED <<device_state, loopback, ep0in, armed, stalled, accepts, active>>

usbd_process_eptx ==
  \/ control_state \in {"txdata", "ztxdata"}
     /\ SendData(req, control_state, data_ptr, data_count, txFifo)
  \/ control_state = "lastdata" /\ Moves("statusout")
  \/ control_state = "statusin" /\ Moves("idle")
  \/ control_state \in {"idle", "rxdata", "statusout"} /\ Moves(control_state)

\* Mutant: received packets come before completed transfers.
AnyTime == TRUE

\* No transfer is completed: received packets have their turn.
NoneCompleted == xfrc = {}

PollTx0 ==
  /\ bus = "up" /\ 0 \in xfrc
  /\ xfrc' = xfrc \ {0} /\ usbd_process_eptx
  /\ UNCHANGED <<rx, bus, host>>

\* Endpoint 1 calls cdc_loopback for its IN side as well, and ep_read pops whatever
\* entry of endpoint 1 the FIFO begins with.  evt_poll keeps ep from an entry that it
\* popped, so endpoint 1 may come before endpoint 0.
PollTx1 ==
  /\ bus = "up" /\ 1 \in xfrc
  /\ xfrc' = xfrc \ {1}
  /\ rx' = IF loopback /\ rx # <<>> /\ Head(rx).ep = 1 THEN Tail(rx) ELSE rx
  /\ UNCHANGED <<software, accepts, ep0in, armed, stalled, active, bus, host>>

Receives(ep, kind) ==
  /\ bus = "up" /\ NoneCompleted
  /\ rx # <<>> /\ Head(rx).ep = ep /\ Head(rx).kind = kind
  /\ UNCHANGED <<xfrc, bus, host>>

\* OUT or SETUP completed: the endpoint takes the next packet.
PollCompleted ==
  /\ \E ep \in {0, 1} : Receives(ep, "completed") /\ accepts' = accepts \cup {ep}
  /\ rx' = Tail(rx)
  /\ UNCHANGED <<software, ep0in, armed, stalled, active>>

\* Mutant: what is stuck in endpoint 0 stays there.
NotFlushed == txFifo

\* "flushing TX if sonething stuck in control endpoint"
Flushed == IF txPending THEN <<>> ELSE txFifo

PollSetup ==
  /\ Receives(0, "setup")
  /\ rx' = Tail(rx) /\ Begin(Head(rx).req, Flushed)

\* usbd_process_eprx for an OUT packet.  One of the length of a SETUP packet that comes
\* in the idle state is taken for a request, whatever it holds.  One that is not
\* expected is not read: it stalls endpoint 0 and comes again in the idle state.
PollOut0 ==
  /\ Receives(0, "out")
  /\ LET n == Lesser(Head(rx).n, data_count) IN
     \/ /\ control_state = "rxdata" /\ n < data_count
        /\ rx' = Tail(rx) /\ Buffer(req, data_ptr + n, data_count - n)
        /\ UNCHANGED <<control_state, device_state, loopback>>
        /\ UNCHANGED <<ep0in, armed, stalled, accepts, active>>
     \/ /\ control_state = "rxdata" /\ n = data_count
        /\ rx' = Tail(rx) /\ Process(req, txFifo)
     \/ control_state = "statusout" /\ rx' = Tail(rx) /\ Moves("idle")
     \/ /\ control_state = "idle" /\ rx' = Tail(rx)
        /\ IF Head(rx).n = EP0Size THEN \E r \in Request : Begin(r, txFifo)
                                   ELSE usbd_stall_pid(txFifo) /\ KeepsBuffer
     \/ /\ control_state \in {"txdata", "ztxdata", "lastdata", "statusin"}
        /\ rx' = rx /\ usbd_stall_pid(txFifo) /\ KeepsBuffer

\* cdc_loopback reads the packet; without it nobody does.
PollOut1 ==
  /\ Receives(1, "out")
  /\ rx' = IF loopback THEN Tail(rx) ELSE rx
  /\ UNCHANGED <<software, accepts, ep0in, armed, stalled, active>>

PollRx == PollCompleted \/ PollSetup \/ PollOut0 \/ PollOut1
evt_poll == PollReset \/ PollEnumerated \/ PollTx0 \/ PollTx1 \/ PollRx

HostGoesOn == HostDataIn \/ HostStatusIn \/ HostDataOut \/ HostStatusOut \/ HostStalled

Next ==
  \/ evt_poll \/ HostGoesOn \/ HostReads
  \/ \E r \in Request : HostSetup(r)
  \/ HostEarly \/ HostGivesUp \/ BusReset \/ HostTypes \/ lib_putc

Spec == Init /\ [][Next]_vars

\* The interrupt is not masked for ever, and no thread runs between two of its events,
\* so lib_putc cannot put off a received packet again and again; every call of evt_poll
\* starts at endpoint 0; the host goes on with a transfer and reads the console.
FairSpec ==
  /\ Spec /\ WF_vars(evt_poll) /\ SF_vars(PollRx) /\ SF_vars(PollTx0)
  /\ WF_vars(HostGoesOn) /\ WF_vars(HostReads)

-----------------------------------------------------------------------------
(* Properties.                                                             *)

\* Every variable has its type.
UsbTypeOK ==
  /\ control_state \in ControlState /\ device_state \in DeviceState
  /\ req \in Request \cup {NoRequest} /\ data_ptr \in Nat /\ data_count \in Nat
  /\ loopback \in BOOLEAN /\ active \in BOOLEAN /\ txPending \in BOOLEAN
  /\ accepts \subseteq {0, 1} /\ armed \subseteq {0, 1} /\ xfrc \subseteq {0, 1}
  /\ stalled \subseteq {"in", "out"} /\ bus \in {"up", "reset", "enumerated"}
  /\ txSize \in 0 .. EP0Size
  /\ phase \in {"idle", "datain", "dataout", "statusin", "statusout"}
  /\ outcome \in {"none", "ok", "stalled", "garbled", "cut", "gaveup", "reset"}

\* The host gets the whole answer to its own request and nothing else: not what is left
\* of a transfer it gave up, and an empty packet exactly where the answer needs one.
AnswersAreWhole == outcome # "garbled"

\* A request that the device knows is not stalled, whatever transfer it follows.
KnownIsServed == outcome = "stalled" => ask.kind = "fail" \/ (~ask.in /\ ask.wLength > MaxSize)

\* A configured device listens on its endpoints, and goes back after a bus reset.
ConfiguredIsActive == bus = "up" => (device_state = "configured") = (active /\ loopback)

\* "OUT completed": endpoint 1 takes the next packet, or an entry that makes it do so is
\* on its way.
ReceptionGoesOn ==
  bus = "up" /\ active =>
    1 \in accepts \/ \E i \in DOMAIN rx : rx[i] = Entry(1, "completed", 0)

\* Every control transfer comes to an end, with an answer or a stall.
TransferEnds == phase # "idle" ~> phase = "idle"
=============================================================================
