------------------------------- MODULE RxRing -------------------------------
(***************************************************************************)
(* usb/cdc/usb_cdc_api.c: the receive ring between cdc_loopback, called by *)
(* OTG_FS_Handler, and its readers: main, which waits for a first byte,    *)
(* and then the shell.  The handler runs to its end; the readers never     *)
(* mask interrupts, so each load or store of theirs is a step.             *)
(***************************************************************************)
EXTENDS Integers, Sequences

CONSTANTS
  Size,      \* UART_CDC_RX0_BUFFER_SIZE, 64 in the code
  DataSize,  \* CDC_DATA_SZ: no packet is longer
  BufLen,    \* SHELL_BUFLEN: what the shell asks readBytes for
  Byte       \* what the host sends

ASSUME SizeAssumption == Size \in Nat /\ Size > 1 /\ DataSize \in Nat /\ BufLen \in Nat \ {0}
ASSUME ByteAssumption == Byte \subseteq Nat

Index == 0 .. Size - 1
NO_DATA == -1              \* UART_CDC_NO_DATA, no value of a byte
BUFFER_OVERFLOW == 2       \* UART_CDC_BUFFER_OVERFLOW >> 8

VARIABLES
  RxHead, RxTail,   \* the slots last written and last read
  RxBuf,
  LastRxError,
  rpc,              \* where the reader is
  booted,           \* main has got its byte: the reader is the shell
  count,            \* the variable of readBytes
  result            \* data and error in the last answer of usb_getc

ring == <<RxHead, RxTail, RxBuf, LastRxError>>
vars == <<ring, rpc, booted, count, result>>

Init ==
  /\ RxHead = 0 /\ RxTail = 0
  /\ RxBuf = [i \in Index |-> 0] /\ LastRxError = 0
  /\ rpc = "wait" /\ booted = FALSE /\ count = 0
  /\ result = [data |-> NO_DATA, error |-> 0]

After(i) == (i + 1) % Size

-----------------------------------------------------------------------------
(* The handler.                                                            *)

\* Mutant: there is always room.
Always(head) == TRUE

\* "error: receive buffer overflow": the slot after the head must not be the tail.
Accepts(head) == After(head) # RxTail

\* The first n bytes of a packet are stored, the rest is dropped.
Stored(n, packet) ==
  /\ \A i \in 0 .. n - 1 : Accepts((RxHead + i) % Size)
  /\ n < Len(packet) => ~Accepts((RxHead + n) % Size)

\* lastRxError is not initialised: without an overflow its value is anything the
\* build leaves there, BUFFER_OVERFLOW in the listing of the repository.
cdc_loopback(packet) ==
  \E n \in 0 .. Len(packet) :
    /\ Stored(n, packet)
    /\ RxHead' = (RxHead + n) % Size
    /\ RxBuf' = [j \in Index |->
                   IF \E i \in 1 .. n : j = (RxHead + i) % Size
                   THEN packet[CHOOSE i \in 1 .. n : j = (RxHead + i) % Size]
                   ELSE RxBuf[j]]
    /\ LastRxError' \in IF n < Len(packet) THEN {BUFFER_OVERFLOW} ELSE {0, BUFFER_OVERFLOW}
    /\ UNCHANGED <<RxTail, rpc, booted, count, result>>

Packet == UNION {[1 .. n -> Byte] : n \in 1 .. DataSize}
OTG_FS_Handler == \E packet \in Packet : cdc_loopback(packet)

-----------------------------------------------------------------------------
(* The readers.                                                            *)

\* Mutant: the difference of the indices without the mask.
HeadAbove == RxHead > RxTail

usb_available == (Size + RxHead - RxTail) % Size # 0

Goto(stage) == rpc' = stage
Idle == UNCHANGED <<ring, booted, count, result>>

\* main: a byte, or the button, is a reason to call usb_getc.
MainPoll ==
  /\ rpc = "wait" /\ ~booted /\ usb_available
  /\ Goto("getc") /\ Idle

MainButton ==
  /\ rpc = "wait" /\ ~booted
  /\ Goto("getc") /\ Idle

\* main goes on when usb_getc answers anything but 0: NO_DATA as well.
MainTest ==
  /\ rpc = "got" /\ ~booted
  /\ booted' = ~(result.data = 0 /\ result.error = 0)
  /\ Goto("wait")
  /\ UNCHANGED <<ring, count, result>>

\* shell: while(!usb_available()) sleep(0);
ShellPoll ==
  /\ rpc = "wait" /\ booted /\ usb_available
  /\ Goto("more") /\ Idle

\* while(usb_available()) ulen = readBytes(buf, sizeof(buf));
ShellRead ==
  /\ rpc = "more" /\ usb_available
  /\ count' = 0
  /\ Goto("getc") /\ UNCHANGED <<ring, booted, result>>

\* The line is complete: the shell obeys it and comes back.
ShellLine ==
  /\ rpc = "more" /\ ~usb_available
  /\ Goto("wait") /\ Idle

\* readBytes: usb_getc is never below 0, so NO_DATA does not end the loop.
ReadNext ==
  /\ rpc = "got" /\ booted
  /\ count' = count + 1
  /\ Goto(IF count' < BufLen THEN "getc" ELSE "more")
  /\ UNCHANGED <<ring, booted, result>>

\* usb_getc compares the indices, ...
GetcEmpty ==
  /\ rpc = "getc" /\ RxHead = RxTail
  /\ result' = [data |-> NO_DATA, error |-> 0]
  /\ Goto("got")
  /\ UNCHANGED <<ring, booted, count>>

GetcSome ==
  /\ rpc = "getc" /\ RxHead # RxTail
  /\ Goto("tail") /\ Idle

\* ... stores the new tail before it reads the slot, ...
GetcTail ==
  /\ rpc = "tail"
  /\ RxTail' = After(RxTail)
  /\ Goto("data")
  /\ UNCHANGED <<RxHead, RxBuf, LastRxError, booted, count, result>>

GetcData ==
  /\ rpc = "data"
  /\ result' = [result EXCEPT !.data = RxBuf[RxTail]]
  /\ Goto("error")
  /\ UNCHANGED <<ring, booted, count>>

\* ... and reads the error last.
GetcError ==
  /\ rpc = "error"
  /\ result' = [result EXCEPT !.error = LastRxError]
  /\ Goto("got")
  /\ UNCHANGED <<ring, booted, count>>

Reader ==
  \/ MainPoll \/ MainTest \/ ShellPoll \/ ShellRead \/ ShellLine \/ ReadNext
  \/ GetcEmpty \/ GetcSome \/ GetcTail \/ GetcData \/ GetcError

Next == OTG_FS_Handler \/ MainButton \/ Reader

Spec == Init /\ [][Next]_vars

\* main has the processor to itself; the shell is dispatched again and again
\* (RunnableRuns of Kernel).  Nobody has to press the button.
FairSpec == Spec /\ WF_vars(Reader)

-----------------------------------------------------------------------------
(* Properties.                                                             *)

\* Every variable has its type.
RingTypeOK ==
  /\ RxHead \in Index /\ RxTail \in Index
  /\ RxBuf \in [Index -> Byte \cup {0}]
  /\ LastRxError \in {0, BUFFER_OVERFLOW}
  /\ rpc \in {"wait", "more", "getc", "tail", "data", "error", "got"}
  /\ booted \in BOOLEAN /\ count \in 0 .. BufLen
  /\ result \in [data : Byte \cup {0, NO_DATA}, error : {0, BUFFER_OVERFLOW}]

\* The ring is a queue of Size - 1 bytes: the tail is moved before the byte is read, yet
\* no packet that arrives in between can overwrite it; nothing is lost while there is
\* room, read twice, or read out of order, however often the indices wrap.
Unread == [i \in 1 .. (Size + RxHead - RxTail) % Size |-> RxBuf[(RxTail + i) % Size]]
F == INSTANCE RxFifo WITH queue <- Unread, NoData <- NO_DATA, Capacity <- Size - 1,
                          data <- IF rpc = "data" THEN RxBuf[RxTail] ELSE result.data
FifoSpec == F!Spec

\* A byte in the ring is taken in the end, wherever the indices stand: neither main nor
\* the shell goes on waiting for it.
BytesAreTaken == RxHead # RxTail ~> rpc = "data"
=============================================================================
