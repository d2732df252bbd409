----------------------------- MODULE MCUsbDevice -----------------------------
(* UsbDevice for TLC: usb.cfg and usb_console.cfg.                         *)
EXTENDS UsbDevice

Reads(kind, n, wLength) == [in |-> TRUE, wLength |-> wLength, kind |-> kind, n |-> n]
Writes(kind, n, wLength) == [in |-> FALSE, wLength |-> wLength, kind |-> kind, n |-> n]

\* Answers shorter and longer than asked for, that end in a full packet and in one that
\* is not; writes of two packets, of one and of none; both configurations.
MCRequest ==
  {Reads("data", 4, 4), Reads("data", 2, 4), Reads("data", 3, 4), Reads("data", 4, 3),
   Reads("buffer", 0, 1), Reads("fail", 0, 4),
   Writes("ack", 0, 3), Writes("fail", 0, 2), Writes("address", 1, 0),
   Writes("config", 0, 0), Writes("config", 1, 0)}
=============================================================================
