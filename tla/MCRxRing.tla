------------------------------ MODULE MCRxRing ------------------------------
(* RxRing on a small ring: rx.cfg.                                         *)
EXTENDS RxRing
=============================================================================
