------------------------------- MODULE MCHeap -------------------------------
(* Heap for TLC: the values of its constants are in heap.cfg.              *)
EXTENDS Heap
=============================================================================
