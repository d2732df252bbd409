----------------------------- MODULE Allocator -----------------------------
(***************************************************************************)
(* What malloc and free promise their callers, whatever the free list      *)
(* looks like: a block is a run of free units and stays its owner's until  *)
(* it is freed, and a request is refused only when no run is long enough.  *)
(***************************************************************************)
EXTENDS Integers

CONSTANTS Units   \* the size of the heap in units of sizeof(struct memblk)

Unit == 1 .. Units
Nobody == 0

VARIABLES
  owner,    \* the block a unit belongs to, named by its first unit
  asked,    \* the units the last call asked malloc for, 0 if it did not
  answer    \* what that call returned

Run(first, n) == first .. first + n - 1
FreeRun(first, n) == Run(first, n) \subseteq {x \in Unit : owner[x] = Nobody}

Init == owner = [x \in Unit |-> Nobody] /\ asked = 0 /\ answer = Nobody

Grab(first) ==
  /\ asked' \in Unit /\ FreeRun(first, asked')
  /\ owner' = [x \in Unit |-> IF x \in Run(first, asked') THEN first ELSE owner[x]]
  /\ answer' = first

\* Nothing is handed out; asked for nothing, that is what always happens.
Refuse ==
  /\ asked' = 0 \/ \A first \in Unit : ~FreeRun(first, asked')
  /\ answer' = Nobody
  /\ UNCHANGED owner

Release(block) ==
  /\ owner' = [x \in Unit |-> IF owner[x] = block THEN Nobody ELSE owner[x]]
  /\ asked' = 0 /\ answer' = Nobody

Next == Refuse \/ \E block \in Unit : Grab(block) \/ Release(block)

Spec == Init /\ [][Next]_<<owner, asked, answer>>
=============================================================================
