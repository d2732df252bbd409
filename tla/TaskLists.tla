------------------------------ MODULE TaskLists ------------------------------
(***************************************************************************)
(* What the kernel expects of its three kinds of task lists: first in,     *)
(* first out for the ready queue and the waiters of a semaphore, the order *)
(* of their times for the sleepers, and no task lost or moved unasked.     *)
(***************************************************************************)
EXTENDS Naturals, Sequences

CONSTANT Task

VARIABLES
  ready, sleeping, waiting,    \* sequences of tasks
  active, runnable,            \* the task that runs, and whether it can go on running
  time, due                    \* the clock, and when each sleeper is to be woken

Sorted(q) == \A i, j \in DOMAIN q : i < j => due'[q[i]] <= due'[q[j]]
InsertedAt(q, t, i) == SubSeq(q, 1, i - 1) \o <<t>> \o SubSeq(q, i, Len(q))

\* The running task goes behind the ready ones if it can go on, and the first of them runs.
Dispatch ==
  LET q == IF runnable THEN Append(ready, active) ELSE ready
  IN /\ q # <<>>
     /\ active' = Head(q) /\ ready' = Tail(q)
     /\ UNCHANGED <<sleeping, waiting, time, due>>

\* The sleepers whose time has come, all of them and no others, join the ready ones; they
\* stand before the others.
Wake ==
  \E k \in 0 .. Len(sleeping) :
    /\ \A i \in 1 .. Len(sleeping) : time' >= due[sleeping[i]] <=> i <= k
    /\ ready' = ready \o SubSeq(sleeping, 1, k)
    /\ sleeping' = SubSeq(sleeping, k + 1, Len(sleeping))
    /\ UNCHANGED <<waiting, active, due>>

\* The running task sleeps; it may stand before or behind sleepers of the same time.
Park ==
  /\ \E i \in 1 .. Len(sleeping) + 1 : sleeping' = InsertedAt(sleeping, active, i)
  /\ Sorted(sleeping')
  /\ \A t \in Task \ {active} : due'[t] = due[t]
  /\ UNCHANGED <<ready, waiting, active, time>>

Wait == waiting' = Append(waiting, active) /\ UNCHANGED <<ready, sleeping, active, time, due>>

Signal ==
  /\ waiting # <<>>
  /\ ready' = Append(ready, Head(waiting)) /\ waiting' = Tail(waiting)
  /\ UNCHANGED <<sleeping, active, time, due>>

Enter ==
  /\ \E t \in Task : ready' = Append(ready, t)
  /\ UNCHANGED <<sleeping, waiting, active, time, due>>

\* The running task ends, or goes on.
Leave == UNCHANGED <<ready, sleeping, waiting, active, time, due>>

Init == ready = <<>> /\ sleeping = <<>> /\ waiting = <<>>
Next == Dispatch \/ Wake \/ Park \/ Wait \/ Signal \/ Enter \/ Leave
Spec == Init /\ [][Next]_<<ready, sleeping, waiting, active, runnable, time, due>>
=============================================================================
