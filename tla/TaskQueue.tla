------------------------------ MODULE TaskQueue ------------------------------
(***************************************************************************)
(* The intrusive lists of kernel/Src/queue.c: every task_t has one pointer *)
(* next for the ready queue, the sleep queue and the waiters of a          *)
(* semaphore.  It is not cleared when the task is taken off a list, so     *)
(* whoever links the task again must set it.                               *)
(*                                                                         *)
(* Each operation is one action, as it is in a handler or with interrupts  *)
(* masked.  The ready() of a thread is neither: here no interrupt falls    *)
(* into it, TaskQueueReady divides it.                                     *)
(*                                                                         *)
(* Kernel has the rest of the kernel on sequences.  Here create is part of *)
(* Ready, a time slice may end with any tick, and there is one semaphore.  *)
(***************************************************************************)
EXTENDS Integers, Sequences

CONSTANTS
  NTask,      \* MAX_NUMBER_OF_TASKS
  NULL,       \* the null pointer
  Delays,     \* the arguments of sleep
  MaxTicks    \* bound of the model: the clock stops here

ASSUME NTaskAssumption == NTask \in Nat \ {0}
ASSUME NullAssumption == NULL \notin 0 .. NTask - 1
ASSUME DelaysAssumption == Delays \subseteq Nat \ {0} /\ MaxTicks \in Nat

Task == 0 .. NTask - 1
NULLTHREAD == 0
Queue == {"ready_queue", "sleep_queue", "waitq"}

VARIABLES
  mem,          \* the pointers: first[q], last[q], next[t]
  state,        \* task[t].state
  param,        \* task[t].param
  sys_time,
  active_task,
  pendsv,       \* PENDSVSET
  value,        \* of the semaphore
  pc            \* "run"; "in" the section; before PEND_SV() without a tick, or after one

vars == <<mem, state, param, sys_time, active_task, pendsv, value, pc>>

Init ==
  /\ mem = [first |-> [q \in Queue |-> NULL], last |-> [q \in Queue |-> NULL],
            next |-> [t \in Task |-> NULL]]
  /\ state = [t \in Task |-> IF t = NULLTHREAD THEN "CURR" ELSE "FREE"]
  /\ param = [t \in Task |-> 0] /\ sys_time = 0
  /\ active_task = NULLTHREAD /\ pendsv = FALSE
  /\ value = 1 /\ pc = [t \in Task |-> "run"]

-----------------------------------------------------------------------------
(* queue.c, on m, the pointers.                                            *)

\* Mutant: next keeps what it was.
KeepsNext(m, q, t) ==
  IF m.first[q] = NULL
  THEN [m EXCEPT !.first[q] = t, !.last[q] = t]
  ELSE [m EXCEPT !.next[m.last[q]] = t, !.last[q] = t]

queue_push(m, q, t) ==
  IF m.first[q] = NULL
  THEN [m EXCEPT !.next[t] = NULL, !.first[q] = t, !.last[q] = t]
  ELSE [m EXCEPT !.next[t] = NULL, !.next[m.last[q]] = t, !.last[q] = t]

queue_pop(m, q) ==
  LET rest == m.next[m.first[q]]
  IN [m EXCEPT !.first[q] = rest, !.last[q] = IF rest = NULL THEN NULL ELSE @]

\* Where the loop of queue_pushsort stops for a task of key p: the first node, the head
\* included, behind which there is none, or one whose key is not below p.
StopAt(m, q, p) ==
  LET passes(x) == m.next[x] # NULL /\ p > param[m.next[x]]
      tmp[i \in 0 .. NTask] == IF i = 0 THEN m.first[q]
                               ELSE IF passes(tmp[i - 1]) THEN m.next[tmp[i - 1]] ELSE tmp[i - 1]
  IN tmp[NTask]

\* Mutant: a task linked behind the last one does not become the last.
Behind(m, q, t, x) == [m EXCEPT !.next[t] = m.next[x], !.next[x] = t]
LinkBehind(m, q, t, x) ==
  [m EXCEPT !.next[t] = m.next[x], !.next[x] = t,
            !.last[q] = IF m.next[x] = NULL THEN t ELSE @]

queue_pushsort(m, q, t, p) ==
  IF m.first[q] = NULL
  THEN [m EXCEPT !.first[q] = t, !.last[q] = t, !.next[t] = NULL]
  ELSE IF p < param[m.first[q]]
       THEN [m EXCEPT !.next[t] = m.first[q], !.first[q] = t]
       ELSE LinkBehind(m, q, t, StopAt(m, q, p))

-----------------------------------------------------------------------------
(* The handlers.                                                           *)

\* The ready queue that PendSV_Handler pops from.
Rotated == IF state[active_task] = "CURR" THEN queue_push(mem, "ready_queue", active_task) ELSE mem

\* An empty queue would make active_task NULL: Kernel has that case.
PendSV_Handler ==
  /\ pendsv /\ Rotated.first["ready_queue"] # NULL
  /\ pendsv' = FALSE
  /\ LET next == Rotated.first["ready_queue"] IN
     /\ active_task' = next
     /\ mem' = queue_pop(Rotated, "ready_queue")
     /\ state' = [[state EXCEPT ![active_task] = IF @ = "CURR" THEN "READY" ELSE @]
                    EXCEPT ![next] = "CURR"]
  /\ UNCHANGED <<param, sys_time, value, pc>>

\* The loop of TIM2_Handler: the head of the sleep queue goes to the ready queue as long as
\* its time has come.
Expired(time) ==
  LET turn[i \in 0 .. NTask] ==
        IF i = 0 THEN [m |-> mem, woken |-> {}]
        ELSE LET w == turn[i - 1]
                 tmp == w.m.first["sleep_queue"]
             IN IF tmp = NULL \/ time < param[tmp] THEN w
                ELSE [m |-> queue_push(queue_pop(w.m, "sleep_queue"), "ready_queue", tmp),
                      woken |-> w.woken \cup {tmp}]
  IN turn[NTask]

\* One tick at most falls between the two halves of sleep: see Kernel.
TIM2_Handler ==
  /\ ~pendsv /\ ~(pc[active_task] = "late" /\ state[active_task] = "SLEEP")
  /\ sys_time' = IF sys_time < MaxTicks THEN sys_time + 1 ELSE sys_time
  /\ mem' = Expired(sys_time').m
  /\ state' = [t \in Task |-> IF t \in Expired(sys_time').woken THEN "CURR" ELSE state[t]]
  /\ pendsv' \in BOOLEAN
  /\ pc' = [pc EXCEPT ![active_task] = IF @ = "pend" THEN "late" ELSE @]
  /\ UNCHANGED <<param, active_task, value>>

-----------------------------------------------------------------------------
(* The threads.  The null task only creates others.                        *)

At(t, stage) == active_task = t /\ ~pendsv /\ pc[t] = stage
Goto(t, stage) == pc' = [pc EXCEPT ![t] = stage]

Sleep(t) ==
  /\ At(t, "run") /\ t # NULLTHREAD
  /\ \E ticks \in Delays :
       /\ sys_time + ticks <= MaxTicks
       /\ param' = [param EXCEPT ![t] = sys_time + ticks]
       /\ mem' = queue_pushsort(mem, "sleep_queue", t, sys_time + ticks)
  /\ state' = [state EXCEPT ![t] = "SLEEP"]
  /\ Goto(t, "pend")
  /\ UNCHANGED <<sys_time, active_task, pendsv, value>>

\* PEND_SV(), of sleep and of killer.
Pend(t) ==
  /\ At(t, "pend") \/ At(t, "late")
  /\ pendsv' = TRUE /\ Goto(t, "run")
  /\ UNCHANGED <<mem, state, param, sys_time, active_task, value>>

sem_wait(t) ==
  /\ At(t, "run") /\ t # NULLTHREAD
  /\ Goto(t, "in")
  /\ \/ value > 0 /\ value' = value - 1 /\ UNCHANGED <<mem, state, pendsv>>
     \/ /\ value = 0
        /\ state' = [state EXCEPT ![t] = "WAIT"]
        /\ mem' = queue_push(mem, "waitq", t)
        /\ pendsv' = TRUE
        /\ UNCHANGED value
  /\ UNCHANGED <<param, sys_time, active_task>>

NextValue == IF mem.first["waitq"] = NULL THEN value + 1 ELSE value

sem_signal(t) ==
  /\ At(t, "in")
  /\ Goto(t, "run")
  /\ value' = NextValue
  /\ LET tmp == mem.first["waitq"]
     IN IF tmp = NULL THEN UNCHANGED <<mem, state, pendsv>>
        ELSE /\ state' = [state EXCEPT ![tmp] = "READY"]
             /\ mem' = queue_push(queue_pop(mem, "waitq"), "ready_queue", tmp)
             /\ pendsv' = TRUE
  /\ UNCHANGED <<param, sys_time, active_task>>

\* ready(pid) of a task that create has just put into a free slot.
Ready(t) ==
  /\ At(t, "run")
  /\ \E p \in Task :
       /\ state[p] = "FREE"
       /\ state' = [state EXCEPT ![p] = "CURR"]
       /\ mem' = queue_push(mem, "ready_queue", p)
       /\ pc' = [pc EXCEPT ![p] = "run"]
  /\ UNCHANGED <<param, sys_time, active_task, pendsv, value>>

\* A procedure returns to killer, which frees the slot.
Exit(t) ==
  /\ At(t, "run") /\ t # NULLTHREAD
  /\ state' = [state EXCEPT ![t] = "FREE"]
  /\ Goto(t, "pend")
  /\ UNCHANGED <<mem, param, sys_time, active_task, pendsv, value>>

Calls(t) == Sleep(t) \/ Pend(t) \/ sem_wait(t) \/ sem_signal(t) \/ Exit(t)
Next == PendSV_Handler \/ TIM2_Handler \/ \E t \in Task : Calls(t) \/ Ready(t)
Spec == Init /\ [][Next]_vars

-----------------------------------------------------------------------------
(* Properties.                                                             *)

\* The tasks linked from first on; more than there are tasks if the list is a cycle.
Items(q) ==
  LET node[i \in 1 .. NTask + 2] ==
        IF i = 1 THEN mem.first[q]
        ELSE IF node[i - 1] = NULL THEN NULL ELSE mem.next[node[i - 1]]
      len == CHOOSE n \in 0 .. NTask + 1 : /\ \A i \in 1 .. n : node[i] # NULL
                                           /\ n = NTask + 1 \/ node[n + 1] = NULL
  IN [i \in 1 .. len |-> node[i]]

\* Every variable has its type.
QueueTypeOK ==
  /\ mem \in [first : [Queue -> Task \cup {NULL}], last : [Queue -> Task \cup {NULL}],
              next : [Task -> Task \cup {NULL}]]
  /\ state \in [Task -> {"FREE", "CURR", "READY", "SLEEP", "WAIT"}]
  /\ param \in [Task -> Nat] /\ sys_time \in 0 .. MaxTicks
  /\ active_task \in Task /\ pendsv \in BOOLEAN /\ value \in 0 .. 1
  /\ pc \in [Task -> {"run", "in", "pend", "late"}]

\* Every list ends, and last points to its end: queue_pushsort, queue_pop and queue_push, which
\* relies on it, keep it by different rules (queue.c:62, 87, 104).
LastIsLast ==
  \A q \in Queue : Items(q) # <<>> => Len(Items(q)) <= NTask /\ mem.last[q] = Items(q)[Len(Items(q))]

\* process.h:65, PR_READY, "Process is on ready queue": it can be reached from first.
ReadyIsQueued ==
  \A t \in Task : state[t] = "READY" => \E i \in DOMAIN Items("ready_queue") : Items("ready_queue")[i] = t

Lists == INSTANCE TaskLists WITH
  ready <- Items("ready_queue"), sleeping <- Items("sleep_queue"), waiting <- Items("waitq"),
  active <- active_task, runnable <- state[active_task] = "CURR",
  time <- sys_time, due <- param

\* The pointers implement sequences, with stale values of next left in every task that is
\* on no list (queue_pop, queue.c:98).
ListsSpec == Lists!Spec
=============================================================================
