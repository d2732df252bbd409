------------------------------- MODULE Kernel -------------------------------
(***************************************************************************)
(* The task kernel of kernel/Src: the task table, the ready queue, the     *)
(* sleep queue and the counting semaphores, driven by two interrupt        *)
(* handlers (PendSV_Handler, TIM2_Handler) and by the threads.             *)
(*                                                                         *)
(* Grain.  No NVIC priority is ever set, so handlers never nest: PendSV,   *)
(* TIM2 and a whole supervisor call are one action each.  A thread step is *)
(* what runs between two points where an interrupt can be taken: a region  *)
(* between cpsid and the next cpsie is one action.  SYS_EXIT and           *)
(* irq_restore execute cpsie whatever was saved, so the masked region of   *)
(* create and kill ends at the first semaphore operation inside it.        *)
(* While PendSV is pending and interrupts are enabled no thread step can   *)
(* come first, and of two pending exceptions PendSV has the lower number.  *)
(*                                                                         *)
(* The intrusive lists are sequences here; TaskQueue has the pointers.     *)
(* ready() of a thread pushes with interrupts on: it is divided at the     *)
(* loads and stores of queue_push.  Where a handler has changed the list   *)
(* between two of them, or finds it half changed, the list is no sequence  *)
(* any more: the run ends with the fault "torn" (TaskQueueReady shows what *)
(* becomes of such a list).                                                *)
(***************************************************************************)
EXTENDS Integers, Sequences, FiniteSets

CONSTANTS
  NTask,      \* MAX_NUMBER_OF_TASKS, 12 in process.h
  QUANTUM,    \* ticks a task may run, 10 in kernel.h
  Word,       \* sys_time is counted modulo Word, 2^32 in the code
  Delays,     \* the non-zero arguments threads give to sleep
  Creators,   \* the programs that create more tasks once the system is up
  SvcCalls,   \* the calls loaded programs make through the supervisor call
  MaxStacks,  \* how many stacks the heap can hold at a time: those of boot at least
  MaxTicks    \* bound of the model: the clock stops here

ASSUME NTaskAssumption == NTask \in Nat /\ NTask > 3
ASSUME QuantumAssumption == QUANTUM \in Nat \ {0}
ASSUME WordAssumption == Word \in Nat \ {0} /\ MaxTicks \in Nat
ASSUME StacksAssumption == MaxStacks \in Nat /\ MaxStacks > 2
ASSUME DelaysAssumption == Delays \subseteq Nat \ {0}
ASSUME CallsAssumption == /\ SvcCalls \subseteq {"sleep", "pin", "malloc", "oom", "create"}
                          /\ Creators \subseteq {"shell", "cmd"}

Task == 0 .. NTask - 1      \* a task is its slot of the table
NULLTHREAD == 0             \* the slot init_kernel gives to nullp
NoSlot == -1                \* newpid's answer when every slot is taken
Sem == {"sem_malloc", "sem_gpio"}
Program == {"none", "nullp", "blink", "usr", "shell", "cmd"}
State == {"FREE", "CURR", "READY", "SLEEP", "SUSP", "WAIT"}
Stage == {"run", "pend", "gpio", "heap", "nomem", "nullfree", "getmem", "fill", "made",
          "first", "load", "link", "last", "panic", "panicpin",
          "freestk", "nextimg", "freeimg", "die", "gone"}
Stack == {"none", "held", "freed", "reused"}
Fault == {"none", "null_active", "bad_slot", "slot_taken", "panic", "stack", "duplicate",
          "torn", "null_free", "null_pop"}

VARIABLES
  state,                     \* a field of task[t]
  ready_queue, sleep_queue,  \* sequences of tasks
  active_task,
  now,                       \* ticks since the start; sys_time is its low word
  preempt,
  ticked,                    \* bound of the model: see TIM2_Handler
  pendsv,                    \* PENDSVSET, written by PEND_SV()
  value, waitq,              \* the fields of a sem_t
  leaked,                    \* history: the tokens of sem_malloc that failing mallocs kept
  prog, elf, plan,           \* what t runs; its elf flag; what it has yet to create
  pc,                        \* where the thread of t is between two steps
  claim,                     \* the pid create got from newpid, until it is ready
  tail,                      \* ready_queue.last as the queue_push of ready() has loaded it
  stk,                       \* what became of the stack of t
  due,                       \* the tick that ends the sleep of t; param is its low word
  fault                      \* the first step of the run that no C program survives

timeVars == <<now, preempt, ticked>>
semVars == <<value, waitq>>
roleVars == <<prog, elf, plan, stk>>
callVars == <<claim, tail, leaked>>
vars == <<state, ready_queue, sleep_queue, active_task, timeVars, pendsv,
          semVars, roleVars, pc, callVars, due, fault>>

sys_time == now % Word
param(t) == due[t] % Word

\* The members of a sequence.
Members(q) == {q[i] : i \in DOMAIN q}

\* The state init_kernel leaves when nullp() starts: interrupts on, slot 0 running.
Init ==
  /\ state = [t \in Task |-> IF t = NULLTHREAD THEN "CURR" ELSE "FREE"]
  /\ ready_queue = <<>> /\ sleep_queue = <<>>
  /\ active_task = NULLTHREAD
  /\ now = 0 /\ preempt = QUANTUM /\ ticked = FALSE /\ pendsv = FALSE
  /\ value = [s \in Sem |-> 1] /\ waitq = [s \in Sem |-> <<>>] /\ leaked = 0
  /\ prog = [t \in Task |-> IF t = NULLTHREAD THEN "nullp" ELSE "none"]
  /\ elf = [t \in Task |-> FALSE]
  /\ plan = [t \in Task |-> IF t = NULLTHREAD THEN <<"blink", "usr">> ELSE <<>>]
  /\ pc = [t \in Task |-> "run"]
  /\ claim = [t \in Task |-> NoSlot] /\ tail = [t \in Task |-> NoSlot]
  /\ stk = [t \in Task |-> IF t = NULLTHREAD THEN "held" ELSE "none"]
  /\ due = [t \in Task |-> 0]
  /\ fault = "none"

-----------------------------------------------------------------------------
(* Interrupt handlers.                                                     *)

\* queue_push of a task that is already linked ties the list into a cycle.
queue_push(q, t) == Append(q, t)
Linked(t) == \/ t \in Members(ready_queue) \cup Members(sleep_queue)
             \/ \E s \in Sem : t \in Members(waitq[s])
FaultIf(bad, f) == fault' = IF bad THEN f ELSE fault

\* The running thread has linked a task and not yet stored it to ready_queue.last.
HalfLinked == pc[active_task] = "last"

\* Mutants of the next definition: the preempted task is not put back; it is put back
\* whatever its state; it is put back in front.
NotRequeued == ready_queue
AlwaysRequeued == queue_push(ready_queue, active_task)
RequeuedInFront == IF state[active_task] = "CURR" THEN <<active_task>> \o ready_queue
                                                  ELSE ready_queue

\* What PendSV_Handler pops from: the ready queue, behind it the task it preempts.
Rotated == IF state[active_task] = "CURR" THEN queue_push(ready_queue, active_task)
                                          ELSE ready_queue

\* queue_pop is not checked: an empty queue makes active_task NULL.
PendSV_Handler ==
  /\ pendsv /\ fault = "none" /\ ~HalfLinked
  /\ pendsv' = FALSE
  /\ \/ /\ Rotated # <<>>
        /\ LET next == Head(Rotated) IN
           /\ active_task' = next
           /\ ready_queue' = Tail(Rotated)
           /\ state' = [[state EXCEPT ![active_task] = IF @ = "CURR" THEN "READY" ELSE @]
                          EXCEPT ![next] = "CURR"]
           /\ fault' = CASE state[active_task] = "CURR" /\ Linked(active_task) -> "duplicate"
                         [] stk[next] = "reused" -> "stack"
                         [] OTHER -> fault
        /\ preempt' = QUANTUM
     \/ /\ Rotated = <<>>
        /\ fault' = "null_active"
        /\ UNCHANGED <<active_task, ready_queue, state, preempt>>
  /\ UNCHANGED <<sleep_queue, now, ticked, semVars, roleVars, pc, callVars, due>>

\* Mutants: a tick too early; the last sleeper stays.
TickEarly(n, time) ==
  /\ \A i \in 1 .. n : time + 1 >= param(sleep_queue[i])
  /\ n < Len(sleep_queue) => time + 1 < param(sleep_queue[n + 1])
KeepsLast(n, time) ==
  /\ \A i \in 1 .. n : time >= param(sleep_queue[i]) /\ i < Len(sleep_queue)
  /\ n + 1 < Len(sleep_queue) => time < param(sleep_queue[n + 1])

\* The sleepers at the head of the queue whose time has come are its first n.
Expired(n, time) ==
  /\ \A i \in 1 .. n : time >= param(sleep_queue[i])
  /\ n < Len(sleep_queue) => time < param(sleep_queue[n + 1])

\* Mutant: preempt is not reset.
NoReset == preempt - 1
NextTick == IF now < MaxTicks THEN now + 1 ELSE now
NextPreempt == IF preempt = 1 THEN QUANTUM ELSE preempt - 1

\* ready() marks the tasks it queues PR_CURR, not PR_READY.  Two ticks are 32776
\* cycles apart: the few instructions between irq_restore and PEND_SV in sleep see
\* one tick at most.
TIM2_Handler ==
  /\ ~pendsv /\ fault = "none"
  /\ ~(ticked /\ pc[active_task] = "pend" /\ state[active_task] = "SLEEP")
  /\ ticked' = (pc[active_task] = "pend")
  /\ now' = NextTick
  /\ \E n \in 0 .. Len(sleep_queue) :
       /\ Expired(n, now' % Word)
       /\ HalfLinked => n = 0
       /\ sleep_queue' = SubSeq(sleep_queue, n + 1, Len(sleep_queue))
       /\ ready_queue' = ready_queue \o SubSeq(sleep_queue, 1, n)
       /\ state' = [t \in Task |->
                      IF \E i \in 1 .. n : sleep_queue[i] = t THEN "CURR" ELSE state[t]]
       /\ due' = [t \in Task |-> IF \E i \in 1 .. n : sleep_queue[i] = t THEN 0 ELSE due[t]]
  /\ preempt' = NextPreempt
  /\ pendsv' = (preempt = 1)
  /\ UNCHANGED <<active_task, semVars, roleVars, pc, callVars, fault>>

\* A handler that pushes while the end of the ready queue is not where last says.
TornPush ==
  /\ HalfLinked /\ fault = "none"
  /\ \/ pendsv
     \/ sleep_queue # <<>> /\ NextTick % Word >= param(Head(sleep_queue))
  /\ fault' = "torn"
  /\ UNCHANGED <<state, ready_queue, sleep_queue, active_task, timeVars, pendsv, semVars,
                 roleVars, pc, callVars, due>>

-----------------------------------------------------------------------------
(* What threads call.                                                      *)

Running(t) == active_task = t /\ ~pendsv /\ fault = "none"
At(t, stage) == Running(t) /\ pc[t] = stage
Goto(t, stage) == pc' = [pc EXCEPT ![t] = stage]

\* Mutant: queue_push in place of queue_pushsort.
AtTail(q, p, i) == i = Len(q) + 1

\* Where queue_pushsort links a task of key p: before the first of the others,
\* past the head, whose key is not below p.
SortedAt(q, p, i) ==
  IF q = <<>> \/ p < param(q[1])
  THEN i = 1
  ELSE /\ i \in 2 .. Len(q) + 1
       /\ \A j \in 2 .. i - 1 : p > param(q[j])
       /\ i <= Len(q) => p <= param(q[i])

queue_pushsort(q, t, i) == SubSeq(q, 1, i - 1) \o <<t>> \o SubSeq(q, i, Len(q))

\* The masked part of sleep.
Park(t, ticks) ==
  IF ticks = 0
  THEN UNCHANGED <<state, sleep_queue, due, fault>>
  ELSE /\ now + ticks <= MaxTicks
       /\ state' = [state EXCEPT ![t] = "SLEEP"]
       /\ due' = [due EXCEPT ![t] = now + ticks]
       /\ \E i \in 1 .. Len(sleep_queue) + 1 :
            /\ SortedAt(sleep_queue, (ticks + sys_time) % Word, i)
            /\ sleep_queue' = queue_pushsort(sleep_queue, t, i)
       /\ FaultIf(Linked(t), "duplicate")

\* blink sleeps, the shell yields with sleep(0) while it waits for input.
Sleep(t) ==
  /\ At(t, "run") /\ prog[t] \in {"blink", "shell"}
  /\ \E ticks \in IF prog[t] = "shell" THEN {0} ELSE Delays : Park(t, ticks)
  /\ ticked' = FALSE
  /\ Goto(t, "pend")
  /\ UNCHANGED <<ready_queue, active_task, now, preempt, pendsv, semVars, roleVars, callVars>>

\* PEND_SV() of sleep comes after irq_restore: an interrupt can be taken between.
SleepPend(t) ==
  /\ At(t, "pend")
  /\ pendsv' = TRUE
  /\ Goto(t, "run")
  /\ UNCHANGED <<state, ready_queue, sleep_queue, active_task, timeVars, semVars,
                 roleVars, callVars, due, fault>>

\* A blocked task is handed the token by the sem_signal that wakes it.
sem_wait(t, s) ==
  \/ /\ value[s] > 0
     /\ value' = [value EXCEPT ![s] = @ - 1]
     /\ UNCHANGED <<state, waitq, pendsv, fault>>
  \/ /\ value[s] = 0
     /\ state' = [state EXCEPT ![t] = "WAIT"]
     /\ waitq' = [waitq EXCEPT ![s] = queue_push(@, t)]
     /\ pendsv' = TRUE
     /\ FaultIf(Linked(t), "duplicate")
     /\ UNCHANGED value

\* Mutant of sem_signal: the token is lost.
SignalLost(s) == UNCHANGED <<state, ready_queue, value, waitq, pendsv, fault>>

sem_signal(s) ==
  \/ /\ waitq[s] # <<>>
     /\ LET tmp == Head(waitq[s]) IN
        /\ state' = [state EXCEPT ![tmp] = "READY"]
        /\ ready_queue' = queue_push(ready_queue, tmp)
        /\ FaultIf(tmp \in Members(ready_queue) \cup Members(sleep_queue), "duplicate")
     /\ waitq' = [waitq EXCEPT ![s] = Tail(@)]
     /\ pendsv' = TRUE
     /\ UNCHANGED value
  \/ /\ waitq[s] = <<>>
     /\ value' = [value EXCEPT ![s] = @ + 1]
     /\ UNCHANGED <<state, ready_queue, waitq, pendsv, fault>>

\* hw_toggle_pin in the loop of blink: a section under sem_gpio.
GpioEnter(t) ==
  /\ At(t, "run") /\ prog[t] = "blink"
  /\ sem_wait(t, "sem_gpio")
  /\ Goto(t, "gpio")
  /\ UNCHANGED <<ready_queue, sleep_queue, active_task, timeVars, roleVars, callVars, due>>

GpioLeave(t) ==
  /\ At(t, "gpio")
  /\ sem_signal("sem_gpio")
  /\ Goto(t, "run")
  /\ UNCHANGED <<sleep_queue, active_task, timeVars, roleVars, callVars, due>>

\* malloc and free called by elf_execve when the shell runs a program.
HeapEnter(t) ==
  /\ At(t, "run") /\ prog[t] = "shell"
  /\ sem_wait(t, "sem_malloc")
  /\ Goto(t, "heap")
  /\ UNCHANGED <<ready_queue, sleep_queue, active_task, timeVars, roleVars, callVars, due>>

HeapLeave(t) ==
  /\ At(t, "heap")
  /\ sem_signal("sem_malloc")
  /\ Goto(t, "run")
  /\ UNCHANGED <<sleep_queue, active_task, timeVars, roleVars, callVars, due>>

\* The program does not fit: malloc returns NULL and keeps the semaphore.  elf_execve
\* reads nothing into it and frees it: if another task lets it in, free looks for the
\* header in front of address 0.
HeapFails(t) ==
  /\ At(t, "heap")
  /\ leaked' = leaked + 1
  /\ Goto(t, "nomem")
  /\ UNCHANGED <<state, ready_queue, sleep_queue, active_task, timeVars, pendsv, semVars,
                 roleVars, claim, tail, due, fault>>

NoMemFree(t) ==
  /\ At(t, "nomem")
  /\ sem_wait(t, "sem_malloc")
  /\ Goto(t, "nullfree")
  /\ UNCHANGED <<ready_queue, sleep_queue, active_task, timeVars, roleVars, callVars, due>>

NullFree(t) ==
  /\ At(t, "nullfree")
  /\ fault' = "null_free"
  /\ UNCHANGED <<state, ready_queue, sleep_queue, active_task, timeVars, pendsv, semVars,
                 roleVars, pc, callVars, due>>

-----------------------------------------------------------------------------
(* create and ready.                                                       *)

newpid ==
  IF \E t \in Task : state[t] = "FREE"
  THEN CHOOSE t \in Task : state[t] = "FREE" /\ \A u \in 0 .. t - 1 : state[u] # "FREE"
  ELSE NoSlot

\* Who creates: nullp and usr what boot needs, then the shell, and the background
\* command `run` when Creators lets it.
Creates(t) == plan[t] # <<>> \/ (prog[t] \in Creators /\ ~elf[t])
Child(t) == IF plan[t] # <<>> THEN Head(plan[t]) ELSE "cmd"
PlanOf(p) == IF p = "usr" THEN <<"shell">> ELSE <<>>
Rest(q) == IF q = <<>> THEN q ELSE Tail(q)

\* The pid is chosen under cpsid; malloc's sem_wait ends the masked region.
CreateBegin(t) ==
  /\ At(t, "run") /\ Creates(t)
  /\ claim' = [claim EXCEPT ![t] = newpid]
  /\ sem_wait(t, "sem_malloc")
  /\ Goto(t, "getmem")
  /\ UNCHANGED <<ready_queue, sleep_queue, active_task, timeVars, roleVars, tail,
                 leaked, due>>

StacksInUse == Cardinality({t \in Task : stk[t] = "held" \/ pc[t] = "fill"})

\* getmem and memset: the memory of a stack that was freed under a task that is
\* still on its way out may be handed out again, and is cleared.
CreateAlloc(t) ==
  /\ At(t, "getmem") /\ StacksInUse < MaxStacks
  /\ sem_signal("sem_malloc")
  /\ \E S \in SUBSET {u \in Task : stk[u] = "freed" /\ state[u] # "FREE"} :
       /\ Cardinality(S) <= 1
       /\ stk' = [u \in Task |-> IF u \in S THEN "reused" ELSE stk[u]]
  /\ Goto(t, "fill")
  /\ UNCHANGED <<sleep_queue, active_task, timeVars, prog, elf, plan, callVars, due>>

\* malloc returns NULL, the semaphore still taken, and create calls panic.  What panic
\* has masked ends at the sem_wait of hw_cfg_pin; its loop goes on as a task like any
\* other, a section under sem_gpio at a time.
CreatePanic(t) ==
  /\ At(t, "getmem") /\ StacksInUse >= MaxStacks
  /\ sem_wait(t, "sem_gpio")
  /\ Goto(t, "panicpin")
  /\ UNCHANGED <<ready_queue, sleep_queue, active_task, timeVars, roleVars, callVars, due>>

PanicLeave(t) ==
  /\ At(t, "panicpin")
  /\ sem_signal("sem_gpio")
  /\ Goto(t, "panic")
  /\ UNCHANGED <<sleep_queue, active_task, timeVars, roleVars, callVars, due>>

PanicEnter(t) ==
  /\ At(t, "panic")
  /\ sem_wait(t, "sem_gpio")
  /\ Goto(t, "panicpin")
  /\ UNCHANGED <<ready_queue, sleep_queue, active_task, timeVars, roleVars, callVars, due>>

\* What create writes into the slot p for the program r.
Fill(p, r) ==
  /\ elf' = [elf EXCEPT ![p] = FALSE]
  /\ prog' = [prog EXCEPT ![p] = r]
  /\ stk' = [stk EXCEPT ![p] = "held"]

\* Without a free slot create writes in front of the table; and a slot that another
\* creator has been given meanwhile is filled all the same, under the task in it.
CreateFill(t) ==
  /\ At(t, "fill")
  /\ \/ /\ claim[t] # NoSlot /\ state[claim[t]] = "FREE"
        /\ LET p == claim[t] IN
           /\ state' = [state EXCEPT ![p] = "SUSP"]
           /\ Fill(p, Child(t))
           /\ plan' = [[plan EXCEPT ![t] = Rest(@)] EXCEPT ![p] = PlanOf(Child(t))]
           /\ pc' = [pc EXCEPT ![p] = "run", ![t] = "made"]
        /\ UNCHANGED fault
     \/ /\ claim[t] = NoSlot
        /\ fault' = "bad_slot"
        /\ UNCHANGED <<state, roleVars, pc>>
     \/ /\ claim[t] # NoSlot /\ state[claim[t]] # "FREE"
        /\ fault' = "slot_taken"
        /\ UNCHANGED <<state, roleVars, pc>>
  /\ UNCHANGED <<ready_queue, sleep_queue, active_task, timeVars, pendsv, semVars,
                 callVars, due>>

\* ready(pid) on the pid that create returned; `run` sets the elf flag in between.
MarkReady(p) ==
  /\ state' = [state EXCEPT ![p] = "CURR"]
  /\ \E b \in IF prog[p] = "cmd" THEN BOOLEAN ELSE {FALSE} : elf' = [elf EXCEPT ![p] = b]

readyFrame == <<sleep_queue, active_task, timeVars, pendsv, semVars, prog, plan, stk,
                leaked, due>>

\* The store to state and the test of first.
ReadyTest(t) ==
  /\ At(t, "made") /\ ~elf[t]
  /\ MarkReady(claim[t])
  /\ Goto(t, IF ready_queue = <<>> THEN "first" ELSE "load")
  /\ UNCHANGED <<readyFrame, ready_queue, claim, tail, fault>>

\* A step of queue_push behind ReadyTest: torn says when the list is no longer what
\* the load before it saw.
PushStep(t, torn) ==
  /\ \/ /\ torn
        /\ fault' = "torn"
        /\ UNCHANGED <<ready_queue, pc>>
     \/ /\ ~torn
        /\ ready_queue' = queue_push(ready_queue, claim[t])
        /\ FaultIf(Linked(claim[t]), "duplicate")
        /\ Goto(t, "last")
  /\ UNCHANGED <<readyFrame, state, elf, claim, tail>>

\* q->first = t, behind the test that found no task.
ReadyFirst(t) == At(t, "first") /\ PushStep(t, ready_queue # <<>>)

\* The load of q->last, behind the test that found a task.
ReadyLoad(t) ==
  /\ At(t, "load")
  /\ \/ /\ ready_queue = <<>>
        /\ fault' = "torn"
        /\ UNCHANGED <<tail, pc>>
     \/ /\ ready_queue # <<>>
        /\ tail' = [tail EXCEPT ![t] = ready_queue[Len(ready_queue)]]
        /\ Goto(t, "link")
        /\ UNCHANGED fault
  /\ UNCHANGED <<readyFrame, state, elf, ready_queue, claim>>

\* last->next = t.
ReadyLink(t) ==
  /\ At(t, "link")
  /\ PushStep(t, ~(ready_queue # <<>> /\ ready_queue[Len(ready_queue)] = tail[t]))

\* q->last = t.
ReadyLast(t) ==
  /\ At(t, "last")
  /\ claim' = [claim EXCEPT ![t] = NoSlot] /\ tail' = [tail EXCEPT ![t] = NoSlot]
  /\ Goto(t, "run")
  /\ UNCHANGED <<readyFrame, state, elf, ready_queue, fault>>

-----------------------------------------------------------------------------
(* A procedure that returns runs killer: kill(getpid()), PEND_SV, loop.    *)

Returns(t) == plan[t] = <<>> /\ prog[t] \in {"usr", "cmd"}

ExitBegin(t) ==
  /\ At(t, "run") /\ Returns(t)
  /\ sem_wait(t, "sem_malloc")
  /\ Goto(t, "freestk")
  /\ UNCHANGED <<ready_queue, sleep_queue, active_task, timeVars, roleVars, callVars, due>>

\* The stack goes back to the heap while its owner still runs on it.
ExitFreeStack(t) ==
  /\ At(t, "freestk")
  /\ sem_signal("sem_malloc")
  /\ stk' = [stk EXCEPT ![t] = "freed"]
  /\ Goto(t, IF elf[t] THEN "nextimg" ELSE "die")
  /\ UNCHANGED <<sleep_queue, active_task, timeVars, prog, elf, plan, callVars, due>>

ExitNextImage(t) ==
  /\ At(t, "nextimg")
  /\ sem_wait(t, "sem_malloc")
  /\ Goto(t, "freeimg")
  /\ UNCHANGED <<ready_queue, sleep_queue, active_task, timeVars, roleVars, callVars, due>>

ExitFreeImage(t) ==
  /\ At(t, "freeimg")
  /\ sem_signal("sem_malloc")
  /\ Goto(t, "die")
  /\ elf' = [elf EXCEPT ![t] = FALSE]
  /\ UNCHANGED <<sleep_queue, active_task, timeVars, prog, plan, stk, callVars, due>>

\* The switch of kill on a task that kills itself: it is PR_CURR.
ExitSlot(t) ==
  /\ At(t, "die")
  /\ state' = [state EXCEPT ![t] = "FREE"]
  /\ prog' = [prog EXCEPT ![t] = "none"]
  /\ stk' = [stk EXCEPT ![t] = "none"]
  /\ Goto(t, "gone")
  /\ UNCHANGED <<ready_queue, sleep_queue, active_task, timeVars, pendsv, semVars, elf, plan,
                 callVars, due, fault>>

ExitPend(t) ==
  /\ At(t, "gone")
  /\ pendsv' = TRUE
  /\ UNCHANGED <<state, ready_queue, sleep_queue, active_task, timeVars, semVars,
                 roleVars, pc, callVars, due, fault>>

-----------------------------------------------------------------------------
(* Supervisor calls: svccall_handler runs to its end before PendSV can.    *)

\* printf: uart_usb is never initialised, its value stays 0.  The caller is queued
\* on it, keeps writing, and sem_signal finds the caller at the head of the queue.
Puts(t) ==
  /\ At(t, "run") /\ prog[t] \in {"shell", "cmd"}
  /\ state' = [state EXCEPT ![t] = "READY"]
  /\ ready_queue' = queue_push(ready_queue, t)
  /\ pendsv' = TRUE
  /\ FaultIf(Linked(t), "duplicate")
  /\ UNCHANGED <<sleep_queue, active_task, timeVars, semVars, roleVars, pc, callVars, due>>

Svc(t, call) == At(t, "run") /\ elf[t] /\ call \in SvcCalls

SvcSleep(t) ==
  /\ Svc(t, "sleep")
  /\ \E ticks \in Delays \cup {0} : Park(t, ticks)
  /\ pendsv' = TRUE
  /\ UNCHANGED <<ready_queue, active_task, timeVars, semVars, roleVars, pc, callVars>>

\* sem_wait(s), a section, sem_signal(s) in a handler.  Blocking takes effect when
\* the handler returns: the section is executed at once, whoever holds s.  p is the
\* slot create fills in between.
Section(t, s, p) ==
  LET blocked == value[s] = 0
      q == IF blocked THEN queue_push(waitq[s], t) ELSE waitq[s]
      woken == IF q = <<>> THEN {} ELSE {Head(q)} IN
  /\ state' = [u \in Task |-> IF u = p THEN "SUSP"
                              ELSE IF u \in woken THEN "READY"
                              ELSE IF u = t /\ blocked THEN "WAIT" ELSE state[u]]
  /\ IF q = <<>>
     THEN UNCHANGED <<ready_queue, semVars, pendsv>>
     ELSE /\ ready_queue' = queue_push(ready_queue, Head(q))
          /\ waitq' = [waitq EXCEPT ![s] = Tail(q)]
          /\ value' = IF blocked THEN value ELSE [value EXCEPT ![s] = @ - 1]
          /\ pendsv' = TRUE
  /\ FaultIf(blocked /\ Linked(t), "duplicate")

SvcPin(t) ==
  /\ Svc(t, "pin")
  /\ Section(t, "sem_gpio", NoSlot)
  /\ UNCHANGED <<sleep_queue, active_task, timeVars, roleVars, pc, callVars, due>>

SvcMalloc(t) ==
  /\ Svc(t, "malloc")
  /\ Section(t, "sem_malloc", NoSlot)
  /\ UNCHANGED <<sleep_queue, active_task, timeVars, roleVars, pc, callVars, due>>

\* malloc that fails returns without sem_signal.
SvcMallocFails(t) ==
  /\ Svc(t, "oom")
  /\ sem_wait(t, "sem_malloc")
  /\ leaked' = leaked + 1
  /\ UNCHANGED <<ready_queue, sleep_queue, active_task, timeVars, roleVars, pc, claim,
                 tail, due>>

SvcCreate(t) ==
  /\ Svc(t, "create") /\ newpid # NoSlot /\ StacksInUse < MaxStacks
  /\ LET p == newpid IN
     /\ Section(t, "sem_malloc", p)
     /\ Fill(p, "cmd")
     /\ plan' = [plan EXCEPT ![p] = <<>>]
     /\ pc' = [pc EXCEPT ![p] = "run", ![t] = "made"]
     /\ claim' = [claim EXCEPT ![t] = p]
  /\ UNCHANGED <<sleep_queue, active_task, timeVars, tail, leaked, due>>

\* ready() inside the handler.
SvcReady(t) ==
  /\ At(t, "made") /\ elf[t]
  /\ MarkReady(claim[t])
  /\ ready_queue' = queue_push(ready_queue, claim[t])
  /\ FaultIf(Linked(claim[t]), "duplicate")
  /\ claim' = [claim EXCEPT ![t] = NoSlot]
  /\ Goto(t, "run")
  /\ UNCHANGED <<readyFrame, tail>>

SvcCreateFails(t) ==
  /\ Svc(t, "create") /\ (newpid = NoSlot \/ StacksInUse >= MaxStacks)
  /\ fault' = IF StacksInUse >= MaxStacks THEN "panic" ELSE "bad_slot"
  /\ UNCHANGED <<state, ready_queue, sleep_queue, active_task, timeVars, pendsv,
                 semVars, roleVars, pc, callVars, due>>

-----------------------------------------------------------------------------
Thread(t) ==
  \/ Sleep(t) \/ SleepPend(t)
  \/ GpioEnter(t) \/ GpioLeave(t) \/ HeapEnter(t) \/ HeapLeave(t)
  \/ HeapFails(t) \/ NoMemFree(t) \/ NullFree(t)
  \/ CreateBegin(t) \/ CreateAlloc(t) \/ CreatePanic(t) \/ CreateFill(t)
  \/ ReadyTest(t) \/ ReadyFirst(t) \/ ReadyLoad(t) \/ ReadyLink(t) \/ ReadyLast(t)
  \/ PanicEnter(t) \/ PanicLeave(t)
  \/ ExitBegin(t) \/ ExitFreeStack(t) \/ ExitNextImage(t) \/ ExitFreeImage(t)
  \/ ExitSlot(t) \/ ExitPend(t)
  \/ Puts(t) \/ SvcSleep(t) \/ SvcPin(t) \/ SvcMalloc(t) \/ SvcMallocFails(t)
  \/ SvcCreate(t) \/ SvcReady(t) \/ SvcCreateFails(t)

\* A handler that faults and panic() never return.
Halted == fault # "none" /\ UNCHANGED vars

Next == PendSV_Handler \/ TIM2_Handler \/ TornPush \/ Halted \/ \E t \in Task : Thread(t)

Spec == Init /\ [][Next]_vars

\* The steps that finish what a call has begun: the processor does not stop in them.
Finish(t) ==
  \/ SleepPend(t) \/ GpioLeave(t) \/ HeapLeave(t) \/ HeapFails(t) \/ NoMemFree(t) \/ NullFree(t)
  \/ CreateAlloc(t) \/ CreatePanic(t) \/ PanicLeave(t) \/ CreateFill(t)
  \/ ReadyTest(t) \/ ReadyFirst(t) \/ ReadyLoad(t) \/ ReadyLink(t) \/ ReadyLast(t) \/ SvcReady(t)
  \/ ExitFreeStack(t) \/ ExitNextImage(t) \/ ExitFreeImage(t) \/ ExitSlot(t) \/ ExitPend(t)

\* The timer ticks for ever and a pending TIM2 is taken as soon as PendSV returns; a
\* time slice is long enough for at least one step of the task it is given to.
Fairness == /\ WF_vars(PendSV_Handler \/ TornPush) /\ SF_vars(TIM2_Handler)
            /\ \A t \in Task : SF_vars(Finish(t))
FairSpec == Spec /\ Fairness

-----------------------------------------------------------------------------
(* Properties.                                                             *)

\* Every variable has its type.
TypeOK ==
  /\ state \in [Task -> State]
  /\ ready_queue \in Seq(Task) /\ sleep_queue \in Seq(Task)
  /\ active_task \in Task
  /\ now \in 0 .. MaxTicks /\ preempt \in 1 .. QUANTUM /\ ticked \in BOOLEAN /\ pendsv \in BOOLEAN
  /\ value \in [Sem -> Nat] /\ waitq \in [Sem -> Seq(Task)]
  /\ prog \in [Task -> Program] /\ elf \in [Task -> BOOLEAN]
  /\ plan \in [Task -> Seq(Program)] /\ pc \in [Task -> Stage]
  /\ claim \in [Task -> Task \cup {NoSlot}] /\ tail \in [Task -> Task \cup {NoSlot}]
  /\ leaked \in Nat /\ stk \in [Task -> Stack]
  /\ due \in [Task -> 0 .. MaxTicks] /\ fault \in Fault

\* The properties below speak of the steps up to the one at which a list is torn, a
\* slot is taken or another fault ends the run: what follows one is not modelled.

\* As long as no interrupt has fallen into the push of a thread's ready(), the null
\* task can be dispatched: it runs or stands on the ready queue.
NullReady ==
  fault = "none" =>
    \/ NULLTHREAD \in Members(ready_queue)
    \/ active_task = NULLTHREAD /\ state[NULLTHREAD] = "CURR"

\* The stages between the return of create and the end of ready(), and those in which
\* the task is marked and not linked.
Pushing == {"first", "load", "link"}
Making == {"made", "last"} \cup Pushing

\* Why the null task never leaves the processor but by preemption: while it has tasks
\* to create it has the heap to itself, because no other program but blink runs yet;
\* afterwards it only loops.
BootAlone ==
  /\ prog[NULLTHREAD] = "nullp" /\ ~elf[NULLTHREAD] /\ state[NULLTHREAD] # "FREE"
  /\ pc[NULLTHREAD] \in {"run", "getmem", "fill"} \cup Making
  /\ \A t \in Task : claim[t] # NULLTHREAD
  /\ plan[NULLTHREAD] \in {<<>>, <<"usr">>, <<"blink", "usr">>}
  /\ plan[NULLTHREAD] = <<>> => pc[NULLTHREAD] \in {"run"} \cup Making
  /\ plan[NULLTHREAD] # <<>> =>
       /\ value["sem_malloc"] = IF pc[NULLTHREAD] = "getmem" THEN 0 ELSE 1
       /\ waitq["sem_malloc"] = <<>>
       /\ \E b \in Task : \A t \in Task \ {NULLTHREAD, b} : stk[t] # "held"
       /\ \A t \in Task \ {NULLTHREAD} :
            /\ prog[t] \in {"none", "blink"} /\ plan[t] = <<>> /\ ~elf[t]
            /\ pc[t] \in {"run", "pend", "gpio"}
            /\ Len(plan[NULLTHREAD]) = 2 => stk[t] # "held"

\* queue_pop has something to pop for PendSV_Handler, which does not check: active_task
\* becomes NULL in no run but one whose ready queue an interrupted ready() has torn.
NoNullActive == fault # "null_active"

Links == ready_queue \o sleep_queue \o waitq["sem_malloc"] \o waitq["sem_gpio"]

\* No task is linked twice: every task_t has one next pointer for all the queues, and
\* the task that PendSV_Handler will push on the ready queue is on none.
OnOneQueue ==
  /\ \A i, j \in DOMAIN Links : Links[i] = Links[j] => i = j
  /\ state[active_task] = "CURR" => active_task \notin Members(Links)

\* The state of a task tells which queue it is on, whatever interrupts came between
\* the assignment of the one and the change of the other: but for the task that a
\* ready() under way has marked PR_CURR and not linked yet, which is on none.
Unlinked(t) == \E u \in Task : pc[u] \in Pushing /\ claim[u] = t
QueueMatchesState ==
  \A t \in Task :
    /\ t \in Members(sleep_queue) <=> state[t] = "SLEEP"
    /\ (\E s \in Sem : t \in Members(waitq[s])) <=> state[t] = "WAIT"
    /\ t \in Members(ready_queue)
         <=> state[t] = "READY" \/ (state[t] = "CURR" /\ t # active_task /\ ~Unlinked(t))

\* A sleeper never outstays its time: once the tick has come TIM2_Handler has woken it.
NoOversleep == \A t \in Members(sleep_queue) : now < due[t]

\* No sleeper is woken before the time it asked for.
WakeNotEarly ==
  [][\A t \in Members(sleep_queue) : t \notin Members(sleep_queue') => now' >= due[t]]_vars

\* Who is inside a section of s, and which supervisor calls went on without its token.
Panicking == {"panic", "panicpin"}
Inside(s) == IF s = "sem_gpio" THEN {"gpio", "panicpin"}
             ELSE {"heap", "nullfree", "getmem", "freestk", "freeimg"} \cup Panicking
Holders(s) == {t \in Task : pc[t] \in Inside(s) /\ t \notin Members(waitq[s])}
Overrun(s) == {t \in Members(waitq[s]) : pc[t] \notin Inside(s)}

\* The token of each semaphore is never lost or duplicated.  A supervisor call that
\* found it taken went on without it and stays on the wait queue until a sem_signal
\* meant for a thread pops it: one more thread may be inside for each such caller.  Of
\* sem_malloc the tokens that failing mallocs kept are out of use for ever: a create
\* that panics has one, the others are those leaked.
TokenConserved ==
  \A s \in Sem :
    /\ value[s] + Cardinality(Holders(s)) + (IF s = "sem_malloc" THEN leaked ELSE 0)
         = 1 + Cardinality(Overrun(s))
    /\ value[s] > 0 => waitq[s] = <<>>

\* Every task that is ready is dispatched in the end, the null task and one that a
\* preempted ready() has yet to link included: unless that ready() is torn.
RunnableRuns ==
  \A t \in Task : state[t] = "READY" \/ (state[t] = "CURR" /\ t # active_task)
                  ~> active_task = t \/ fault # "none"

\* Every sleeper is woken in the end.
SleeperWakes == \A t \in Task : state[t] = "SLEEP" ~> state[t] # "SLEEP" \/ fault # "none"

\* Whoever waits for the heap or for the pins is let in, although tasks exit, block
\* and are preempted while they hold the semaphore: unless a malloc has failed.
TokenGranted ==
  \A t \in Task, s \in Sem :
    t \in Members(waitq[s]) ~> \/ t \notin Members(waitq[s])
                            \/ fault # "none" \/ leaked > 0
                            \/ \E u \in Task : pc[u] \in Panicking
=============================================================================
