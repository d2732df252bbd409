----------------------------- MODULE KernelKill -----------------------------
(***************************************************************************)
(* Kernel with kill(pid) of another task, as the kill command of the shell *)
(* calls it (in the shell, or in the background).  The first free inside   *)
(* kill leaves interrupts enabled, so the loops that look for the victim   *)
(* are divided at every load and store that a handler or another thread    *)
(* can come between, those of queue_pop and queue_push included, in the    *)
(* order of kernel.list.  A store that no longer fits the list it was      *)
(* computed from tears it, as in Kernel.                                   *)
(***************************************************************************)
EXTENDS Kernel

CONSTANTS
  Killers,   \* the programs that run the kill command
  Victims,   \* the pids it is given
  MaxKills   \* bound of the model: how often

ASSUME KillAssumption == Killers \subseteq {"shell", "cmd"} /\ Victims \subseteq Task
                         /\ MaxKills \in Nat

VARIABLES
  kpc,       \* where in kill a thread is
  victim,    \* the argument pid
  kills,     \* how many kills have begun
  looks,     \* the case of the switch: whose queue is searched, "no" for none
  tmp,       \* the local tmp of the loops: the task last peeked at or popped
  nxt        \* what queue_pop has loaded from tmp->next

killVars == <<kpc, victim, kills, looks, tmp, nxt>>
allVars == <<vars, killVars>>

KillStage == {"out", "freestk", "nextimg", "freeimg", "switch", "peek", "test", "pop",
              "next", "store", "end", "push", "first", "load", "link", "last", "free"}

KillInit ==
  /\ Init
  /\ kpc = [t \in Task |-> "out"]
  /\ victim = [t \in Task |-> NULLTHREAD] /\ kills = 0
  /\ looks = [t \in Task |-> "no"]
  /\ tmp = [t \in Task |-> NoSlot] /\ nxt = [t \in Task |-> NoSlot]

KillAt(t, stage) == Running(t) /\ kpc[t] = stage
KillGoto(t, stage) == kpc' = [kpc EXCEPT ![t] = stage]
localVars == <<looks, tmp, nxt>>
callFrame == <<victim, kills>>
heapFrame == <<sleep_queue, active_task, timeVars, pc, callVars, due, prog, plan, localVars>>

KillBegin(t) ==
  /\ At(t, "run") /\ kpc[t] = "out" /\ prog[t] \in Killers /\ kills < MaxKills
  /\ kills' = kills + 1
  /\ \E v \in Victims : victim' = [victim EXCEPT ![t] = v]
  /\ sem_wait(t, "sem_malloc")
  /\ KillGoto(t, "freestk")
  /\ UNCHANGED <<heapFrame, ready_queue, elf, stk>>

\* free(prptr->prstkbase): a block that is free already fails its check.  The stack of
\* a slot that is free was freed before, and may be the stack of another task by now.
KillFreeStack(t) ==
  /\ KillAt(t, "freestk")
  /\ sem_signal("sem_malloc")
  /\ \E u \in {victim[t]} \cup {u \in Task : state[victim[t]] = "FREE"} :
       stk' = [stk EXCEPT ![u] = IF @ = "held" THEN "freed" ELSE @]
  /\ KillGoto(t, IF elf[victim[t]] THEN "nextimg" ELSE "switch")
  /\ UNCHANGED <<heapFrame, callFrame, elf>>

KillNextImage(t) ==
  /\ KillAt(t, "nextimg")
  /\ sem_wait(t, "sem_malloc")
  /\ KillGoto(t, "freeimg")
  /\ UNCHANGED <<heapFrame, callFrame, ready_queue, elf, stk>>

KillFreeImage(t) ==
  /\ KillAt(t, "freeimg")
  /\ sem_signal("sem_malloc")
  /\ elf' = [elf EXCEPT ![victim[t]] = FALSE]
  /\ KillGoto(t, "switch")
  /\ UNCHANGED <<heapFrame, callFrame, stk>>

-----------------------------------------------------------------------------
(* The switch on prptr->state and the loops that look for the victim.      *)

scanFrame == <<active_task, timeVars, pendsv, semVars, roleVars, callVars, due>>

\* The queue that the case t is in searches, and a store that makes it q.
Searched(t) == IF looks[t] = "SLEEP" THEN sleep_queue ELSE ready_queue
Store(t, q) == IF looks[t] = "SLEEP" THEN sleep_queue' = q /\ UNCHANGED ready_queue
                                     ELSE ready_queue' = q /\ UNCHANGED sleep_queue
listVars == <<ready_queue, sleep_queue>>
FirstOf(q) == IF q = <<>> THEN NoSlot ELSE q[1]
Second(q) == IF Len(q) > 1 THEN q[2] ELSE NoSlot
EndOf(q) == IF q = <<>> THEN NoSlot ELSE q[Len(q)]
Stops(f) == fault' = f /\ UNCHANGED <<state, listVars, pc, killVars>>

\* Only sleepers and ready tasks are looked for in a queue.  Of the tasks on the ready
\* queue those that ready() queued are PR_CURR.
KillSwitch(t) ==
  /\ KillAt(t, "switch")
  /\ LET s == state[victim[t]]
         found == s \in {"SLEEP", "READY"} IN
     /\ looks' = [looks EXCEPT ![t] = IF found THEN s ELSE "no"]
     /\ KillGoto(t, IF found THEN "peek" ELSE "free")
  /\ UNCHANGED <<scanFrame, state, listVars, pc, callFrame, tmp, nxt, fault>>

\* irq_restore and return: the locals of kill are gone.
KillEnd(t) ==
  /\ KillGoto(t, "out")
  /\ victim' = [victim EXCEPT ![t] = NULLTHREAD]
  /\ looks' = [looks EXCEPT ![t] = "no"]
  /\ tmp' = [tmp EXCEPT ![t] = NoSlot] /\ nxt' = [nxt EXCEPT ![t] = NoSlot]
  /\ UNCHANGED kills

\* state = PR_FREE, of a task that is looked for in no queue or was found in one.
KillFree(t) ==
  /\ KillAt(t, "free")
  /\ state' = [state EXCEPT ![victim[t]] = "FREE"]
  /\ KillEnd(t)
  /\ UNCHANGED <<scanFrame, listVars, pc, fault>>

\* tmp = q->first: in queue_peek before the loop, in queue_pop at the top of each turn.
LoadFirst(t, stage) ==
  /\ \/ Searched(t) = <<>> /\ Stops("null_pop")
     \/ /\ Searched(t) # <<>>
        /\ tmp' = [tmp EXCEPT ![t] = Head(Searched(t))]
        /\ KillGoto(t, stage)
        /\ UNCHANGED <<state, listVars, pc, callFrame, looks, nxt, fault>>
  /\ UNCHANGED scanFrame

KillPeek(t) == KillAt(t, "peek") /\ LoadFirst(t, "test")
KillPop(t) == KillAt(t, "pop") /\ LoadFirst(t, "next")

\* The test of `while (tmp->state == ...)`.
KillTest(t) ==
  /\ KillAt(t, "test")
  /\ IF state[tmp[t]] = looks[t]
     THEN KillGoto(t, "pop") /\ UNCHANGED <<callFrame, localVars>>
     ELSE KillEnd(t)
  /\ UNCHANGED <<scanFrame, state, listVars, pc, fault>>

\* The load of tmp->next: of a task that is not first any more it says nothing.
KillNextLoad(t) ==
  /\ KillAt(t, "next")
  /\ \/ /\ FirstOf(Searched(t)) # tmp[t]
        /\ Stops("torn")
     \/ /\ FirstOf(Searched(t)) = tmp[t]
        /\ nxt' = [nxt EXCEPT ![t] = Second(Searched(t))]
        /\ KillGoto(t, "store")
        /\ UNCHANGED <<state, listVars, pc, callFrame, looks, tmp, fault>>
  /\ UNCHANGED scanFrame

\* Behind queue_pop: the task popped is the victim, or is pushed back.
Popped(t) == IF tmp[t] = victim[t] THEN "free" ELSE "push"

\* Mutant of the next definition: queue_peek in place of queue_pop.
Peeked(q) == q
Unlink(q) == Tail(q)

\* q->first = next: it unlinks tmp if tmp is first and next behind it, still.
KillStore(t) ==
  LET q == Searched(t)
      fits == FirstOf(q) = tmp[t] /\ nxt[t] = Second(q) IN
  /\ KillAt(t, "store")
  /\ \/ ~fits /\ Stops("torn")
     \/ /\ fits
        /\ Store(t, Unlink(q))
        /\ KillGoto(t, IF nxt[t] = NoSlot THEN "end" ELSE Popped(t))
        /\ UNCHANGED <<state, pc, callFrame, localVars, fault>>
  /\ UNCHANGED scanFrame

\* q->last = 0, of a queue that the store before it has emptied.
KillEmptied(t) ==
  /\ KillAt(t, "end")
  /\ \/ Searched(t) # <<>> /\ Stops("torn")
     \/ /\ Searched(t) = <<>>
        /\ KillGoto(t, Popped(t))
        /\ UNCHANGED <<state, listVars, pc, callFrame, localVars, fault>>
  /\ UNCHANGED scanFrame

\* queue_push of a task that is not the victim: to the tail, on the sleep queue out of
\* the order of the times.  The test of first.
KillPush(t) ==
  /\ KillAt(t, "push")
  /\ KillGoto(t, IF Searched(t) = <<>> THEN "first" ELSE "load")
  /\ UNCHANGED <<scanFrame, state, listVars, pc, callFrame, localVars, fault>>

\* The load of q->last; a push of another thread may not have stored it yet.
KillLoad(t) ==
  LET q == Searched(t)
      wrong == q = <<>> \/ \E u \in Task : kpc[u] = "last" /\ looks[u] = looks[t] IN
  /\ KillAt(t, "load")
  /\ \/ wrong /\ Stops("torn")
     \/ /\ ~wrong
        /\ nxt' = [nxt EXCEPT ![t] = EndOf(q)]
        /\ KillGoto(t, "link")
        /\ UNCHANGED <<state, listVars, pc, callFrame, looks, tmp, fault>>
  /\ UNCHANGED scanFrame

\* first = tmp behind the test that found no task, last->next = tmp behind the load of
\* last.  pc is "last" while ready_queue.last is behind, for the handlers.
Linking(t, fits) ==
  /\ \/ ~fits /\ Stops("torn")
     \/ /\ fits
        /\ Store(t, queue_push(Searched(t), tmp[t]))
        /\ FaultIf(Linked(tmp[t]), "duplicate")
        /\ Goto(t, IF looks[t] = "READY" THEN "last" ELSE pc[t])
        /\ KillGoto(t, "last")
        /\ UNCHANGED <<state, callFrame, localVars>>
  /\ UNCHANGED scanFrame

KillFirst(t) == KillAt(t, "first") /\ Linking(t, Searched(t) = <<>>)
KillLink(t) == /\ KillAt(t, "link")
               /\ Linking(t, Searched(t) # <<>> /\ EndOf(Searched(t)) = nxt[t])

\* last = tmp: of a queue that was emptied meanwhile nobody reads it.
KillLast(t) ==
  LET fits == Searched(t) = <<>> \/ EndOf(Searched(t)) = tmp[t] IN
  /\ KillAt(t, "last")
  /\ \/ ~fits /\ Stops("torn")
     \/ /\ fits
        /\ Goto(t, "run")
        /\ KillGoto(t, "test")
        /\ UNCHANGED <<state, listVars, callFrame, localVars, fault>>
  /\ UNCHANGED scanFrame

KillThread(t) ==
  \/ KillBegin(t) \/ KillFreeStack(t) \/ KillNextImage(t) \/ KillFreeImage(t)
  \/ KillSwitch(t) \/ KillFree(t) \/ KillPeek(t) \/ KillTest(t)
  \/ KillPop(t) \/ KillNextLoad(t) \/ KillStore(t) \/ KillEmptied(t)
  \/ KillPush(t) \/ KillFirst(t) \/ KillLoad(t) \/ KillLink(t) \/ KillLast(t)

\* A thread inside kill does nothing else; a new task starts outside.
Other(t) == /\ kpc[t] = "out" /\ Thread(t) /\ UNCHANGED kills
            /\ LET new == {u \in Task : state[u] # "SUSP" /\ state'[u] = "SUSP"} IN
               /\ kpc' = [u \in Task |-> IF u \in new THEN "out" ELSE kpc[u]]
               /\ victim' = [u \in Task |-> IF u \in new THEN NULLTHREAD ELSE victim[u]]
               /\ looks' = [u \in Task |-> IF u \in new THEN "no" ELSE looks[u]]
               /\ tmp' = [u \in Task |-> IF u \in new THEN NoSlot ELSE tmp[u]]
               /\ nxt' = [u \in Task |-> IF u \in new THEN NoSlot ELSE nxt[u]]

KillNext ==
  \/ (PendSV_Handler \/ TIM2_Handler \/ TornPush \/ Halted) /\ UNCHANGED killVars
  \/ \E t \in Task : Other(t) \/ KillThread(t)

KillSpec == KillInit /\ [][KillNext]_allVars

-----------------------------------------------------------------------------
(* Properties.                                                             *)

\* Every variable has its type.
KillTypeOK ==
  /\ TypeOK
  /\ kpc \in [Task -> KillStage]
  /\ victim \in [Task -> Task] /\ kills \in 0 .. MaxKills
  /\ looks \in [Task -> {"SLEEP", "READY", "no"}]
  /\ tmp \in [Task -> Task \cup {NoSlot}] /\ nxt \in [Task -> Task \cup {NoSlot}]

\* A victim that the loops of kill find is unlinked when its slot becomes free,
\* whatever ticks, switches and other threads moved between the queues since the first
\* look: unless one of them fell into a queue_pop or queue_push and tore the list.
FoundIsUnlinked ==
  [][\A t \in Task :
       kpc[t] = "free" /\ kpc'[t] = "out" /\ looks[t] # "no"
       => victim[t] \notin Members(Links')]_allVars

\* process.h: PR_FREE, "Process table entry is unused": a task whose slot is free is
\* on no queue, from where it would be run again.
FreeIsUnused ==
  \A t \in Task : state[t] = "FREE" => t \notin Members(Links)
=============================================================================
