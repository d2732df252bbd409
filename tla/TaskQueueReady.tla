--------------------------- MODULE TaskQueueReady ---------------------------
(***************************************************************************)
(* TaskQueue with the ready() of a thread as it is: queue_push with        *)
(* interrupts enabled, divided at the loads and stores that the handlers   *)
(* can see.  The order of the stores is that of the listing of the build.  *)
(***************************************************************************)
EXTENDS TaskQueue

VARIABLES
  rpc,     \* where in ready() a thread is
  pid,     \* its argument
  tail     \* what it has loaded from ready_queue.last

readyVars == <<rpc, pid, tail>>
allVars == <<vars, readyVars>>

ReadyInit ==
  /\ Init
  /\ rpc = [t \in Task |-> "out"]
  /\ pid = [t \in Task |-> NULL] /\ tail = [t \in Task |-> NULL]

ReadyAt(t, stage) == active_task = t /\ ~pendsv /\ rpc[t] = stage
ReadyGoto(t, stage) == rpc' = [rpc EXCEPT ![t] = stage]

\* state = PR_CURR, and the test of first.  Nobody else looks at the task yet.
ReadyTest(t) ==
  /\ ReadyAt(t, "out") /\ pc[t] = "run"
  /\ \E p \in Task :
       /\ state[p] = "FREE"
       /\ state' = [state EXCEPT ![p] = "CURR"]
       /\ pid' = [pid EXCEPT ![t] = p]
       /\ pc' = [pc EXCEPT ![p] = "run"] /\ UNCHANGED tail
  /\ ReadyGoto(t, IF mem.first["ready_queue"] = NULL THEN "first" ELSE "load")
  /\ UNCHANGED <<mem, param, sys_time, active_task, pendsv, value>>

readyFrame == <<state, param, sys_time, active_task, pendsv, value, pc>>

\* t->next = 0; q->first = t
ReadyFirst(t) ==
  /\ ReadyAt(t, "first")
  /\ mem' = [mem EXCEPT !.next[pid[t]] = NULL, !.first["ready_queue"] = pid[t]]
  /\ ReadyGoto(t, "last")
  /\ UNCHANGED <<readyFrame, pid, tail>>

\* t->next = 0, and q->last is loaded
ReadyLoad(t) ==
  /\ ReadyAt(t, "load")
  /\ mem' = [mem EXCEPT !.next[pid[t]] = NULL]
  /\ tail' = [tail EXCEPT ![t] = mem.last["ready_queue"]]
  /\ ReadyGoto(t, "link")
  /\ UNCHANGED <<readyFrame, pid>>

\* q->last->next = t
ReadyLink(t) ==
  /\ ReadyAt(t, "link") /\ tail[t] # NULL
  /\ mem' = [mem EXCEPT !.next[tail[t]] = pid[t]]
  /\ ReadyGoto(t, "last")
  /\ UNCHANGED <<readyFrame, pid, tail>>

\* q->last = t
ReadyLast(t) ==
  /\ ReadyAt(t, "last")
  /\ mem' = [mem EXCEPT !.last["ready_queue"] = pid[t]]
  /\ ReadyGoto(t, "out")
  /\ pid' = [pid EXCEPT ![t] = NULL] /\ tail' = [tail EXCEPT ![t] = NULL]
  /\ UNCHANGED readyFrame

\* Between ReadyFirst and ReadyLast a handler that pushes stores through a NULL last.
NullLast == mem.first["ready_queue"] # NULL /\ mem.last["ready_queue"] = NULL

\* Such a store, and a NULL active_task, stop the system: there is no step then.
Handler ==
  /\ \/ PendSV_Handler /\ (NullLast => state[active_task] # "CURR")
     \/ TIM2_Handler /\ (NullLast => Expired(sys_time').woken = {})
  /\ UNCHANGED readyVars

ReadyThread(t) ==
  \/ ReadyTest(t) \/ ReadyFirst(t) \/ ReadyLoad(t) \/ ReadyLink(t) \/ ReadyLast(t)

ReadyNext ==
  \/ Handler
  \/ \E t \in Task : (rpc[t] = "out" /\ Calls(t) /\ UNCHANGED readyVars) \/ ReadyThread(t)

ReadySpec == ReadyInit /\ [][ReadyNext]_allVars
=============================================================================
