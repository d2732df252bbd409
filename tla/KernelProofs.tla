---------------------------- MODULE KernelProofs ----------------------------
(***************************************************************************)
(* Theorems about Kernel for every number of tasks, quantum, word width,   *)
(* set of delays, creators and supervisor calls: the types, and that the   *)
(* unchecked queue_pop of PendSV_Handler has a task to return as long as   *)
(* no interrupt has fallen into the queue_push of a thread's ready().      *)
(***************************************************************************)
EXTENDS Kernel, SequenceTheorems, WellFoundedInduction, FiniteSetTheorems, TLAPS

-----------------------------------------------------------------------------
(* Sequences and their members.                                            *)

\* queue_push adds one member.
LEMMA MembersAppend ==
  ASSUME NEW S, NEW q \in Seq(S), NEW x \in S
  PROVE  /\ queue_push(q, x) \in Seq(S)
         /\ Members(queue_push(q, x)) = Members(q) \cup {x}
<1> DEFINE r == queue_push(q, x)
<1>1. /\ r \in Seq(S) /\ Len(r) = Len(q) + 1 /\ Len(q) \in Nat
      /\ \A i \in 1 .. Len(q) : r[i] = q[i]
      /\ r[Len(q) + 1] = x
  BY AppendProperties, LenProperties DEF queue_push
<1>2. DOMAIN r = 1 .. Len(q) + 1 /\ DOMAIN q = 1 .. Len(q)
  BY <1>1, LenProperties
<1>3. ASSUME NEW y \in Members(r) PROVE y \in Members(q) \cup {x}
  BY <1>1, <1>2, <1>3 DEF Members
<1>4. ASSUME NEW y \in Members(q) \cup {x} PROVE y \in Members(r)
  <2>1. CASE y = x
    BY <1>1, <1>2, <2>1 DEF Members
  <2>2. CASE y \in Members(q)
    BY <1>1, <1>2, <2>2 DEF Members
  <2>3. QED
    BY <1>4, <2>1, <2>2
<1>5. QED
  BY <1>1, <1>3, <1>4

\* Concatenation keeps the members of its first part.
LEMMA MembersConcat ==
  ASSUME NEW S, NEW q \in Seq(S), NEW r \in Seq(S)
  PROVE  q \o r \in Seq(S) /\ Members(q) \subseteq Members(q \o r)
<1>1. /\ q \o r \in Seq(S)
      /\ Len(q \o r) = Len(q) + Len(r) /\ Len(q) \in Nat /\ Len(r) \in Nat
      /\ \A i \in 1 .. Len(q) + Len(r) :
           (q \o r)[i] = IF i <= Len(q) THEN q[i] ELSE r[i - Len(q)]
  BY ConcatProperties, LenProperties
<1>2. DOMAIN (q \o r) = 1 .. Len(q) + Len(r) /\ DOMAIN q = 1 .. Len(q)
  BY <1>1, LenProperties
<1>3. ASSUME NEW i \in 1 .. Len(q)
      PROVE  i \in 1 .. Len(q) + Len(r) /\ (q \o r)[i] = q[i]
  BY <1>1
<1>4. QED
  BY <1>1, <1>2, <1>3 DEF Members

\* What queue_pop returns and what it leaves.
LEMMA MembersTail ==
  ASSUME NEW S, NEW q \in Seq(S), q # <<>>
  PROVE  /\ Head(q) \in S /\ Tail(q) \in Seq(S)
         /\ Members(q) \subseteq {Head(q)} \cup Members(Tail(q))
<1>1. /\ Head(q) \in S /\ Tail(q) \in Seq(S) /\ Len(q) \in Nat \ {0}
      /\ Len(Tail(q)) = Len(q) - 1
      /\ \A i \in 1 .. Len(Tail(q)) : Tail(q)[i] = q[i + 1]
      /\ Head(q) = q[1]
  BY HeadTailProperties, EmptySeq
<1>2. DOMAIN q = 1 .. Len(q) /\ DOMAIN Tail(q) = 1 .. Len(q) - 1
  BY <1>1, LenProperties
<1>3. ASSUME NEW i \in 2 .. Len(q)
      PROVE  i - 1 \in DOMAIN Tail(q) /\ Tail(q)[i - 1] = q[i]
  <2>1. i - 1 \in 1 .. Len(Tail(q)) /\ (i - 1) + 1 = i
    BY <1>1
  <2>2. QED
    BY <1>1, <1>2, <2>1
<1>4. ASSUME NEW i \in 1 .. Len(q), i # 1
      PROVE  q[i] \in Members(Tail(q))
  <2>1. i \in 2 .. Len(q)
    BY <1>4, <1>1
  <2>2. QED
    BY <1>3, <2>1 DEF Members
<1>5. QED
  BY <1>1, <1>2, <1>4 DEF Members

\* TIM2_Handler cuts the sleep queue in two.
LEMMA SplitType ==
  ASSUME NEW S, NEW q \in Seq(S), NEW n \in 0 .. Len(q)
  PROVE  /\ SubSeq(q, 1, n) \in Seq(S)
         /\ SubSeq(q, n + 1, Len(q)) \in Seq(S)
<1>1. Len(q) \in Nat /\ \A i \in 1 .. Len(q) : q[i] \in S
  BY LenProperties, ElementOfSeq
<1>2. (\A i \in 1 .. n : q[i] \in S) /\ (\A i \in n + 1 .. Len(q) : q[i] \in S)
  BY <1>1
<1>3. n \in Int /\ n + 1 \in Int /\ Len(q) \in Int
  BY <1>1
<1>4. QED
  BY <1>2, <1>3, SubSeqProperties

\* queue_pushsort links a task between two others.
LEMMA PushSortType ==
  ASSUME NEW S, NEW q \in Seq(S), NEW x \in S, NEW i \in 1 .. Len(q) + 1
  PROVE  queue_pushsort(q, x, i) \in Seq(S)
<1>1. Len(q) \in Nat
  BY LenProperties
<1>2. i - 1 \in 0 .. Len(q) /\ (i - 1) + 1 = i
  BY <1>1
<1>3. SubSeq(q, 1, i - 1) \in Seq(S) /\ SubSeq(q, i, Len(q)) \in Seq(S)
  BY <1>2, SplitType
<1>4. <<x>> \in Seq(S)
  OBVIOUS
<1>5. SubSeq(q, 1, i - 1) \o <<x>> \in Seq(S)
  BY <1>3, <1>4, ConcatProperties
<1>6. QED
  BY <1>3, <1>5, ConcatProperties DEF queue_pushsort

-----------------------------------------------------------------------------
(* Types.                                                                  *)

\* A non-empty set of naturals has a least member.
LEMMA LeastMember ==
  ASSUME NEW T \in SUBSET Nat, T # {}
  PROVE  \E m \in T : \A k \in T : m <= k
<1>1. PICK m \in T : \A k \in T : ~ (<<k, m>> \in OpToRel(<, Nat))
  BY NatLessThanWellFounded, WFMin
<1>2. \A k \in T : ~ (k < m)
  BY <1>1 DEF OpToRel
<1>3. \A k \in T : m <= k
  BY <1>2
<1>4. QED
  BY <1>3

\* newpid finds the first free slot of the table, if there is one.
LEMMA NewpidFree ==
  /\ newpid \in Task \cup {NoSlot}
  /\ newpid # NoSlot => state[newpid] = "FREE"
<1> DEFINE F == {t \in Task : state[t] = "FREE"}
           first(t) == state[t] = "FREE" /\ \A u \in 0 .. t - 1 : state[u] # "FREE"
<1>1. CASE F = {}
  BY <1>1 DEF newpid
<1>2. CASE F # {}
  <2>1. F \in SUBSET Nat
    BY NTaskAssumption DEF Task
  <2>2. PICK m \in F : \A k \in F : m <= k
    BY <1>2, <2>1, LeastMember
  <2>3. ASSUME NEW u \in 0 .. m - 1 PROVE state[u] # "FREE"
    <3>1. u \in Task /\ u < m
      BY <2>2, NTaskAssumption DEF Task
    <3>2. QED
      BY <2>2, <3>1, NTaskAssumption DEF Task
  <2>4. m \in Task /\ first(m)
    BY <2>2, <2>3
  <2>5. newpid = CHOOSE t \in Task : first(t)
    BY <1>2 DEF newpid
  <2>6. newpid \in Task /\ first(newpid)
    BY <2>4, <2>5
  <2>7. QED
    BY <2>6
<1>3. QED
  BY <1>1, <1>2

\* A task made by create has a slot until ready() has linked it.
MadeHasSlot == \A t \in Task : pc[t] \in {"made"} \cup Pushing => claim[t] # NoSlot
TypeInv == TypeOK /\ MadeHasSlot

\* The table that init_kernel leaves is well typed.
THEOREM TypeInit == Init => TypeInv
<1> SUFFICES ASSUME Init PROVE TypeInv
  OBVIOUS
<1> USE DEF Init, Task, NULLTHREAD, NoSlot
<1>1. NULLTHREAD \in Task
  BY NTaskAssumption
<1>2. state \in [Task -> State] /\ prog \in [Task -> Program] /\ stk \in [Task -> Stack]
  BY DEF State, Program, Stack
<1>3. ready_queue \in Seq(Task) /\ sleep_queue \in Seq(Task) /\ waitq \in [Sem -> Seq(Task)]
  BY EmptySeq
<1>4. now \in 0 .. MaxTicks /\ preempt \in 1 .. QUANTUM /\ due \in [Task -> 0 .. MaxTicks]
  BY QuantumAssumption, WordAssumption
<1>5. ticked \in BOOLEAN /\ pendsv \in BOOLEAN /\ elf \in [Task -> BOOLEAN]
  OBVIOUS
<1>6. plan \in [Task -> Seq(Program)]
  <2>1. <<"blink", "usr">> \in Seq(Program) /\ <<>> \in Seq(Program)
    BY DEF Program
  <2>2. QED
    BY <2>1
<1>7. value \in [Sem -> Nat] /\ pc \in [Task -> Stage] /\ fault \in Fault
  BY DEF Stage, Fault
<1>8. /\ claim \in [Task -> Task \cup {NoSlot}] /\ tail \in [Task -> Task \cup {NoSlot}]
      /\ leaked \in Nat /\ active_task \in Task
  BY <1>1
<1>9. MadeHasSlot
  BY DEF MadeHasSlot, Pushing
<1>10. QED
  BY <1>2, <1>3, <1>4, <1>5, <1>6, <1>7, <1>8, <1>9 DEF TypeInv, TypeOK

\* What sem_wait and sem_signal do to the types.
LEMMA SemWaitType ==
  ASSUME TypeOK, NEW t \in Task, NEW s \in Sem, sem_wait(t, s)
  PROVE  /\ state' \in [Task -> State] /\ value' \in [Sem -> Nat]
         /\ waitq' \in [Sem -> Seq(Task)] /\ pendsv' \in BOOLEAN /\ fault' \in Fault
<1>1. queue_push(waitq[s], t) \in Seq(Task)
  BY MembersAppend DEF TypeOK
<1>2. pendsv' \in BOOLEAN
  BY Zenon DEF TypeOK, sem_wait
<1>3. state' \in [Task -> State]
  BY DEF TypeOK, sem_wait, State
<1>4. value' \in [Sem -> Nat]
  <2>1. value \in [Sem -> Nat] /\ value[s] \in Nat
    BY DEF TypeOK
  <2>2. CASE value[s] > 0
    <3>1. value[s] - 1 \in Nat
      BY <2>1, <2>2
    <3>2. value' = [value EXCEPT ![s] = value[s] - 1]
      BY <2>2 DEF sem_wait
    <3>3. QED
      BY <2>1, <3>1, <3>2
  <2>3. CASE value[s] = 0
    BY <2>1, <2>3 DEF sem_wait
  <2>4. QED
    BY <2>1, <2>2, <2>3
<1>5. waitq' \in [Sem -> Seq(Task)]
  BY <1>1 DEF TypeOK, sem_wait
<1>6. fault' \in Fault
  BY DEF TypeOK, sem_wait, FaultIf, Fault
<1>7. QED
  BY <1>2, <1>3, <1>4, <1>5, <1>6

\* sem_signal keeps the types of what it changes.
LEMMA SemSignalType ==
  ASSUME TypeOK, NEW s \in Sem, sem_signal(s)
  PROVE  /\ state' \in [Task -> State] /\ value' \in [Sem -> Nat]
         /\ ready_queue' \in Seq(Task)
         /\ waitq' \in [Sem -> Seq(Task)] /\ pendsv' \in BOOLEAN /\ fault' \in Fault
<1>1. pendsv' \in BOOLEAN
  BY Zenon DEF TypeOK, sem_signal
<1>2. CASE waitq[s] = <<>>
  <2>1. value \in [Sem -> Nat] /\ value[s] + 1 \in Nat
    BY DEF TypeOK
  <2>2. value' = [value EXCEPT ![s] = value[s] + 1]
        /\ UNCHANGED <<state, ready_queue, waitq, pendsv, fault>>
    BY <1>2 DEF sem_signal
  <2>3. QED
    BY <1>1, <2>1, <2>2 DEF TypeOK
<1>3. CASE waitq[s] # <<>>
  <2>1. Head(waitq[s]) \in Task /\ Tail(waitq[s]) \in Seq(Task)
    BY <1>3, MembersTail DEF TypeOK
  <2>2. queue_push(ready_queue, Head(waitq[s])) \in Seq(Task)
    BY <2>1, MembersAppend DEF TypeOK
  <2>3. /\ state' = [state EXCEPT ![Head(waitq[s])] = "READY"]
        /\ ready_queue' = queue_push(ready_queue, Head(waitq[s]))
        /\ waitq' = [waitq EXCEPT ![s] = Tail(waitq[s])]
        /\ value' = value /\ fault' \in {fault, "duplicate"}
    BY <1>3 DEF sem_signal, FaultIf
  <2>4. QED
    BY <1>1, <2>1, <2>2, <2>3 DEF TypeOK, State, Fault
<1>4. QED
  BY <1>2, <1>3

\* The masked part of sleep does too.
LEMMA ParkType ==
  ASSUME TypeOK, NEW t \in Task, NEW ticks \in Delays \cup {0}, Park(t, ticks)
  PROVE  /\ state' \in [Task -> State] /\ sleep_queue' \in Seq(Task)
         /\ due' \in [Task -> 0 .. MaxTicks] /\ fault' \in Fault
<1>1. CASE ticks = 0
  BY <1>1 DEF TypeOK, Park
<1>2. CASE ticks # 0
  <2>1. now + ticks \in 0 .. MaxTicks
    BY <1>2, DelaysAssumption, WordAssumption DEF Park, TypeOK
  <2>2. \A i \in 1 .. Len(sleep_queue) + 1 : queue_pushsort(sleep_queue, t, i) \in Seq(Task)
    BY PushSortType DEF TypeOK
  <2>3. QED
    BY <1>2, <2>1, <2>2 DEF TypeOK, Park, FaultIf, State, Fault
<1>3. QED
  BY <1>1, <1>2

\* So does a section under a semaphore inside a supervisor call.
LEMMA SectionType ==
  ASSUME TypeOK, NEW t \in Task, NEW s \in Sem, NEW p, Section(t, s, p)
  PROVE  /\ state' \in [Task -> State] /\ value' \in [Sem -> Nat]
         /\ ready_queue' \in Seq(Task)
         /\ waitq' \in [Sem -> Seq(Task)] /\ pendsv' \in BOOLEAN /\ fault' \in Fault
<1> DEFINE q == IF value[s] = 0 THEN queue_push(waitq[s], t) ELSE waitq[s]
<1>1. q \in Seq(Task)
  BY MembersAppend DEF TypeOK
<1>2. state' \in [Task -> State]
  BY DEF TypeOK, Section, State
<1>5. fault' \in Fault
  BY DEF TypeOK, Section, FaultIf, Fault
<1>3. CASE q = <<>>
  <2>1. UNCHANGED <<ready_queue, semVars, pendsv>>
    BY <1>3 DEF Section
  <2>2. QED
    BY <1>2, <1>5, <2>1 DEF TypeOK, semVars
<1>4. CASE q # <<>>
  <2>1. Head(q) \in Task /\ Tail(q) \in Seq(Task)
    BY <1>1, <1>4, MembersTail
  <2>2. queue_push(ready_queue, Head(q)) \in Seq(Task)
    BY <2>1, MembersAppend DEF TypeOK
  <2>3. ready_queue' = queue_push(ready_queue, Head(q)) /\ pendsv' = TRUE
        /\ waitq' = [waitq EXCEPT ![s] = Tail(q)]
        /\ value' = IF value[s] = 0 THEN value ELSE [value EXCEPT ![s] = value[s] - 1]
    BY <1>4 DEF Section
  <2>4. value' \in [Sem -> Nat]
    <3>1. value \in [Sem -> Nat] /\ value[s] \in Nat
      BY DEF TypeOK
    <3>2. value[s] # 0 => value[s] - 1 \in Nat
      BY <3>1
    <3>3. QED
      BY <2>3, <3>1, <3>2
  <2>5. waitq' \in [Sem -> Seq(Task)]
    BY <2>1, <2>3 DEF TypeOK
  <2>6. pendsv' \in BOOLEAN
    BY <2>3
  <2>7. QED
    BY <1>2, <1>5, <2>2, <2>3, <2>4, <2>5, <2>6
<1>6. QED
  BY <1>3, <1>4, <1>5

-----------------------------------------------------------------------------
(* One step.  Each action keeps the types of what it changes.              *)

\* No handler and no thread step takes a variable out of its type, and a thread that
\* has made a task keeps its pid.
THEOREM TypeStep == TypeInv /\ [Next]_vars => TypeInv'
<1> SUFFICES ASSUME TypeInv, [Next]_vars PROVE TypeInv'
  OBVIOUS
<1> USE DEF TypeInv, MadeHasSlot, Pushing
<1>1. CASE UNCHANGED vars
  BY <1>1 DEF TypeOK, vars, timeVars, semVars, roleVars, callVars
<1>2. CASE PendSV_Handler
  <2>1. CASE Rotated = <<>>
    <3>1. /\ pendsv' = FALSE /\ fault' = "null_active"
          /\ UNCHANGED <<active_task, ready_queue, state, preempt, sleep_queue, now, ticked,
                         semVars, roleVars, pc, callVars, due>>
      BY <1>2, <2>1 DEF PendSV_Handler
    <3>2. QED
      BY <3>1 DEF TypeOK, semVars, roleVars, callVars, Fault
  <2>2. CASE Rotated # <<>>
    <3>1. Rotated \in Seq(Task)
      BY MembersAppend DEF TypeOK, Rotated
    <3>2. Head(Rotated) \in Task /\ Tail(Rotated) \in Seq(Task)
      BY <2>2, <3>1, MembersTail
    <3>3. /\ pendsv' = FALSE /\ fault' \in {"duplicate", "stack", fault}
          /\ active_task' = Head(Rotated) /\ ready_queue' = Tail(Rotated) /\ preempt' = QUANTUM
          /\ state' = [[state EXCEPT ![active_task] =
                          IF state[active_task] = "CURR" THEN "READY" ELSE state[active_task]]
                         EXCEPT ![Head(Rotated)] = "CURR"]
          /\ UNCHANGED <<sleep_queue, now, ticked, semVars, roleVars, pc, callVars, due>>
      BY <1>2, <2>2 DEF PendSV_Handler
    <3>4. state' \in [Task -> State]
      BY <3>2, <3>3 DEF TypeOK, State
    <3>5. preempt' \in 1 .. QUANTUM
      BY <3>3, QuantumAssumption
    <3>6. QED
      BY <3>2, <3>3, <3>4, <3>5 DEF TypeOK, semVars, roleVars, callVars, Fault
  <2>3. QED
    BY <2>1, <2>2
<1>3. CASE TIM2_Handler
  <2>1. PICK n \in 0 .. Len(sleep_queue) :
          /\ sleep_queue' = SubSeq(sleep_queue, n + 1, Len(sleep_queue))
          /\ ready_queue' = ready_queue \o SubSeq(sleep_queue, 1, n)
          /\ state' = [t \in Task |->
                         IF \E i \in 1 .. n : sleep_queue[i] = t THEN "CURR" ELSE state[t]]
          /\ due' = [t \in Task |-> IF \E i \in 1 .. n : sleep_queue[i] = t THEN 0 ELSE due[t]]
    BY <1>3 DEF TIM2_Handler
  <2>2. /\ ticked' = (pc[active_task] = "pend") /\ pendsv' = (preempt = 1)
        /\ now' = IF now < MaxTicks THEN now + 1 ELSE now
        /\ preempt' = NextPreempt
        /\ UNCHANGED <<active_task, semVars, roleVars, pc, callVars, fault>>
    BY <1>3 DEF TIM2_Handler, NextTick
  <2>3. sleep_queue' \in Seq(Task) /\ ready_queue' \in Seq(Task)
    BY <2>1, SplitType, ConcatProperties DEF TypeOK
  <2>4. state' \in [Task -> State] /\ due' \in [Task -> 0 .. MaxTicks]
    <3>1. state \in [Task -> State] /\ due \in [Task -> 0 .. MaxTicks]
      BY DEF TypeOK
    <3>2. "CURR" \in State /\ 0 \in 0 .. MaxTicks
      BY WordAssumption DEF State
    <3>3. state' \in [Task -> State]
      BY <2>1, <3>1, <3>2
    <3>4. due' \in [Task -> 0 .. MaxTicks]
      BY <2>1, <3>1, <3>2
    <3>5. QED
      BY <3>3, <3>4
  <2>5. now' \in 0 .. MaxTicks /\ preempt' \in 1 .. QUANTUM
    <3>1. now \in 0 .. MaxTicks /\ preempt \in 1 .. QUANTUM
      BY DEF TypeOK
    <3>2. now' \in 0 .. MaxTicks
      BY <2>2, <3>1, WordAssumption
    <3>3. preempt' \in 1 .. QUANTUM
      BY <2>2, <3>1, QuantumAssumption DEF NextPreempt
    <3>4. QED
      BY <3>2, <3>3
  <2>6. ticked' \in BOOLEAN /\ pendsv' \in BOOLEAN
    BY <2>2
  <2>7. QED
    BY <2>2, <2>3, <2>4, <2>5, <2>6 DEF TypeOK, semVars, roleVars, callVars
<1>4. ASSUME NEW t \in Task, Thread(t) PROVE TypeInv'
  <2>1. CASE Sleep(t)
    <3>1. /\ state' \in [Task -> State] /\ sleep_queue' \in Seq(Task)
            /\ due' \in [Task -> 0 .. MaxTicks] /\ fault' \in Fault
      BY <2>1, ParkType DEF Sleep
    <3>2. pc' = [pc EXCEPT ![t] = "pend"]
      BY <2>1 DEF Sleep, Goto
    <3>3. ticked' = FALSE
      BY <2>1 DEF Sleep
    <3>4. UNCHANGED <<ready_queue, active_task, now, preempt, pendsv, semVars, roleVars, callVars>>
      BY <2>1 DEF Sleep
    <3>5. QED
      BY <3>1, <3>2, <3>3, <3>4 DEF TypeOK, timeVars, semVars, roleVars, callVars, Stage, Fault
  <2>2. CASE SleepPend(t)
    <3>1. pc' = [pc EXCEPT ![t] = "run"]
      BY <2>2 DEF SleepPend, Goto
    <3>2. pendsv' = TRUE
      BY <2>2 DEF SleepPend
    <3>3. UNCHANGED <<state, ready_queue, sleep_queue, active_task, timeVars, semVars, roleVars,
                         callVars, due, fault>>
      BY <2>2 DEF SleepPend
    <3>4. QED
      BY <3>1, <3>2, <3>3 DEF TypeOK, timeVars, semVars, roleVars, callVars, Stage, Fault
  <2>3. CASE GpioEnter(t)
    <3>1. /\ state' \in [Task -> State] /\ value' \in [Sem -> Nat]
            /\ waitq' \in [Sem -> Seq(Task)] /\ pendsv' \in BOOLEAN /\ fault' \in Fault
      BY <2>3, SemWaitType DEF GpioEnter, Sem
    <3>2. pc' = [pc EXCEPT ![t] = "gpio"]
      BY <2>3 DEF GpioEnter, Goto
    <3>3. UNCHANGED <<ready_queue, sleep_queue, active_task, timeVars, roleVars, callVars, due>>
      BY <2>3 DEF GpioEnter
    <3>4. QED
      BY <3>1, <3>2, <3>3 DEF TypeOK, timeVars, semVars, roleVars, callVars, Stage, Fault
  <2>4. CASE GpioLeave(t)
    <3>1. /\ state' \in [Task -> State] /\ value' \in [Sem -> Nat] /\ ready_queue' \in Seq(Task)
            /\ waitq' \in [Sem -> Seq(Task)] /\ pendsv' \in BOOLEAN /\ fault' \in Fault
      BY <2>4, SemSignalType DEF GpioLeave, Sem
    <3>2. pc' = [pc EXCEPT ![t] = "run"]
      BY <2>4 DEF GpioLeave, Goto
    <3>3. UNCHANGED <<sleep_queue, active_task, timeVars, roleVars, callVars, due>>
      BY <2>4 DEF GpioLeave
    <3>4. QED
      BY <3>1, <3>2, <3>3 DEF TypeOK, timeVars, semVars, roleVars, callVars, Stage, Fault
  <2>5. CASE HeapEnter(t)
    <3>1. /\ state' \in [Task -> State] /\ value' \in [Sem -> Nat]
            /\ waitq' \in [Sem -> Seq(Task)] /\ pendsv' \in BOOLEAN /\ fault' \in Fault
      BY <2>5, SemWaitType DEF HeapEnter, Sem
    <3>2. pc' = [pc EXCEPT ![t] = "heap"]
      BY <2>5 DEF HeapEnter, Goto
    <3>3. UNCHANGED <<ready_queue, sleep_queue, active_task, timeVars, roleVars, callVars, due>>
      BY <2>5 DEF HeapEnter
    <3>4. QED
      BY <3>1, <3>2, <3>3 DEF TypeOK, timeVars, semVars, roleVars, callVars, Stage, Fault
  <2>6. CASE HeapLeave(t)
    <3>1. /\ state' \in [Task -> State] /\ value' \in [Sem -> Nat] /\ ready_queue' \in Seq(Task)
            /\ waitq' \in [Sem -> Seq(Task)] /\ pendsv' \in BOOLEAN /\ fault' \in Fault
      BY <2>6, SemSignalType DEF HeapLeave, Sem
    <3>2. pc' = [pc EXCEPT ![t] = "run"]
      BY <2>6 DEF HeapLeave, Goto
    <3>3. UNCHANGED <<sleep_queue, active_task, timeVars, roleVars, callVars, due>>
      BY <2>6 DEF HeapLeave
    <3>4. QED
      BY <3>1, <3>2, <3>3 DEF TypeOK, timeVars, semVars, roleVars, callVars, Stage, Fault
  <2>7. CASE CreateBegin(t)
    <3>1. /\ state' \in [Task -> State] /\ value' \in [Sem -> Nat]
            /\ waitq' \in [Sem -> Seq(Task)] /\ pendsv' \in BOOLEAN /\ fault' \in Fault
      BY <2>7, SemWaitType DEF CreateBegin, Sem
    <3>2. pc' = [pc EXCEPT ![t] = "getmem"]
      BY <2>7 DEF CreateBegin, Goto
    <3>3. claim' \in [Task -> Task \cup {NoSlot}] /\ \A u \in Task \ {t} : claim'[u] = claim[u]
      BY <2>7, NewpidFree DEF CreateBegin, TypeOK
    <3>4. UNCHANGED <<ready_queue, sleep_queue, active_task, timeVars, roleVars, tail, leaked, due>>
      BY <2>7 DEF CreateBegin
    <3>5. QED
      BY <3>1, <3>2, <3>3, <3>4 DEF TypeOK, timeVars, semVars, roleVars, callVars, Stage, Fault
  <2>8. CASE CreateAlloc(t)
    <3>1. /\ state' \in [Task -> State] /\ value' \in [Sem -> Nat] /\ ready_queue' \in Seq(Task)
            /\ waitq' \in [Sem -> Seq(Task)] /\ pendsv' \in BOOLEAN /\ fault' \in Fault
      BY <2>8, SemSignalType DEF CreateAlloc, Sem
    <3>2. pc' = [pc EXCEPT ![t] = "fill"]
      BY <2>8 DEF CreateAlloc, Goto
    <3>3. stk' \in [Task -> Stack]
      BY <2>8 DEF CreateAlloc, TypeOK, Stack
    <3>4. UNCHANGED <<sleep_queue, active_task, timeVars, prog, elf, plan, callVars, due>>
      BY <2>8 DEF CreateAlloc
    <3>5. QED
      BY <3>1, <3>2, <3>3, <3>4 DEF TypeOK, timeVars, semVars, roleVars, callVars, Stage, Fault
  <2>9. CASE CreatePanic(t)
    <3>1. /\ state' \in [Task -> State] /\ value' \in [Sem -> Nat]
            /\ waitq' \in [Sem -> Seq(Task)] /\ pendsv' \in BOOLEAN /\ fault' \in Fault
      BY <2>9, SemWaitType DEF CreatePanic, Sem
    <3>2. pc' = [pc EXCEPT ![t] = "panicpin"]
      BY <2>9 DEF CreatePanic, Goto
    <3>3. UNCHANGED <<ready_queue, sleep_queue, active_task, timeVars, roleVars, callVars, due>>
      BY <2>9 DEF CreatePanic
    <3>4. QED
      BY <3>1, <3>2, <3>3 DEF TypeOK, timeVars, semVars, roleVars, callVars, Stage, Fault
  <2>10. CASE PanicEnter(t)
    <3>1. /\ state' \in [Task -> State] /\ value' \in [Sem -> Nat]
            /\ waitq' \in [Sem -> Seq(Task)] /\ pendsv' \in BOOLEAN /\ fault' \in Fault
      BY <2>10, SemWaitType DEF PanicEnter, Sem
    <3>2. pc' = [pc EXCEPT ![t] = "panicpin"]
      BY <2>10 DEF PanicEnter, Goto
    <3>3. UNCHANGED <<ready_queue, sleep_queue, active_task, timeVars, roleVars, callVars, due>>
      BY <2>10 DEF PanicEnter
    <3>4. QED
      BY <3>1, <3>2, <3>3 DEF TypeOK, timeVars, semVars, roleVars, callVars, Stage, Fault
  <2>11. CASE PanicLeave(t)
    <3>1. /\ state' \in [Task -> State] /\ value' \in [Sem -> Nat] /\ ready_queue' \in Seq(Task)
            /\ waitq' \in [Sem -> Seq(Task)] /\ pendsv' \in BOOLEAN /\ fault' \in Fault
      BY <2>11, SemSignalType DEF PanicLeave, Sem
    <3>2. pc' = [pc EXCEPT ![t] = "panic"]
      BY <2>11 DEF PanicLeave, Goto
    <3>3. UNCHANGED <<sleep_queue, active_task, timeVars, roleVars, callVars, due>>
      BY <2>11 DEF PanicLeave
    <3>4. QED
      BY <3>1, <3>2, <3>3 DEF TypeOK, timeVars, semVars, roleVars, callVars, Stage, Fault
  <2>12. CASE ExitBegin(t)
    <3>1. /\ state' \in [Task -> State] /\ value' \in [Sem -> Nat]
            /\ waitq' \in [Sem -> Seq(Task)] /\ pendsv' \in BOOLEAN /\ fault' \in Fault
      BY <2>12, SemWaitType DEF ExitBegin, Sem
    <3>2. pc' = [pc EXCEPT ![t] = "freestk"]
      BY <2>12 DEF ExitBegin, Goto
    <3>3. UNCHANGED <<ready_queue, sleep_queue, active_task, timeVars, roleVars, callVars, due>>
      BY <2>12 DEF ExitBegin
    <3>4. QED
      BY <3>1, <3>2, <3>3 DEF TypeOK, timeVars, semVars, roleVars, callVars, Stage, Fault
  <2>13. CASE ExitFreeStack(t)
    <3>1. /\ state' \in [Task -> State] /\ value' \in [Sem -> Nat] /\ ready_queue' \in Seq(Task)
            /\ waitq' \in [Sem -> Seq(Task)] /\ pendsv' \in BOOLEAN /\ fault' \in Fault
      BY <2>13, SemSignalType DEF ExitFreeStack, Sem
    <3>2. pc' \in {[pc EXCEPT ![t] = "nextimg"], [pc EXCEPT ![t] = "die"]}
      BY <2>13 DEF ExitFreeStack, Goto
    <3>3. stk' \in [Task -> Stack]
      BY <2>13 DEF ExitFreeStack, TypeOK, Stack
    <3>4. UNCHANGED <<sleep_queue, active_task, timeVars, prog, elf, plan, callVars, due>>
      BY <2>13 DEF ExitFreeStack
    <3>5. QED
      BY <3>1, <3>2, <3>3, <3>4 DEF TypeOK, timeVars, semVars, roleVars, callVars, Stage, Fault
  <2>14. CASE ExitNextImage(t)
    <3>1. /\ state' \in [Task -> State] /\ value' \in [Sem -> Nat]
            /\ waitq' \in [Sem -> Seq(Task)] /\ pendsv' \in BOOLEAN /\ fault' \in Fault
      BY <2>14, SemWaitType DEF ExitNextImage, Sem
    <3>2. pc' = [pc EXCEPT ![t] = "freeimg"]
      BY <2>14 DEF ExitNextImage, Goto
    <3>3. UNCHANGED <<ready_queue, sleep_queue, active_task, timeVars, roleVars, callVars, due>>
      BY <2>14 DEF ExitNextImage
    <3>4. QED
      BY <3>1, <3>2, <3>3 DEF TypeOK, timeVars, semVars, roleVars, callVars, Stage, Fault
  <2>15. CASE ExitFreeImage(t)
    <3>1. /\ state' \in [Task -> State] /\ value' \in [Sem -> Nat] /\ ready_queue' \in Seq(Task)
            /\ waitq' \in [Sem -> Seq(Task)] /\ pendsv' \in BOOLEAN /\ fault' \in Fault
      BY <2>15, SemSignalType DEF ExitFreeImage, Sem
    <3>2. pc' = [pc EXCEPT ![t] = "die"]
      BY <2>15 DEF ExitFreeImage, Goto
    <3>3. elf' \in [Task -> BOOLEAN]
      BY <2>15 DEF ExitFreeImage, TypeOK
    <3>4. UNCHANGED <<sleep_queue, active_task, timeVars, prog, plan, stk, callVars, due>>
      BY <2>15 DEF ExitFreeImage
    <3>5. QED
      BY <3>1, <3>2, <3>3, <3>4 DEF TypeOK, timeVars, semVars, roleVars, callVars, Stage, Fault
  <2>16. CASE ExitSlot(t)
    <3>1. pc' = [pc EXCEPT ![t] = "gone"]
      BY <2>16 DEF ExitSlot, Goto
    <3>2. /\ state' \in [Task -> State] /\ prog' \in [Task -> Program]
            /\ stk' \in [Task -> Stack]
      BY <2>16 DEF ExitSlot, TypeOK, State, Program, Stack
    <3>3. UNCHANGED <<ready_queue, sleep_queue, active_task, timeVars, pendsv, semVars, elf, plan,
                         callVars, due, fault>>
      BY <2>16 DEF ExitSlot
    <3>4. QED
      BY <3>1, <3>2, <3>3 DEF TypeOK, timeVars, semVars, roleVars, callVars, Stage, Fault
  <2>17. CASE ExitPend(t)
    <3>1. pendsv' = TRUE
      BY <2>17 DEF ExitPend
    <3>2. UNCHANGED <<state, ready_queue, sleep_queue, active_task, timeVars, semVars,
                         roleVars, pc, callVars, due, fault>>
      BY <2>17 DEF ExitPend
    <3>3. QED
      BY <3>1, <3>2 DEF TypeOK, timeVars, semVars, roleVars, callVars, Stage, Fault
  <2>18. CASE Puts(t)
    <3>1. /\ state' \in [Task -> State] /\ fault' \in Fault /\ pendsv' = TRUE
      BY <2>18 DEF Puts, TypeOK, State, FaultIf, Fault
    <3>2. ready_queue' \in Seq(Task)
      BY <2>18, MembersAppend DEF Puts, TypeOK
    <3>3. UNCHANGED <<sleep_queue, active_task, timeVars, semVars, roleVars, pc, callVars, due>>
      BY <2>18 DEF Puts
    <3>4. QED
      BY <3>1, <3>2, <3>3 DEF TypeOK, timeVars, semVars, roleVars, callVars, Stage, Fault
  <2>19. CASE SvcSleep(t)
    <3>1. /\ state' \in [Task -> State] /\ sleep_queue' \in Seq(Task)
            /\ due' \in [Task -> 0 .. MaxTicks] /\ fault' \in Fault
      BY <2>19, ParkType DEF SvcSleep
    <3>2. pendsv' = TRUE
      BY <2>19 DEF SvcSleep
    <3>3. UNCHANGED <<ready_queue, active_task, timeVars, semVars, roleVars, pc, callVars>>
      BY <2>19 DEF SvcSleep
    <3>4. QED
      BY <3>1, <3>2, <3>3 DEF TypeOK, timeVars, semVars, roleVars, callVars, Stage, Fault
  <2>20. CASE SvcPin(t)
    <3>1. /\ state' \in [Task -> State] /\ value' \in [Sem -> Nat] /\ ready_queue' \in Seq(Task)
            /\ waitq' \in [Sem -> Seq(Task)] /\ pendsv' \in BOOLEAN /\ fault' \in Fault
      BY <2>20, SectionType DEF SvcPin, Sem
    <3>2. UNCHANGED <<sleep_queue, active_task, timeVars, roleVars, pc, callVars, due>>
      BY <2>20 DEF SvcPin
    <3>3. QED
      BY <3>1, <3>2 DEF TypeOK, timeVars, semVars, roleVars, callVars, Stage, Fault
  <2>21. CASE SvcMalloc(t)
    <3>1. /\ state' \in [Task -> State] /\ value' \in [Sem -> Nat] /\ ready_queue' \in Seq(Task)
            /\ waitq' \in [Sem -> Seq(Task)] /\ pendsv' \in BOOLEAN /\ fault' \in Fault
      BY <2>21, SectionType DEF SvcMalloc, Sem
    <3>2. UNCHANGED <<sleep_queue, active_task, timeVars, roleVars, pc, callVars, due>>
      BY <2>21 DEF SvcMalloc
    <3>3. QED
      BY <3>1, <3>2 DEF TypeOK, timeVars, semVars, roleVars, callVars, Stage, Fault
  <2>22. CASE SvcMallocFails(t)
    <3>1. /\ state' \in [Task -> State] /\ value' \in [Sem -> Nat]
            /\ waitq' \in [Sem -> Seq(Task)] /\ pendsv' \in BOOLEAN /\ fault' \in Fault
      BY <2>22, SemWaitType DEF SvcMallocFails, Sem
    <3>2. /\ UNCHANGED <<ready_queue, sleep_queue, active_task, timeVars, roleVars, pc, claim,
                         tail, due>>
          /\ leaked' = leaked + 1
      BY <2>22 DEF SvcMallocFails
    <3>3. QED
      BY <3>1, <3>2 DEF TypeOK, timeVars, semVars, roleVars, callVars, Stage, Fault
  <2>23. CASE SvcCreateFails(t)
    <3>1. fault' \in {"panic", "bad_slot"}
      BY <2>23 DEF SvcCreateFails
    <3>2. UNCHANGED <<state, ready_queue, sleep_queue, active_task, timeVars, pendsv,
                         semVars, roleVars, pc, callVars, due>>
      BY <2>23 DEF SvcCreateFails
    <3>3. QED
      BY <3>1, <3>2 DEF TypeOK, timeVars, semVars, roleVars, callVars, Stage, Fault
  <2>24. CASE CreateFill(t)
    <3>1. UNCHANGED <<ready_queue, sleep_queue, active_task, timeVars, pendsv, semVars,
                      callVars, due>>
      BY <2>24 DEF CreateFill
    <3>2. CASE claim[t] = NoSlot
      <4>1. fault' = "bad_slot" /\ UNCHANGED <<state, roleVars, pc>>
        BY <2>24, <3>2 DEF CreateFill
      <4>2. QED
        BY <3>1, <4>1 DEF TypeOK, timeVars, semVars, roleVars, callVars, Fault
    <3>3. CASE claim[t] # NoSlot
      <4>1. claim[t] \in Task
        BY <3>3 DEF TypeOK
      <4>2. Child(t) \in Program /\ PlanOf(Child(t)) \in Seq(Program)
        <5>1. plan[t] # <<>> => Head(plan[t]) \in Program
          BY MembersTail DEF TypeOK
        <5>2. Child(t) \in Program
          BY <5>1 DEF Child, Program
        <5>3. <<"shell">> \in Seq(Program) /\ <<>> \in Seq(Program)
          BY DEF Program
        <5>4. QED
          BY <5>2, <5>3 DEF PlanOf
      <4>0. CASE state[claim[t]] # "FREE"
        <5>1. fault' = "slot_taken" /\ UNCHANGED <<state, roleVars, pc>>
          BY <2>24, <3>3, <4>0 DEF CreateFill
        <5>2. QED
          BY <3>1, <5>1 DEF TypeOK, timeVars, semVars, roleVars, callVars, Fault
      <4>9. SUFFICES ASSUME state[claim[t]] = "FREE" PROVE TypeInv'
        BY <4>0
      <4>3. /\ state' = [state EXCEPT ![claim[t]] = "SUSP"]
            /\ Fill(claim[t], Child(t))
            /\ plan' = [[plan EXCEPT ![t] = Rest(plan[t])]
                          EXCEPT ![claim[t]] = PlanOf(Child(t))]
            /\ pc' = [pc EXCEPT ![claim[t]] = "run", ![t] = "made"]
            /\ UNCHANGED fault
        BY <2>24, <3>3, <4>9 DEF CreateFill
      <4>4. /\ state' \in [Task -> State] /\ stk' \in [Task -> Stack]
            /\ prog' \in [Task -> Program] /\ pc' \in [Task -> Stage]
        BY <4>2, <4>3 DEF TypeOK, Fill, State, Stack, Stage
      <4>5. elf' \in [Task -> BOOLEAN]
        BY <4>3 DEF TypeOK, Fill
      <4>6. plan' \in [Task -> Seq(Program)]
        <5>1. Rest(plan[t]) \in Seq(Program)
          BY MembersTail DEF TypeOK, Rest
        <5>2. QED
          BY <4>2, <4>3, <5>1 DEF TypeOK
      <4>7. MadeHasSlot'
        BY <3>1, <3>3, <4>3 DEF TypeOK, callVars
      <4>8. QED
        BY <3>1, <4>3, <4>4, <4>5, <4>6, <4>7 DEF TypeOK, timeVars, semVars, callVars
    <3>4. QED
      BY <3>2, <3>3
  <2>25. CASE ReadyTest(t)
    <3>1. /\ claim[t] \in Task /\ pc[t] = "made"
          /\ state' = [state EXCEPT ![claim[t]] = "CURR"]
          /\ pc' \in {[pc EXCEPT ![t] = "first"], [pc EXCEPT ![t] = "load"]}
          /\ UNCHANGED <<readyFrame, ready_queue, claim, tail, fault>>
      BY <2>25 DEF ReadyTest, MarkReady, At, Goto, TypeOK
    <3>2. elf' \in [Task -> BOOLEAN]
      BY <2>25 DEF ReadyTest, MarkReady, TypeOK
    <3>3. state' \in [Task -> State] /\ pc' \in [Task -> Stage] /\ MadeHasSlot'
      BY <3>1 DEF TypeOK, State, Stage
    <3>4. QED
      BY <3>1, <3>2, <3>3 DEF TypeOK, readyFrame, timeVars, semVars
  <2>28. CASE ReadyFirst(t) \/ ReadyLink(t)
    <3>1. claim[t] \in Task
      BY <2>28 DEF ReadyFirst, ReadyLink, At, TypeOK
    <3>2. PICK torn \in BOOLEAN : PushStep(t, torn)
      BY <2>28 DEF ReadyFirst, ReadyLink
    <3>3. /\ UNCHANGED <<readyFrame, state, elf, claim, tail>>
          /\ fault' \in {fault, "torn", "duplicate"}
          /\ pc' \in {pc, [pc EXCEPT ![t] = "last"]}
          /\ ready_queue' \in {ready_queue, queue_push(ready_queue, claim[t])}
      BY <3>2 DEF PushStep, FaultIf, Goto
    <3>7. ready_queue \in Seq(Task) /\ queue_push(ready_queue, claim[t]) \in Seq(Task)
      BY <3>1, MembersAppend DEF TypeOK
    <3>4. ready_queue' \in Seq(Task)
      BY <3>3, <3>7
    <3>5. pc' \in [Task -> Stage] /\ MadeHasSlot'
      BY <3>3 DEF TypeOK, Stage
    <3>6. QED
      BY <3>3, <3>4, <3>5 DEF TypeOK, readyFrame, timeVars, semVars, Fault
  <2>29. CASE ReadyLoad(t)
    <3>1. /\ UNCHANGED <<readyFrame, state, elf, ready_queue, claim>> /\ pc[t] = "load"
          /\ fault' \in {fault, "torn"}
      BY <2>29 DEF ReadyLoad, At
    <3>2. CASE ready_queue = <<>>
      <4>1. UNCHANGED <<tail, pc>>
        BY <2>29, <3>2 DEF ReadyLoad
      <4>2. QED
        BY <3>1, <4>1 DEF TypeOK, readyFrame, timeVars, semVars, Fault
    <3>3. CASE ready_queue # <<>>
      <4>1. ready_queue[Len(ready_queue)] \in Task
        <5>1. Len(ready_queue) \in 1 .. Len(ready_queue)
          BY <3>3, LenProperties, EmptySeq DEF TypeOK
        <5>2. QED
          BY <5>1, ElementOfSeq DEF TypeOK
      <4>2. /\ tail' = [tail EXCEPT ![t] = ready_queue[Len(ready_queue)]]
            /\ pc' = [pc EXCEPT ![t] = "link"]
        BY <2>29, <3>3 DEF ReadyLoad, Goto
      <4>3. tail' \in [Task -> Task \cup {NoSlot}]
        BY <4>1, <4>2 DEF TypeOK
      <4>4. pc' \in [Task -> Stage] /\ MadeHasSlot'
        BY <3>1, <4>2 DEF TypeOK, Stage
      <4>5. QED
        BY <3>1, <4>3, <4>4 DEF TypeOK, readyFrame, timeVars, semVars, Fault
    <3>4. QED
      BY <3>2, <3>3
  <2>30. CASE ReadyLast(t)
    <3>1. /\ UNCHANGED <<readyFrame, state, elf, ready_queue, fault>>
          /\ claim' = [claim EXCEPT ![t] = NoSlot] /\ tail' = [tail EXCEPT ![t] = NoSlot]
          /\ pc' = [pc EXCEPT ![t] = "run"]
      BY <2>30 DEF ReadyLast, Goto
    <3>2. QED
      BY <3>1 DEF TypeOK, readyFrame, timeVars, semVars, Stage
  <2>31. CASE SvcReady(t)
    <3>1. claim[t] \in Task
      BY <2>31 DEF SvcReady, At, TypeOK
    <3>2. /\ state' = [state EXCEPT ![claim[t]] = "CURR"]
          /\ ready_queue' = queue_push(ready_queue, claim[t])
          /\ fault' \in {fault, "duplicate"}
          /\ claim' = [claim EXCEPT ![t] = NoSlot] /\ pc' = [pc EXCEPT ![t] = "run"]
          /\ UNCHANGED <<readyFrame, tail>>
      BY <2>31 DEF SvcReady, MarkReady, FaultIf, Goto
    <3>3. elf' \in [Task -> BOOLEAN]
      BY <2>31 DEF SvcReady, MarkReady, TypeOK
    <3>4. ready_queue' \in Seq(Task) /\ state' \in [Task -> State]
      BY <3>1, <3>2, MembersAppend DEF TypeOK, State
    <3>5. claim' \in [Task -> Task \cup {NoSlot}] /\ pc' \in [Task -> Stage] /\ MadeHasSlot'
      BY <3>2 DEF TypeOK, Stage
    <3>6. QED
      BY <3>2, <3>3, <3>4, <3>5 DEF TypeOK, readyFrame, timeVars, semVars, Fault
  <2>32. CASE HeapFails(t)
    <3>1. /\ leaked' = leaked + 1 /\ pc' = [pc EXCEPT ![t] = "nomem"]
          /\ UNCHANGED <<state, ready_queue, sleep_queue, active_task, timeVars, pendsv, semVars,
                         roleVars, claim, tail, due, fault>>
      BY <2>32 DEF HeapFails, Goto
    <3>2. QED
      BY <3>1 DEF TypeOK, timeVars, semVars, roleVars, Stage
  <2>33. CASE NoMemFree(t)
    <3>1. /\ state' \in [Task -> State] /\ value' \in [Sem -> Nat]
          /\ waitq' \in [Sem -> Seq(Task)] /\ pendsv' \in BOOLEAN /\ fault' \in Fault
      BY <2>33, SemWaitType DEF NoMemFree, Sem
    <3>2. pc' = [pc EXCEPT ![t] = "nullfree"]
      BY <2>33 DEF NoMemFree, Goto
    <3>3. UNCHANGED <<ready_queue, sleep_queue, active_task, timeVars, roleVars, callVars, due>>
      BY <2>33 DEF NoMemFree
    <3>4. QED
      BY <3>1, <3>2, <3>3 DEF TypeOK, timeVars, semVars, roleVars, callVars, Stage, Fault
  <2>34. CASE NullFree(t)
    <3>1. /\ fault' = "null_free"
          /\ UNCHANGED <<state, ready_queue, sleep_queue, active_task, timeVars, pendsv, semVars,
                         roleVars, pc, callVars, due>>
      BY <2>34 DEF NullFree
    <3>2. QED
      BY <3>1 DEF TypeOK, timeVars, semVars, roleVars, callVars, Fault
  <2>26. CASE SvcCreate(t)
    <3>1. newpid \in Task
      BY <2>26, NewpidFree DEF SvcCreate
    <3>2. /\ state' \in [Task -> State] /\ value' \in [Sem -> Nat] /\ ready_queue' \in Seq(Task)
          /\ waitq' \in [Sem -> Seq(Task)] /\ pendsv' \in BOOLEAN /\ fault' \in Fault
      BY <2>26, SectionType DEF SvcCreate, Sem
    <3>3. /\ Fill(newpid, "cmd")
          /\ plan' = [plan EXCEPT ![newpid] = <<>>]
          /\ pc' = [pc EXCEPT ![newpid] = "run", ![t] = "made"]
          /\ claim' = [claim EXCEPT ![t] = newpid]
          /\ UNCHANGED <<sleep_queue, active_task, timeVars, tail, leaked, due>>
      BY <2>26 DEF SvcCreate
    <3>4. /\ prog' \in [Task -> Program] /\ stk' \in [Task -> Stack] /\ pc' \in [Task -> Stage]
      BY <3>3 DEF TypeOK, Fill, Program, Stack, Stage
    <3>5. elf' \in [Task -> BOOLEAN]
      BY <3>3 DEF TypeOK, Fill
    <3>6. plan' \in [Task -> Seq(Program)]
      <4>1. <<>> \in Seq(Program)
        BY EmptySeq
      <4>2. QED
        BY <3>3, <4>1 DEF TypeOK
    <3>7. claim' \in [Task -> Task \cup {NoSlot}]
      BY <3>1, <3>3 DEF TypeOK
    <3>8. MadeHasSlot'
      <4>1. newpid # NoSlot
        BY <3>1 DEF NoSlot, Task
      <4>2. ASSUME NEW u \in Task, pc'[u] \in {"made"} \cup Pushing PROVE claim'[u] # NoSlot
        <5>1. CASE u = t
          BY <3>3, <4>1, <5>1 DEF TypeOK
        <5>2. CASE u # t
          <6>1. claim'[u] = claim[u] /\ pc[u] \in {"made"} \cup Pushing
            BY <3>3, <4>2, <5>2 DEF TypeOK
          <6>2. QED
            BY <6>1 DEF MadeHasSlot
        <5>3. QED
          BY <5>1, <5>2
      <4>3. QED
        BY <4>2 DEF MadeHasSlot
    <3>9. QED
      BY <3>2, <3>3, <3>4, <3>5, <3>6, <3>7, <3>8 DEF TypeOK, timeVars
  <2>27. QED
    BY <1>4, <2>1, <2>2, <2>3, <2>4, <2>5, <2>6, <2>7, <2>8, <2>9, <2>10, <2>11, <2>12, <2>13, <2>14, <2>15, <2>16, <2>17, <2>18, <2>19, <2>20, <2>21, <2>22, <2>23, <2>24, <2>25, <2>26, <2>28, <2>29,
       <2>30, <2>31, <2>32, <2>33, <2>34 DEF Thread
<1>5. CASE TornPush
  <2>1. /\ fault' = "torn"
        /\ UNCHANGED <<state, ready_queue, sleep_queue, active_task, timeVars, pendsv, semVars,
                       roleVars, pc, callVars, due>>
    BY <1>5 DEF TornPush
  <2>2. QED
    BY <2>1 DEF TypeOK, timeVars, semVars, roleVars, callVars, Fault
<1>6. QED
  BY <1>1, <1>2, <1>3, <1>4, <1>5 DEF Next, Halted

-----------------------------------------------------------------------------
(* The null task.  No thread takes a task off the ready queue, PendSV puts *)
(* back what it takes off if it was running, and the null task itself does *)
(* nothing that suspends it.                                               *)

Grows == Members(ready_queue) \subseteq Members(ready_queue')

\* A push loses no task.
LEMMA PushGrows ==
  ASSUME TypeOK, NEW x \in Task, ready_queue' = queue_push(ready_queue, x)
  PROVE  Grows
<1>1. ready_queue \in Seq(Task)
  BY DEF TypeOK
<1>2. Members(queue_push(ready_queue, x)) = Members(ready_queue) \cup {x}
  BY <1>1, MembersAppend
<1>3. QED
  BY <1>2 DEF Grows

\* Nor does sem_signal.
LEMMA SignalGrows ==
  ASSUME TypeOK, NEW s \in Sem, sem_signal(s)
  PROVE  Grows
<1>1. CASE waitq[s] = <<>>
  BY <1>1 DEF sem_signal, Grows
<1>2. CASE waitq[s] # <<>>
  <2>1. Head(waitq[s]) \in Task
    BY <1>2, MembersTail DEF TypeOK
  <2>2. ready_queue' = queue_push(ready_queue, Head(waitq[s]))
    BY <1>2 DEF sem_signal
  <2>3. QED
    BY <2>1, <2>2, PushGrows
<1>3. QED
  BY <1>1, <1>2

\* Nor does a section inside a supervisor call.
LEMMA SectionGrows ==
  ASSUME TypeOK, NEW t \in Task, NEW s \in Sem, NEW p, Section(t, s, p)
  PROVE  Grows
<1> DEFINE q == IF value[s] = 0 THEN queue_push(waitq[s], t) ELSE waitq[s]
<1>1. q \in Seq(Task)
  BY MembersAppend DEF TypeOK
<1>2. CASE q = <<>>
  BY <1>2 DEF Section, Grows
<1>3. CASE q # <<>>
  <2>1. Head(q) \in Task
    BY <1>1, <1>3, MembersTail
  <2>2. ready_queue' = queue_push(ready_queue, Head(q))
    BY <1>3 DEF Section
  <2>3. QED
    BY <2>1, <2>2, PushGrows
<1>4. QED
  BY <1>2, <1>3

\* The thread that steps stays the active one, and the ready queue loses no task.
LEMMA ThreadGrows ==
  ASSUME TypeInv, NEW t \in Task, Thread(t)
  PROVE  Grows /\ active_task = t /\ active_task' = t
<1> USE DEF TypeInv
<1>1. CASE \/ Sleep(t) \/ SleepPend(t) \/ CreateFill(t) \/ ExitSlot(t)
           \/ ExitPend(t) \/ SvcSleep(t) \/ SvcCreateFails(t) \/ GpioEnter(t)
           \/ HeapEnter(t) \/ CreateBegin(t) \/ ExitBegin(t)
           \/ ExitNextImage(t) \/ SvcMallocFails(t) \/ CreatePanic(t)
           \/ PanicEnter(t) \/ HeapFails(t) \/ NoMemFree(t) \/ NullFree(t)
           \/ ReadyTest(t) \/ ReadyLoad(t) \/ ReadyLast(t)
  BY <1>1 DEF Sleep, SleepPend, CreateFill, ExitSlot, ExitPend, SvcSleep, SvcCreateFails,
         GpioEnter, HeapEnter, CreateBegin, ExitBegin, ExitNextImage, SvcMallocFails,
         CreatePanic, PanicEnter, HeapFails, NoMemFree, NullFree, ReadyTest, ReadyLoad, ReadyLast,
         readyFrame, At, Running, Svc, Grows
<1>2. CASE \/ GpioLeave(t) \/ HeapLeave(t) \/ CreateAlloc(t)
           \/ ExitFreeStack(t) \/ ExitFreeImage(t) \/ PanicLeave(t)
  BY <1>2, SignalGrows DEF GpioLeave, HeapLeave, CreateAlloc, ExitFreeStack, ExitFreeImage, PanicLeave,
         At, Running, Svc, Sem
<1>3. CASE \/ SvcPin(t) \/ SvcMalloc(t) \/ SvcCreate(t)
  BY <1>3, SectionGrows DEF SvcPin, SvcMalloc, SvcCreate, At, Running, Svc, Sem
<1>4. CASE Puts(t)
  BY <1>4, PushGrows DEF Puts, At, Running
<1>5. CASE ReadyFirst(t) \/ ReadyLink(t) \/ SvcReady(t)
  <2>1. claim[t] \in Task
    BY <1>5 DEF ReadyFirst, ReadyLink, SvcReady, At, TypeOK, MadeHasSlot, Pushing
  <2>2. /\ ready_queue' = ready_queue \/ ready_queue' = queue_push(ready_queue, claim[t])
        /\ active_task = t /\ active_task' = active_task
    BY <1>5 DEF ReadyFirst, ReadyLink, SvcReady, PushStep, readyFrame, At, Running
  <2>3. QED
    BY <2>1, <2>2, PushGrows DEF Grows
<1>6. QED
  BY <1>1, <1>2, <1>3, <1>4, <1>5 DEF Thread

\* A thread steps only while no fault has occurred.
LEMMA ThreadRuns ==
  ASSUME NEW t \in Task, Thread(t)
  PROVE  fault = "none"
  BY DEF Thread, Sleep, SleepPend, GpioEnter, GpioLeave, HeapEnter, HeapLeave, HeapFails, NoMemFree,
         NullFree, CreateBegin, CreateAlloc, CreatePanic, CreateFill, ReadyTest, ReadyFirst, ReadyLoad,
         ReadyLink, ReadyLast, PanicEnter, PanicLeave, ExitBegin, ExitFreeStack, ExitNextImage,
         ExitFreeImage, ExitSlot, ExitPend, Puts, SvcSleep, SvcPin, SvcMalloc, SvcMallocFails,
         SvcCreate, SvcReady, SvcCreateFails, Svc, At, Running

\* No thread makes active_task NULL.
LEMMA ThreadFault ==
  ASSUME NEW t \in Task, Thread(t), fault # "null_active"
  PROVE  fault' # "null_active"
<1>1. CASE \/ Sleep(t) \/ SleepPend(t) \/ CreateFill(t) \/ ExitSlot(t)
           \/ ExitPend(t) \/ SvcSleep(t) \/ SvcCreateFails(t) \/ GpioEnter(t)
           \/ HeapEnter(t) \/ CreateBegin(t) \/ ExitBegin(t)
           \/ ExitNextImage(t) \/ SvcMallocFails(t) \/ CreatePanic(t)
           \/ PanicEnter(t) \/ HeapFails(t) \/ NoMemFree(t) \/ NullFree(t)
  BY <1>1 DEF Sleep, SleepPend, CreateFill, ExitSlot, ExitPend, SvcSleep, SvcCreateFails,
         GpioEnter, HeapEnter, CreateBegin, ExitBegin, ExitNextImage, SvcMallocFails,
         CreatePanic, PanicEnter, HeapFails, NoMemFree, NullFree, sem_wait, Park, FaultIf
<1>2. CASE \/ GpioLeave(t) \/ HeapLeave(t) \/ CreateAlloc(t)
           \/ ExitFreeStack(t) \/ ExitFreeImage(t) \/ PanicLeave(t)
           \/ ReadyTest(t) \/ ReadyFirst(t) \/ ReadyLoad(t) \/ ReadyLink(t) \/ ReadyLast(t)
           \/ SvcReady(t) \/ Puts(t) \/ SvcPin(t) \/ SvcMalloc(t) \/ SvcCreate(t)
  BY <1>2 DEF GpioLeave, HeapLeave, CreateAlloc, ExitFreeStack, ExitFreeImage, PanicLeave,
         ReadyTest, ReadyFirst, ReadyLoad, ReadyLink, ReadyLast, PushStep, SvcReady,
         Puts, SvcPin, SvcMalloc, SvcCreate, Section, sem_signal, FaultIf
<1>3. QED
  BY <1>1, <1>2 DEF Thread

\* All the null task does is to create.
LEMMA NullSteps ==
  ASSUME BootAlone, NEW t \in Task, t = NULLTHREAD, Thread(t)
  PROVE  \/ CreateBegin(t) /\ plan[t] # <<>>
         \/ CreateAlloc(t) \/ CreatePanic(t) \/ CreateFill(t)
         \/ ReadyTest(t) \/ ReadyFirst(t) \/ ReadyLoad(t) \/ ReadyLink(t) \/ ReadyLast(t)
<1>1. ~ (\/ Sleep(t) \/ SleepPend(t) \/ GpioEnter(t) \/ GpioLeave(t)
        \/ HeapEnter(t) \/ HeapLeave(t) \/ PanicEnter(t) \/ PanicLeave(t)
        \/ ExitBegin(t) \/ ExitFreeStack(t) \/ ExitNextImage(t)
        \/ ExitFreeImage(t) \/ ExitSlot(t) \/ ExitPend(t) \/ Puts(t)
        \/ SvcSleep(t) \/ SvcPin(t) \/ SvcMalloc(t) \/ SvcMallocFails(t)
        \/ SvcCreate(t) \/ SvcCreateFails(t) \/ SvcReady(t)
        \/ HeapFails(t) \/ NoMemFree(t) \/ NullFree(t))
  BY DEF BootAlone, Making, Pushing, HeapFails, NoMemFree, NullFree, SvcReady, Sleep, SleepPend, GpioEnter, GpioLeave, HeapEnter, HeapLeave,
         PanicEnter, PanicLeave, ExitBegin, ExitFreeStack, ExitNextImage,
         ExitFreeImage, ExitSlot, ExitPend, Puts, SvcSleep, SvcPin, SvcMalloc,
         SvcMallocFails, SvcCreate, SvcCreateFails, At, Svc, Returns
<1>2. CreateBegin(t) => plan[t] # <<>>
  BY CallsAssumption DEF BootAlone, CreateBegin, Creates
<1>3. QED
  BY <1>1, <1>2 DEF Thread

\* While the null task creates, the others can only blink.
LEMMA BlinkSteps ==
  ASSUME BootAlone, plan[NULLTHREAD] # <<>>, NEW t \in Task \ {NULLTHREAD}, Thread(t)
  PROVE  Sleep(t) \/ SleepPend(t) \/ GpioEnter(t) \/ GpioLeave(t)
<1>1. ~ (\/ HeapEnter(t) \/ HeapLeave(t) \/ CreateBegin(t) \/ CreateAlloc(t)
        \/ CreatePanic(t) \/ PanicEnter(t) \/ PanicLeave(t) \/ CreateFill(t)
        \/ ReadyTest(t) \/ ReadyFirst(t) \/ ReadyLoad(t) \/ ReadyLink(t) \/ ReadyLast(t)
        \/ SvcReady(t) \/ HeapFails(t) \/ NoMemFree(t) \/ NullFree(t) \/ ExitBegin(t) \/ ExitFreeStack(t) \/ ExitNextImage(t)
        \/ ExitFreeImage(t) \/ ExitSlot(t) \/ ExitPend(t) \/ Puts(t)
        \/ SvcSleep(t) \/ SvcPin(t) \/ SvcMalloc(t) \/ SvcMallocFails(t)
        \/ SvcCreate(t) \/ SvcCreateFails(t))
  BY CallsAssumption DEF BootAlone, HeapEnter, HeapLeave, CreateBegin, CreateAlloc, CreatePanic,
         PanicEnter, PanicLeave, CreateFill, ReadyTest, ReadyFirst, ReadyLoad, ReadyLink,
         ReadyLast, SvcReady, HeapFails, NoMemFree, NullFree, ExitBegin, ExitFreeStack,
         ExitNextImage, ExitFreeImage, ExitSlot, ExitPend, Puts, SvcSleep, SvcPin,
         SvcMalloc, SvcMallocFails, SvcCreate, SvcCreateFails, At, Svc, Returns,
         Creates
<1>2. QED
  BY <1>1 DEF Thread

\* What the others cannot take from the null task.
LEMMA NullRole ==
  ASSUME TypeInv, BootAlone, NEW t \in Task \ {NULLTHREAD}, Thread(t)
  PROVE  /\ prog'[NULLTHREAD] = prog[NULLTHREAD] /\ elf'[NULLTHREAD] = elf[NULLTHREAD]
         /\ plan'[NULLTHREAD] = plan[NULLTHREAD] /\ pc'[NULLTHREAD] = pc[NULLTHREAD]
         /\ state'[NULLTHREAD] # "FREE"
         /\ \A u \in Task : claim'[u] # NULLTHREAD
<1> USE DEF TypeInv, BootAlone
<1>1. NULLTHREAD \in Task /\ newpid # NULLTHREAD
  BY NewpidFree, NTaskAssumption DEF Task, NULLTHREAD, NoSlot
<1>2. CASE \/ SleepPend(t) \/ ExitSlot(t) \/ ExitPend(t) \/ SvcCreateFails(t)
           \/ Puts(t) \/ HeapFails(t) \/ NullFree(t)
  BY <1>1, <1>2 DEF SleepPend, ExitSlot, ExitPend, SvcCreateFails, Puts, HeapFails, NullFree,
         roleVars, callVars, Goto, TypeOK
<1>3. CASE \/ GpioEnter(t) \/ HeapEnter(t) \/ ExitBegin(t) \/ ExitNextImage(t)
           \/ SvcMallocFails(t) \/ CreatePanic(t) \/ PanicEnter(t) \/ NoMemFree(t)
  BY <1>1, <1>3 DEF GpioEnter, HeapEnter, ExitBegin, ExitNextImage, SvcMallocFails, CreatePanic,
         PanicEnter, NoMemFree, roleVars, callVars, Goto, sem_wait, TypeOK
<1>4. CASE \/ GpioLeave(t) \/ HeapLeave(t) \/ CreateAlloc(t)
           \/ ExitFreeStack(t) \/ ExitFreeImage(t) \/ PanicLeave(t)
  BY <1>1, <1>4 DEF GpioLeave, HeapLeave, CreateAlloc, ExitFreeStack, ExitFreeImage, PanicLeave,
         roleVars, callVars, Goto, sem_signal, TypeOK
<1>5. CASE Sleep(t) \/ SvcSleep(t)
  BY <1>1, <1>5 DEF Sleep, SvcSleep, Park, roleVars, callVars, Goto, TypeOK
<1>6. CASE SvcPin(t) \/ SvcMalloc(t)
  BY <1>1, <1>6 DEF SvcPin, SvcMalloc, Section, roleVars, callVars, TypeOK, NoSlot
<1>7. CASE CreateBegin(t)
  BY <1>1, <1>7 DEF CreateBegin, sem_wait, roleVars, Goto, TypeOK
<1>8. CASE CreateFill(t)
  BY <1>1, <1>8 DEF CreateFill, Fill, roleVars, callVars, TypeOK
<1>9. CASE ReadyTest(t) \/ SvcReady(t)
  <2>1. /\ state' = [state EXCEPT ![claim[t]] = "CURR"] /\ UNCHANGED <<prog, plan>>
        /\ claim' = claim \/ claim' = [claim EXCEPT ![t] = NoSlot]
        /\ \E q \in {"first", "load", "run"} : pc' = [pc EXCEPT ![t] = q]
    BY <1>9 DEF ReadyTest, SvcReady, MarkReady, readyFrame, Goto
  <2>2. PICK b \in BOOLEAN : elf' = [elf EXCEPT ![claim[t]] = b]
    BY <1>9 DEF ReadyTest, SvcReady, MarkReady
  <2>3. claim[t] # NULLTHREAD
    OBVIOUS
  <2>4. elf'[NULLTHREAD] = elf[NULLTHREAD] /\ state'[NULLTHREAD] # "FREE" /\ pc'[NULLTHREAD] = pc[NULLTHREAD]
    BY <1>1, <2>1, <2>2, <2>3 DEF TypeOK
  <2>5. \A u \in Task : claim'[u] # NULLTHREAD
    BY <2>1 DEF TypeOK, NULLTHREAD, NoSlot
  <2>6. QED
    BY <2>1, <2>4, <2>5
<1>12. CASE ReadyFirst(t) \/ ReadyLoad(t) \/ ReadyLink(t) \/ ReadyLast(t)
  <2>1. /\ UNCHANGED <<state, prog, elf, plan>>
        /\ claim' = claim \/ claim' = [claim EXCEPT ![t] = NoSlot]
        /\ pc' = pc \/ \E q \in {"link", "last", "run"} : pc' = [pc EXCEPT ![t] = q]
    BY <1>12 DEF ReadyFirst, ReadyLoad, ReadyLink, ReadyLast, PushStep, readyFrame, Goto
  <2>2. \A u \in Task : claim'[u] # NULLTHREAD
    BY <2>1 DEF TypeOK, NULLTHREAD, NoSlot
  <2>3. QED
    BY <1>1, <2>1, <2>2 DEF TypeOK
<1>10. CASE SvcCreate(t)
  BY <1>1, <1>10 DEF SvcCreate, Section, Fill, TypeOK
<1>11. QED
  BY <1>2, <1>3, <1>4, <1>5, <1>6, <1>7, <1>8, <1>9, <1>10, <1>12 DEF Thread


\* The inductive invariant.
IInv == TypeInv /\ BootAlone /\ NullReady /\ NoNullActive

\* The null task runs when init_kernel has returned, with everything still to create.
THEOREM NullInit == Init => IInv
<1> SUFFICES ASSUME Init PROVE IInv
  OBVIOUS
<1>1. TypeInv
  BY TypeInit
<1>2. NULLTHREAD \in Task
  BY NTaskAssumption DEF Task, NULLTHREAD
<1>3. BootAlone
  BY <1>2 DEF Init, BootAlone, Making, Pushing, NULLTHREAD, NoSlot, Sem
<1>4. NullReady /\ NoNullActive
  BY <1>2 DEF Init, NullReady, NoNullActive
<1>5. QED
  BY <1>1, <1>3, <1>4 DEF IInv

\* What the interrupt handlers leave alone.
LEMMA BootHandler ==
  ASSUME TypeInv, BootAlone, PendSV_Handler \/ TIM2_Handler \/ TornPush
  PROVE  BootAlone'
<1> USE DEF TypeInv
<1>1. UNCHANGED <<value, waitq, prog, elf, plan, stk, pc, claim>>
  BY DEF PendSV_Handler, TIM2_Handler, TornPush, semVars, roleVars, callVars
<1>2. NULLTHREAD \in Task
  BY NTaskAssumption DEF Task, NULLTHREAD
<1>3. state'[NULLTHREAD] # "FREE"
  <2>1. state \in [Task -> State] /\ state[NULLTHREAD] # "FREE"
    BY DEF TypeOK, BootAlone
  <2>2. CASE PendSV_Handler
    BY <1>2, <2>1, <2>2 DEF PendSV_Handler
  <2>3. CASE TIM2_Handler
    BY <1>2, <2>1, <2>3 DEF TIM2_Handler
  <2>4. CASE TornPush
    BY <2>1, <2>4 DEF TornPush
  <2>5. QED
    BY <2>2, <2>3, <2>4
<1>4. /\ value' = value /\ waitq' = waitq /\ prog' = prog /\ elf' = elf
      /\ plan' = plan /\ stk' = stk /\ pc' = pc /\ claim' = claim
  BY <1>1
<1>5. BootAlone
  OBVIOUS
<1> HIDE DEF TypeInv
<1>6. QED
  BY <1>3, <1>4, <1>5, SMTT(30) DEF BootAlone

\* What the other threads do to the null task and its part of the heap during boot: nothing.
LEMMA BootOthers ==
  ASSUME TypeInv, BootAlone, NEW t \in Task \ {NULLTHREAD}, Thread(t)
  PROVE  BootAlone'
<1>1. /\ prog'[NULLTHREAD] = prog[NULLTHREAD] /\ elf'[NULLTHREAD] = elf[NULLTHREAD]
      /\ plan'[NULLTHREAD] = plan[NULLTHREAD] /\ pc'[NULLTHREAD] = pc[NULLTHREAD]
      /\ state'[NULLTHREAD] # "FREE"
      /\ \A u \in Task : claim'[u] # NULLTHREAD
  BY NullRole
<1>2. CASE plan[NULLTHREAD] = <<>>
  BY <1>1, <1>2 DEF BootAlone
<1>3. CASE plan[NULLTHREAD] # <<>>
  <2>1. Sleep(t) \/ SleepPend(t) \/ GpioEnter(t) \/ GpioLeave(t)
    BY <1>3, BlinkSteps
  <2>2. value'["sem_malloc"] = value["sem_malloc"] /\ waitq'["sem_malloc"] = waitq["sem_malloc"]
    BY <2>1 DEF Sleep, SleepPend, GpioEnter, GpioLeave, sem_wait, sem_signal, semVars,
         TypeInv, TypeOK, Sem
  <2>3. UNCHANGED <<prog, elf, plan, stk>>
    BY <2>1 DEF Sleep, SleepPend, GpioEnter, GpioLeave, roleVars
  <2>4. pc'[t] \in {"run", "pend", "gpio"} /\ \A u \in Task \ {t} : pc'[u] = pc[u]
    BY <2>1 DEF Sleep, SleepPend, GpioEnter, GpioLeave, Goto, TypeInv, TypeOK
  <2>5. QED
    BY <1>1, <1>3, <2>2, <2>3, <2>4 DEF BootAlone
<1>4. QED
  BY <1>2, <1>3

\* A set within a pair has two members at most.
LEMMA PairSize ==
  ASSUME NEW a, NEW b
  PROVE  IsFiniteSet({a, b}) /\ Cardinality({a, b}) <= 2
<1> DEFINE A == {a}
           B == A \cup {b}
<1>1. IsFiniteSet(A) /\ Cardinality(A) = 1
  BY FS_Singleton, Zenon
<1>2. B = {a, b}
  OBVIOUS
<1> HIDE DEF A
<1>3. IsFiniteSet(B) /\ Cardinality(B) = IF b \in A THEN Cardinality(A) ELSE Cardinality(A) + 1
  BY <1>1, FS_AddElement
<1> HIDE DEF B
<1>4. Cardinality(B) <= 2
  BY <1>1, <1>3
<1>5. QED
  BY <1>2, <1>3, <1>4, Zenon

\* The heap has room for what boot creates.
LEMMA BootHasRoom ==
  ASSUME BootAlone, plan[NULLTHREAD] # <<>>, pc[NULLTHREAD] = "getmem"
  PROVE  StacksInUse < MaxStacks
<1> DEFINE S == {t \in Task : stk[t] = "held" \/ pc[t] = "fill"}
<1>1. PICK b \in Task : \A t \in Task \ {NULLTHREAD, b} : stk[t] # "held"
  BY DEF BootAlone
<1>2. S \subseteq {NULLTHREAD, b}
  BY <1>1 DEF BootAlone
<1>3. IsFiniteSet({NULLTHREAD, b}) /\ Cardinality({NULLTHREAD, b}) <= 2
  BY PairSize
<1>4. IsFiniteSet(S) /\ Cardinality(S) <= Cardinality({NULLTHREAD, b})
  BY <1>2, <1>3, FS_Subset
<1>5. Cardinality(S) \in Nat /\ Cardinality({NULLTHREAD, b}) \in Nat
  BY <1>3, <1>4, FS_CardinalityType
<1>6. QED
  BY <1>3, <1>4, <1>5, StacksAssumption DEF StacksInUse

\* The steps of the null task itself: it creates two tasks and then only loops.
LEMMA BootNull ==
  ASSUME TypeInv, BootAlone, NEW t \in Task, t = NULLTHREAD, Thread(t)
  PROVE  BootAlone' /\ state'[t] = state[t]
<1> USE DEF TypeInv
<1>1. /\ \A u \in Task : claim[u] # NULLTHREAD
      /\ newpid \in Task \cup {NoSlot} /\ newpid # NULLTHREAD
  BY NewpidFree DEF BootAlone, NULLTHREAD, NoSlot
<1>2. CASE CreateBegin(t) /\ plan[t] # <<>>
  <2>1. value["sem_malloc"] = 1
    BY <1>2 DEF BootAlone, CreateBegin, At
  <2>2. /\ value' = [value EXCEPT !["sem_malloc"] = 0]
        /\ UNCHANGED <<state, waitq, pendsv, fault>>
    BY <1>2, <2>1 DEF CreateBegin, sem_wait
  <2>3. /\ claim' = [claim EXCEPT ![t] = newpid] /\ pc' = [pc EXCEPT ![t] = "getmem"]
        /\ UNCHANGED <<prog, elf, plan>>
    BY <1>2 DEF CreateBegin, Goto, roleVars
  <2>5. stk' = stk
    BY <1>2 DEF CreateBegin, roleVars
  <2>6. value'["sem_malloc"] = 0 /\ pc'[t] = "getmem"
        /\ (\A u \in Task \ {t} : pc'[u] = pc[u]) /\ \A u \in Task : claim'[u] # NULLTHREAD
    BY <1>1, <2>2, <2>3 DEF TypeOK, Sem
  <2>7. QED
    BY <1>2, <2>2, <2>3, <2>5, <2>6 DEF BootAlone
<1>3. CASE CreateAlloc(t)
  <2>1. plan[t] # <<>> /\ waitq["sem_malloc"] = <<>> /\ value["sem_malloc"] = 0
    BY <1>3 DEF BootAlone, Making, Pushing, CreateAlloc, At
  <2>2. /\ value' = [value EXCEPT !["sem_malloc"] = 1]
        /\ UNCHANGED <<state, ready_queue, waitq, pendsv, fault>>
    BY <1>3, <2>1 DEF CreateAlloc, sem_signal
  <2>3. pc' = [pc EXCEPT ![t] = "fill"] /\ UNCHANGED <<prog, elf, plan, claim>>
    BY <1>3 DEF CreateAlloc, Goto, callVars
  <2>4. \A u \in Task : stk'[u] = "held" => stk[u] = "held"
    BY <1>3 DEF CreateAlloc
  <2>5. QED
    BY <2>1, <2>2, <2>3, <2>4 DEF BootAlone, TypeOK, Sem
<1>4. ~ CreatePanic(t)
  <2>1. CreatePanic(t) => plan[t] # <<>> /\ pc[t] = "getmem" /\ StacksInUse >= MaxStacks
    BY DEF CreatePanic, At, BootAlone, Making, Pushing
  <2>2. CreatePanic(t) => StacksInUse < MaxStacks
    BY <2>1, BootHasRoom
  <2>3. ASSUME CreatePanic(t) PROVE FALSE
    <3>1. IsFiniteSet(Task)
      BY FS_Interval, NTaskAssumption DEF Task
    <3>2. StacksInUse \in Nat
      BY <3>1, FS_Subset, FS_CardinalityType DEF StacksInUse
    <3>3. QED
      BY <2>1, <2>2, <2>3, <3>2, StacksAssumption
  <2>4. QED
    BY <2>3
<1>5. CASE CreateFill(t) /\ (claim[t] = NoSlot \/ state[claim[t]] # "FREE")
  BY <1>5 DEF CreateFill, BootAlone, semVars, roleVars, callVars
<1>6. CASE CreateFill(t) /\ claim[t] # NoSlot /\ state[claim[t]] = "FREE"
  <2>1. claim[t] \in Task \ {NULLTHREAD} /\ plan[t] # <<>>
    BY <1>1, <1>6 DEF TypeOK, CreateFill, At, BootAlone, Making, Pushing
  <2>2. plan[t] \in {<<"usr">>, <<"blink", "usr">>}
    BY <2>1 DEF BootAlone
  <2>3. /\ plan[t] = <<"usr">> => Child(t) = "usr" /\ Rest(plan[t]) = <<>>
        /\ plan[t] = <<"blink", "usr">> => Child(t) = "blink" /\ Rest(plan[t]) = <<"usr">>
    <3>1. /\ <<"usr">> # <<>> /\ Head(<<"usr">>) = "usr" /\ Tail(<<"usr">>) = <<>>
          /\ <<"blink", "usr">> # <<>> /\ Head(<<"blink", "usr">>) = "blink"
      OBVIOUS
    <3>2. Tail(<<"blink", "usr">>) = <<"usr">>
      OBVIOUS
    <3>3. QED
      BY <3>1, <3>2 DEF Child, Rest
  <2>4. /\ state' = [state EXCEPT ![claim[t]] = "SUSP"]
        /\ elf' = [elf EXCEPT ![claim[t]] = FALSE]
        /\ prog' = [prog EXCEPT ![claim[t]] = Child(t)]
        /\ plan' = [[plan EXCEPT ![t] = Rest(plan[t])] EXCEPT ![claim[t]] = PlanOf(Child(t))]
        /\ pc' = [pc EXCEPT ![claim[t]] = "run", ![t] = "made"]
        /\ stk' = [stk EXCEPT ![claim[t]] = "held"]
        /\ UNCHANGED <<value, waitq, claim>>
    BY <1>6 DEF CreateFill, Fill, semVars, callVars
  <2>5. /\ prog'[t] = "nullp" /\ ~elf'[t] /\ state'[t] = state[t] /\ state[t] # "FREE"
        /\ pc'[t] = "made" /\ plan'[t] = Rest(plan[t])
    BY <2>1, <2>4 DEF BootAlone, TypeOK
  <2>6. CASE plan[t] = <<"usr">>
    BY <2>3, <2>4, <2>5, <2>6 DEF BootAlone, Making
  <2>7. CASE plan[t] = <<"blink", "usr">>
    <3>1. /\ prog'[claim[t]] = "blink" /\ plan'[claim[t]] = <<>> /\ ~elf'[claim[t]]
          /\ pc'[claim[t]] = "run"
      BY <2>1, <2>3, <2>4, <2>7 DEF TypeOK, PlanOf
    <3>2. \A u \in Task \ {t, claim[t]} :
            prog'[u] = prog[u] /\ plan'[u] = plan[u] /\ elf'[u] = elf[u] /\ pc'[u] = pc[u]
      BY <2>4 DEF TypeOK
    <3>3. value["sem_malloc"] = 1 /\ waitq["sem_malloc"] = <<>>
      BY <1>6, <2>1 DEF BootAlone, CreateFill, At
    <3>4. \A u \in Task \ {NULLTHREAD} :
            /\ prog'[u] \in {"none", "blink"} /\ plan'[u] = <<>> /\ ~elf'[u]
            /\ pc'[u] \in {"run", "pend", "gpio"}
      BY <2>1, <3>1, <3>2 DEF BootAlone
    <3>9. \A u \in Task \ {t, claim[t]} : stk'[u] # "held"
      <4>1. Len(plan[t]) = 2
        BY <2>7
      <4>2. QED
        BY <2>1, <2>4, <4>1 DEF BootAlone, TypeOK
    <3>10. Len(plan'[t]) # 2
      BY <2>3, <2>5, <2>7
    <3>5. plan'[t] = <<"usr">> /\ plan'[t] # <<>>
      BY <2>3, <2>5, <2>7
    <3>6. \A u \in Task : claim'[u] # NULLTHREAD
      BY <1>1, <2>4
    <3>7. value'["sem_malloc"] = 1 /\ waitq'["sem_malloc"] = <<>>
      BY <2>4, <3>3
    <3>8. QED
      BY <2>1, <2>5, <3>4, <3>5, <3>6, <3>7, <3>9, <3>10 DEF BootAlone, Making
  <2>8. QED
    BY <2>2, <2>5, <2>6, <2>7
<1>7. CASE ReadyTest(t)
  <2>1. claim[t] \in Task \ {NULLTHREAD}
    BY <1>1, <1>7 DEF TypeOK, MadeHasSlot, ReadyTest, At
  <2>2. /\ state' = [state EXCEPT ![claim[t]] = "CURR"]
        /\ pc' \in {[pc EXCEPT ![t] = "first"], [pc EXCEPT ![t] = "load"]}
        /\ UNCHANGED <<claim, value, waitq, prog, plan, stk>>
    BY <1>7 DEF ReadyTest, MarkReady, readyFrame, Goto, semVars
  <2>3. PICK b \in IF prog[claim[t]] = "cmd" THEN BOOLEAN ELSE {FALSE} :
          elf' = [elf EXCEPT ![claim[t]] = b]
    BY <1>7 DEF ReadyTest, MarkReady
  <2>4. /\ state'[t] = state[t] /\ elf'[t] = elf[t] /\ pc'[t] \in Pushing /\ pc[t] = "made"
        /\ \A u \in Task \ {t} : pc'[u] = pc[u]
    BY <1>1, <1>7, <2>1, <2>2, <2>3 DEF TypeOK, Pushing, ReadyTest, At
  <2>5. CASE plan[t] = <<>>
    BY <2>2, <2>4, <2>5 DEF BootAlone, Making, Pushing
  <2>6. CASE plan[t] # <<>>
    <3>1. b = FALSE
      BY <2>1, <2>3, <2>6 DEF BootAlone
    <3>2. \A u \in Task \ {NULLTHREAD} : ~elf'[u]
      BY <2>3, <2>6, <3>1 DEF BootAlone, TypeOK
    <3>3. QED
      BY <2>2, <2>4, <2>6, <3>2 DEF BootAlone, Making, Pushing
  <2>7. QED
    BY <2>5, <2>6
<1>9. CASE ReadyFirst(t) \/ ReadyLoad(t) \/ ReadyLink(t) \/ ReadyLast(t)
  <2>1. /\ UNCHANGED <<state, value, waitq, prog, elf, plan, stk>>
        /\ pc[t] \in Pushing \cup {"last"}
        /\ pc' = pc \/ \E q \in {"link", "last", "run"} : pc' = [pc EXCEPT ![t] = q]
    BY <1>9 DEF ReadyFirst, ReadyLoad, ReadyLink, ReadyLast, PushStep, readyFrame, semVars, Pushing,
           At, Goto
  <2>2. \A u \in Task : claim'[u] # NULLTHREAD
    BY <1>1, <1>9 DEF ReadyFirst, ReadyLoad, ReadyLink, ReadyLast, PushStep, TypeOK, NULLTHREAD, NoSlot
  <2>3. /\ pc'[t] \in {"run"} \cup Making /\ pc[t] # "getmem" /\ pc'[t] # "getmem"
        /\ \A u \in Task \ {t} : pc'[u] = pc[u]
    BY <2>1 DEF TypeOK, Making, Pushing
  <2>4. QED
    BY <2>1, <2>2, <2>3 DEF BootAlone
<1>8. QED
  BY <1>2, <1>3, <1>4, <1>5, <1>6, <1>7, <1>9, NullSteps

\* PendSV_Handler finds a task, and keeps the null task within its reach.
LEMMA DispatchStep ==
  ASSUME TypeInv, NullReady, NoNullActive, PendSV_Handler
  PROVE  NullReady' /\ NoNullActive'
<1> USE DEF TypeInv
<1>1. NULLTHREAD \in Task
  BY NTaskAssumption DEF Task, NULLTHREAD
<1>2. Rotated \in Seq(Task)
  BY MembersAppend DEF TypeOK, Rotated
<1>2a. ready_queue \in Seq(Task) /\ active_task \in Task
  BY DEF TypeOK
<1>2b. Members(queue_push(ready_queue, active_task)) = Members(ready_queue) \cup {active_task}
  BY <1>2a, MembersAppend
<1>3. NULLTHREAD \in Members(Rotated)
  <2>1. CASE state[active_task] = "CURR"
    BY <1>2b, <2>1 DEF Rotated, NullReady, PendSV_Handler
  <2>2. CASE state[active_task] # "CURR"
    BY <2>2 DEF Rotated, NullReady, PendSV_Handler
  <2>3. QED
    BY <2>1, <2>2
<1>4. Rotated # <<>>
  BY <1>3 DEF Members
<1>5. /\ Head(Rotated) \in Task
      /\ Members(Rotated) \subseteq {Head(Rotated)} \cup Members(Tail(Rotated))
  BY <1>2, <1>4, MembersTail
<1>6. /\ active_task' = Head(Rotated) /\ ready_queue' = Tail(Rotated)
      /\ state' = [[state EXCEPT ![active_task] =
                      IF state[active_task] = "CURR" THEN "READY" ELSE state[active_task]]
                     EXCEPT ![Head(Rotated)] = "CURR"]
      /\ fault' \in {fault, "duplicate", "stack"}
  BY <1>4 DEF PendSV_Handler
<1>7. CASE Head(Rotated) = NULLTHREAD
  BY <1>1, <1>6, <1>7 DEF NullReady, NoNullActive, TypeOK
<1>8. CASE Head(Rotated) # NULLTHREAD
  <2>1. NULLTHREAD \in Members(Tail(Rotated))
    BY <1>3, <1>5, <1>8
  <2>2. QED
    BY <1>6, <2>1 DEF NullReady, NoNullActive
<1>9. QED
  BY <1>7, <1>8

\* TIM2_Handler only adds tasks to the ready queue.
LEMMA TickStep ==
  ASSUME TypeInv, NullReady, NoNullActive, TIM2_Handler
  PROVE  NullReady' /\ NoNullActive'
<1> USE DEF TypeInv
<1>1. PICK n \in 0 .. Len(sleep_queue) :
        /\ ready_queue' = ready_queue \o SubSeq(sleep_queue, 1, n)
        /\ state' = [t \in Task |->
                       IF \E i \in 1 .. n : sleep_queue[i] = t THEN "CURR" ELSE state[t]]
  BY DEF TIM2_Handler
<1>2. active_task' = active_task /\ fault' = fault /\ NULLTHREAD \in Task
  BY NTaskAssumption DEF TIM2_Handler, Task, NULLTHREAD
<1>3. Members(ready_queue) \subseteq Members(ready_queue \o SubSeq(sleep_queue, 1, n))
  <2>1. ready_queue \in Seq(Task) /\ SubSeq(sleep_queue, 1, n) \in Seq(Task)
    BY SplitType DEF TypeOK
  <2>2. QED
    BY <2>1, MembersConcat
<1>4. QED
  BY <1>1, <1>2, <1>3 DEF NullReady, NoNullActive, TIM2_Handler

\* No step can take the null task from where PendSV_Handler will find it.
THEOREM NullStep == IInv /\ [Next]_vars => IInv'
<1> SUFFICES ASSUME IInv, [Next]_vars PROVE IInv'
  OBVIOUS
<1> USE DEF IInv
<1>1. TypeInv'
  BY TypeStep
<1>2. CASE UNCHANGED vars
  BY <1>1, <1>2 DEF BootAlone, NullReady, NoNullActive, vars, semVars, roleVars, callVars
<1>3. CASE PendSV_Handler
  BY <1>1, <1>3, BootHandler, DispatchStep
<1>4. CASE TIM2_Handler
  BY <1>1, <1>4, BootHandler, TickStep
<1>5. ASSUME NEW t \in Task, Thread(t) PROVE IInv'
  <2>1. Grows /\ active_task = t /\ active_task' = t
    BY <1>5, ThreadGrows
  <2>6. fault = "none"
    BY <1>5, ThreadRuns
  <2>2. NoNullActive'
    BY <1>5, ThreadFault DEF NoNullActive
  <2>3. CASE t # NULLTHREAD
    <3>1. BootAlone'
      BY <1>5, <2>3, BootOthers
    <3>2. NullReady'
      BY <2>1, <2>3, <2>6 DEF NullReady, Grows
    <3>3. QED
      BY <1>1, <2>2, <3>1, <3>2
  <2>4. CASE t = NULLTHREAD
    <3>1. BootAlone' /\ state'[t] = state[t]
      BY <1>5, <2>4, BootNull
    <3>2. NullReady'
      BY <2>1, <2>4, <2>6, <3>1 DEF NullReady, Grows
    <3>3. QED
      BY <1>1, <2>2, <3>1, <3>2
  <2>5. QED
    BY <2>3, <2>4
<1>7. CASE TornPush
  <2>1. NullReady' /\ NoNullActive'
    BY <1>7 DEF TornPush, NullReady, NoNullActive
  <2>2. QED
    BY <1>1, <1>7, <2>1, BootHandler
<1>6. QED
  BY <1>2, <1>3, <1>4, <1>5, <1>7 DEF Next, Halted

-----------------------------------------------------------------------------
(* The theorems.                                                           *)

\* Every variable keeps its type in every run of the kernel.
THEOREM TypeCorrect == Spec => []TypeOK
<1>1. TypeInv => TypeOK
  BY DEF TypeInv
<1>2. QED
  BY TypeInit, TypeStep, <1>1, PTL DEF Spec

\* Boot is sequential: the null task has the heap to itself until its last create.
THEOREM BootIsAlone == Spec => []BootAlone
<1>1. IInv => BootAlone
  BY DEF IInv
<1>2. QED
  BY NullInit, NullStep, <1>1, PTL DEF Spec

\* The null task can be dispatched in every state up to the first fault, the one of an
\* interrupt that falls into the queue_push of ready() included.
THEOREM NullAlwaysReady == Spec => []NullReady
<1>1. IInv => NullReady
  BY DEF IInv
<1>2. QED
  BY NullInit, NullStep, <1>1, PTL DEF Spec

\* PendSV_Handler, which does not test what queue_pop returns, makes active_task NULL in
\* no run in which no interrupt has broken a queue_push of ready() before.
THEOREM NeverNullActive == Spec => []NoNullActive
<1>1. IInv => NoNullActive
  BY DEF IInv
<1>2. QED
  BY NullInit, NullStep, <1>1, PTL DEF Spec
=============================================================================
