---------------------------- MODULE KernelProofs ----------------------------
(***************************************************************************)
(* Theorems about Kernel, for every set of processes, every priority table *)
(* and every number of envelopes, and whatever change_priority does: none  *)
(* of them assumes that the lists are intact.                              *)
(***************************************************************************)
EXTENDS Kernel, ProcQueueProofs

NullQueue == <<"ready", NUM_PRIORITIES>>

(* What every link satisfies, damaged lists included: an i-process is      *)
(* never linked, and the null process is linked only by the head and the   *)
(* tail of its own queue, which it has to itself.                          *)
LinksOk(L) ==
    /\ L \in LinksType(Queue)
    /\ \A q \in Queue : L.head[q] \notin IProc /\ L.tail[q] \notin IProc
    /\ \A p \in Proc : L.next[p] \notin IProc
    /\ \A q \in Queue \ {NullQueue} : /\ L.head[q] # PROCESS_NULL_PID
                                      /\ L.tail[q] # PROCESS_NULL_PID
    /\ L.head[NullQueue] \in {NULL, PROCESS_NULL_PID}
    /\ L.tail[NullQueue] \in {NULL, PROCESS_NULL_PID}
    /\ \A p \in Proc : L.next[p] # PROCESS_NULL_PID
    /\ L.next[PROCESS_NULL_PID] = NULL

-----------------------------------------------------------------------------
(* The names of the queues.                                                *)
LEMMA QueueNames ==
    /\ NullQueue \in ready_pq
    /\ NullQueue \notin env_blocked_pq
    /\ \A p \in UserProc, i \in 0 .. NUM_PRIORITIES - 1 :
          /\ <<"ready", i>> \in Queue \ {NullQueue}
          /\ <<"env_blocked", i>> \in Queue \ {NullQueue}
    /\ \A i \in 0 .. NUM_PRIORITIES : <<"ready", i>> \in Queue
    /\ \A q \in Queue : q[2] \in Nat
    /\ NullQueue \in Queue
  BY PriorityAssumption DEF NullQueue, ready_pq, env_blocked_pq, Queue, proc_pq_create

(* proc_pq_dequeue takes a non-empty queue of the proc_pq, if it has one.  *)
LEMMA FirstQueue ==
    ASSUME NEW L, NEW pq, pq \subseteq Queue, NonEmpty(L, pq) # {}
    PROVE  /\ proc_pq_first(L, pq) \in pq
           /\ L.head[proc_pq_first(L, pq)] # NULL
<1> DEFINE levels == {q[2] : q \in NonEmpty(L, pq)}
<1>1. NonEmpty(L, pq) \subseteq Queue
  BY DEF NonEmpty
<1>2. levels \subseteq Nat /\ levels # {}
  BY <1>1, QueueNames
<1>3. PICK x \in levels : \A y \in levels : x <= y
  BY <1>2, NatLeast
<1>4. \E q \in NonEmpty(L, pq) : \A r \in NonEmpty(L, pq) : q[2] <= r[2]
  BY <1>3
<1>5. proc_pq_first(L, pq) \in NonEmpty(L, pq)
  BY <1>4 DEF proc_pq_first
<1> QED
  BY <1>5 DEF NonEmpty, proc_queue_is_empty

-----------------------------------------------------------------------------
(* Each queue operation keeps LinksOk; only one on its own queue moves the *)
(* null process.                                                           *)

LEMMA DequeueLinks ==
    ASSUME NEW L, LinksOk(L), NEW q \in Queue, L.head[q] # NULL
    PROVE  /\ LinksOk(proc_queue_dequeue(L, q))
           /\ q = NullQueue => proc_queue_dequeue(L, q).head[NullQueue] = NULL
           /\ q # NullQueue => proc_queue_dequeue(L, q).head[NullQueue] = L.head[NullQueue]
  BY ProcAssumption, NullIsNoProc, QueueNames
     DEF LinksOk, LinksType, ProcOrNull, proc_queue_dequeue

LEMMA EnqueueLinks ==
    ASSUME NEW L, LinksOk(L), NEW q \in Queue, NEW p \in Threads,
           p = PROCESS_NULL_PID <=> q = NullQueue,
           q = NullQueue => L.head[q] = NULL
    PROVE  /\ LinksOk(proc_queue_enqueue(L, q, p))
           /\ q = NullQueue => proc_queue_enqueue(L, q, p).head[NullQueue] = PROCESS_NULL_PID
           /\ q # NullQueue => proc_queue_enqueue(L, q, p).head[NullQueue] = L.head[NullQueue]
  BY ProcAssumption, NullIsNoProc, QueueNames
     DEF LinksOk, LinksType, ProcOrNull, proc_queue_enqueue, proc_queue_is_empty, Threads

LEMMA RemoveLinks ==
    ASSUME NEW L, LinksOk(L), NEW q \in Queue \ {NullQueue}, NEW p \in UserProc
    PROVE  /\ LinksOk(proc_queue_remove(L, q, p))
           /\ proc_queue_remove(L, q, p).head[NullQueue] = L.head[NullQueue]
<1> p \in Proc /\ p # NULL /\ p # PROCESS_NULL_PID /\ p \notin IProc
  BY NullIsNoProc DEF UserProc, Threads
<1>1. CASE L.head[q] = p
  BY <1>1, DequeueLinks DEF proc_queue_remove
<1>2. CASE L.head[q] # p /\ Predecessors(L, q, p) = {}
  BY <1>2 DEF proc_queue_remove
<1>3. CASE L.head[q] # p /\ Predecessors(L, q, p) # {}
  <2> DEFINE prev == CHOOSE r \in Predecessors(L, q, p) : TRUE
  <2>1. prev \in Predecessors(L, q, p)
    BY <1>3
  <2>2. prev \in Proc /\ L.next[prev] = p
    BY <2>1 DEF Predecessors, Members
  <2>3. proc_queue_remove(L, q, p) =
           [head |-> L.head, tail |-> L.tail,
            next |-> [L.next EXCEPT ![prev] = L.next[p], ![p] = NULL]]
    BY <1>3 DEF proc_queue_remove
  <2> HIDE DEF prev
  <2> QED
    BY <2>2, <2>3, ProcAssumption, NullIsNoProc, QueueNames DEF LinksOk, LinksType, ProcOrNull
<1> QED
  BY <1>1, <1>2, <1>3

-----------------------------------------------------------------------------
(* The inductive invariant of the scheduler.                               *)

SchedInv ==
    /\ TypeOK
    /\ LinksOk(queues)
    /\ \A p \in Proc : priority[p] = NUM_PRIORITIES <=> p = PROCESS_NULL_PID
    /\ call[PROCESS_NULL_PID] = "none"
    /\ status[PROCESS_NULL_PID] \in {"P_READY", "P_EXECUTING", "P_INTERRUPTED"}
    /\ NullProcessStandsBy
    /\ interrupted_process # NULL <=> current_process \in IProc
    /\ interrupted_process \notin IProc
    /\ interrupted_process # NULL => call[interrupted_process] = "none"
    /\ flag = 1 <=> interrupted_process # NULL
    /\ \A p \in IProc : status[p] \in {"P_READY", "P_EXECUTING"} /\ call[p] = "none"

(* A non-empty set of pids has a greatest element too.                     *)
LEMMA PidGreatest ==
    ASSUME NEW S, S \subseteq Proc, S # {}
    PROVE  \E x \in S : \A y \in S : x >= y
<1> DEFINE last == MAX_NUM_PROCESSES
<1>1. last \in Int /\ Proc \subseteq 0 .. last
  BY ProcAssumption
<1> HIDE DEF last
<1> DEFINE R == {last - y : y \in S}
<1>2. R \subseteq Nat /\ R # {}
  <2>1. \A y \in S : y \in 0 .. last
    BY <1>1
  <2>2. \A y \in S : last - y \in Nat
    <3> TAKE y \in S
    <3>1. y \in 0 .. last
      BY <2>1
    <3> QED
      BY <1>1, <3>1
  <2> QED
    BY <2>2
<1>3. PICK r \in R : \A y \in R : r <= y
  BY <1>2, NatLeast
<1>4. PICK x \in S : r = last - x
  OBVIOUS
<1>5. \A y \in S : last - x <= last - y
  BY <1>3, <1>4
<1>6. \A y \in S : x >= y
  <2> TAKE y \in S
  <2>1. x \in Int /\ y \in Int
    BY <1>1
  <2> QED
    BY <1>1, <1>5, <2>1
<1> QED
  BY <1>6

(* The queues k_process_init leaves behind are in order.                   *)
LEMMA BootLinks ==
    /\ LinksOk(BootQueues)
    /\ BootQueues.head[NullQueue] = PROCESS_NULL_PID
<1>1. ASSUME NEW S, S \subseteq Threads
      PROVE  /\ OrNull(S, Least(S)) \in S \cup {NULL}
             /\ OrNull(S, Greatest(S)) \in S \cup {NULL}
             /\ S # {} => OrNull(S, Least(S)) \in S
  <2>1. S \subseteq Nat /\ S \subseteq Proc
    BY <1>1, ProcAssumption DEF Threads
  <2>2. S # {} => Least(S) \in S
    BY <2>1, NatLeast DEF Least
  <2>3. S # {} => Greatest(S) \in S
    BY <2>1, PidGreatest DEF Greatest
  <2> QED
    BY <2>2, <2>3 DEF OrNull
<1>2. \A q \in Queue : InitQueued(q) \subseteq Threads
  BY DEF InitAtPriority, InitQueued
<1>3. \A q \in Queue \ {NullQueue} : PROCESS_NULL_PID \notin InitQueued(q)
  BY PriorityAssumption, ProcAssumption
     DEF InitQueued, InitAtPriority, Queue, NullQueue, ready_pq, env_blocked_pq, proc_pq_create
<1>4. InitQueued(NullQueue) = {PROCESS_NULL_PID}
  BY PriorityAssumption, ProcAssumption DEF InitQueued, InitAtPriority, NullQueue, Threads
<1>5. \A p \in Threads : /\ Behind(p) \subseteq Threads
                         /\ PROCESS_NULL_PID \notin Behind(p)
  <2> TAKE p \in Threads
  <2>1. Behind(p) \subseteq Threads
    BY DEF Behind, InitAtPriority
  <2>2. ASSUME PROCESS_NULL_PID \in Behind(p) PROVE FALSE
    <3>1. InitPriority[p] = NUM_PRIORITIES
      BY <2>2, PriorityAssumption, ProcAssumption DEF Behind, InitAtPriority
    <3>2. p = PROCESS_NULL_PID
      BY <3>1, PriorityAssumption DEF Threads
    <3>3. PROCESS_NULL_PID > PROCESS_NULL_PID
      BY <2>2, <3>2 DEF Behind
    <3> QED
      BY <3>3, ProcAssumption
  <2> QED
    BY <2>1, <2>2
<1>6. Behind(PROCESS_NULL_PID) = {}
  <2>1. \A r \in Behind(PROCESS_NULL_PID) : r = PROCESS_NULL_PID /\ r > PROCESS_NULL_PID
    BY PriorityAssumption, ProcAssumption DEF Behind, InitAtPriority, Threads
  <2> QED
    BY <2>1, ProcAssumption
<1>7. /\ BootQueues.head = [q \in Queue |-> OrNull(InitQueued(q), Least(InitQueued(q)))]
      /\ BootQueues.tail = [q \in Queue |-> OrNull(InitQueued(q), Greatest(InitQueued(q)))]
      /\ BootQueues.next = [p \in Proc |-> IF p \in Threads
                                           THEN OrNull(Behind(p), Least(Behind(p))) ELSE NULL]
      /\ BootQueues = [head |-> BootQueues.head, tail |-> BootQueues.tail, next |-> BootQueues.next]
  BY DEF BootQueues
<1>8. \A q \in Queue : /\ BootQueues.head[q] \in InitQueued(q) \cup {NULL}
                       /\ BootQueues.tail[q] \in InitQueued(q) \cup {NULL}
                       /\ InitQueued(q) # {} => BootQueues.head[q] \in InitQueued(q)
  BY <1>1, <1>2, <1>7
<1>9. /\ \A p \in Threads : BootQueues.next[p] \in Behind(p) \cup {NULL}
      /\ \A p \in IProc : BootQueues.next[p] = NULL
      /\ BootQueues.next[PROCESS_NULL_PID] = NULL
  BY <1>1, <1>5, <1>6, <1>7, ProcAssumption DEF Threads, OrNull
<1>10. BootQueues \in LinksType(Queue)
  <2>1. \A q \in Queue : BootQueues.head[q] \in ProcOrNull /\ BootQueues.tail[q] \in ProcOrNull
    BY <1>2, <1>8 DEF ProcOrNull, Threads
  <2>2. \A p \in Proc : BootQueues.next[p] \in ProcOrNull
    BY <1>5, <1>9 DEF ProcOrNull, Threads
  <2>3. BootQueues.head \in [Queue -> ProcOrNull]
    BY <1>7, <2>1, Zenon
  <2>4. BootQueues.tail \in [Queue -> ProcOrNull]
    BY <1>7, <2>1, Zenon
  <2>5. BootQueues.next \in [Proc -> ProcOrNull]
    BY <1>7, <2>2, Zenon
  <2> HIDE DEF BootQueues
  <2> QED
    BY <1>7, <2>3, <2>4, <2>5 DEF LinksType
<1>11. NULL \notin IProc /\ NULL # PROCESS_NULL_PID
  BY NullIsNoProc, ProcAssumption
<1>12. \A q \in Queue : BootQueues.head[q] \notin IProc /\ BootQueues.tail[q] \notin IProc
  BY <1>2, <1>8, <1>11 DEF Threads
<1>13. \A p \in Proc : BootQueues.next[p] \notin IProc /\ BootQueues.next[p] # PROCESS_NULL_PID
  BY <1>5, <1>9, <1>11 DEF Threads
<1>14. \A q \in Queue \ {NullQueue} : /\ BootQueues.head[q] # PROCESS_NULL_PID
                                      /\ BootQueues.tail[q] # PROCESS_NULL_PID
  BY <1>3, <1>8, <1>11
<1>15. /\ BootQueues.head[NullQueue] = PROCESS_NULL_PID
       /\ BootQueues.tail[NullQueue] \in {NULL, PROCESS_NULL_PID}
  BY <1>4, <1>8, QueueNames
<1> QED
  BY <1>9, <1>10, <1>12, <1>13, <1>14, <1>15 DEF LinksOk

-----------------------------------------------------------------------------
(* A context switch: the null process is queued when it happens, so there  *)
(* is a process to dispatch, and it is no i-process.                       *)
LEMMA SwitchKeeps ==
    ASSUME SchedInv, interrupted_process = NULL, current_process \in Threads,
           NEW L, LinksOk(L), L.head[NullQueue] = PROCESS_NULL_PID,
           NEW s \in {"P_READY", "P_BLOCKED_ON_RECEIVE", "P_BLOCKED_ON_ENV_REQUEST"},
           current_process = PROCESS_NULL_PID => s = "P_READY",
           k_process_switch(s, L), interrupted_process' = interrupted_process
    PROVE  /\ current_process' \in Threads
           /\ LinksOk(queues')
           /\ NullProcessStandsBy'
           /\ status' \in [Proc -> Status]
           /\ status'[PROCESS_NULL_PID] \in {"P_READY", "P_EXECUTING", "P_INTERRUPTED"}
           /\ \A p \in IProc : status'[p] = status[p]
<1> DEFINE q == proc_pq_first(L, ready_pq)
           next == L.head[q]
<1>1. NullQueue \in NonEmpty(L, ready_pq)
  BY QueueNames, NullIsNoProc, ProcAssumption DEF NonEmpty, proc_queue_is_empty
<1>2. q \in ready_pq /\ next # NULL
  BY <1>1, FirstQueue DEF Queue
<1>3. q \in Queue /\ next \in Threads /\ (next = PROCESS_NULL_PID <=> q = NullQueue)
  BY <1>2, QueueNames DEF Queue, LinksOk, LinksType, ProcOrNull, Threads
<1>4. proc_pq_front(L, ready_pq) = next /\ proc_pq_dequeue(L, ready_pq) = proc_queue_dequeue(L, q)
  BY <1>1 DEF proc_pq_front, proc_pq_dequeue
<1> HIDE DEF q, next
<1>5. /\ current_process' = next
      /\ queues' = proc_queue_dequeue(L, q)
      /\ status' = [status EXCEPT ![current_process] = s, ![next] = "P_EXECUTING"]
  BY <1>4 DEF k_process_switch
<1>6. /\ LinksOk(queues')
      /\ q = NullQueue => queues'.head[NullQueue] = NULL
      /\ q # NullQueue => queues'.head[NullQueue] = PROCESS_NULL_PID
  BY <1>2, <1>3, <1>5, DequeueLinks DEF next
<1>7. NullProcessStandsBy'
  BY <1>3, <1>5, <1>6, NullIsNoProc, ProcAssumption DEF NullProcessStandsBy, NullQueue
<1>8. /\ status' \in [Proc -> Status]
      /\ status'[PROCESS_NULL_PID] \in {"P_READY", "P_EXECUTING", "P_INTERRUPTED"}
      /\ \A p \in IProc : status'[p] = status[p]
  <2>1. status \in [Proc -> Status] /\ current_process \in Proc \ IProc /\ next \in Proc \ IProc
    BY <1>3 DEF SchedInv, TypeOK, Threads
  <2>2. status' \in [Proc -> Status]
    BY <1>5, <2>1 DEF Status
  <2>3. \A p \in Proc : status'[p] = IF p = next THEN "P_EXECUTING"
                                    ELSE IF p = current_process THEN s ELSE status[p]
    BY <1>5, <2>1
  <2>4. \A p \in IProc : status'[p] = status[p]
    BY <2>1, <2>3, ProcAssumption
  <2>5. status'[PROCESS_NULL_PID] \in {"P_READY", "P_EXECUTING", "P_INTERRUPTED"}
    <3>1. PROCESS_NULL_PID \in Proc
      BY ProcAssumption
    <3>2. status[PROCESS_NULL_PID] \in {"P_READY", "P_EXECUTING", "P_INTERRUPTED"}
      BY DEF SchedInv
    <3> QED
      BY <2>3, <3>1, <3>2
  <2> QED
    BY <2>2, <2>4, <2>5
<1> QED
  BY <1>3, <1>5, <1>6, <1>7, <1>8

(* A wakeup: whatever the process was doing before, queueing it leaves the *)
(* null process where it is.                                               *)
LEMMA WakeKeeps ==
    ASSUME SchedInv, NEW L, LinksOk(L), L.head[NullQueue] = queues.head[NullQueue],
           NEW p \in UserProc, MakeReady(p, L),
           UNCHANGED <<current_process, interrupted_process>>
    PROVE  /\ LinksOk(queues')
           /\ NullProcessStandsBy'
           /\ status' \in [Proc -> Status]
           /\ \A r \in Proc \ UserProc : status'[r] = status[r]
<1>1. priority[p] \in 0 .. NUM_PRIORITIES - 1 /\ p \in Proc /\ p # PROCESS_NULL_PID /\ p \in Threads
  BY PriorityAssumption DEF SchedInv, TypeOK, UserProc, Threads
<1>2. ReadyQueue(p) \in Queue \ {NullQueue}
  BY <1>1, QueueNames DEF ReadyQueue
<1>3. LinksOk(queues') /\ queues'.head[NullQueue] = queues.head[NullQueue]
  BY <1>1, <1>2, EnqueueLinks DEF MakeReady
<1>4. status' = [status EXCEPT ![p] = "P_READY"] /\ status \in [Proc -> Status]
  BY DEF MakeReady, SchedInv, TypeOK
<1>5. NullProcessStandsBy'
  BY <1>3 DEF SchedInv, NullProcessStandsBy, NullQueue
<1> QED
  BY <1>1, <1>3, <1>4, <1>5 DEF Status

(* The front of env_blocked_pq is no i-process and not the null process.   *)
LEMMA WaiterIsUser ==
    ASSUME SchedInv, proc_pq_front(queues, env_blocked_pq) # NULL
    PROVE  /\ proc_pq_front(queues, env_blocked_pq) \in UserProc
           /\ LinksOk(proc_pq_dequeue(queues, env_blocked_pq))
           /\ proc_pq_dequeue(queues, env_blocked_pq).head[NullQueue] = queues.head[NullQueue]
<1> DEFINE q == proc_pq_first(queues, env_blocked_pq)
<1>1. NonEmpty(queues, env_blocked_pq) # {}
  BY DEF proc_pq_front
<1>2. q \in env_blocked_pq /\ queues.head[q] # NULL
  BY <1>1, FirstQueue DEF Queue
<1>3. q \in Queue \ {NullQueue}
  BY <1>2, QueueNames DEF Queue
<1>4. /\ proc_pq_front(queues, env_blocked_pq) = queues.head[q]
      /\ proc_pq_dequeue(queues, env_blocked_pq) = proc_queue_dequeue(queues, q)
  BY <1>1 DEF proc_pq_front, proc_pq_dequeue
<1>5. LinksOk(queues)
  BY DEF SchedInv
<1> HIDE DEF q
<1>6. queues.head[q] \in UserProc
  BY <1>2, <1>3, <1>5 DEF LinksOk, LinksType, ProcOrNull, UserProc, Threads
<1> QED
  BY <1>2, <1>3, <1>4, <1>5, <1>6, DequeueLinks

-----------------------------------------------------------------------------
LEMMA SchedInvInit == Init => SchedInv
<1> SUFFICES ASSUME Init PROVE SchedInv
  OBVIOUS
<1> DEFINE first == proc_pq_front(BootQueues, ready_pq)
           q == proc_pq_first(BootQueues, ready_pq)
<1>1. LinksOk(BootQueues) /\ BootQueues.head[NullQueue] = PROCESS_NULL_PID
  BY BootLinks
<1>2. NullQueue \in NonEmpty(BootQueues, ready_pq)
  BY <1>1, QueueNames, NullIsNoProc, ProcAssumption DEF NonEmpty, proc_queue_is_empty
<1>3. q \in ready_pq /\ BootQueues.head[q] # NULL
  BY <1>2, FirstQueue DEF Queue
<1>4. first = BootQueues.head[q] /\ queues = proc_queue_dequeue(BootQueues, q)
  BY <1>2 DEF Init, proc_pq_front, proc_pq_dequeue
<1> HIDE DEF q
<1>5. q \in Queue /\ first \in Threads /\ (first = PROCESS_NULL_PID <=> q = NullQueue)
  BY <1>1, <1>3, <1>4, QueueNames DEF Queue, LinksOk, LinksType, ProcOrNull, Threads
<1>6. LinksOk(queues) /\ (queues.head[NullQueue] = IF q = NullQueue THEN NULL ELSE PROCESS_NULL_PID)
  BY <1>1, <1>3, <1>4, <1>5, DequeueLinks
<1> HIDE DEF first
<1>7. /\ current_process = first /\ interrupted_process = NULL
      /\ status = [p \in Proc |-> IF p = first THEN "P_EXECUTING" ELSE "P_READY"]
      /\ call = [p \in Proc |-> "none"]
      /\ priority = InitPriority /\ flag = 0 /\ aborted = FALSE
  BY DEF Init, first
<1>8. free_env_q \in Seq(Env)
  <2>1. Cardinality(Env) \in Nat
    BY EnvAssumption, FS_CardinalityType
  <2>2. free_env_q \in [1 .. Cardinality(Env) -> Env]
    BY DEF Init
  <2> QED
    BY <2>1, <2>2
<1>9. TypeOK
  <2>1. queues \in LinksType(Queue)
    BY <1>6 DEF LinksOk
  <2>2. recv_msgs \in [Proc -> Seq(Env)] /\ held \in [Proc -> SUBSET Env]
    BY DEF Init
  <2> QED
    BY <1>5, <1>7, <1>8, <2>1, <2>2, PriorityAssumption
       DEF TypeOK, Status, ProcOrNull, Threads
<1>10. NullProcessStandsBy
  BY <1>5, <1>6, <1>7, NullIsNoProc, ProcAssumption DEF NullProcessStandsBy, NullQueue
<1>11. flag = 1 <=> interrupted_process # NULL
  BY <1>7
<1> QED
  BY <1>5, <1>6, <1>7, <1>9, <1>10, <1>11, NullIsNoProc, ProcAssumption, PriorityAssumption
     DEF SchedInv, Threads

(* Every step keeps SchedInv: a switch finds the null process queued, a    *)
(* wakeup queues a user process, and a change of priority moves one.       *)
LEMMA SchedInvNext == SchedInv /\ [Next]_vars => SchedInv'
<1> SUFFICES ASSUME SchedInv, [Next]_vars PROVE SchedInv'
  OBVIOUS
<1> USE DEF SchedInv
<1>0. NULL \notin IProc /\ NULL # PROCESS_NULL_PID /\ PROCESS_NULL_PID \in Proc \ IProc
  BY NullIsNoProc, ProcAssumption
<1>1. CASE k_release_processor
  <2>1. current_process \in Threads /\ interrupted_process = NULL
    BY <1>1 DEF k_release_processor, TypeOK, Threads
  <2>2. /\ ReadyQueue(current_process) \in Queue
        /\ current_process = PROCESS_NULL_PID <=> ReadyQueue(current_process) = NullQueue
    BY <2>1, QueueNames, PriorityAssumption DEF ReadyQueue, NullQueue, TypeOK, Threads
  <2>3. ReadyQueue(current_process) = NullQueue => queues.head[NullQueue] = NULL
    BY <2>2 DEF NullProcessStandsBy, NullQueue
  <2>4. LinksOk(YieldQueued) /\ YieldQueued.head[NullQueue] = PROCESS_NULL_PID
    <3>1. CASE current_process = PROCESS_NULL_PID
      BY <2>1, <2>2, <2>3, <3>1, EnqueueLinks DEF YieldQueued
    <3>2. CASE current_process # PROCESS_NULL_PID
      BY <1>0, <2>1, <2>2, <2>3, <3>2, EnqueueLinks DEF YieldQueued, NullProcessStandsBy, NullQueue
    <3> QED
      BY <3>1, <3>2
  <2>5. k_process_switch("P_READY", YieldQueued) /\ interrupted_process' = interrupted_process
    BY <1>1 DEF k_release_processor
  <2> QED
    BY <1>0, <1>1, <2>1, <2>4, <2>5, SwitchKeeps DEF k_release_processor, TypeOK, LinksOk, Threads
<1>2. ASSUME NEW n \in 0 .. NUM_PRIORITIES - 1, NEW t \in Proc, k_change_priority(n, t)
      PROVE  SchedInv'
  <2>1. t \in UserProc /\ priority[t] \in 0 .. NUM_PRIORITIES - 1
    BY <1>2, PriorityAssumption DEF k_change_priority, TypeOK, UserProc, Threads
  <2>2. ASSUME NEW pq \in {"ready", "env_blocked"}
        PROVE  /\ LinksOk(Requeue(pq, t, n))
               /\ Requeue(pq, t, n).head[NullQueue] = queues.head[NullQueue]
    <3>1. <<pq, priority[t]>> \in Queue \ {NullQueue} /\ <<pq, n>> \in Queue \ {NullQueue}
      BY <2>1, QueueNames
    <3>2. t \in Threads /\ t # PROCESS_NULL_PID
      BY <2>1 DEF UserProc
    <3> QED
      BY <2>1, <3>1, <3>2, RemoveLinks, EnqueueLinks DEF Requeue
  <2>3. LinksOk(queues') /\ queues'.head[NullQueue] = queues.head[NullQueue]
    BY <1>2, <2>2 DEF k_change_priority
  <2> QED
    BY <1>0, <1>2, <2>1, <2>3, PriorityAssumption
       DEF k_change_priority, TypeOK, LinksOk, NullProcessStandsBy, NullQueue, UserProc
<1>3. CASE RequestGranted
  <2>1. held' \in [Proc -> SUBSET Env] /\ free_env_q' \in Seq(Env)
    BY <1>3 DEF RequestGranted, TypeOK
  <2>2. call' \in [Proc -> {"none", "request_msg_env", "receive_message"}]
    BY <1>3 DEF RequestGranted, TypeOK
  <2> QED
    BY <1>0, <1>3, <2>1, <2>2
       DEF RequestGranted, AtRequest, Caller, TypeOK, NullProcessStandsBy
<1>4. CASE RequestBlocks
  <2>1. current_process \in UserProc /\ interrupted_process = NULL
    BY <1>4 DEF RequestBlocks, AtRequest, Caller, TypeOK, UserProc, Threads
  <2>2. EnvBlockedQueue(current_process) \in Queue \ {NullQueue}
    <3>1. priority[current_process] \in 0 .. NUM_PRIORITIES - 1
      BY <2>1, PriorityAssumption DEF TypeOK, UserProc, Threads
    <3> QED
      BY <2>1, <3>1, QueueNames DEF EnvBlockedQueue
  <2> DEFINE L == proc_queue_enqueue(queues, EnvBlockedQueue(current_process), current_process)
  <2>3. LinksOk(L) /\ L.head[NullQueue] = PROCESS_NULL_PID
    BY <1>0, <2>1, <2>2, EnqueueLinks DEF UserProc, NullProcessStandsBy, NullQueue
  <2>4. k_process_switch("P_BLOCKED_ON_ENV_REQUEST", L) /\ interrupted_process' = interrupted_process
    BY <1>4 DEF RequestBlocks
  <2> HIDE DEF L
  <2>5. /\ current_process' \in Threads /\ LinksOk(queues') /\ NullProcessStandsBy'
        /\ status' \in [Proc -> Status]
        /\ status'[PROCESS_NULL_PID] \in {"P_READY", "P_EXECUTING", "P_INTERRUPTED"}
        /\ \A p \in IProc : status'[p] = status[p]
    BY <2>1, <2>3, <2>4, SwitchKeeps DEF UserProc
  <2> QED
    <3>1. /\ call' \in [Proc -> {"none", "request_msg_env", "receive_message"}]
          /\ call'[PROCESS_NULL_PID] = "none"
          /\ \A p \in IProc : call'[p] = "none"
      BY <1>0, <1>4, <2>1 DEF RequestBlocks, TypeOK, UserProc, Threads
    <3>2. TypeOK'
      BY <1>4, <2>5, <3>1 DEF RequestBlocks, TypeOK, LinksOk, Threads
    <3> QED
      BY <1>0, <1>4, <2>1, <2>5, <3>1, <3>2 DEF RequestBlocks, Threads
<1>5. ASSUME NEW e \in Env, k_release_msg_env(e)
      PROVE  SchedInv'
  <2>1. held' \in [Proc -> SUBSET Env] /\ free_env_q' \in Seq(Env)
    BY <1>5 DEF k_release_msg_env, TypeOK
  <2>2. CASE proc_pq_front(queues, env_blocked_pq) = NULL
    BY <1>5, <2>1, <2>2
       DEF k_release_msg_env, WakeEnvWaiter, TypeOK, NullProcessStandsBy
  <2>3. CASE proc_pq_front(queues, env_blocked_pq) # NULL
    <3>1. MakeReady(proc_pq_front(queues, env_blocked_pq), proc_pq_dequeue(queues, env_blocked_pq))
      BY <1>5, <2>3 DEF k_release_msg_env, WakeEnvWaiter
    <3>2. /\ LinksOk(queues') /\ NullProcessStandsBy' /\ status' \in [Proc -> Status]
          /\ \A r \in Proc \ UserProc : status'[r] = status[r]
      BY <1>5, <2>3, <3>1, WaiterIsUser, WakeKeeps DEF k_release_msg_env
    <3> QED
      BY <1>0, <1>5, <2>1, <3>2, ProcAssumption
         DEF k_release_msg_env, TypeOK, LinksOk, UserProc, Threads
  <2> QED
    BY <2>2, <2>3
<1>6. ASSUME NEW d \in Proc, NEW e \in Env, k_send_message(d, e)
      PROVE  SchedInv'
  <2>1. held' \in [Proc -> SUBSET Env] /\ recv_msgs' \in [Proc -> Seq(Env)]
    BY <1>6 DEF k_send_message, TypeOK
  <2>2. CASE status[d] # "P_BLOCKED_ON_RECEIVE"
    BY <1>6, <2>1, <2>2
       DEF k_send_message, WakeReceiver, TypeOK, NullProcessStandsBy
  <2>3. CASE status[d] = "P_BLOCKED_ON_RECEIVE"
    <3>1. d \in UserProc
      BY <1>0, <2>3 DEF UserProc, Threads
    <3>2. MakeReady(d, queues) /\ UNCHANGED <<current_process, interrupted_process>>
      BY <1>6, <2>3 DEF k_send_message, WakeReceiver
    <3>3. /\ LinksOk(queues') /\ NullProcessStandsBy' /\ status' \in [Proc -> Status]
          /\ \A r \in Proc \ UserProc : status'[r] = status[r]
      BY <3>1, <3>2, WakeKeeps
    <3> QED
      BY <1>0, <1>6, <2>1, <3>3, ProcAssumption
         DEF k_send_message, TypeOK, LinksOk, UserProc, Threads
  <2> QED
    BY <2>2, <2>3
<1>7. CASE MessageReceived
  <2>1. held' \in [Proc -> SUBSET Env] /\ recv_msgs' \in [Proc -> Seq(Env)]
    BY <1>7 DEF MessageReceived, MailAfterReceive, TypeOK
  <2>2. call' \in [Proc -> {"none", "request_msg_env", "receive_message"}]
    BY <1>7 DEF MessageReceived, TypeOK
  <2> QED
    BY <1>0, <1>7, <2>1, <2>2
       DEF MessageReceived, AtReceive, Caller, TypeOK, NullProcessStandsBy
<1>8. CASE ReceiveBlocks
  <2>1. current_process \in UserProc /\ interrupted_process = NULL
    BY <1>8 DEF ReceiveBlocks, AtReceive, Caller, TypeOK, UserProc, Threads
  <2>2. queues.head[NullQueue] = PROCESS_NULL_PID
    BY <1>0, <2>1 DEF UserProc, NullProcessStandsBy, NullQueue
  <2>3. k_process_switch("P_BLOCKED_ON_RECEIVE", queues) /\ interrupted_process' = interrupted_process
    BY <1>8 DEF ReceiveBlocks
  <2>4. /\ current_process' \in Threads /\ LinksOk(queues') /\ NullProcessStandsBy'
        /\ status' \in [Proc -> Status]
        /\ status'[PROCESS_NULL_PID] \in {"P_READY", "P_EXECUTING", "P_INTERRUPTED"}
        /\ \A p \in IProc : status'[p] = status[p]
    BY <2>1, <2>2, <2>3, SwitchKeeps DEF UserProc
  <2> QED
    <3>1. /\ call' \in [Proc -> {"none", "request_msg_env", "receive_message"}]
          /\ call'[PROCESS_NULL_PID] = "none"
          /\ \A p \in IProc : call'[p] = "none"
      BY <1>0, <1>8, <2>1 DEF ReceiveBlocks, TypeOK, UserProc, Threads
    <3>2. TypeOK'
      BY <1>8, <2>4, <3>1 DEF ReceiveBlocks, TypeOK, LinksOk, Threads
    <3> QED
      BY <1>0, <1>8, <2>1, <2>4, <3>1, <3>2 DEF ReceiveBlocks, Threads
<1>9. ASSUME NEW i \in IProc, k_i_process_enter(i)
      PROVE  SchedInv'
  <2>1. CASE flag # 0
    <3>1. Abort
      BY <1>9, <2>1 DEF k_i_process_enter
    <3> QED
      BY <3>1 DEF Abort, TypeOK, NullProcessStandsBy
  <2>2. CASE flag = 0
    <3>1. Interrupt(i) /\ call[current_process] = "none"
      BY <1>9, <2>2 DEF k_i_process_enter, InUserCode
    <3>2. current_process \in Threads
      BY <2>2 DEF TypeOK, Threads
    <3>3. status' \in [Proc -> Status]
      BY <3>1 DEF Interrupt, TypeOK, Status
    <3>4. \A p \in IProc : status'[p] \in {"P_READY", "P_EXECUTING"}
      <4>1. \A p \in Proc : status'[p] = IF p = i THEN "P_EXECUTING"
                                       ELSE IF p = current_process THEN "P_INTERRUPTED" ELSE status[p]
        BY <3>1 DEF Interrupt, TypeOK
      <4> QED
        BY <3>2, <4>1, ProcAssumption DEF Threads
    <3>5. status'[PROCESS_NULL_PID] \in {"P_READY", "P_EXECUTING", "P_INTERRUPTED"}
      BY <1>0, <3>1 DEF Interrupt, TypeOK
    <3>6. i \in Proc /\ i # PROCESS_NULL_PID
      BY <1>0, ProcAssumption
    <3>7. interrupted_process = NULL
      BY <2>2
    <3>8. NullProcessStandsBy'
      BY <1>0, <3>1, <3>6, <3>7 DEF Interrupt, NullProcessStandsBy
    <3>9. /\ current_process' = i /\ interrupted_process' = current_process /\ flag' = 1
          /\ UNCHANGED <<priority, queues, free_env_q, recv_msgs, held, call, aborted>>
      BY <3>1 DEF Interrupt
    <3>10. TypeOK'
      BY <3>2, <3>3, <3>6, <3>9 DEF TypeOK, Threads, ProcOrNull
    <3>11. interrupted_process' # NULL /\ interrupted_process' \notin IProc
      BY <3>2, <3>9, NullIsNoProc DEF Threads
    <3> QED
      BY <1>0, <3>1, <3>4, <3>5, <3>8, <3>9, <3>10, <3>11
  <2> QED
    BY <2>1, <2>2
<1>10. CASE k_i_process_exit
  <2>1. current_process \in IProc /\ interrupted_process \in Proc \ IProc
    BY <1>10 DEF k_i_process_exit, TypeOK, ProcOrNull
  <2>2. status' \in [Proc -> Status]
    BY <1>10, <2>1 DEF k_i_process_exit, TypeOK, Status
  <2>3. \A p \in IProc : status'[p] \in {"P_READY", "P_EXECUTING"}
    <3>1. \A p \in Proc : status'[p] = IF p = interrupted_process THEN "P_EXECUTING"
                                     ELSE IF p = current_process THEN "P_READY" ELSE status[p]
      BY <1>10 DEF k_i_process_exit, TypeOK
    <3> QED
      BY <2>1, <3>1, ProcAssumption
  <2>4. status'[PROCESS_NULL_PID] \in {"P_READY", "P_EXECUTING", "P_INTERRUPTED"}
    BY <1>0, <1>10 DEF k_i_process_exit, TypeOK
  <2>5. NullProcessStandsBy'
    BY <1>0, <1>10, <2>1 DEF k_i_process_exit, NullProcessStandsBy
  <2> QED
    <3>1. /\ current_process' = interrupted_process /\ interrupted_process' = NULL /\ flag' = 0
          /\ UNCHANGED <<priority, queues, free_env_q, recv_msgs, held, call, aborted>>
      BY <1>10 DEF k_i_process_exit
    <3>2. TypeOK'
      BY <2>1, <2>2, <3>1 DEF TypeOK, ProcOrNull
    <3>3. LinksOk(queues') /\ interrupted_process' \notin IProc /\ current_process' \notin IProc
      BY <1>0, <2>1, <3>1
    <3>4. \A p \in IProc : call'[p] = "none"
      BY <3>1
    <3> QED
      BY <1>0, <2>3, <2>4, <2>5, <3>1, <3>2, <3>3, <3>4
<1>11. CASE UNCHANGED vars
  BY <1>11 DEF vars, TypeOK, NullProcessStandsBy
<1> QED
  BY <1>1, <1>2, <1>3, <1>4, <1>5, <1>6, <1>7, <1>8, <1>9, <1>10, <1>11
     DEF Next, Terminated, k_request_msg_env, k_receive_message

-----------------------------------------------------------------------------
LEMMA SchedInvAlways == Spec => []SchedInv
  BY SchedInvInit, SchedInvNext, PTL DEF Spec

(* Every field always holds a value of its C type.  In particular          *)
(* current_process is never the NULL that proc_pq_dequeue returns for an   *)
(* empty ready_pq, even after change_priority has damaged the lists.       *)
THEOREM TypeCorrect == Spec => []TypeOK
<1>1. SchedInv => TypeOK
  BY DEF SchedInv
<1> QED
  BY <1>1, SchedInvAlways, PTL

(* Whenever a context switch can happen the null process is ready at the   *)
(* head of its own queue: the scheduler never finds nothing to run.        *)
THEOREM SchedulerNeverIdle == Spec => []NullProcessStandsBy
<1>1. SchedInv => NullProcessStandsBy
  BY DEF SchedInv
<1> QED
  BY <1>1, SchedInvAlways, PTL

(* The assertions of k_i_process_exit hold: when an i-process runs, flag   *)
(* is 1 and there is a process to return the processor to, and it never    *)
(* blocks or enters a queue.  And when a process runs, flag is 0: the      *)
(* assertion in k_i_process_enter fails only for a signal to an i-process. *)
THEOREM IProcessesOnlyBorrow == Spec => []InterruptedComesBack
<1>1. SchedInv => InterruptedComesBack
  <2> SUFFICES ASSUME SchedInv PROVE InterruptedComesBack
    OBVIOUS
  <2>1. IF current_process \in IProc THEN flag = 1 /\ interrupted_process \in Threads
                                      ELSE flag = 0 /\ interrupted_process = NULL
    BY DEF SchedInv, TypeOK, ProcOrNull, Threads
  <2> QED
    BY <2>1 DEF SchedInv, LinksOk, InterruptedComesBack
<1> QED
  BY <1>1, SchedInvAlways, PTL
=============================================================================
