------------------------------ MODULE BoardProofs ------------------------------
(***************************************************************************)
(* Theorems about Board, for every table of processes, every number of     *)
(* envelopes and any bound on the clock.  All but the last three do not    *)
(* assume that the lists of processes are intact, which k_change_priority  *)
(* may damage.                                                             *)
(*                                                                         *)
(* The kernel of this port composes several primitives in one step of an   *)
(* interrupt, so the first half of the module is about each of them: what  *)
(* a primitive called on behalf of p, in a state that satisfies KernelOk,  *)
(* does to the processes, the mailboxes and the envelopes.  KernelOk says  *)
(* that the links are typed (LinksOk), that the null process stands by,    *)
(* that nobody waits for a message he has, and that messages to the        *)
(* i-processes come from user processes and carry a delay or a text.       *)
(* BoardInv adds that only user processes are suspended in a primitive,    *)
(* and what is true of the timer and of the serial port.                   *)
(*                                                                         *)
(* For the envelopes, a function w locates each of them (Located); that    *)
(* they cannot be in two places then needs no proof.  A primitive moves    *)
(* one of them or none (EnvelopeStep), a move keeps Accounted, and an      *)
(* interrupt is a sequence of moves.                                       *)
(*                                                                         *)
(* For the delays, the list is sorted after every insertion (Fits), and an *)
(* envelope is due when its message said it would be (DueIn).              *)
(*                                                                         *)
(* For the queues, every process stands in the list its status and its     *)
(* priority call for (ListsOk) and no more envelopes are free than woken   *)
(* processes will fetch (IdleOk), unless the tail of a queue was lost      *)
(* (TailsStay).                                                            *)
(***************************************************************************)
EXTENDS Board, ProcQueueProofs, SequenceTheorems

Threads == Proc \ IProc   \* what the scheduler schedules

NullQueue == <<"ready", NUM_PRIORITIES>>

(* What every link satisfies, damaged lists included: an i-process is      *)
(* never linked, and the null process has its queue to itself.             *)
LinksOk(L) ==
    /\ L \in LinksType(Queue)
    /\ \A q \in Queue : L.head[q] \notin IProc /\ L.tail[q] \notin IProc
    /\ \A p \in Proc : L.next[p] \notin IProc /\ L.next[p] # NULL_PID
    /\ \A q \in Queue \ {NullQueue} : L.head[q] # NULL_PID /\ L.tail[q] # NULL_PID
    /\ L.head[NullQueue] \in {NULL, NULL_PID}
    /\ L.tail[NullQueue] \in {NULL, NULL_PID}
    /\ L.next[NULL_PID] = NULL

-----------------------------------------------------------------------------
(* Processes, queues and naturals                                          *)

LEMMA Pids ==
    /\ IProc \subseteq Proc /\ Threads \subseteq Proc
    /\ TIMER_I_PROCESS_PID \in IProc /\ UART_I_PROCESS_PID \in IProc
    /\ NULL_PID \in Threads
    /\ UserProc = Threads \ {NULL_PID}
    /\ CCI_PID \in UserProc /\ Target \subseteq UserProc
    /\ NULL \notin Proc
<1>1. NULL_PID \in Proc /\ NULL_PID \notin IProc
  BY PidAssumption, BoardAssumption
<1>2. IProc \subseteq Proc
  BY DEF IProc
<1> QED
  BY <1>1, <1>2, BoardAssumption, NullIsNoProc DEF Threads, UserProc

LEMMA QueueNames ==
    /\ NullQueue \in ready_pq /\ NullQueue \in Queue
    /\ NullQueue \notin blocked_request_env_pq
    /\ ready_pq \subseteq Queue /\ blocked_request_env_pq \subseteq Queue
    /\ \A i \in 0 .. NUM_PRIORITIES : /\ <<"ready", i>> \in Queue
                                      /\ <<"ready", i>> = NullQueue <=> i = NUM_PRIORITIES
    /\ \A i \in 0 .. NUM_PRIORITIES :
          i # NUM_PRIORITIES => <<"blocked_request_env", i>> \in Queue \ {NullQueue}
    /\ \A q \in Queue : q[2] \in Nat
  BY TableAssumption
     DEF NullQueue, ready_pq, blocked_request_env_pq, Queue, proc_pq_create

(* A proc_pq with a queue that is not empty has a first one.               *)
LEMMA FirstQueue ==
    ASSUME NEW L, NEW pq, pq \subseteq Queue, NonEmpty(L, pq) # {}
    PROVE  /\ proc_pq_first(L, pq) \in pq
           /\ L.head[proc_pq_first(L, pq)] # NULL
<1> DEFINE levels == {q[2] : q \in NonEmpty(L, pq)}
<1>1. NonEmpty(L, pq) \subseteq Queue
  BY DEF NonEmpty
<1>2. levels \subseteq Nat /\ levels # {}
  BY <1>1, QueueNames
<1>3. PICK x \in levels : \A y \in levels : x <= y
  BY <1>2, NatLeast
<1>4. \E q \in NonEmpty(L, pq) : \A r \in NonEmpty(L, pq) : q[2] <= r[2]
  BY <1>3
<1>5. proc_pq_first(L, pq) \in NonEmpty(L, pq)
  BY <1>4 DEF proc_pq_first
<1> QED
  BY <1>5 DEF NonEmpty, proc_queue_is_empty

-----------------------------------------------------------------------------
(* The operations on queues keep LinksOk.                                  *)

LEMMA DequeueLinks ==
    ASSUME NEW L, LinksOk(L), NEW q \in Queue, L.head[q] # NULL
    PROVE  /\ LinksOk(proc_queue_dequeue(L, q))
           /\ q = NullQueue => proc_queue_dequeue(L, q).head[NullQueue] = NULL
           /\ q # NullQueue => proc_queue_dequeue(L, q).head[NullQueue] = L.head[NullQueue]
<1>1. NULL_PID \in Proc /\ NULL \notin Proc /\ NULL \notin IProc
  BY Pids DEF Threads
<1> QED
  BY <1>1, QueueNames DEF LinksOk, LinksType, ProcOrNull, proc_queue_dequeue

LEMMA EnqueueLinks ==
    ASSUME NEW L, LinksOk(L), NEW q \in Queue, NEW p \in Threads,
           p = NULL_PID <=> q = NullQueue,
           q = NullQueue => L.head[q] = NULL
    PROVE  /\ LinksOk(proc_queue_enqueue(L, q, p))
           /\ q = NullQueue => proc_queue_enqueue(L, q, p).head[NullQueue] = NULL_PID
           /\ q # NullQueue => proc_queue_enqueue(L, q, p).head[NullQueue] = L.head[NullQueue]
<1>1. NULL_PID \in Proc /\ NULL \notin Proc /\ NULL \notin IProc /\ p \in Proc /\ p \notin IProc
  BY Pids DEF Threads
<1> QED
  BY <1>1, QueueNames
     DEF LinksOk, LinksType, ProcOrNull, proc_queue_enqueue, proc_queue_is_empty

LEMMA RemoveLinks ==
    ASSUME NEW L, LinksOk(L), NEW q \in Queue \ {NullQueue}, NEW p \in UserProc
    PROVE  /\ LinksOk(proc_queue_remove(L, q, p))
           /\ proc_queue_remove(L, q, p).head[NullQueue] = L.head[NullQueue]
<1>0. /\ p \in Proc /\ p # NULL /\ p # NULL_PID /\ p \notin IProc
      /\ NULL_PID \in Proc /\ NULL \notin Proc /\ NULL \notin IProc
  BY Pids DEF Threads
<1>1. CASE L.head[q] = p
  BY <1>0, <1>1, DequeueLinks DEF proc_queue_remove
<1>2. CASE L.head[q] # p /\ Predecessors(L, q, p) = {}
  BY <1>2 DEF proc_queue_remove
<1>3. CASE L.head[q] # p /\ Predecessors(L, q, p) # {}
  <2> DEFINE prev == CHOOSE r \in Predecessors(L, q, p) : TRUE
  <2>1. prev \in Predecessors(L, q, p)
    BY <1>3
  <2>2. prev \in Proc /\ L.next[prev] = p
    BY <2>1 DEF Predecessors, Members
  <2>3. proc_queue_remove(L, q, p) =
           [head |-> L.head, tail |-> L.tail,
            next |-> [L.next EXCEPT ![prev] = L.next[p], ![p] = NULL]]
    BY <1>3 DEF proc_queue_remove
  <2> HIDE DEF prev
  <2> QED
    BY <1>0, <2>2, <2>3, QueueNames DEF LinksOk, LinksType, ProcOrNull
<1> QED
  BY <1>1, <1>2, <1>3

LEMMA TidyLinks ==
    ASSUME NEW L, LinksOk(L)
    PROVE  LinksOk(Tidy(L)) /\ Tidy(L).head = L.head
<1>1. NULL \notin IProc /\ NULL # NULL_PID
  BY Pids
<1>2. L = [head |-> L.head, tail |-> L.tail, next |-> L.next]
  BY DEF LinksOk, LinksType
<1>3. Tidy(L) = [head |-> L.head,
                 tail |-> [q \in Queue |-> IF L.head[q] = NULL THEN NULL ELSE L.tail[q]],
                 next |-> L.next]
  BY <1>2 DEF Tidy, proc_queue_is_empty
<1> QED
  BY <1>1, <1>3, QueueNames DEF LinksOk, LinksType, ProcOrNull

-----------------------------------------------------------------------------
(* The state of the kernel                                                 *)

MessageTypes == {"user", "WAKEUP", "CONSOLE_OUTPUT", "CONSOLE_OUTPUT_REQUEST_ACK",
                 "CONSOLE_INPUT", "DISPLAY_ACK"}

MessagesWith(senders, data) ==
    [env : Envs, send_pid : senders, msg_type : MessageTypes, data : data]

AnyMessage == MessagesWith(Proc, Delay \cup Text \cup Line \cup {0})

(* An i-process gets its messages from user processes, through             *)
(* request_delay and send_console_chars.                                   *)
MailFor(p) == IF p = TIMER_I_PROCESS_PID THEN MessagesWith(UserProc, Delay)
              ELSE IF p = UART_I_PROCESS_PID THEN MessagesWith(UserProc, Text)
              ELSE AnyMessage

KernelState ==
    [current_process : Threads,
     state           : [Proc -> process_state],
     priority        : [Proc -> 0 .. NUM_PRIORITIES],
     queues          : LinksType(Queue),
     free_env_q      : Seq(Env),
     sys_free_env_q  : Seq(SysEnv),
     recv_msgs       : [Proc -> Seq(AnyMessage)],
     env_owned       : [Proc -> Int],
     held            : [Proc -> SUBSET Envs]]

(* The null process alone has the lowest priority, and it is never blocked;*)
(* i-processes are not scheduled.                                          *)
RanksOk(kk) ==
    /\ \A p \in Proc : kk.priority[p] = NUM_PRIORITIES <=> p = NULL_PID
    /\ kk.state[NULL_PID] \in {"P_READY", "P_EXECUTING"}
    /\ \A p \in IProc : kk.state[p] = "P_READY"

(* There is a process to switch to: the null process is ready.             *)
NullReady(kk) == kk.queues.head[NullQueue] = NULL_PID

SomebodyReady(kk) ==
    IF kk.current_process = NULL_PID THEN kk.queues.head[NullQueue] = NULL ELSE NullReady(kk)

MailOk(kk) == \A p \in Proc : kk.recv_msgs[p] \in Seq(MailFor(p))

(* No process waits for a message it has.                                  *)
AwakeForMail(kk) ==
    \A p \in UserProc : kk.state[p] = "P_BLOCKED_ON_RECEIVE" => kk.recv_msgs[p] = <<>>

KernelMidway(kk) ==
    /\ kk \in KernelState
    /\ LinksOk(kk.queues)
    /\ RanksOk(kk)
    /\ MailOk(kk)
    /\ AwakeForMail(kk)

KernelOk(kk) == KernelMidway(kk) /\ SomebodyReady(kk)

SameEnvelopes(kk, ll) ==
    /\ ll.free_env_q = kk.free_env_q
    /\ ll.sys_free_env_q = kk.sys_free_env_q
    /\ ll.recv_msgs = kk.recv_msgs
    /\ ll.env_owned = kk.env_owned
    /\ ll.held = kk.held

SameProcesses(kk, ll) ==
    /\ ll.current_process = kk.current_process
    /\ ll.state = kk.state
    /\ ll.priority = kk.priority
    /\ ll.queues = kk.queues

-----------------------------------------------------------------------------
(* Operations on processes                                                 *)

(* Only user processes are ever blocked.                                   *)
LEMMA BlockedIsUser ==
    ASSUME NEW kk, KernelMidway(kk), NEW p \in Proc,
           kk.state[p] \in {"P_BLOCKED_ON_ENV_REQUEST", "P_BLOCKED_ON_RECEIVE"}
    PROVE  p \in UserProc
  BY Pids DEF KernelMidway, RanksOk, UserProc

LEMMA SwitchOk ==
    ASSUME NEW kk, KernelMidway(kk), NullReady(kk), NEW to \in process_state,
           kk.current_process = NULL_PID => to = "P_READY",
           to = "P_BLOCKED_ON_RECEIVE" => kk.recv_msgs[kk.current_process] = <<>>
    PROVE  /\ KernelOk(k_process_switch(kk, to))
           /\ SameEnvelopes(kk, k_process_switch(kk, to))
<1> DEFINE self0 == kk.current_process
           q0 == proc_pq_first(kk.queues, ready_pq)
           next0 == kk.queues.head[q0]
           links == Tidy(proc_queue_dequeue(kk.queues, q0))
           ll == k_process_switch(kk, to)
<1>1. NullQueue \in NonEmpty(kk.queues, ready_pq)
  BY QueueNames, Pids DEF NonEmpty, proc_queue_is_empty, NullReady, Threads
<1>2. q0 \in Queue /\ next0 # NULL
  BY <1>1, QueueNames, FirstQueue
<1>3. next0 \in Threads /\ (next0 = NULL_PID <=> q0 = NullQueue)
  BY <1>2, QueueNames DEF KernelMidway, LinksOk, LinksType, ProcOrNull, Threads, NullReady
<1>4. ll = [kk EXCEPT !.current_process = next0,
                      !.state = [kk.state EXCEPT ![self0] = to, ![next0] = "P_EXECUTING"],
                      !.queues = links]
  BY <1>1 DEF k_process_switch, proc_pq_front, proc_pq_dequeue
<1>5. /\ LinksOk(links)
      /\ q0 = NullQueue => links.head[NullQueue] = NULL
      /\ q0 # NullQueue => links.head[NullQueue] = NULL_PID
  BY <1>2, DequeueLinks, TidyLinks DEF KernelMidway, NullReady
<1>6. kk \in KernelState /\ self0 \in Threads /\ links \in LinksType(Queue)
  BY <1>5 DEF KernelMidway, KernelState, LinksOk
<1> HIDE DEF links, q0, next0, ll, self0
<1>7. /\ ll.current_process = next0
      /\ ll.state = [kk.state EXCEPT ![self0] = to, ![next0] = "P_EXECUTING"]
      /\ ll.queues = links /\ ll.priority = kk.priority
      /\ SameEnvelopes(kk, ll)
  BY <1>4, <1>6 DEF KernelState, SameEnvelopes
<1>8. [kk.state EXCEPT ![self0] = to, ![next0] = "P_EXECUTING"] \in [Proc -> process_state]
  BY <1>6 DEF KernelState, process_state
<1>9. ll \in KernelState
  BY <1>3, <1>4, <1>6, <1>8 DEF KernelState
<1>10. RanksOk(ll)
  <2>0. /\ \A p \in Proc : kk.priority[p] = NUM_PRIORITIES <=> p = NULL_PID
        /\ kk.state[NULL_PID] \in {"P_READY", "P_EXECUTING"}
        /\ \A p \in IProc : kk.state[p] = "P_READY"
        /\ kk.state \in [Proc -> process_state]
        /\ self0 = NULL_PID => to = "P_READY"
    BY <1>6 DEF KernelMidway, RanksOk, KernelState, self0
  <2>1. \A p \in Proc : ll.state[p] = IF p = next0 THEN "P_EXECUTING"
                                      ELSE IF p = self0 THEN to ELSE kk.state[p]
    BY <2>0, <1>7, <1>3, <1>6, Pids
  <2>2. \A p \in IProc : p \in Proc /\ p # next0 /\ p # self0
    BY <1>3, <1>6, Pids DEF Threads
  <2>3. \A p \in IProc : ll.state[p] = "P_READY"
    BY <2>0, <2>1, <2>2
  <2>4. ll.state[NULL_PID] \in {"P_READY", "P_EXECUTING"}
    BY <2>0, <2>1, Pids DEF Threads
  <2> QED
    BY <2>0, <2>3, <2>4, <1>7 DEF RanksOk
<1>11. MailOk(ll)
  BY <1>7 DEF KernelMidway, MailOk, SameEnvelopes
<1>12. AwakeForMail(ll)
  BY <1>3, <1>6, <1>7, Pids DEF KernelMidway, AwakeForMail, SameEnvelopes, KernelState, self0, Threads
<1>13. SomebodyReady(ll)
  BY <1>3, <1>5, <1>7 DEF SomebodyReady, NullReady
<1> QED
  BY <1>5, <1>7, <1>9, <1>10, <1>11, <1>12, <1>13 DEF KernelOk, KernelMidway, ll

(* What the operations on queues leave alone.                              *)
OnlyQueues(kk, ll) ==
    /\ ll.current_process = kk.current_process
    /\ ll.state = kk.state
    /\ ll.priority = kk.priority
    /\ SameEnvelopes(kk, ll)

LEMMA QueuesReplaced ==
    ASSUME NEW kk, KernelMidway(kk), NEW links, LinksOk(links)
    PROVE  /\ KernelMidway([kk EXCEPT !.queues = links])
           /\ OnlyQueues(kk, [kk EXCEPT !.queues = links])
           /\ [kk EXCEPT !.queues = links].queues = links
<1> DEFINE ll == [kk EXCEPT !.queues = links]
<1>1. kk \in KernelState /\ links \in LinksType(Queue)
  BY DEF KernelMidway, LinksOk
<1>2. OnlyQueues(kk, ll) /\ ll.queues = links /\ ll \in KernelState
  BY <1>1 DEF KernelState, OnlyQueues, SameEnvelopes
<1> HIDE DEF ll
<1>3. RanksOk(ll) /\ MailOk(ll) /\ AwakeForMail(ll)
  BY <1>2 DEF OnlyQueues, SameEnvelopes, RanksOk, MailOk, AwakeForMail, KernelMidway
<1>4. KernelMidway(ll)
  BY <1>2, <1>3 DEF KernelMidway
<1> QED
  BY <1>2, <1>4 DEF ll

LEMMA QueueOfProcess ==
    ASSUME NEW kk, KernelMidway(kk), NEW p \in Threads,
           NEW pq \in {"ready", "blocked_request_env"}, p = NULL_PID => pq = "ready"
    PROVE  /\ <<pq, kk.priority[p]>> \in Queue
           /\ p = NULL_PID <=> <<pq, kk.priority[p]>> = NullQueue
<1>1. p \in Proc /\ kk.priority[p] \in 0 .. NUM_PRIORITIES
  BY Pids DEF KernelMidway, KernelState
<1>2. kk.priority[p] = NUM_PRIORITIES <=> p = NULL_PID
  BY <1>1 DEF KernelMidway, RanksOk
<1>3. CASE pq = "ready"
  BY <1>1, <1>2, <1>3, QueueNames
<1>4. CASE pq = "blocked_request_env"
  BY <1>1, <1>2, <1>4, QueueNames
<1> QED
  BY <1>3, <1>4

LEMMA PqEnqueueOk ==
    ASSUME NEW kk, KernelMidway(kk), NEW p \in Threads,
           NEW pq \in {"ready", "blocked_request_env"},
           p = NULL_PID => pq = "ready" /\ kk.queues.head[NullQueue] = NULL
    PROVE  /\ KernelMidway(proc_pq_enqueue(kk, pq, p))
           /\ OnlyQueues(kk, proc_pq_enqueue(kk, pq, p))
           /\ p = NULL_PID => NullReady(proc_pq_enqueue(kk, pq, p))
           /\ p # NULL_PID => proc_pq_enqueue(kk, pq, p).queues.head[NullQueue]
                                = kk.queues.head[NullQueue]
<1> DEFINE q0 == <<pq, kk.priority[p]>>
           links == proc_queue_enqueue(kk.queues, q0, p)
           ll == proc_pq_enqueue(kk, pq, p)
<1>1. q0 \in Queue /\ (p = NULL_PID <=> q0 = NullQueue)
  BY QueueOfProcess
<1>2. LinksOk(kk.queues)
  BY DEF KernelMidway
<1>3. ll = [kk EXCEPT !.queues = links]
  BY DEF proc_pq_enqueue
<1> HIDE DEF q0, ll
<1>4. /\ LinksOk(links)
      /\ p = NULL_PID => links.head[NullQueue] = NULL_PID
      /\ p # NULL_PID => links.head[NullQueue] = kk.queues.head[NullQueue]
  BY <1>1, <1>2, EnqueueLinks
<1> HIDE DEF links
<1>5. KernelMidway(ll) /\ OnlyQueues(kk, ll) /\ ll.queues = links
  BY <1>3, <1>4, QueuesReplaced
<1> QED
  BY <1>4, <1>5 DEF NullReady, ll

LEMMA PqRemoveOk ==
    ASSUME NEW kk, KernelMidway(kk), NEW p \in UserProc,
           NEW pq \in {"ready", "blocked_request_env"}
    PROVE  /\ KernelMidway(proc_pq_remove(kk, pq, p))
           /\ OnlyQueues(kk, proc_pq_remove(kk, pq, p))
           /\ proc_pq_remove(kk, pq, p).queues.head[NullQueue] = kk.queues.head[NullQueue]
<1> DEFINE q0 == <<pq, kk.priority[p]>>
           links == Tidy(proc_queue_remove(kk.queues, q0, p))
           ll == proc_pq_remove(kk, pq, p)
<1>1. q0 \in Queue \ {NullQueue}
  BY QueueOfProcess, Pids
<1>2. LinksOk(kk.queues)
  BY DEF KernelMidway
<1>3. ll = [kk EXCEPT !.queues = links]
  BY DEF proc_pq_remove
<1> HIDE DEF q0, ll
<1>4. LinksOk(links) /\ links.head[NullQueue] = kk.queues.head[NullQueue]
  BY <1>1, <1>2, RemoveLinks, TidyLinks
<1> HIDE DEF links
<1>5. KernelMidway(ll) /\ OnlyQueues(kk, ll) /\ ll.queues = links
  BY <1>3, <1>4, QueuesReplaced
<1> QED
  BY <1>4, <1>5 DEF ll

(* The process to be made ready may have got a message just before.        *)
KernelBut(kk, p) ==
    /\ kk \in KernelState
    /\ LinksOk(kk.queues)
    /\ RanksOk(kk)
    /\ MailOk(kk)
    /\ \A r \in UserProc \ {p} : kk.state[r] = "P_BLOCKED_ON_RECEIVE" => kk.recv_msgs[r] = <<>>

LEMMA MidwayIsBut ==
    ASSUME NEW kk, KernelMidway(kk), NEW p
    PROVE  KernelBut(kk, p)
  BY DEF KernelMidway, KernelBut, AwakeForMail

LEMMA MakeReadyOk ==
    ASSUME NEW kk, NEW p \in UserProc, KernelBut(kk, p)
    PROVE  /\ KernelMidway(MakeReady(kk, p))
           /\ SomebodyReady(kk) => SomebodyReady(MakeReady(kk, p))
           /\ SameEnvelopes(kk, MakeReady(kk, p))
           /\ MakeReady(kk, p).current_process = kk.current_process
           /\ MakeReady(kk, p).state = [kk.state EXCEPT ![p] = "P_READY"]
<1> DEFINE mm == [kk EXCEPT !.state[p] = "P_READY"]
           ll == MakeReady(kk, p)
<1>0. p \in Proc /\ p \in Threads /\ p # NULL_PID /\ p \notin IProc
  BY Pids DEF Threads
<1>1. kk \in KernelState
  BY DEF KernelBut
<1>2. /\ mm \in KernelState
      /\ mm.current_process = kk.current_process
      /\ mm.state = [kk.state EXCEPT ![p] = "P_READY"]
      /\ mm.priority = kk.priority /\ mm.queues = kk.queues
      /\ SameEnvelopes(kk, mm)
  BY <1>0, <1>1 DEF KernelState, SameEnvelopes, process_state
<1>3. ll = proc_pq_enqueue(mm, "ready", p)
  BY DEF MakeReady
<1> HIDE DEF mm, ll
<1>4. kk.state \in [Proc -> process_state]
  BY <1>1 DEF KernelState
<1>5. \A r \in Proc : mm.state[r] = IF r = p THEN "P_READY" ELSE kk.state[r]
  BY <1>2, <1>4
<1>6. RanksOk(mm)
  BY <1>0, <1>2, <1>5, Pids DEF KernelBut, RanksOk, Threads
<1>7. AwakeForMail(mm) /\ MailOk(mm) /\ LinksOk(mm.queues)
  BY <1>0, <1>2, <1>5, Pids DEF KernelBut, AwakeForMail, MailOk, SameEnvelopes, UserProc
<1>8. KernelMidway(mm)
  BY <1>2, <1>6, <1>7 DEF KernelMidway
<1>9. /\ KernelMidway(ll) /\ OnlyQueues(mm, ll)
      /\ ll.queues.head[NullQueue] = mm.queues.head[NullQueue]
  BY <1>0, <1>3, <1>8, PqEnqueueOk
<1>10. SomebodyReady(kk) => SomebodyReady(ll)
  BY <1>2, <1>9 DEF SomebodyReady, OnlyQueues, NullReady
<1> QED
  BY <1>2, <1>9, <1>10 DEF OnlyQueues, SameEnvelopes, ll

(* The queue of blocked processes holds user processes only.               *)
LEMMA WakeRequesterOk ==
    ASSUME NEW kk, KernelMidway(kk)
    PROVE  /\ KernelMidway(WakeRequester(kk))
           /\ SomebodyReady(kk) => SomebodyReady(WakeRequester(kk))
           /\ SameEnvelopes(kk, WakeRequester(kk))
           /\ WakeRequester(kk).current_process = kk.current_process
<1> DEFINE q0 == proc_pq_first(kk.queues, blocked_request_env_pq)
           p0 == kk.queues.head[q0]
           links == Tidy(proc_queue_dequeue(kk.queues, q0))
           mm == [kk EXCEPT !.queues = links]
           ll == WakeRequester(kk)
<1>1. CASE NonEmpty(kk.queues, blocked_request_env_pq) = {}
  <2>1. ll = kk
    BY <1>1 DEF WakeRequester, proc_pq_front
  <2> QED
    BY <2>1 DEF SameEnvelopes
<1>2. CASE NonEmpty(kk.queues, blocked_request_env_pq) # {}
  <2>1. q0 \in blocked_request_env_pq /\ p0 # NULL
    BY <1>2, QueueNames, FirstQueue
  <2>2. q0 \in Queue \ {NullQueue}
    BY <2>1, QueueNames
  <2>3. LinksOk(kk.queues)
    BY DEF KernelMidway
  <2>4. p0 \in UserProc
    BY <2>1, <2>2, <2>3, Pids DEF LinksOk, LinksType, ProcOrNull, Threads
  <2>5. ll = MakeReady(mm, p0)
    BY <1>2, <2>1 DEF WakeRequester, proc_pq_front, proc_pq_dequeue
  <2> HIDE DEF q0, p0, ll, mm
  <2>6. LinksOk(links) /\ links.head[NullQueue] = kk.queues.head[NullQueue]
    BY <2>1, <2>2, <2>3, DequeueLinks, TidyLinks DEF p0
  <2> HIDE DEF links
  <2>7. KernelMidway(mm) /\ OnlyQueues(kk, mm) /\ mm.queues = links
    BY <2>6, QueuesReplaced DEF mm
  <2>8. /\ KernelMidway(ll)
        /\ SomebodyReady(mm) => SomebodyReady(ll)
        /\ SameEnvelopes(mm, ll)
        /\ ll.current_process = mm.current_process
    BY <2>4, <2>5, <2>7, MakeReadyOk, MidwayIsBut
  <2>9. SomebodyReady(kk) => SomebodyReady(mm)
    BY <2>6, <2>7 DEF SomebodyReady, OnlyQueues, NullReady
  <2> QED
    BY <2>7, <2>8, <2>9 DEF OnlyQueues, SameEnvelopes, ll
<1> QED
  BY <1>1, <1>2

LEMMA ReleaseProcessorOk ==
    ASSUME NEW kk, KernelOk(kk)
    PROVE  /\ KernelOk(k_release_processor(kk))
           /\ SameEnvelopes(kk, k_release_processor(kk))
<1> DEFINE p0 == kk.current_process
           mm == proc_pq_enqueue(kk, "ready", p0)
<1>1. KernelMidway(kk) /\ SomebodyReady(kk) /\ p0 \in Threads
  BY DEF KernelOk, KernelMidway, KernelState
<1>2. p0 = NULL_PID => kk.queues.head[NullQueue] = NULL
  BY <1>1 DEF SomebodyReady
<1>3. p0 # NULL_PID => kk.queues.head[NullQueue] = NULL_PID
  BY <1>1 DEF SomebodyReady, NullReady
<1>4. k_release_processor(kk) = k_process_switch(mm, "P_READY")
  BY DEF k_release_processor
<1> HIDE DEF mm, p0
<1>5. /\ KernelMidway(mm) /\ OnlyQueues(kk, mm)
      /\ p0 = NULL_PID => NullReady(mm)
      /\ p0 # NULL_PID => mm.queues.head[NullQueue] = kk.queues.head[NullQueue]
  BY <1>1, <1>2, PqEnqueueOk DEF mm
<1>6. NullReady(mm)
  BY <1>3, <1>5 DEF NullReady
<1>7. /\ KernelOk(k_process_switch(mm, "P_READY"))
      /\ SameEnvelopes(mm, k_process_switch(mm, "P_READY"))
  BY <1>5, <1>6, SwitchOk DEF process_state
<1> QED
  BY <1>4, <1>5, <1>7 DEF OnlyQueues, SameEnvelopes

LEMMA RequestBlocksOk ==
    ASSUME NEW kk, KernelOk(kk), kk.current_process # NULL_PID
    PROVE  /\ KernelOk(RequestBlocks(kk))
           /\ SameEnvelopes(kk, RequestBlocks(kk))
<1> DEFINE p0 == kk.current_process
           mm == proc_pq_enqueue(kk, "blocked_request_env", p0)
<1>1. KernelMidway(kk) /\ SomebodyReady(kk) /\ p0 \in Threads
  BY DEF KernelOk, KernelMidway, KernelState
<1>3. kk.queues.head[NullQueue] = NULL_PID
  BY <1>1 DEF SomebodyReady, NullReady
<1>4. RequestBlocks(kk) = k_process_switch(mm, "P_BLOCKED_ON_ENV_REQUEST")
  BY DEF RequestBlocks
<1>5. p0 # NULL_PID
  OBVIOUS
<1> HIDE DEF mm, p0
<1>6. /\ KernelMidway(mm) /\ OnlyQueues(kk, mm)
      /\ mm.queues.head[NullQueue] = kk.queues.head[NullQueue]
  BY <1>1, <1>5, PqEnqueueOk DEF mm
<1>7. NullReady(mm) /\ mm.current_process # NULL_PID
  BY <1>3, <1>6 DEF NullReady, OnlyQueues
<1>8. /\ KernelOk(k_process_switch(mm, "P_BLOCKED_ON_ENV_REQUEST"))
      /\ SameEnvelopes(mm, k_process_switch(mm, "P_BLOCKED_ON_ENV_REQUEST"))
  BY <1>6, <1>7, SwitchOk DEF process_state
<1> QED
  BY <1>4, <1>6, <1>8 DEF OnlyQueues, SameEnvelopes

LEMMA ReceiveBlocksOk ==
    ASSUME NEW kk, KernelOk(kk), kk.current_process # NULL_PID,
           kk.recv_msgs[kk.current_process] = <<>>
    PROVE  /\ KernelOk(k_process_switch(kk, "P_BLOCKED_ON_RECEIVE"))
           /\ SameEnvelopes(kk, k_process_switch(kk, "P_BLOCKED_ON_RECEIVE"))
<1>1. KernelMidway(kk) /\ NullReady(kk)
  BY DEF KernelOk, SomebodyReady
<1> QED
  BY <1>1, SwitchOk DEF process_state

(* What a change of priority leaves alone.                                 *)
PrioritySet(kk, p, new_priority) == [kk EXCEPT !.priority[p] = new_priority]

LEMMA PrioritySetOk ==
    ASSUME NEW kk, KernelMidway(kk), NEW p \in UserProc,
           NEW new_priority \in 0 .. NUM_PRIORITIES - 1
    PROVE  /\ KernelMidway(PrioritySet(kk, p, new_priority))
           /\ SomebodyReady(kk) => SomebodyReady(PrioritySet(kk, p, new_priority))
           /\ SameEnvelopes(kk, PrioritySet(kk, p, new_priority))
<1> DEFINE mm == PrioritySet(kk, p, new_priority)
<1>1. kk \in KernelState
  BY DEF KernelMidway
<1>2. /\ p \in Proc /\ p # NULL_PID /\ NUM_PRIORITIES \in Nat
      /\ new_priority \in 0 .. NUM_PRIORITIES /\ new_priority # NUM_PRIORITIES
  BY TableAssumption DEF UserProc
<1>3. /\ mm \in KernelState
      /\ mm.priority = [kk.priority EXCEPT ![p] = new_priority]
      /\ mm.current_process = kk.current_process
      /\ mm.state = kk.state /\ mm.queues = kk.queues
      /\ SameEnvelopes(kk, mm)
  BY <1>1, <1>2 DEF KernelState, SameEnvelopes, PrioritySet
<1> HIDE DEF mm
<1>4. \A r \in Proc : mm.priority[r] = IF r = p THEN new_priority ELSE kk.priority[r]
  BY <1>1, <1>2, <1>3 DEF KernelState
<1>5. RanksOk(mm)
  BY <1>2, <1>3, <1>4 DEF KernelMidway, RanksOk
<1>6. AwakeForMail(mm) /\ MailOk(mm)
  BY <1>3 DEF KernelMidway, AwakeForMail, MailOk, SameEnvelopes
<1>7. KernelMidway(mm) /\ (SomebodyReady(kk) => SomebodyReady(mm))
  BY <1>3, <1>5, <1>6 DEF KernelMidway, SomebodyReady, NullReady
<1> QED
  BY <1>3, <1>7 DEF mm

LEMMA RequeueOk ==
    ASSUME NEW kk, KernelOk(kk), NEW p \in UserProc,
           NEW new_priority \in 0 .. NUM_PRIORITIES - 1,
           NEW pq \in {"ready", "blocked_request_env"}
    PROVE  /\ KernelOk(Requeue(kk, pq, p, new_priority))
           /\ SameEnvelopes(kk, Requeue(kk, pq, p, new_priority))
<1> DEFINE aa == proc_pq_remove(kk, pq, p)
           bb == PrioritySet(aa, p, new_priority)
           cc == proc_pq_enqueue(bb, pq, p)
<1>1. Requeue(kk, pq, p, new_priority) = cc
  BY DEF Requeue, PrioritySet
<1>2. p \in Threads /\ p # NULL_PID
  BY Pids
<1> HIDE DEF aa, bb, cc
<1>3. /\ KernelMidway(aa) /\ OnlyQueues(kk, aa)
      /\ aa.queues.head[NullQueue] = kk.queues.head[NullQueue]
  BY PqRemoveOk DEF KernelOk, aa
<1>4. SomebodyReady(aa)
  BY <1>3 DEF KernelOk, SomebodyReady, NullReady, OnlyQueues
<1>5. KernelMidway(bb) /\ SomebodyReady(bb) /\ SameEnvelopes(aa, bb)
  BY <1>3, <1>4, PrioritySetOk DEF bb
<1>6. /\ KernelMidway(cc) /\ OnlyQueues(bb, cc)
      /\ cc.queues.head[NullQueue] = bb.queues.head[NullQueue]
  BY <1>2, <1>5, PqEnqueueOk DEF cc
<1>7. KernelOk(cc)
  BY <1>5, <1>6 DEF KernelOk, SomebodyReady, NullReady, OnlyQueues
<1>8. SameEnvelopes(kk, cc)
  BY <1>3, <1>5, <1>6 DEF OnlyQueues, SameEnvelopes
<1> QED
  BY <1>1, <1>7, <1>8

LEMMA ChangePriorityOk ==
    ASSUME NEW kk, KernelOk(kk), NEW new_priority \in 0 .. NUM_PRIORITIES - 1,
           NEW p \in Target
    PROVE  /\ KernelOk(k_change_priority(kk, new_priority, p))
           /\ SameEnvelopes(kk, k_change_priority(kk, new_priority, p))
<1> DEFINE ll == k_change_priority(kk, new_priority, p)
           turned_away == p \in IProc \cup SysPid \cup {NULL_PID} \/ kk.priority[p] = new_priority
<1>0. p \in UserProc
  BY Pids
<1>1. CASE turned_away
  <2>1. ll = kk
    BY <1>1 DEF k_change_priority
  <2> QED
    BY <2>1 DEF SameEnvelopes
<1>2. CASE ~turned_away /\ kk.state[p] = "P_READY"
  <2>1. ll = Requeue(kk, "ready", p, new_priority)
    BY <1>2 DEF k_change_priority
  <2> QED
    BY <1>0, <2>1, RequeueOk
<1>3. CASE ~turned_away /\ kk.state[p] = "P_BLOCKED_ON_ENV_REQUEST"
  <2>1. ll = Requeue(kk, "blocked_request_env", p, new_priority)
    BY <1>3 DEF k_change_priority
  <2> QED
    BY <1>0, <2>1, RequeueOk
<1>4. CASE ~turned_away /\ kk.state[p] \notin {"P_READY", "P_BLOCKED_ON_ENV_REQUEST"}
  <2>1. ll = PrioritySet(kk, p, new_priority)
    BY <1>4 DEF k_change_priority, PrioritySet
  <2> QED
    BY <1>0, <2>1, PrioritySetOk DEF KernelOk
<1> QED
  BY <1>1, <1>2, <1>3, <1>4

-----------------------------------------------------------------------------
(* Operations on envelopes                                                 *)

(* The kernel with other envelope lists, mailboxes and owners.             *)
LEMMA EnvelopesReplaced ==
    ASSUME NEW kk, KernelMidway(kk), NEW ll, ll \in KernelState, SameProcesses(kk, ll),
           MailOk(ll), NEW p,
           \A r \in UserProc \ {p} : ll.recv_msgs[r] = <<>> \/ ll.recv_msgs[r] = kk.recv_msgs[r]
    PROVE  /\ KernelBut(ll, p)
           /\ SomebodyReady(kk) => SomebodyReady(ll)
<1>1. RanksOk(ll) /\ LinksOk(ll.queues)
  BY DEF SameProcesses, RanksOk, KernelMidway
<1>2. \A r \in UserProc \ {p} : ll.state[r] = "P_BLOCKED_ON_RECEIVE" => ll.recv_msgs[r] = <<>>
  BY DEF SameProcesses, KernelMidway, AwakeForMail
<1>3. SomebodyReady(kk) => SomebodyReady(ll)
  BY DEF SameProcesses, SomebodyReady, NullReady
<1> QED
  BY <1>1, <1>2, <1>3 DEF KernelBut

LEMMA MailKept ==
    ASSUME NEW kk, KernelMidway(kk), NEW ll, ll \in KernelState, SameProcesses(kk, ll),
           ll.recv_msgs = kk.recv_msgs
    PROVE  /\ KernelMidway(ll)
           /\ SomebodyReady(kk) => SomebodyReady(ll)
  BY DEF SameProcesses, SomebodyReady, NullReady, KernelMidway, RanksOk, MailOk, AwakeForMail

(* What each operation does to the envelopes.                              *)
TakesFree(kk, ll, p) ==
    /\ ll.free_env_q = Tail(kk.free_env_q)
    /\ ll.sys_free_env_q = kk.sys_free_env_q
    /\ ll.recv_msgs = kk.recv_msgs
    /\ ll.env_owned = [kk.env_owned EXCEPT ![p] = @ + 1]
    /\ ll.held = [kk.held EXCEPT ![p] = @ \cup {Head(kk.free_env_q)}]

TakesReserve(kk, ll, p) ==
    /\ ll.free_env_q = kk.free_env_q
    /\ ll.sys_free_env_q = Tail(kk.sys_free_env_q)
    /\ ll.recv_msgs = kk.recv_msgs
    /\ ll.env_owned = [kk.env_owned EXCEPT ![p] = @ + 1]
    /\ ll.held = [kk.held EXCEPT ![p] = @ \cup {Head(kk.sys_free_env_q)}]

Frees(kk, ll, p, env) ==
    /\ ll.free_env_q = Append(kk.free_env_q, env)
    /\ ll.sys_free_env_q = kk.sys_free_env_q
    /\ ll.recv_msgs = kk.recv_msgs
    /\ ll.env_owned = [kk.env_owned EXCEPT ![p] = @ - 1]
    /\ ll.held = [kk.held EXCEPT ![p] = @ \ {env}]

PutsBack(kk, ll, p, env) ==
    /\ ll.free_env_q = kk.free_env_q
    /\ ll.sys_free_env_q = Append(kk.sys_free_env_q, env)
    /\ ll.recv_msgs = kk.recv_msgs
    /\ ll.env_owned = [kk.env_owned EXCEPT ![p] = @ - 1]
    /\ ll.held = [kk.held EXCEPT ![p] = @ \ {env}]

Releases(kk, ll, p, env) ==
    IF env \in SysEnv THEN PutsBack(kk, ll, p, env) ELSE Frees(kk, ll, p, env)

Sends(kk, ll, p, dest, message) ==
    /\ ll.free_env_q = kk.free_env_q
    /\ ll.sys_free_env_q = kk.sys_free_env_q
    /\ ll.recv_msgs = [kk.recv_msgs EXCEPT ![dest] = Append(@, message)]
    /\ ll.env_owned = [[kk.env_owned EXCEPT ![p] = @ - 1] EXCEPT ![dest] = @ + 1]
    /\ ll.held = [kk.held EXCEPT ![p] = @ \ {message.env}]

TakesMail(kk, ll, p) ==
    /\ ll.free_env_q = kk.free_env_q
    /\ ll.sys_free_env_q = kk.sys_free_env_q
    /\ ll.recv_msgs = [kk.recv_msgs EXCEPT ![p] = Tail(@)]
    /\ ll.env_owned = kk.env_owned
    /\ ll.held = [kk.held EXCEPT ![p] = @ \cup {Head(kk.recv_msgs[p]).env}]

TakesAllMail(kk, ll, p) ==
    /\ ll.free_env_q = kk.free_env_q
    /\ ll.sys_free_env_q = kk.sys_free_env_q
    /\ ll.recv_msgs = [kk.recv_msgs EXCEPT ![p] = <<>>]
    /\ ll.env_owned = kk.env_owned
    /\ ll.held = [kk.held EXCEPT ![p] = @ \cup Envelopes(kk.recv_msgs[p])]

(* The first envelope of the pool, or of the reserve, goes to p.           *)
LEMMA FreeGrantedOk ==
    ASSUME NEW kk, KernelMidway(kk), NEW p \in Proc, kk.free_env_q # <<>>
    PROVE  /\ KernelMidway(FreeGranted(kk, p))
           /\ SameProcesses(kk, FreeGranted(kk, p))
           /\ SomebodyReady(kk) => SomebodyReady(FreeGranted(kk, p))
           /\ TakesFree(kk, FreeGranted(kk, p), p)
<1> DEFINE ll == FreeGranted(kk, p)
<1>1. kk \in KernelState
  BY DEF KernelMidway
<1>2. /\ kk.free_env_q \in Seq(Env)
      /\ Tail(kk.free_env_q) \in Seq(Env) /\ Head(kk.free_env_q) \in Env
      /\ kk.env_owned \in [Proc -> Int] /\ kk.held \in [Proc -> SUBSET Envs]
  BY <1>1 DEF KernelState
<1>3. /\ [kk.env_owned EXCEPT ![p] = @ + 1] \in [Proc -> Int]
      /\ [kk.held EXCEPT ![p] = @ \cup {Head(kk.free_env_q)}] \in [Proc -> SUBSET Envs]
  BY <1>2 DEF Envs
<1>4. ll = [kk EXCEPT !.free_env_q = Tail(kk.free_env_q),
                      !.env_owned = [kk.env_owned EXCEPT ![p] = @ + 1],
                      !.held = [kk.held EXCEPT ![p] = @ \cup {Head(kk.free_env_q)}]]
  BY <1>1 DEF FreeGranted, Granted, PoolTaken, KernelState
<1> HIDE DEF ll
<1>5. ll \in KernelState /\ SameProcesses(kk, ll) /\ TakesFree(kk, ll, p)
  BY <1>1, <1>2, <1>3, <1>4 DEF KernelState, SameProcesses, TakesFree
<1>6. KernelMidway(ll) /\ (SomebodyReady(kk) => SomebodyReady(ll))
  BY <1>5, MailKept DEF TakesFree
<1> QED
  BY <1>5, <1>6 DEF ll

LEMMA SysGrantedOk ==
    ASSUME NEW kk, KernelMidway(kk), NEW p \in Proc, kk.sys_free_env_q # <<>>
    PROVE  /\ KernelMidway(SysGranted(kk, p))
           /\ SameProcesses(kk, SysGranted(kk, p))
           /\ SomebodyReady(kk) => SomebodyReady(SysGranted(kk, p))
           /\ TakesReserve(kk, SysGranted(kk, p), p)
<1> DEFINE ll == SysGranted(kk, p)
<1>1. kk \in KernelState
  BY DEF KernelMidway
<1>2. /\ kk.sys_free_env_q \in Seq(SysEnv)
      /\ Tail(kk.sys_free_env_q) \in Seq(SysEnv) /\ Head(kk.sys_free_env_q) \in SysEnv
      /\ kk.env_owned \in [Proc -> Int] /\ kk.held \in [Proc -> SUBSET Envs]
  BY <1>1 DEF KernelState
<1>3. /\ [kk.env_owned EXCEPT ![p] = @ + 1] \in [Proc -> Int]
      /\ [kk.held EXCEPT ![p] = @ \cup {Head(kk.sys_free_env_q)}] \in [Proc -> SUBSET Envs]
  BY <1>2 DEF Envs
<1>4. ll = [kk EXCEPT !.sys_free_env_q = Tail(kk.sys_free_env_q),
                      !.env_owned = [kk.env_owned EXCEPT ![p] = @ + 1],
                      !.held = [kk.held EXCEPT ![p] = @ \cup {Head(kk.sys_free_env_q)}]]
  BY <1>1 DEF SysGranted, Granted, KernelState
<1> HIDE DEF ll
<1>5. ll \in KernelState /\ SameProcesses(kk, ll) /\ TakesReserve(kk, ll, p)
  BY <1>1, <1>2, <1>3, <1>4 DEF KernelState, SameProcesses, TakesReserve
<1>6. KernelMidway(ll) /\ (SomebodyReady(kk) => SomebodyReady(ll))
  BY <1>5, MailKept DEF TakesReserve
<1> QED
  BY <1>5, <1>6 DEF ll

LEMMA RequestByIProcessOk ==
    ASSUME NEW kk, KernelOk(kk), NEW p \in IProc
    PROVE  /\ KernelOk(RequestByIProcess(kk, p))
           /\ \/ kk.free_env_q # <<>> /\ TakesFree(kk, RequestByIProcess(kk, p), p)
              \/ kk.sys_free_env_q # <<>> /\ TakesReserve(kk, RequestByIProcess(kk, p), p)
              \/ RequestByIProcess(kk, p) = kk
<1>1. p \in Proc
  BY Pids
<1>2. CASE kk.free_env_q # <<>>
  <2>1. RequestByIProcess(kk, p) = FreeGranted(kk, p)
    BY <1>2 DEF RequestByIProcess
  <2> QED
    BY <1>1, <1>2, <2>1, FreeGrantedOk DEF KernelOk
<1>3. CASE kk.free_env_q = <<>> /\ kk.sys_free_env_q # <<>>
  <2>1. RequestByIProcess(kk, p) = SysGranted(kk, p)
    BY <1>3 DEF RequestByIProcess
  <2> QED
    BY <1>1, <1>3, <2>1, SysGrantedOk DEF KernelOk
<1>4. CASE kk.free_env_q = <<>> /\ kk.sys_free_env_q = <<>>
  BY <1>4 DEF RequestByIProcess
<1> QED
  BY <1>2, <1>3, <1>4

LEMMA SameEnvelopesAfter ==
    ASSUME NEW kk, NEW mm, NEW ll, SameEnvelopes(mm, ll), NEW p, NEW e, NEW dest
    PROVE  /\ Sends(kk, mm, p, dest, e) => Sends(kk, ll, p, dest, e)
           /\ Frees(kk, mm, p, e) => Frees(kk, ll, p, e)
  BY DEF SameEnvelopes, Sends, Frees

LEMMA ReleaseOk ==
    ASSUME NEW kk, KernelOk(kk), NEW p \in Proc, NEW env \in Envs
    PROVE  /\ KernelOk(k_release_msg_env(kk, p, env))
           /\ k_release_msg_env(kk, p, env).current_process = kk.current_process
           /\ Releases(kk, k_release_msg_env(kk, p, env), p, env)
<1> DEFINE owned == [kk.env_owned EXCEPT ![p] = @ - 1]
           held0 == [kk.held EXCEPT ![p] = @ \ {env}]
           freed == [kk EXCEPT !.env_owned = owned, !.held = held0,
                               !.free_env_q = Append(kk.free_env_q, env)]
           back == [kk EXCEPT !.env_owned = owned, !.held = held0,
                              !.sys_free_env_q = Append(kk.sys_free_env_q, env)]
           ll == k_release_msg_env(kk, p, env)
<1>1. kk \in KernelState /\ KernelMidway(kk)
  BY DEF KernelMidway, KernelOk
<1>2. owned \in [Proc -> Int] /\ held0 \in [Proc -> SUBSET Envs]
  BY <1>1 DEF KernelState
<1>3. CASE env \in SysEnv
  <2>1. Append(kk.sys_free_env_q, env) \in Seq(SysEnv)
    BY <1>1, <1>3 DEF KernelState
  <2>2. ll = back
    BY <1>1, <1>3 DEF k_release_msg_env, k_is_msg_env_sys_env, Disowned, KernelState
  <2> HIDE DEF owned, held0
  <2>3. back \in KernelState /\ SameProcesses(kk, back) /\ back.recv_msgs = kk.recv_msgs
    BY <1>1, <1>2, <2>1 DEF KernelState, SameProcesses
  <2>4. PutsBack(kk, back, p, env)
    BY <1>1 DEF KernelState, PutsBack, owned, held0
  <2> HIDE DEF back
  <2> QED
    BY <1>1, <1>3, <2>2, <2>3, <2>4, MailKept DEF Releases, KernelOk, SameProcesses
<1>4. CASE env \notin SysEnv
  <2>1. Append(kk.free_env_q, env) \in Seq(Env)
    BY <1>1, <1>4 DEF KernelState, Envs
  <2>2. ll = WakeRequester(freed)
    BY <1>1, <1>4 DEF k_release_msg_env, k_is_msg_env_sys_env, Disowned, KernelState
  <2> HIDE DEF owned, held0
  <2>3. freed \in KernelState /\ SameProcesses(kk, freed) /\ freed.recv_msgs = kk.recv_msgs
    BY <1>1, <1>2, <2>1 DEF KernelState, SameProcesses
  <2>4. Frees(kk, freed, p, env)
    BY <1>1 DEF KernelState, Frees, owned, held0
  <2> HIDE DEF freed, ll
  <2>5. KernelMidway(freed) /\ SomebodyReady(freed)
    BY <1>1, <2>3, MailKept DEF KernelOk
  <2>6. /\ KernelMidway(ll) /\ SomebodyReady(ll)
        /\ SameEnvelopes(freed, ll) /\ ll.current_process = freed.current_process
    BY <2>2, <2>5, WakeRequesterOk
  <2>7. Frees(kk, ll, p, env)
    BY <2>4, <2>6, SameEnvelopesAfter
  <2> QED
    BY <1>4, <2>3, <2>6, <2>7 DEF Releases, KernelOk, SameProcesses, ll
<1> QED
  BY <1>3, <1>4

LEMMA MailForIsMessage ==
    ASSUME NEW p \in Proc
    PROVE  /\ MailFor(p) \subseteq AnyMessage
           /\ \A s \in Seq(MailFor(p)) : s \in Seq(AnyMessage)
<1>1. MailFor(p) \subseteq AnyMessage
  BY DEF MailFor, AnyMessage, MessagesWith, UserProc
<1> HIDE DEF MailFor, AnyMessage
<1>2. \A s \in Seq(MailFor(p)) : s \in Seq(AnyMessage)
  BY <1>1
<1> QED
  BY <1>1, <1>2

LEMMA PostedMailOk ==
    ASSUME NEW kk, KernelMidway(kk), NEW dest \in Proc, NEW box \in Seq(MailFor(dest))
    PROVE  /\ [kk.recv_msgs EXCEPT ![dest] = box] \in [Proc -> Seq(AnyMessage)]
           /\ \A p \in Proc : [kk.recv_msgs EXCEPT ![dest] = box][p] \in Seq(MailFor(p))
<1>1. kk.recv_msgs \in [Proc -> Seq(AnyMessage)] /\ \A p \in Proc : kk.recv_msgs[p] \in Seq(MailFor(p))
  BY DEF KernelMidway, KernelState, MailOk
<1>2. box \in Seq(AnyMessage)
  BY MailForIsMessage
<1> QED
  BY <1>1, <1>2

LEMMA SendOk ==
    ASSUME NEW kk, KernelOk(kk), NEW p \in Proc, NEW dest \in Proc, NEW m \in MailFor(dest)
    PROVE  /\ KernelOk(k_send_message(kk, p, dest, m))
           /\ k_send_message(kk, p, dest, m).current_process = kk.current_process
           /\ Sends(kk, k_send_message(kk, p, dest, m), p, dest, m)
<1> DEFINE owned == [[kk.env_owned EXCEPT ![p] = @ - 1] EXCEPT ![dest] = @ + 1]
           held0 == [kk.held EXCEPT ![p] = @ \ {m.env}]
           box == Append(kk.recv_msgs[dest], m)
           mail == [kk.recv_msgs EXCEPT ![dest] = box]
           sent == [kk EXCEPT !.env_owned = owned, !.held = held0, !.recv_msgs = mail]
           ll == k_send_message(kk, p, dest, m)
<1>1. kk \in KernelState /\ KernelMidway(kk) /\ SomebodyReady(kk)
  BY DEF KernelMidway, KernelOk
<1>2. owned \in [Proc -> Int] /\ held0 \in [Proc -> SUBSET Envs]
  BY <1>1 DEF KernelState
<1>3. box \in Seq(MailFor(dest))
  BY <1>1 DEF KernelMidway, MailOk
<1>4. mail \in [Proc -> Seq(AnyMessage)] /\ \A r \in Proc : mail[r] \in Seq(MailFor(r))
  <2> HIDE DEF box
  <2> QED
    BY <1>1, <1>3, PostedMailOk
<1>5. Posted(Disowned(kk, p, m.env), dest, m) = sent
  BY <1>1 DEF Posted, Disowned, KernelState
<1>6. /\ kk.state[dest] = "P_BLOCKED_ON_RECEIVE" => ll = MakeReady(sent, dest)
      /\ kk.state[dest] # "P_BLOCKED_ON_RECEIVE" => ll = sent
  <2>1. sent.state = kk.state
    BY <1>1 DEF KernelState
  <2> HIDE DEF sent
  <2> QED
    BY <1>5, <2>1 DEF k_send_message
<1>7. \A r \in Proc \ {dest} : mail[r] = kk.recv_msgs[r]
  BY <1>1 DEF KernelState
<1> HIDE DEF owned, held0, mail, box
<1>8. sent \in KernelState /\ SameProcesses(kk, sent) /\ sent.recv_msgs = mail
  BY <1>1, <1>2, <1>4 DEF KernelState, SameProcesses
<1>9. Sends(kk, sent, p, dest, m)
  BY <1>1 DEF KernelState, Sends, owned, held0, mail, box
<1> HIDE DEF sent, ll
<1>10. MailOk(sent)
  BY <1>4, <1>8 DEF MailOk
<1>11. KernelBut(sent, dest) /\ SomebodyReady(sent)
  BY <1>1, <1>7, <1>8, <1>10, EnvelopesReplaced DEF UserProc
<1>12. CASE kk.state[dest] = "P_BLOCKED_ON_RECEIVE"
  <2>1. dest \in UserProc
    BY <1>1, <1>12, BlockedIsUser
  <2>0. ll = MakeReady(sent, dest)
    BY <1>6, <1>12
  <2>2. /\ KernelMidway(ll) /\ SomebodyReady(ll)
        /\ SameEnvelopes(sent, ll) /\ ll.current_process = sent.current_process
    BY <1>11, <2>0, <2>1, MakeReadyOk
  <2>3. Sends(kk, ll, p, dest, m)
    BY <1>9, <2>2, SameEnvelopesAfter
  <2> QED
    BY <1>8, <2>2, <2>3 DEF KernelOk, SameProcesses, ll
<1>13. CASE kk.state[dest] # "P_BLOCKED_ON_RECEIVE"
  <2>1. ll = sent
    BY <1>6, <1>13
  <2>2. KernelMidway(sent)
    BY <1>8, <1>11, <1>13 DEF KernelBut, KernelMidway, AwakeForMail, SameProcesses
  <2> QED
    BY <1>8, <1>9, <1>11, <2>1, <2>2 DEF KernelOk, SameProcesses, ll
<1> QED
  BY <1>12, <1>13

LEMMA MailTakenOk ==
    ASSUME NEW kk, KernelOk(kk), NEW p \in Proc, kk.recv_msgs[p] # <<>>
    PROVE  /\ KernelOk(MailTaken(kk, p))
           /\ SameProcesses(kk, MailTaken(kk, p))
           /\ TakesMail(kk, MailTaken(kk, p), p)
           /\ Head(kk.recv_msgs[p]) \in MailFor(p)
           /\ Head(kk.recv_msgs[p]).env \in Envs
<1> DEFINE held0 == [kk.held EXCEPT ![p] = @ \cup {Head(kk.recv_msgs[p]).env}]
           box == Tail(kk.recv_msgs[p])
           mail == [kk.recv_msgs EXCEPT ![p] = box]
           ll == MailTaken(kk, p)
<1>1. kk \in KernelState /\ KernelMidway(kk) /\ SomebodyReady(kk)
  BY DEF KernelMidway, KernelOk
<1>2. kk.recv_msgs[p] \in Seq(MailFor(p)) /\ box \in Seq(MailFor(p)) /\ Head(kk.recv_msgs[p]) \in MailFor(p)
  BY <1>1 DEF KernelMidway, MailOk
<1>3. Head(kk.recv_msgs[p]).env \in Envs
  BY <1>2, MailForIsMessage DEF AnyMessage, MessagesWith
<1>4. held0 \in [Proc -> SUBSET Envs]
  BY <1>1, <1>3 DEF KernelState
<1>5. mail \in [Proc -> Seq(AnyMessage)] /\ \A r \in Proc : mail[r] \in Seq(MailFor(r))
  <2> HIDE DEF box
  <2> QED
    BY <1>1, <1>2, PostedMailOk
<1>6. ll = [kk EXCEPT !.recv_msgs = mail, !.held = held0]
  BY <1>1 DEF MailTaken, KernelState
<1>7. \A r \in Proc \ {p} : mail[r] = kk.recv_msgs[r]
  BY <1>1 DEF KernelState
<1> HIDE DEF held0, mail, box, ll
<1>8. ll \in KernelState /\ SameProcesses(kk, ll) /\ ll.recv_msgs = mail
  BY <1>1, <1>4, <1>5, <1>6 DEF KernelState, SameProcesses
<1>9. TakesMail(kk, ll, p)
  BY <1>1, <1>6 DEF KernelState, TakesMail, held0, mail, box
<1>10. MailOk(ll)
  BY <1>5, <1>8 DEF MailOk
<1>11. KernelBut(ll, p) /\ SomebodyReady(ll)
  BY <1>1, <1>7, <1>8, <1>10, EnvelopesReplaced DEF UserProc
<1>12. p \in UserProc => ll.state[p] # "P_BLOCKED_ON_RECEIVE"
  BY <1>1, <1>8 DEF KernelMidway, AwakeForMail, SameProcesses
<1>13. KernelMidway(ll)
  BY <1>11, <1>12 DEF KernelBut, KernelMidway, AwakeForMail
<1> QED
  BY <1>2, <1>3, <1>8, <1>9, <1>11, <1>13 DEF KernelOk, ll

LEMMA MailboxEmptiedOk ==
    ASSUME NEW kk, KernelOk(kk), NEW p \in IProc
    PROVE  /\ KernelOk(MailboxEmptied(kk, p))
           /\ SameProcesses(kk, MailboxEmptied(kk, p))
           /\ TakesAllMail(kk, MailboxEmptied(kk, p), p)
<1> DEFINE held0 == [kk.held EXCEPT ![p] = @ \cup Envelopes(kk.recv_msgs[p])]
           mail == [kk.recv_msgs EXCEPT ![p] = <<>>]
           ll == MailboxEmptied(kk, p)
<1>1. kk \in KernelState /\ KernelMidway(kk) /\ SomebodyReady(kk) /\ p \in Proc
  BY Pids DEF KernelMidway, KernelOk
<1>2. <<>> \in Seq(MailFor(p))
  OBVIOUS
<1>3. Envelopes(kk.recv_msgs[p]) \subseteq Envs
  <2>1. kk.recv_msgs[p] \in Seq(AnyMessage)
    BY <1>1 DEF KernelState
  <2>2. \A m \in AnyMessage : m.env \in Envs
    BY DEF AnyMessage, MessagesWith
  <2> HIDE DEF AnyMessage
  <2> QED
    BY <2>1, <2>2 DEF Envelopes
<1>4. held0 \in [Proc -> SUBSET Envs]
  BY <1>1, <1>3 DEF KernelState
<1>5. mail \in [Proc -> Seq(AnyMessage)] /\ \A r \in Proc : mail[r] \in Seq(MailFor(r))
  BY <1>1, <1>2, PostedMailOk
<1>6. ll = [kk EXCEPT !.recv_msgs = mail, !.held = held0]
  BY <1>1 DEF MailboxEmptied, KernelState
<1>7. \A r \in Proc \ {p} : mail[r] = kk.recv_msgs[r]
  BY <1>1 DEF KernelState
<1> HIDE DEF held0, mail, ll
<1>8. ll \in KernelState /\ SameProcesses(kk, ll) /\ ll.recv_msgs = mail
  BY <1>1, <1>4, <1>5, <1>6 DEF KernelState, SameProcesses
<1>9. TakesAllMail(kk, ll, p)
  BY <1>1, <1>6 DEF KernelState, TakesAllMail, held0, mail
<1>10. MailOk(ll)
  BY <1>5, <1>8 DEF MailOk
<1>11. KernelBut(ll, p) /\ SomebodyReady(ll)
  BY <1>1, <1>7, <1>8, <1>10, EnvelopesReplaced DEF UserProc
<1>13. KernelMidway(ll)
  BY <1>11, Pids DEF KernelBut, KernelMidway, AwakeForMail, UserProc
<1> QED
  BY <1>8, <1>9, <1>11, <1>13 DEF KernelOk, ll

-----------------------------------------------------------------------------
(* Loops over a sequence, which the model writes as recursive functions    *)

(* A step of the loop is a function of the number of the turn and of what  *)
(* the turn before left.                                                   *)
Turns(N, D) == [(1 .. N) \X D -> D]

IsLoop(g, N, D, base, F) ==
    /\ g \in [0 .. N -> D]
    /\ g[0] = base
    /\ \A i \in 1 .. N : g[i] = F[<<i, g[i - 1]>>]

LEMMA LoopDefines ==
    ASSUME NEW D, NEW base \in D, NEW N \in Nat, NEW F \in Turns(N, D)
    PROVE  \E g : IsLoop(g, N, D, base, F)
<1> USE DEF Turns
<1> DEFINE Good(g, n) == /\ g[0] = base
                         /\ \A i \in 1 .. n : g[i] = F[<<i, g[i - 1]>>]
           S == {n \in 0 .. N : ~ \E g \in [0 .. n -> D] : Good(g, n)}
<1>1. S = {}
  <2> SUFFICES ASSUME S # {} PROVE FALSE
    OBVIOUS
  <2>0. S \subseteq Nat
    OBVIOUS
  <2> HIDE DEF S
  <2>1. PICK n \in S : \A m \in S : n <= m
    BY <2>0, NatLeast
  <2> USE DEF S
  <2>2. CASE n = 0
    <3>1. [i \in 0 .. 0 |-> base] \in [0 .. 0 -> D] /\ Good([i \in 0 .. 0 |-> base], 0)
      OBVIOUS
    <3> QED
      BY <2>1, <2>2, <3>1
  <2>3. CASE n # 0
    <3>a. n \in 0 .. N
      BY <2>1
    <3>b. n \in 1 .. N /\ n - 1 \in 0 .. N /\ ~(n <= n - 1)
      BY <2>3, <3>a
    <3>0. n \in 1 .. N /\ n - 1 \in 0 .. N /\ n - 1 \notin S
      <4> HIDE DEF S
      <4> QED
        BY <2>1, <3>b
    <3>1. PICK g \in [0 .. n - 1 -> D] : Good(g, n - 1)
      BY <3>0
    <3> DEFINE last == F[<<n, g[n - 1]>>]
               h == [i \in 0 .. n |-> IF i = n THEN last ELSE g[i]]
    <3>2. last \in D
      BY <3>0
    <3> HIDE DEF last
    <3>3. h \in [0 .. n -> D]
      BY <3>0, <3>2
    <3>4. /\ h[n] = last
          /\ \A i \in 0 .. n - 1 : h[i] = g[i]
      BY <3>0
    <3> HIDE DEF h
    <3>5. ASSUME NEW i \in 1 .. n PROVE h[i] = F[<<i, h[i - 1]>>]
      <4>1. i - 1 \in 0 .. n - 1 /\ (i = n \/ i \in 1 .. n - 1)
        BY <3>0
      <4>2. h[i - 1] = g[i - 1]
        BY <3>4, <4>1
      <4>3. CASE i = n
        BY <3>4, <4>2, <4>3 DEF last
      <4>4. CASE i \in 1 .. n - 1
        <5>1. h[i] = g[i]
          BY <3>0, <3>4, <4>4
        <5> QED
          BY <3>1, <4>2, <4>4, <5>1
      <4> QED
        BY <4>1, <4>3, <4>4
    <3>6. Good(h, n)
      BY <3>0, <3>1, <3>4, <3>5
    <3> QED
      BY <2>1, <3>3, <3>6
  <2> QED
    BY <2>2, <2>3
<1>2. N \in 0 .. N
  OBVIOUS
<1>3. N \notin S
  <2> HIDE DEF S
  <2> QED
    BY <1>1
<1>4. PICK g \in [0 .. N -> D] : Good(g, N)
  BY <1>2, <1>3
<1> QED
  BY <1>4 DEF IsLoop

(* What holds before the loop and after every turn holds at its end.       *)
LEMMA LoopKeeps ==
    ASSUME NEW N \in Nat, NEW Holds, 0 \in Holds,
           \A i \in 1 .. N : i - 1 \in Holds => i \in Holds
    PROVE  \A i \in 0 .. N : i \in Holds
<1> DEFINE S == {i \in 0 .. N : i \notin Holds}
<1> SUFFICES ASSUME S # {} PROVE FALSE
  OBVIOUS
<1>0. S \subseteq Nat
  OBVIOUS
<1> HIDE DEF S
<1>1. PICK n \in S : \A m \in S : n <= m
  BY <1>0, NatLeast
<1> USE DEF S
<1>2. n # 0 /\ n \in 1 .. N /\ n - 1 \in 0 .. N /\ n - 1 \notin S
  BY <1>1
<1> QED
  BY <1>1, <1>2

-----------------------------------------------------------------------------
(* Boot                                                                    *)

(* The row of a process says what it is.                                   *)
LEMMA Rows ==
    /\ Len(itable) \in Nat
    /\ \A i \in 1 .. Len(itable) :
          /\ itable[i].pid \in Proc
          /\ itable[i].priority \in 0 .. NUM_PRIORITIES
          /\ itable[i].is_i_process \in BOOLEAN
          /\ k_get_process(itable[i].pid) = itable[i]
          /\ itable[i].is_i_process <=> itable[i].pid \in IProc
          /\ itable[i].priority = NUM_PRIORITIES <=> itable[i].pid = NULL_PID
    /\ \A p \in Proc : \E i \in 1 .. Len(itable) : itable[i].pid = p
    /\ \A i, j \in 1 .. Len(itable) : itable[i].pid = itable[j].pid => i = j
<1> DEFINE Row == [pid : Proc, priority : 0 .. NUM_PRIORITIES, is_i_process : BOOLEAN]
<1>1. /\ itable \in Seq(Row)
      /\ \A p \in Proc : \E i \in 1 .. Len(itable) : itable[i].pid = p
      /\ \A i, j \in 1 .. Len(itable) : itable[i].pid = itable[j].pid => i = j
      /\ \A i \in 1 .. Len(itable) :
            itable[i].priority = NUM_PRIORITIES <=> itable[i].pid = NULL_PID
  BY TableAssumption
<1>2. Len(itable) \in Nat /\ \A i \in 1 .. Len(itable) : itable[i] \in Row
  <2> HIDE DEF Row
  <2> QED
    BY <1>1
<1>3. ASSUME NEW i \in 1 .. Len(itable) PROVE k_get_process(itable[i].pid) = itable[i]
  BY <1>1 DEF k_get_process
<1>4. ASSUME NEW i \in 1 .. Len(itable) PROVE itable[i].is_i_process <=> itable[i].pid \in IProc
  BY <1>2, <1>3 DEF IProc
<1> QED
  BY <1>1, <1>2, <1>3, <1>4

(* A turn of the loop that makes the processes ready.                      *)
BootTurn(L, i) ==
    IF itable[i].is_i_process THEN L
    ELSE proc_queue_enqueue(L, <<"ready", itable[i].priority>>, itable[i].pid)

LEMMA BootLoop ==
    \E W : /\ W[0] = NoLinks
           /\ \A i \in 1 .. Len(itable) : W[i] = BootTurn(W[i - 1], i)
           /\ init_processes = W[Len(itable)]
<1> DEFINE N == Len(itable)
           D == LinksType(Queue)
           Step(g) == [i \in 0 .. N |-> IF i = 0 THEN NoLinks ELSE BootTurn(g[i - 1], i)]
           F == [x \in (1 .. N) \X D |-> BootTurn(x[2], x[1])]
           W == CHOOSE g : g = Step(g)
<1>0. N \in Nat /\ NoLinks \in D
  BY Rows DEF NoLinks, LinksType, ProcOrNull
<1>1. ASSUME NEW i \in 1 .. N, NEW L \in D
      PROVE  BootTurn(L, i) \in D
  <2>1. itable[i].pid \in Proc /\ <<"ready", itable[i].priority>> \in Queue
    BY Rows, QueueNames
  <2> QED
    BY <2>1, <1>1 DEF LinksType, ProcOrNull, proc_queue_enqueue, BootTurn
<1>2. F \in [(1 .. N) \X D -> D] /\ \A i \in 1 .. N, L \in D : F[<<i, L>>] = BootTurn(L, i)
  <2> HIDE DEF D, N
  <2> QED
    BY <1>1
<1>3. W = Step(W)
  <2>1. PICK g : IsLoop(g, N, D, NoLinks, F)
    <3> HIDE DEF D, N, F, Step, W
    <3>1. N \in Nat
      BY <1>0
    <3>2. NoLinks \in D
      BY <1>0
    <3>3. F \in Turns(N, D)
      BY <1>2 DEF Turns
    <3> QED
      BY <3>1, <3>2, <3>3, LoopDefines
  <2> USE DEF IsLoop
  <2> HIDE DEF D, N, F
  <2>2. ASSUME NEW i \in 1 .. N PROVE g[i] = BootTurn(g[i - 1], i)
    <3>1. i - 1 \in 0 .. N
      BY <1>0
    <3>2. g[i - 1] \in D
      BY <2>1, <3>1
    <3> QED
      BY <1>2, <2>1, <3>2
  <2>3. g = Step(g)
    BY <1>0, <2>1, <2>2
  <2> HIDE DEF Step
  <2> QED
    BY <2>3, Zenon
<1>4. init_processes = W[N]
  BY DEF init_processes, BootTurn
<1> HIDE DEF W
<1>5. W[0] = NoLinks /\ \A i \in 1 .. N : W[i] = BootTurn(W[i - 1], i)
  BY <1>0, <1>3
<1> QED
  BY <1>4, <1>5

LEMMA BootQueues ==
    /\ LinksOk(init_processes)
    /\ NullReady([queues |-> init_processes])
<1> DEFINE N == Len(itable)
<1>0. N \in Nat
  BY Rows
<1>5. PICK W : /\ W[0] = NoLinks
               /\ \A i \in 1 .. N : W[i] = BootTurn(W[i - 1], i)
               /\ init_processes = W[N]
  BY BootLoop
<1> DEFINE NullHead(i) == IF \E j \in 1 .. i : itable[j].pid = NULL_PID THEN NULL_PID ELSE NULL
           Holds == {i \in 0 .. N : LinksOk(W[i]) /\ W[i].head[NullQueue] = NullHead(i)}
<1>6. 0 \in Holds
  <2>1. LinksOk(NoLinks) /\ NoLinks.head[NullQueue] = NULL
    BY Pids, QueueNames DEF NoLinks, LinksOk, LinksType, ProcOrNull, Threads
  <2>2. NullHead(0) = NULL
    OBVIOUS
  <2> QED
    BY <1>0, <1>5, <2>1, <2>2
<1>7. ASSUME NEW i \in 1 .. N, i - 1 \in Holds
      PROVE  i \in Holds
  <2> DEFINE L == W[i - 1]
             p == itable[i].pid
             q == <<"ready", itable[i].priority>>
  <2>1. /\ p \in Proc /\ q \in Queue /\ (q = NullQueue <=> p = NULL_PID)
        /\ itable[i].is_i_process <=> p \in IProc
    BY Rows, QueueNames
  <2>2. LinksOk(L) /\ L.head[NullQueue] = NullHead(i - 1) /\ W[i] = BootTurn(L, i)
    BY <1>5, <1>7
  <2>3. p # NULL_PID => NullHead(i) = NullHead(i - 1)
    <3>1. \A j \in 1 .. i : j \in 1 .. i - 1 \/ j = i
      BY <1>0
    <3> QED
      BY <1>0, <3>1
  <2>4. p = NULL_PID => NullHead(i) = NULL_PID /\ NullHead(i - 1) = NULL
    <3>1. \A j \in 1 .. i - 1 : j \in 1 .. N /\ j # i
      BY <1>0
    <3>2. ASSUME p = NULL_PID, NEW j \in 1 .. i - 1
          PROVE  itable[j].pid # NULL_PID
      BY <3>1, <3>2, Rows
    <3>3. i \in 1 .. i
      BY <1>0
    <3> QED
      BY <3>2, <3>3
  <2> HIDE DEF NullHead, L, p, q
  <2>5. CASE p \in IProc
    <3>1. W[i] = L /\ p # NULL_PID
      BY <2>1, <2>2, <2>5, Pids DEF Threads, BootTurn
    <3> QED
      BY <2>2, <2>3, <3>1
  <2>6. CASE p \notin IProc
    <3>1. W[i] = proc_queue_enqueue(L, q, p) /\ p \in Threads
      BY <2>1, <2>2, <2>6 DEF q, p, Threads, BootTurn
    <3>2. q = NullQueue => L.head[q] = NULL
      BY <2>1, <2>2, <2>4
    <3>3. LinksOk(W[i]) /\ (q = NullQueue => W[i].head[NullQueue] = NULL_PID)
          /\ (q # NullQueue => W[i].head[NullQueue] = L.head[NullQueue])
      BY <2>1, <2>2, <3>1, <3>2, EnqueueLinks
    <3> QED
      BY <2>1, <2>2, <2>3, <2>4, <3>3
  <2> QED
    BY <2>5, <2>6
<1>8. N \in Holds
  <2> HIDE DEF Holds, N
  <2>1. \A i \in 0 .. N : i \in Holds
    BY <1>0, <1>6, <1>7, LoopKeeps
  <2> QED
    BY <1>0, <2>1
<1>9. NullHead(N) = NULL_PID
  BY Rows, Pids DEF Threads
<1> QED
  BY <1>5, <1>8, <1>9 DEF NullReady

LEMMA AppendElement ==
    ASSUME NEW S \in {Env, SysEnv}, NEW s \in Seq(S), NEW e \in S
    PROVE  /\ Elements(Append(s, e)) = Elements(s) \cup {e}
           /\ Once(s) /\ e \notin Elements(s) => Once(Append(s, e))
<1>1. /\ Len(s) \in Nat /\ Len(Append(s, e)) = Len(s) + 1
      /\ \A i \in 1 .. Len(s) : Append(s, e)[i] = s[i]
      /\ Append(s, e)[Len(s) + 1] = e
  OBVIOUS
<1>2. \A i \in 1 .. Len(s) + 1 : i \in 1 .. Len(s) \/ i = Len(s) + 1
  BY <1>1
<1>3. (\A i \in 1 .. Len(s) : i \in 1 .. Len(s) + 1) /\ Len(s) + 1 \in 1 .. Len(s) + 1
  BY <1>1
<1> HIDE DEF Append, Len
<1>5. Elements(Append(s, e)) = Elements(s) \cup {e}
  BY <1>1, <1>2, <1>3, Zenon DEF Elements
<1>6. ASSUME Once(s), e \notin Elements(s) PROVE Once(Append(s, e))
  <2>1. \A i \in 1 .. Len(s) : s[i] # e
    BY <1>6 DEF Elements
  <2> QED
    BY <1>1, <1>2, <1>6, <2>1 DEF Once
<1> QED
  BY <1>5, <1>6

(* A list without repetitions is as long as the set of its elements.       *)
LEMMA OnceLength ==
    ASSUME NEW S \in {Env, SysEnv}, NEW s \in Seq(S), Once(s)
    PROVE  Len(s) = Cardinality(Elements(s))
<1>1. Len(s) \in Nat /\ s \in [1 .. Len(s) -> Elements(s)]
  BY DEF Elements
<1>2. IsFiniteSet(1 .. Len(s)) /\ Cardinality(1 .. Len(s)) = Len(s)
  BY <1>1, OneToN, Zenon
<1>3. s \in Surjection(1 .. Len(s), Elements(s)) /\ s \in Injection(1 .. Len(s), Elements(s))
  BY <1>1 DEF Surjection, Injection, IsInjective, Elements, Once
<1> QED
  BY <1>2, <1>3, FS_Surjection

(* One turn of the loop that fills a pool.                                 *)
Remaining(S, queue) == CHOOSE e \in S : e \notin Elements(queue)

FillsBy(g, S) ==
    /\ g[0] = <<>>
    /\ \A i \in 1 .. Cardinality(S) :
          Elements(g[i - 1]) # S => g[i] = Append(g[i - 1], Remaining(S, g[i - 1]))

(* As long as turns remain, so do envelopes: after i turns the queue holds *)
(* i of them, each once.                                                   *)
LEMMA FillsOnce ==
    ASSUME NEW S \in {Env, SysEnv}, NEW g, FillsBy(g, S)
    PROVE  /\ Cardinality(S) \in Nat
           /\ \A i \in 0 .. Cardinality(S) : g[i] \in Seq(S) /\ Len(g[i]) = i /\ Once(g[i])
<1> DEFINE n == Cardinality(S)
           Holds == {i \in 0 .. n : g[i] \in Seq(S) /\ Len(g[i]) = i /\ Once(g[i])}
<1>0. IsFiniteSet(S)
  BY EnvelopeAssumption, FS_Subset
<1>1. n \in Nat
  BY <1>0, FS_CardinalityType
<1>2. /\ g[0] = <<>>
      /\ \A i \in 1 .. n : Elements(g[i - 1]) # S => g[i] = Append(g[i - 1], Remaining(S, g[i - 1]))
  BY DEF FillsBy
<1>3. \A t \in Seq(S) : Once(t) => Len(t) = Cardinality(Elements(t))
  BY OnceLength
<1>4. \A t \in Seq(S) : Elements(t) = S => Cardinality(Elements(t)) = n
  OBVIOUS
<1>5. \A t \in Seq(S) : Elements(t) \subseteq S
  BY DEF Elements
<1> HIDE DEF n
<1>6. 0 \in Holds
  <2>1. <<>> \in Seq(S) /\ Len(<<>>) = 0 /\ Once(<<>>)
    BY DEF Once
  <2>2. 0 \in 0 .. n
    BY <1>1
  <2>3. g[0] \in Seq(S) /\ Len(g[0]) = 0 /\ Once(g[0])
    BY <1>2, <2>1
  <2> HIDE DEF Once
  <2> QED
    BY <2>2, <2>3
<1>7. ASSUME NEW i \in 1 .. n, i - 1 \in Holds PROVE i \in Holds
  <2> DEFINE t == g[i - 1]
             e == Remaining(S, t)
  <2>1. t \in Seq(S) /\ Len(t) = i - 1 /\ Once(t)
    BY <1>7
  <2> HIDE DEF t
  <2>2. Elements(t) # S
    <3>1. Len(t) # n
      BY <1>1, <2>1
    <3> HIDE DEF Elements
    <3> QED
      BY <1>3, <1>4, <2>1, <3>1
  <2>3. e \in S /\ e \notin Elements(t)
    <3>1. \E d \in S : d \notin Elements(t)
      BY <1>5, <2>1, <2>2
    <3> QED
      BY <3>1 DEF Remaining
  <2>4. g[i] = Append(t, e)
    BY <1>2, <2>2 DEF t
  <2> HIDE DEF e
  <2>5. Append(t, e) \in Seq(S) /\ Len(Append(t, e)) = i
    BY <1>1, <2>1, <2>3
  <2>6. Once(Append(t, e))
    BY <2>1, <2>3, AppendElement
  <2>7. i \in 0 .. n
    BY <1>1
  <2> QED
    BY <2>4, <2>5, <2>6, <2>7, Zenon
<1> HIDE DEF Holds
<1>8. \A i \in 0 .. n : i \in Holds
  BY <1>1, <1>6, <1>7, LoopKeeps
<1> USE DEF Holds
<1> QED
  BY <1>1, <1>8 DEF n

(* A pool is filled with each of its envelopes once.                       *)
LEMMA PoolOrder ==
    ASSUME NEW S \in {Env, SysEnv}
    PROVE  SetOrder(S) \in Seq(S) /\ Elements(SetOrder(S)) = S /\ Once(SetOrder(S))
<1> DEFINE n == Cardinality(S)
           D == Seq(S)
           Turn(queue) == Append(queue, CHOOSE e \in S : e \notin Elements(queue))
           Step(g) == [i \in 0 .. n |-> IF i = 0 THEN <<>> ELSE Turn(g[i - 1])]
           F == [x \in (1 .. n) \X D |-> IF Elements(x[2]) = S THEN x[2] ELSE Turn(x[2])]
           W == CHOOSE g : g = Step(g)
<1>0. IsFiniteSet(S) /\ n \in Nat
  BY EnvelopeAssumption, FS_Subset, FS_CardinalityType
<1>1. ASSUME NEW queue \in D, Elements(queue) # S PROVE Turn(queue) \in D
  <2>1. \E e \in S : e \notin Elements(queue)
    BY <1>1 DEF Elements
  <2> DEFINE e == CHOOSE e \in S : e \notin Elements(queue)
  <2>2. e \in S
    BY <2>1
  <2> HIDE DEF e
  <2>3. Append(queue, e) \in D
    BY <2>2
  <2> QED
    BY <2>3 DEF e
<1>2. /\ F \in [(1 .. n) \X D -> D]
      /\ \A i \in 1 .. n, queue \in D :
            F[<<i, queue>>] = IF Elements(queue) = S THEN queue ELSE Turn(queue)
  <2> HIDE DEF Turn, D, n
  <2> QED
    BY <1>1
<1>3. \A queue : Turn(queue) = Append(queue, Remaining(S, queue))
  BY DEF Remaining
<1> HIDE DEF Turn
<1>4. W = Step(W)
  <2>1. PICK g : IsLoop(g, n, D, <<>>, F)
    <3> HIDE DEF D, n, F, Step, W
    <3>1. <<>> \in D
      BY DEF D
    <3>2. F \in Turns(n, D)
      BY <1>2 DEF Turns
    <3> QED
      BY <1>0, <3>1, <3>2, LoopDefines
  <2> USE DEF IsLoop
  <2>2. FillsBy(g, S)
    <3>1. ASSUME NEW i \in 1 .. n, Elements(g[i - 1]) # S PROVE g[i] = Turn(g[i - 1])
      <4> HIDE DEF D, n, F
      <4>1. i - 1 \in 0 .. n /\ g[i - 1] \in D
        BY <1>0, <2>1
      <4> QED
        BY <1>2, <2>1, <3>1, <4>1
    <3>2. g[0] = <<>>
      BY <2>1
    <3> HIDE DEF IsLoop, F
    <3> QED
      BY <1>3, <3>1, <3>2 DEF FillsBy
  <2>3. \A i \in 0 .. n : g[i] \in Seq(S) /\ Len(g[i]) = i /\ Once(g[i])
    BY <2>2, FillsOnce
  <2>4. ASSUME NEW i \in 1 .. n PROVE g[i] = Turn(g[i - 1])
    <3>1. i - 1 \in 0 .. n
      BY <1>0
    <3>2. g[i - 1] \in Seq(S) /\ Len(g[i - 1]) # n /\ Once(g[i - 1])
      BY <1>0, <2>3, <3>1
    <3>3. Elements(g[i - 1]) # S
      BY <3>2, OnceLength
    <3> HIDE DEF n
    <3> QED
      BY <1>3, <2>2, <3>3 DEF FillsBy, n
  <2> HIDE DEF F
  <2>5. g = Step(g)
    <3> HIDE DEF D, n
    <3> QED
      BY <1>0, <2>1, <2>4
  <2> HIDE DEF Step
  <2> QED
    BY <2>5, Zenon
<1>5. SetOrder(S) = W[n]
  BY DEF SetOrder, Turn
<1> HIDE DEF W
<1>6. W[0] = <<>> /\ \A i \in 1 .. n : W[i] = Turn(W[i - 1])
  <2> HIDE DEF n
  <2> QED
    BY <1>0, <1>4
<1>7. FillsBy(W, S)
  BY <1>3, <1>6 DEF FillsBy
<1>8. W[n] \in Seq(S) /\ Len(W[n]) = n /\ Once(W[n])
  <2>1. n \in 0 .. n
    <3> HIDE DEF n
    <3> QED
      BY <1>0
  <2> QED
    BY <1>7, <2>1, FillsOnce
<1>9. Elements(W[n]) = S
  <2>1. Elements(W[n]) \in SUBSET S
    BY <1>8 DEF Elements
  <2>2. Cardinality(Elements(W[n])) = Cardinality(S)
    BY <1>8, OnceLength
  <2> QED
    BY <1>0, <2>1, <2>2, FS_Subset
<1> QED
  BY <1>5, <1>8, <1>9

LEMMA BootOk == KernelOk(k_init)
<1> DEFINE q0 == proc_pq_first(init_processes, ready_pq)
           first == init_processes.head[q0]
           links == Tidy(proc_queue_dequeue(init_processes, q0))
           state0 == [p \in Proc |-> IF p = first THEN "P_EXECUTING" ELSE "P_READY"]
           priority0 == [p \in Proc |-> k_get_process(p).priority]
<1>1. LinksOk(init_processes) /\ init_processes.head[NullQueue] = NULL_PID
  BY BootQueues DEF NullReady
<1>2. NullQueue \in NonEmpty(init_processes, ready_pq)
  BY <1>1, QueueNames, Pids DEF NonEmpty, proc_queue_is_empty, Threads
<1>3. q0 \in Queue /\ first # NULL
  BY <1>2, QueueNames, FirstQueue
<1>4. first \in Threads /\ (first = NULL_PID <=> q0 = NullQueue)
  BY <1>1, <1>3, QueueNames DEF LinksOk, LinksType, ProcOrNull, Threads
<1>5. /\ LinksOk(links)
      /\ q0 = NullQueue => links.head[NullQueue] = NULL
      /\ q0 # NullQueue => links.head[NullQueue] = NULL_PID
  BY <1>1, <1>3, DequeueLinks, TidyLinks
<1>6. k_init = [current_process |-> first, state |-> state0, priority |-> priority0,
                queues |-> links,
                free_env_q |-> SetOrder(Env), sys_free_env_q |-> SetOrder(SysEnv),
                recv_msgs |-> [p \in Proc |-> <<>>],
                env_owned |-> [p \in Proc |-> 0],
                held |-> [p \in Proc |-> {}]]
  BY <1>2 DEF k_init, proc_pq_front, proc_pq_dequeue
<1>7. state0 \in [Proc -> process_state]
  BY DEF process_state
<1>8. /\ priority0 \in [Proc -> 0 .. NUM_PRIORITIES]
      /\ \A p \in Proc : priority0[p] = NUM_PRIORITIES <=> p = NULL_PID
  <2> SUFFICES ASSUME NEW p \in Proc
               PROVE  /\ priority0[p] \in 0 .. NUM_PRIORITIES
                      /\ priority0[p] = NUM_PRIORITIES <=> p = NULL_PID
    OBVIOUS
  <2>1. PICK i \in 1 .. Len(itable) : itable[i].pid = p
    BY Rows
  <2>2. priority0[p] = itable[i].priority
    BY <2>1, Rows
  <2> QED
    BY <2>1, <2>2, Rows
<1>9. /\ \A p \in IProc : state0[p] = "P_READY"
      /\ \A p \in Proc : state0[p] # "P_BLOCKED_ON_RECEIVE"
      /\ state0[NULL_PID] \in {"P_READY", "P_EXECUTING"}
  BY <1>4, Pids DEF Threads
<1>10. SetOrder(Env) \in Seq(Env) /\ SetOrder(SysEnv) \in Seq(SysEnv)
  BY PoolOrder
<1> HIDE DEF q0, first, links, state0, priority0
<1>11. links \in LinksType(Queue)
  BY <1>5 DEF LinksOk
<1>12. k_init \in KernelState
  BY <1>4, <1>6, <1>7, <1>8, <1>10, <1>11 DEF KernelState
<1>13. RanksOk(k_init)
  BY <1>6, <1>8, <1>9 DEF RanksOk
<1>14. AwakeForMail(k_init)
  BY <1>6 DEF AwakeForMail, UserProc
<1>15. MailOk(k_init)
  BY <1>6 DEF MailOk
<1>16. SomebodyReady(k_init)
  BY <1>4, <1>5, <1>6 DEF SomebodyReady, NullReady
<1> QED
  BY <1>5, <1>6, <1>12, <1>13, <1>14, <1>15, <1>16 DEF KernelOk, KernelMidway

-----------------------------------------------------------------------------
(* The list of timeouts                                                    *)

Node == [env : Envs, send_pid : UserProc, msg_type : MessageTypes, timeout : Nat]

DelayRequest == MessagesWith(UserProc, Delay)

NodeOf(m, now) ==
    [env |-> m.env, send_pid |-> m.send_pid, msg_type |-> m.msg_type, timeout |-> now + m.data]

(* s with x in place i, and the rest moved up.                             *)
Inserted(s, i, x) ==
    [j \in 1 .. Len(s) + 1 |-> IF j < i THEN s[j] ELSE IF j = i THEN x ELSE s[j - 1]]

LEMMA NodeType ==
    ASSUME NEW m \in DelayRequest, NEW now \in Nat
    PROVE  NodeOf(m, now) \in Node /\ NodeOf(m, now).timeout \in Nat
<1>1. /\ m.env \in Envs /\ m.send_pid \in UserProc /\ m.msg_type \in MessageTypes
      /\ m.data \in Delay
  BY DEF DelayRequest, MessagesWith
<1>2. m.data \in Nat
  <2>1. Delay \subseteq Nat
    BY BoardAssumption
  <2> QED
    BY <1>1, <2>1
<1>3. now + m.data \in Nat
  BY <1>2
<1> QED
  BY <1>1, <1>3 DEF NodeOf, Node

(* The loop of timeout_queue_insert ends, at the end of the list at last.  *)
LEMMA PlaceFound ==
    ASSUME NEW queue \in Seq(Node), queue # <<>>, NEW timeout \in Nat
    PROVE  /\ FirstNoSooner(queue, timeout) \in 2 .. Len(queue) + 1
           /\ FirstNoSooner(queue, timeout) <= Len(queue)
                 => timeout <= queue[FirstNoSooner(queue, timeout)].timeout
           /\ \A j \in 2 .. FirstNoSooner(queue, timeout) - 1 : queue[j].timeout < timeout
<1> DEFINE n == Len(queue)
           S == {i \in 2 .. n + 1 : i <= n => timeout <= queue[i].timeout}
<1>1. n \in Nat /\ n # 0 /\ \A i \in 1 .. n : queue[i].timeout \in Nat
  <2>1. \A x \in Node : x.timeout \in Nat
    BY DEF Node
  <2>2. n \in Nat /\ n # 0 /\ \A i \in 1 .. n : queue[i] \in Node
    OBVIOUS
  <2> QED
    BY <2>1, <2>2
<1>2. S \subseteq Nat /\ n + 1 \in S
  BY <1>1
<1>3. PICK i \in S : \A j \in S : i <= j
  <2> HIDE DEF S
  <2>1. S # {}
    BY <1>2
  <2> QED
    BY <1>2, <2>1, NatLeast
<1>4. i \in 2 .. n + 1 /\ (i <= n => timeout <= queue[i].timeout)
  BY <1>3
<1>5. ASSUME NEW j \in 2 .. i - 1 PROVE queue[j].timeout < timeout
  <2>1. j \in 2 .. n + 1 /\ j <= n /\ j \in 1 .. n /\ ~(i <= j)
    BY <1>1, <1>4
  <2>2. j \notin S
    <3> HIDE DEF S
    <3> QED
      BY <1>3, <2>1
  <2> QED
    BY <1>1, <2>1, <2>2
<1>6. \E x \in 2 .. Len(queue) + 1 :
         /\ x <= Len(queue) => timeout <= queue[x].timeout
         /\ \A j \in 2 .. x - 1 : queue[j].timeout < timeout
  BY <1>4, <1>5
<1> QED
  BY <1>6 DEF FirstNoSooner

(* All before i are due no later than x, and the one in place i no sooner. *)
Fits(s, i, x) ==
    /\ \A j \in 1 .. i - 1 : s[j].timeout <= x.timeout
    /\ i <= Len(s) => x.timeout <= s[i].timeout

(* The request becomes one more element of the list, where it fits.        *)
LEMMA InsertPlace ==
    ASSUME NEW queue \in Seq(Node), NEW m \in DelayRequest, NEW now \in Nat
    PROVE  \E i \in 1 .. Len(queue) + 1 :
              /\ timeout_queue_insert(queue, m, now) = Inserted(queue, i, NodeOf(m, now))
              /\ Fits(queue, i, NodeOf(m, now))
<1> DEFINE node == NodeOf(m, now)
           n == Len(queue)
           i0 == FirstNoSooner(queue, node.timeout)
           ins == timeout_queue_insert(queue, m, now)
<1>1. node \in Node /\ node.timeout \in Nat
  BY NodeType
<1>2. ins = IF queue = <<>> \/ node.timeout <= Head(queue).timeout
              THEN <<node>> \o queue
              ELSE SubSeq(queue, 1, i0 - 1) \o <<node>> \o SubSeq(queue, i0, n)
  BY DEF timeout_queue_insert, NodeOf
<1> HIDE DEF node, ins, i0
<1>3. n \in Nat
  OBVIOUS
<1>4. CASE queue = <<>> \/ node.timeout <= Head(queue).timeout
  <2>1. <<node>> \o queue = Inserted(queue, 1, node)
    BY <1>1 DEF Inserted
  <2>2. Fits(queue, 1, node)
    <3>1. \A j \in 1 .. 1 - 1 : FALSE
      OBVIOUS
    <3>2. 1 <= Len(queue) => queue # <<>> /\ Head(queue) = queue[1]
      OBVIOUS
    <3> QED
      BY <1>4, <3>1, <3>2 DEF Fits
  <2> QED
    BY <1>2, <1>3, <1>4, <2>1, <2>2 DEF node, ins
<1>5. CASE ~(queue = <<>> \/ node.timeout <= Head(queue).timeout)
  <2>1. /\ i0 \in 2 .. n + 1
        /\ i0 <= n => node.timeout <= queue[i0].timeout
        /\ \A j \in 2 .. i0 - 1 : queue[j].timeout < node.timeout
    BY <1>1, <1>5, PlaceFound DEF i0
  <2>2. SubSeq(queue, 1, i0 - 1) \o <<node>> \o SubSeq(queue, i0, n) = Inserted(queue, i0, node)
    BY <1>1, <1>3, <2>1 DEF Inserted
  <2>3. Fits(queue, i0, node)
    <3>1. queue # <<>> /\ Head(queue) = queue[1] /\ 1 \in 1 .. n /\ n \in Nat
      BY <1>5
    <3>2. \A j \in 1 .. n : queue[j].timeout \in Nat
      <4>1. \A x \in Node : x.timeout \in Nat
        BY DEF Node
      <4>2. \A j \in 1 .. n : queue[j] \in Node
        OBVIOUS
      <4> QED
        BY <4>1, <4>2
    <3>3. ~(node.timeout <= queue[1].timeout)
      BY <1>5, <3>1
    <3> HIDE DEF n
    <3>4. ASSUME NEW j \in 1 .. i0 - 1 PROVE queue[j].timeout <= node.timeout
      <4>1. j \in 1 .. n /\ (j = 1 \/ j \in 2 .. i0 - 1)
        BY <2>1, <3>1
      <4>2. queue[j].timeout \in Nat
        BY <3>2, <4>1
      <4> QED
        BY <1>1, <2>1, <3>3, <4>1, <4>2
    <3> QED
      BY <2>1, <3>4 DEF Fits, n
  <2>4. i0 \in 1 .. n + 1
    BY <1>3, <2>1
  <2>5. ins = Inserted(queue, i0, node)
    BY <1>2, <1>5, <2>2
  <2> HIDE DEF n
  <2> QED
    BY <2>3, <2>4, <2>5 DEF node, ins, n
<1> QED
  BY <1>4, <1>5

LEMMA InsertedType ==
    ASSUME NEW s \in Seq(Node), NEW x \in Node, NEW i \in 1 .. Len(s) + 1
    PROVE  /\ Inserted(s, i, x) \in Seq(Node)
           /\ Len(Inserted(s, i, x)) = Len(s) + 1
  BY DEF Inserted

LEMMA InsertType ==
    ASSUME NEW queue \in Seq(Node), NEW m \in DelayRequest, NEW now \in Nat
    PROVE  timeout_queue_insert(queue, m, now) \in Seq(Node)
  BY InsertPlace, InsertedType, NodeType

(* The timeout queue after each turn of the loop that enters the mailbox.  *)
InsertTurns(W, queue, mail, now) ==
    /\ W \in [0 .. Len(mail) -> Seq(Node)]
    /\ W[0] = queue
    /\ \A i \in 1 .. Len(mail) : W[i] = timeout_queue_insert(W[i - 1], mail[i], now)
    /\ InsertAll(queue, mail, now) = W[Len(mail)]

(* The mailbox is entered message by message.                              *)
LEMMA InsertAllLoop ==
    ASSUME NEW queue \in Seq(Node), NEW mail \in Seq(DelayRequest), NEW now \in Nat
    PROVE  \E W : InsertTurns(W, queue, mail, now)
<1> DEFINE N == Len(mail)
           D == Seq(Node)
           Turn(q, i) == timeout_queue_insert(q, mail[i], now)
           Step(g) == [i \in 0 .. N |-> IF i = 0 THEN queue ELSE Turn(g[i - 1], i)]
           F == [x \in (1 .. N) \X D |-> Turn(x[2], x[1])]
           W == CHOOSE g : g = Step(g)
<1>1. N \in Nat /\ queue \in D /\ \A i \in 1 .. N : mail[i] \in DelayRequest
  OBVIOUS
<1>2. InsertAll(queue, mail, now) = W[N]
  BY DEF InsertAll
<1>3. \A i \in 1 .. N, q \in D : Turn(q, i) \in D
  BY <1>1, InsertType
<1>4. F \in Turns(N, D) /\ \A i \in 1 .. N, q \in D : F[<<i, q>>] = Turn(q, i)
  <2> HIDE DEF Turn, D, N
  <2> QED
    BY <1>3 DEF Turns
<1> HIDE DEF D, N, F, Turn, W, Step
<1>5. PICK g : IsLoop(g, N, D, queue, F)
  BY <1>1, <1>4, LoopDefines
<1>6. ASSUME NEW i \in 1 .. N PROVE g[i] = Turn(g[i - 1], i)
  <2>1. i - 1 \in 0 .. N
    BY <1>1
  <2>2. g[i - 1] \in D
    BY <1>5, <2>1 DEF IsLoop
  <2> QED
    BY <1>4, <1>5, <2>2 DEF IsLoop
<1>7. g = Step(g)
  BY <1>1, <1>5, <1>6 DEF IsLoop, Step
<1>8. W = Step(W)
  BY <1>7, Zenon DEF W
<1>9. /\ W = [i \in 0 .. N |-> W[i]]
      /\ W[0] = queue /\ \A i \in 1 .. N : W[i] = Turn(W[i - 1], i)
  BY <1>1, <1>8 DEF Step
<1> DEFINE Holds == {i \in 0 .. N : W[i] \in D}
<1>10. \A i \in 0 .. N : W[i] \in D
  <2>1. 0 \in Holds
    BY <1>1, <1>9
  <2>2. ASSUME NEW i \in 1 .. N, i - 1 \in Holds PROVE i \in Holds
    <3>1. i \in 0 .. N /\ W[i - 1] \in D
      BY <1>1, <2>2
    <3>2. W[i] \in D
      BY <1>3, <1>9, <3>1
    <3> QED
      BY <3>1, <3>2
  <2> HIDE DEF Holds
  <2>3. \A i \in 0 .. N : i \in Holds
    BY <1>1, <2>1, <2>2, LoopKeeps
  <2> QED
    BY <2>3 DEF Holds
<1>11. W \in [0 .. N -> D]
  BY <1>9, <1>10
<1>12. InsertTurns(W, queue, mail, now)
  BY <1>2, <1>9, <1>11 DEF N, D, Turn, InsertTurns
<1> QED
  BY <1>12, Zenon

LEMMA InsertAllType ==
    ASSUME NEW queue \in Seq(Node), NEW mail \in Seq(DelayRequest), NEW now \in Nat
    PROVE  InsertAll(queue, mail, now) \in Seq(Node)
<1>0. PICK W : InsertTurns(W, queue, mail, now)
  BY InsertAllLoop, Zenon
<1>1. W \in [0 .. Len(mail) -> Seq(Node)] /\ InsertAll(queue, mail, now) = W[Len(mail)]
  BY <1>0, Zenon DEF InsertTurns
<1>2. Len(mail) \in 0 .. Len(mail)
  OBVIOUS
<1> QED
  BY <1>1, <1>2

-----------------------------------------------------------------------------
(* The inductive invariant                                                 *)

(* Only user processes block, and so only they are suspended in a loop.    *)
CallsOk ==
    /\ call \in [Proc -> {"none", "request_msg_env", "receive_message"}]
    /\ \A p \in Proc : call[p] # "none" => p \in UserProc

TimingOk ==
    /\ clock \in 1 .. MaxTime
    /\ timeout_queue \in Seq(Node)

SerialOk ==
    /\ SERIAL1_IMR \in {2, 3}
    /\ out \in [OutBuffer : Text \cup {0}, outputIndex : Nat, output_print_char : BOOLEAN]
    /\ out.outputIndex <= out.OutBuffer
    /\ echoed \in BOOLEAN

BoardInv ==
    /\ KernelOk(k)
    /\ CallsOk
    /\ TimingOk
    /\ SerialOk
    /\ MaskFollowsOutput

LEMMA BoardInvInit == Init => BoardInv
<1> SUFFICES ASSUME Init PROVE BoardInv
  OBVIOUS
<1>1. KernelOk(k)
  BY BootOk DEF Init
<1>2. CallsOk
  BY DEF Init, CallsOk
<1>3. TimingOk
  BY BoardAssumption DEF Init, init_timer, TimingOk
<1>4. SerialOk
  <2>1. /\ Idle \in [OutBuffer : Text \cup {0}, outputIndex : Nat, output_print_char : BOOLEAN]
        /\ Idle.outputIndex <= Idle.OutBuffer
    BY DEF Idle
  <2> QED
    BY <2>1 DEF Init, init_uart, SerialOk
<1>5. MaskFollowsOutput
  <2>1. k.recv_msgs[UART_I_PROCESS_PID] = <<>>
    BY Pids DEF Init, k_init
  <2> QED
    BY <2>1 DEF Init, init_uart, Idle, MaskFollowsOutput, OutputPending, HasMail
<1> QED
  BY <1>1, <1>2, <1>3, <1>4, <1>5 DEF BoardInv

(* A step that leaves the serial port and its mailbox alone.               *)
LEMMA MaskKept ==
    ASSUME BoardInv, UNCHANGED serial,
           k'.recv_msgs[UART_I_PROCESS_PID] = k.recv_msgs[UART_I_PROCESS_PID]
    PROVE  SerialOk' /\ MaskFollowsOutput'
  BY DEF BoardInv, serial, SerialOk, MaskFollowsOutput, OutputPending, HasMail

LEMMA CallsKept ==
    ASSUME BoardInv, UNCHANGED call
    PROVE  CallsOk'
  BY DEF BoardInv, CallsOk

LEMMA TimingKept ==
    ASSUME BoardInv, UNCHANGED timing
    PROVE  TimingOk'
  BY DEF BoardInv, timing, TimingOk

LEMMA SelfType ==
    ASSUME BoardInv
    PROVE  /\ self \in Threads /\ self \in Proc /\ k.held[self] \subseteq Envs
           /\ k.recv_msgs \in [Proc -> Seq(AnyMessage)]
  BY Pids DEF BoardInv, self, KernelOk, KernelMidway, KernelState

(* The mail of the serial port after an operation on other mailboxes.      *)
LEMMA UartMailKept ==
    ASSUME BoardInv, NEW kk, NEW p, NEW dest \in UserProc, NEW e, NEW m
    PROVE  /\ Sends(k, kk, p, dest, m) =>
                kk.recv_msgs[UART_I_PROCESS_PID] = k.recv_msgs[UART_I_PROCESS_PID]
           /\ Releases(k, kk, p, e) => kk.recv_msgs = k.recv_msgs
           /\ SameEnvelopes(k, kk) => kk.recv_msgs = k.recv_msgs
           /\ TakesMail(k, kk, dest) =>
                kk.recv_msgs[UART_I_PROCESS_PID] = k.recv_msgs[UART_I_PROCESS_PID]
<1>1. k.recv_msgs \in [Proc -> Seq(AnyMessage)] /\ UART_I_PROCESS_PID \in Proc
      /\ dest # UART_I_PROCESS_PID
  BY SelfType, Pids DEF UserProc
<1> QED
  BY <1>1 DEF Sends, Releases, PutsBack, Frees, SameEnvelopes, TakesMail

-----------------------------------------------------------------------------
(* Traps                                                                   *)

(* What each stub makes the handler do.                                    *)
LEMMA TrapTable ==
    ASSUME NEW content
    PROVE  /\ kern_swi_handler(release_processor, content) =>
                k' = k_release_processor(k) /\ UNCHANGED <<call, timing, serial>>
           /\ kern_swi_handler(receive_message, content) =>
                ReceiveLoop /\ UNCHANGED <<timing, serial>>
           /\ kern_swi_handler(request_msg_env, content) =>
                RequestLoop /\ UNCHANGED <<timing, serial>>
           /\ \A n, p : kern_swi_handler(change_priority(n, p), content) =>
                k' = k_change_priority(k, n, p) /\ UNCHANGED <<call, timing, serial>>
           /\ \A e : kern_swi_handler(release_msg_env(e), content) =>
                k' = k_release_msg_env(k, self, e) /\ UNCHANGED <<call, timing, serial>>
           /\ \A e, d : kern_swi_handler(send_message(d, e), content) =>
                /\ k' = k_send_message(k, self, d, Message(e, self, content.msg_type, content.data))
                /\ UNCHANGED <<call, timing, serial>>
           /\ \A e, t, w : kern_swi_handler(request_delay(t, w, e), content) =>
                k_request_delay(e, t, w)
           /\ \A e, a : kern_swi_handler(send_console_chars(e, a), content) =>
                k_send_console_chars(e, a, content.data)
  BY DEF kern_swi_handler, Registers, release_processor, receive_message, request_msg_env,
         change_priority, release_msg_env, send_message, request_delay, send_console_chars,
         TRAP_TABLE_SEND_MESSAGE, TRAP_TABLE_RECEIVE_MESSAGE, TRAP_TABLE_REQUEST_MSG_ENV,
         TRAP_TABLE_RELEASE_MSG_ENV, TRAP_TABLE_RELEASE_PROCESSOR, TRAP_TABLE_CHANGE_PRIORITY,
         TRAP_TABLE_REQUEST_DELAY, TRAP_TABLE_SEND_CONSOLE_CHARS

(* A trap that leaves the calls, the timer and the serial port alone keeps *)
(* the invariant if it keeps the kernel's.                                 *)
LEMMA QuietTrap ==
    ASSUME BoardInv, UNCHANGED <<call, timing, serial>>, KernelOk(k'),
           k'.recv_msgs[UART_I_PROCESS_PID] = k.recv_msgs[UART_I_PROCESS_PID]
    PROVE  BoardInv'
  BY MaskKept, CallsKept, TimingKept DEF BoardInv

LEMMA LoopTurns ==
    ASSUME BoardInv, self \in UserProc, UNCHANGED <<timing, serial>>
    PROVE  /\ RequestLoop => BoardInv'
           /\ ReceiveLoop => BoardInv'
<1>0. /\ KernelOk(k) /\ KernelMidway(k) /\ self \in Proc /\ self # UART_I_PROCESS_PID
      /\ k.current_process # NULL_PID /\ k.current_process = self
      /\ k.recv_msgs \in [Proc -> Seq(AnyMessage)]
  BY Pids, SelfType DEF BoardInv, KernelOk, self, UserProc
<1>1. TimingOk'
  BY TimingKept
<1>2. ASSUME NEW c \in {"none", "request_msg_env", "receive_message"},
             call' = [call EXCEPT ![self] = c]
      PROVE  CallsOk'
  BY <1>0, <1>2 DEF BoardInv, CallsOk
<1>3. ASSUME KernelOk(k'), CallsOk',
             k'.recv_msgs[UART_I_PROCESS_PID] = k.recv_msgs[UART_I_PROCESS_PID]
      PROVE  BoardInv'
  BY <1>1, <1>3, MaskKept DEF BoardInv
<1>4. CASE RequestLoop
  <2>1. CASE k.free_env_q = <<>>
    <3>1. k' = RequestBlocks(k) /\ CallsOk'
      BY <1>2, <1>4, <2>1 DEF RequestLoop
    <3>2. KernelOk(k') /\ k'.recv_msgs = k.recv_msgs
      BY <1>0, <3>1, RequestBlocksOk DEF SameEnvelopes
    <3> QED
      BY <1>3, <3>1, <3>2
  <2>2. CASE k.free_env_q # <<>>
    <3>1. k' = FreeGranted(k, self) /\ CallsOk'
      BY <1>2, <1>4, <2>2 DEF RequestLoop
    <3>2. KernelOk(k') /\ k'.recv_msgs = k.recv_msgs
      BY <1>0, <2>2, <3>1, FreeGrantedOk DEF TakesFree, KernelOk
    <3> QED
      BY <1>3, <3>1, <3>2
  <2> QED
    BY <2>1, <2>2
<1>5. CASE ReceiveLoop
  <2>1. CASE HasMail(k, self)
    <3>1. k' = MailTaken(k, self) /\ CallsOk'
      BY <1>2, <1>5, <2>1 DEF ReceiveLoop
    <3>2. k.recv_msgs[self] # <<>>
      BY <2>1 DEF HasMail
    <3>3. KernelOk(k') /\ TakesMail(k, k', self)
      BY <1>0, <3>1, <3>2, MailTakenOk
    <3>4. k'.recv_msgs[UART_I_PROCESS_PID] = k.recv_msgs[UART_I_PROCESS_PID]
      BY <1>0, <3>3, Pids DEF TakesMail
    <3> QED
      BY <1>3, <3>1, <3>3, <3>4
  <2>2. CASE ~HasMail(k, self)
    <3>1. k' = k_process_switch(k, "P_BLOCKED_ON_RECEIVE") /\ CallsOk'
      BY <1>2, <1>5, <2>2 DEF ReceiveLoop
    <3>2. KernelOk(k') /\ k'.recv_msgs = k.recv_msgs
      BY <1>0, <2>2, <3>1, ReceiveBlocksOk DEF SameEnvelopes, HasMail
    <3> QED
      BY <1>3, <3>1, <3>2
  <2> QED
    BY <2>1, <2>2
<1> QED
  BY <1>4, <1>5

LEMMA ResumeKeeps ==
    ASSUME BoardInv, ResumeInLoop
    PROVE  BoardInv'
<1>1. self \in UserProc
  BY SelfType DEF BoardInv, CallsOk, ResumeInLoop
<1> QED
  BY <1>1, LoopTurns DEF ResumeInLoop

(* What may be sent to whom.                                               *)
LEMMA MessageType ==
    ASSUME NEW e \in Envs, NEW type \in MessageTypes, NEW data
    PROVE  /\ \A p \in Proc, d \in UserProc :
                 data \in Delay \cup Text \cup Line \cup {0} => Message(e, p, type, data) \in MailFor(d)
           /\ \A p \in UserProc : data \in Delay =>
                 Message(e, p, type, data) \in MailFor(TIMER_I_PROCESS_PID)
           /\ \A p \in UserProc : data \in Text =>
                 Message(e, p, type, data) \in MailFor(UART_I_PROCESS_PID)
           /\ Message(e, UART_I_PROCESS_PID, type, data).env = e
<1>1. /\ TIMER_I_PROCESS_PID # UART_I_PROCESS_PID
      /\ TIMER_I_PROCESS_PID \notin UserProc /\ UART_I_PROCESS_PID \notin UserProc
  BY BoardAssumption, Pids DEF UserProc
<1> QED
  BY <1>1 DEF Message, MailFor, AnyMessage, MessagesWith

LEMMA UserTrapKeeps ==
    ASSUME BoardInv, UserTrap
    PROVE  BoardInv'
<1> DEFINE content == Content("user", 0)
<1>0. /\ KernelOk(k) /\ self \in Proc /\ k.held[self] \subseteq Envs
      /\ TIMER_I_PROCESS_PID \in Proc /\ UART_I_PROCESS_PID \in Proc
      /\ TIMER_I_PROCESS_PID # UART_I_PROCESS_PID
      /\ k.recv_msgs \in [Proc -> Seq(AnyMessage)]
  BY SelfType, Pids, BoardAssumption DEF BoardInv
<1>1. CASE Trap(release_processor)
  <2>1. k' = k_release_processor(k) /\ UNCHANGED <<call, timing, serial>>
    BY <1>1, TrapTable DEF Trap
  <2>2. KernelOk(k') /\ k'.recv_msgs = k.recv_msgs
    BY <1>0, <2>1, ReleaseProcessorOk DEF SameEnvelopes
  <2> QED
    BY <2>1, <2>2, QuietTrap
<1>2. ASSUME self \in UserProc, Trap(receive_message) PROVE BoardInv'
  BY <1>2, TrapTable, LoopTurns DEF Trap
<1>3. ASSUME self \in UserProc, Trap(request_msg_env) PROVE BoardInv'
  BY <1>3, TrapTable, LoopTurns DEF Trap
<1>4. ASSUME NEW n \in 0 .. NUM_PRIORITIES - 1, NEW p \in Target, Trap(change_priority(n, p))
      PROVE  BoardInv'
  <2>1. k' = k_change_priority(k, n, p) /\ UNCHANGED <<call, timing, serial>>
    BY <1>4, TrapTable DEF Trap
  <2>2. KernelOk(k') /\ k'.recv_msgs = k.recv_msgs
    BY <1>0, <2>1, ChangePriorityOk DEF SameEnvelopes
  <2> QED
    BY <2>1, <2>2, QuietTrap
<1>5. ASSUME NEW e \in k.held[self], Trap(release_msg_env(e))
      PROVE  BoardInv'
  <2>1. k' = k_release_msg_env(k, self, e) /\ UNCHANGED <<call, timing, serial>>
    BY <1>5, TrapTable DEF Trap
  <2>2. KernelOk(k') /\ Releases(k, k', self, e)
    BY <1>0, <2>1, ReleaseOk
  <2>3. k'.recv_msgs = k.recv_msgs
    BY <2>2 DEF Releases, PutsBack, Frees
  <2> QED
    BY <2>1, <2>2, <2>3, QuietTrap
<1>6. ASSUME NEW e \in k.held[self], NEW d \in UserProc, Trap(send_message(d, e))
      PROVE  BoardInv'
  <2> DEFINE m == Message(e, self, "user", 0)
  <2>1. k' = k_send_message(k, self, d, m) /\ UNCHANGED <<call, timing, serial>>
    BY <1>6, TrapTable DEF Trap, Content
  <2>2. m \in MailFor(d) /\ d \in Proc /\ d # UART_I_PROCESS_PID
    BY <1>0, MessageType, Pids DEF MessageTypes, UserProc
  <2> HIDE DEF m
  <2>3. KernelOk(k') /\ Sends(k, k', self, d, m)
    BY <1>0, <2>1, <2>2, SendOk
  <2>4. k'.recv_msgs[UART_I_PROCESS_PID] = k.recv_msgs[UART_I_PROCESS_PID]
    BY <1>0, <2>2, <2>3 DEF Sends
  <2> QED
    BY <2>1, <2>3, <2>4, QuietTrap
<1>7. ASSUME self \in UserProc, NEW e \in k.held[self], NEW t \in Delay,
             Trap(request_delay(t, "WAKEUP", e))
      PROVE  BoardInv'
  <2> DEFINE m == Message(e, self, "WAKEUP", t)
  <2>1. k' = k_send_message(k, self, TIMER_I_PROCESS_PID, m) /\ UNCHANGED <<call, timing, serial>>
    BY <1>7, TrapTable DEF Trap, k_request_delay
  <2>2. m \in MailFor(TIMER_I_PROCESS_PID)
    BY <1>0, <1>7, MessageType DEF MessageTypes
  <2> HIDE DEF m
  <2>3. KernelOk(k') /\ Sends(k, k', self, TIMER_I_PROCESS_PID, m)
    BY <1>0, <2>1, <2>2, SendOk
  <2>4. k'.recv_msgs[UART_I_PROCESS_PID] = k.recv_msgs[UART_I_PROCESS_PID]
    BY <1>0, <2>3 DEF Sends
  <2> QED
    BY <2>1, <2>3, <2>4, QuietTrap
<1>8. ASSUME self \in UserProc, NEW e \in k.held[self], NEW a \in BOOLEAN, NEW text \in Text,
             kern_swi_handler(send_console_chars(e, a), Content("user", text))
      PROVE  BoardInv'
  <2> DEFINE type == IF a THEN "CONSOLE_OUTPUT_REQUEST_ACK" ELSE "CONSOLE_OUTPUT"
             m == Message(e, self, type, text)
  <2>1. k_send_console_chars(e, a, text)
    BY <1>8, TrapTable DEF Content
  <2>2. /\ k' = k_send_message(k, self, UART_I_PROCESS_PID, m)
        /\ SERIAL1_IMR' = 3 /\ echoed' = FALSE /\ UNCHANGED <<call, timing, out>>
    BY <2>1 DEF k_send_console_chars
  <2>3. m \in MailFor(UART_I_PROCESS_PID)
    BY <1>0, <1>8, MessageType DEF MessageTypes
  <2> HIDE DEF m
  <2>4. KernelOk(k') /\ Sends(k, k', self, UART_I_PROCESS_PID, m)
    BY <1>0, <2>2, <2>3, SendOk
  <2>5. HasMail(k', UART_I_PROCESS_PID)
    <3>1. k'.recv_msgs[UART_I_PROCESS_PID] = Append(k.recv_msgs[UART_I_PROCESS_PID], m)
      BY <1>0, <2>4 DEF Sends
    <3>2. k.recv_msgs[UART_I_PROCESS_PID] \in Seq(AnyMessage)
      BY <1>0
    <3>a. m \in AnyMessage
      BY <1>0, <2>3, MailForIsMessage
    <3>3. Append(k.recv_msgs[UART_I_PROCESS_PID], m) # <<>>
      <4>1. \A s \in Seq(AnyMessage), x \in AnyMessage : Append(s, x) # <<>>
        OBVIOUS
      <4> QED
        BY <3>2, <3>a, <4>1
    <3> QED
      BY <3>1, <3>3 DEF HasMail
  <2>6. MaskFollowsOutput'
    BY <2>2, <2>5 DEF MaskFollowsOutput, OutputPending
  <2>7. SerialOk'
    BY <2>2 DEF BoardInv, SerialOk
  <2> QED
    BY <2>2, <2>4, <2>6, <2>7, CallsKept, TimingKept DEF BoardInv
<1> QED
  BY <1>1, <1>2, <1>3, <1>4, <1>5, <1>6, <1>7, <1>8 DEF UserTrap

-----------------------------------------------------------------------------
(* Interrupts                                                              *)

LEMMA TimerMail ==
    ASSUME BoardInv
    PROVE  /\ k.recv_msgs[TIMER_I_PROCESS_PID] \in Seq(DelayRequest)
           /\ clock \in Nat /\ clock + 1 \in Nat /\ timeout_queue \in Seq(Node)
<1>1. k.recv_msgs[TIMER_I_PROCESS_PID] \in Seq(MailFor(TIMER_I_PROCESS_PID))
  BY Pids DEF BoardInv, KernelOk, KernelMidway, MailOk
<1>2. MailFor(TIMER_I_PROCESS_PID) = DelayRequest
  BY DEF MailFor, DelayRequest
<1>3. clock \in Nat /\ timeout_queue \in Seq(Node)
  BY BoardAssumption DEF BoardInv, TimingOk
<1> QED
  BY <1>1, <1>2, <1>3

LEMMA TimerKeeps ==
    ASSUME BoardInv, asm_timer_entry
    PROVE  BoardInv'
<1> DEFINE now == clock + 1
           queue == InsertAll(timeout_queue, k.recv_msgs[TIMER_I_PROCESS_PID], now)
           kept == MailboxEmptied(k, TIMER_I_PROCESS_PID)
           h == Head(queue)
           m == Message(h.env, TIMER_I_PROCESS_PID, h.msg_type, 0)
<1>1. /\ clock < MaxTime /\ UNCHANGED call /\ UNCHANGED serial
      /\ clock' = now
      /\ IF check_timeout_queue(queue, now)
           THEN /\ timeout_queue' = Tail(queue)
                /\ k' = k_send_message(kept, TIMER_I_PROCESS_PID, h.send_pid, m)
           ELSE /\ timeout_queue' = queue
                /\ k' = kept
  BY DEF asm_timer_entry, isr_handler, timer_i_process
<1>2. queue \in Seq(Node)
  BY TimerMail, InsertAllType
<1>3. KernelOk(kept) /\ TakesAllMail(k, kept, TIMER_I_PROCESS_PID)
  BY Pids, MailboxEmptiedOk DEF BoardInv
<1>4. /\ k.recv_msgs \in [Proc -> Seq(AnyMessage)]
      /\ TIMER_I_PROCESS_PID \in Proc /\ UART_I_PROCESS_PID \in Proc
      /\ TIMER_I_PROCESS_PID # UART_I_PROCESS_PID
  BY SelfType, Pids, BoardAssumption
<1>5. kept.recv_msgs[UART_I_PROCESS_PID] = k.recv_msgs[UART_I_PROCESS_PID]
      /\ kept.recv_msgs \in [Proc -> Seq(AnyMessage)]
  BY <1>3, <1>4 DEF TakesAllMail, KernelOk, KernelMidway, KernelState
<1>6. clock' \in 1 .. MaxTime
  BY <1>1, BoardAssumption DEF BoardInv, TimingOk
<1> HIDE DEF queue, kept, h, m
<1>7. CASE check_timeout_queue(queue, now)
  <2>1. queue # <<>>
    BY <1>7 DEF check_timeout_queue
  <2>2. h \in Node /\ Tail(queue) \in Seq(Node)
    <3>1. \A s \in Seq(Node) : s # <<>> => Head(s) \in Node /\ Tail(s) \in Seq(Node)
      OBVIOUS
    <3> QED
      BY <1>2, <2>1, <3>1 DEF h
  <2>3. h.env \in Envs /\ h.send_pid \in UserProc /\ h.msg_type \in MessageTypes
    BY <2>2 DEF Node
  <2>4. m \in MailFor(h.send_pid) /\ h.send_pid \in Proc /\ h.send_pid # UART_I_PROCESS_PID
    BY <1>4, <2>3, MessageType, Pids DEF m, UserProc
  <2>5. KernelOk(k') /\ Sends(kept, k', TIMER_I_PROCESS_PID, h.send_pid, m)
    BY <1>1, <1>3, <1>4, <1>7, <2>4, SendOk
  <2>6. k'.recv_msgs[UART_I_PROCESS_PID] = k.recv_msgs[UART_I_PROCESS_PID]
    BY <1>4, <1>5, <2>4, <2>5 DEF Sends
  <2>7. TimingOk'
    BY <1>1, <1>6, <1>7, <2>2 DEF TimingOk
  <2> QED
    BY <1>1, <2>5, <2>6, <2>7, MaskKept, CallsKept DEF BoardInv
<1>8. CASE ~check_timeout_queue(queue, now)
  <2>1. k' = kept /\ timeout_queue' = queue
    BY <1>1, <1>8
  <2>2. TimingOk'
    BY <1>2, <1>6, <2>1 DEF TimingOk
  <2> QED
    BY <1>1, <1>3, <1>5, <2>1, <2>2, MaskKept, CallsKept DEF BoardInv
<1> QED
  BY <1>7, <1>8

(* An echo, whatever else the interrupt does to the kernel.                *)
LEMMA EchoKeeps ==
    ASSUME BoardInv, Echo, UNCHANGED <<call, timing, out>>, KernelOk(k')
    PROVE  BoardInv'
<1>1. SerialOk' /\ MaskFollowsOutput'
  BY DEF BoardInv, Echo, SerialOk, MaskFollowsOutput
<1> QED
  BY <1>1, CallsKept, TimingKept DEF BoardInv

LEMMA LineEndKernel ==
    ASSUME BoardInv, NEW line \in Line, LineEnd(line)
    PROVE  KernelOk(k')
<1> DEFINE granted == RequestByIProcess(k, UART_I_PROCESS_PID)
           new == granted.held[UART_I_PROCESS_PID]
           e == CHOOSE env \in new : TRUE
           m == Message(e, UART_I_PROCESS_PID, "CONSOLE_INPUT", line)
<1>1. k' = IF new = {} THEN granted
           ELSE k_send_message(granted, UART_I_PROCESS_PID, CCI_PID, m)
  BY DEF LineEnd
<1>2. KernelOk(granted) /\ UART_I_PROCESS_PID \in Proc /\ CCI_PID \in UserProc /\ CCI_PID \in Proc
  BY RequestByIProcessOk, Pids DEF BoardInv
<1>3. new \subseteq Envs
  BY <1>2 DEF KernelOk, KernelMidway, KernelState
<1> HIDE DEF granted, new, e, m
<1>4. CASE new = {}
  BY <1>1, <1>2, <1>4
<1>5. CASE new # {}
  <2>1. e \in Envs
    BY <1>3, <1>5 DEF e
  <2>2. m \in MailFor(CCI_PID)
    BY <1>2, <2>1, MessageType DEF m, MessageTypes
  <2> QED
    BY <1>1, <1>2, <1>5, <2>2, SendOk
<1> QED
  BY <1>4, <1>5

LEMMA ReceiveKeeps ==
    ASSUME BoardInv, asm_uart_entry(ReceiveHalf)
    PROVE  BoardInv'
<1>1. ReceiveHalf /\ UNCHANGED <<call, timing>>
  BY DEF asm_uart_entry, isr_handler
<1>2. CASE PlainKey
  BY <1>1, <1>2, EchoKeeps DEF PlainKey, BoardInv
<1>3. ASSUME NEW line \in Line, LineEnd(line) PROVE BoardInv'
  BY <1>1, <1>3, LineEndKernel, EchoKeeps DEF LineEnd
<1> QED
  BY <1>1, <1>2, <1>3 DEF ReceiveHalf

OutOk(o) ==
    /\ o \in [OutBuffer : Text \cup {0}, outputIndex : Nat, output_print_char : BOOLEAN]
    /\ o.outputIndex <= o.OutBuffer

LEMMA TextLoadedOk ==
    ASSUME NEW kk, KernelOk(kk), HasMail(kk, UART_I_PROCESS_PID)
    PROVE  /\ KernelOk(TextLoaded(kk).k)
           /\ OutOk(TextLoaded(kk).out) /\ TextLoaded(kk).out.output_print_char
<1> DEFINE u == UART_I_PROCESS_PID
           m == Head(kk.recv_msgs[u])
           taken == MailTaken(kk, u)
           ack == Message(m.env, u, "DISPLAY_ACK", 0)
<1>1. u \in Proc /\ kk.recv_msgs[u] # <<>>
  BY Pids DEF HasMail
<1>2. KernelOk(taken) /\ m \in MailFor(u)
  BY <1>1, MailTakenOk
<1>3. m \in MessagesWith(UserProc, Text)
  BY <1>2, BoardAssumption DEF MailFor
<1>4. m.env \in Envs /\ m.send_pid \in UserProc /\ m.data \in Text
  BY <1>3 DEF MessagesWith
<1>5. /\ TextLoaded(kk).out = [OutBuffer |-> m.data, outputIndex |-> 0, output_print_char |-> TRUE]
      /\ TextLoaded(kk).k = IF m.msg_type = "CONSOLE_OUTPUT"
                              THEN k_release_msg_env(taken, u, m.env)
                              ELSE k_send_message(taken, u, m.send_pid, ack)
  BY DEF TextLoaded, AckGoesTo
<1> HIDE DEF taken, m, ack, u
<1>6. k_release_msg_env(taken, u, m.env) = TextLoaded(kk).k => KernelOk(TextLoaded(kk).k)
  BY <1>1, <1>2, <1>4, ReleaseOk
<1>7. k_send_message(taken, u, m.send_pid, ack) = TextLoaded(kk).k => KernelOk(TextLoaded(kk).k)
  <2>1. ack \in MailFor(m.send_pid) /\ m.send_pid \in Proc
    BY <1>1, <1>4, MessageType DEF ack, MessageTypes, UserProc
  <2> QED
    BY <1>1, <1>2, <2>1, SendOk
<1>8. OutOk(TextLoaded(kk).out) /\ TextLoaded(kk).out.output_print_char
  <2>1. Text \subseteq Nat
    BY BoardAssumption
  <2>2. m.data \in Nat /\ m.data \in Text \cup {0}
    BY <1>4, <2>1
  <2> QED
    BY <1>5, <2>2 DEF OutOk
<1> QED
  BY <1>5, <1>6, <1>7, <1>8

LEMMA NextTextOk ==
    ASSUME NEW kk, KernelOk(kk), NEW o, OutOk(o)
    PROVE  /\ KernelOk(NextText(kk, o).k) /\ OutOk(NextText(kk, o).out)
           /\ HasMail(kk, UART_I_PROCESS_PID) => NextText(kk, o).out.output_print_char
           /\ ~HasMail(kk, UART_I_PROCESS_PID) => NextText(kk, o).k = kk /\ NextText(kk, o).out = o
  BY TextLoadedOk DEF NextText

(* The transmitter interrupts for something to print only, and masks       *)
(* itself when it has printed the last of it.                              *)
LEMMA TransmitKeeps ==
    ASSUME BoardInv, asm_uart_entry(TransmitHalf)
    PROVE  BoardInv'
<1> DEFINE first == IF out.output_print_char THEN [out |-> out, k |-> k] ELSE NextText(k, out)
           next == NextText(first.k, Idle)
<1>1. /\ SERIAL1_IMR = 3 /\ UNCHANGED <<call, timing, echoed>>
      /\ IF ~first.out.output_print_char
           THEN UNCHANGED <<k, out, SERIAL1_IMR>>
           ELSE IF first.out.outputIndex = first.out.OutBuffer
           THEN /\ k' = next.k /\ out' = next.out
                /\ SERIAL1_IMR' = ImrAfterText(next)
           ELSE /\ k' = first.k
                /\ out' = [first.out EXCEPT !.outputIndex = @ + 1]
                /\ UNCHANGED SERIAL1_IMR
  BY DEF asm_uart_entry, isr_handler, TransmitHalf
<1>2. OutputPending /\ KernelOk(k) /\ OutOk(out) /\ echoed \in BOOLEAN
  BY <1>1 DEF BoardInv, MaskFollowsOutput, SerialOk, OutOk
<1>3. KernelOk(first.k) /\ OutOk(first.out) /\ first.out.output_print_char
  <2>1. CASE out.output_print_char
    BY <1>2, <2>1
  <2>2. CASE ~out.output_print_char
    <3>1. HasMail(k, UART_I_PROCESS_PID)
      BY <1>2, <2>2 DEF OutputPending
    <3> QED
      BY <1>2, <2>2, <3>1, NextTextOk
  <2> QED
    BY <2>1, <2>2
<1>4. OutOk(Idle) /\ ~Idle.output_print_char
  BY DEF Idle, OutOk
<1> HIDE DEF first
<1>5. /\ KernelOk(next.k) /\ OutOk(next.out)
      /\ ~next.out.output_print_char => ~HasMail(next.k, UART_I_PROCESS_PID)
  BY <1>3, <1>4, NextTextOk
<1> HIDE DEF next
<1>6. CASE first.out.outputIndex = first.out.OutBuffer
  <2>1. k' = next.k /\ out' = next.out /\ SERIAL1_IMR' = ImrAfterText(next)
    BY <1>1, <1>3, <1>6
  <2>2. SERIAL1_IMR' = IF next.out.output_print_char THEN 3 ELSE 2
    BY <1>1, <2>1 DEF ImrAfterText
  <2>3. MaskFollowsOutput'
    BY <1>5, <2>1, <2>2 DEF MaskFollowsOutput, OutputPending
  <2>4. SerialOk'
    BY <1>1, <1>2, <1>5, <2>1, <2>2 DEF SerialOk, OutOk
  <2> QED
    BY <1>1, <1>5, <2>1, <2>3, <2>4, CallsKept, TimingKept DEF BoardInv
<1>7. CASE first.out.outputIndex # first.out.OutBuffer
  <2>1. k' = first.k /\ out' = [first.out EXCEPT !.outputIndex = @ + 1] /\ SERIAL1_IMR' = 3
    BY <1>1, <1>3, <1>7
  <2>2. OutOk(out') /\ out'.output_print_char
    <3>0. Text \subseteq Nat
      BY BoardAssumption
    <3>1. \A x \in Text \cup {0} : x \in Nat
      BY <3>0
    <3>a. /\ first.out.OutBuffer \in Text \cup {0} /\ first.out.outputIndex \in Nat
          /\ first.out.outputIndex <= first.out.OutBuffer
      BY <1>3 DEF OutOk
    <3>b. first.out.OutBuffer \in Nat
      BY <3>1, <3>a
    <3>2. first.out.OutBuffer \in Nat /\ first.out.outputIndex \in Nat
          /\ first.out.outputIndex + 1 <= first.out.OutBuffer
      BY <1>7, <3>a, <3>b
    <3> QED
      BY <1>3, <2>1, <3>2 DEF OutOk
  <2>3. MaskFollowsOutput'
    BY <2>1, <2>2 DEF MaskFollowsOutput, OutputPending
  <2>4. SerialOk'
    BY <1>1, <1>2, <2>1, <2>2 DEF SerialOk, OutOk
  <2> QED
    BY <1>1, <1>3, <2>1, <2>3, <2>4, CallsKept, TimingKept DEF BoardInv
<1> QED
  BY <1>6, <1>7

LEMMA BoardInvNext == BoardInv /\ [Next]_vars => BoardInv'
<1> SUFFICES ASSUME BoardInv, [Next]_vars PROVE BoardInv'
  OBVIOUS
<1>1. CASE UNCHANGED vars
  BY <1>1 DEF vars, timing, serial, BoardInv, CallsOk, TimingOk, SerialOk, MaskFollowsOutput,
              OutputPending
<1> QED
  BY <1>1, UserTrapKeeps, ResumeKeeps, TimerKeeps, ReceiveKeeps, TransmitKeeps DEF Next

LEMMA BoardInvariant == Spec => []BoardInv
  BY BoardInvInit, BoardInvNext, PTL DEF Spec

(* Every field keeps the type of its C variable, the output index stays    *)
(* within the text, and the processor belongs to a process, whatever the   *)
(* traps, the characters and the ticks do, and in whatever order.          *)
THEOREM BoardTypes == Spec => []TypeOK
<1>1. BoardInv => TypeOK
  <2> SUFFICES ASSUME BoardInv PROVE TypeOK
    OBVIOUS
  <2>1. /\ k.current_process \in Proc \ IProc
        /\ k.state \in [Proc -> process_state]
        /\ k.priority \in [Proc -> 0 .. NUM_PRIORITIES]
        /\ k.queues \in LinksType(Queue)
        /\ k.env_owned \in [Proc -> Int]
        /\ k.held \in [Proc -> SUBSET Envs]
    BY DEF BoardInv, KernelOk, KernelMidway, KernelState, Threads
  <2>2. Text \subseteq Nat
    BY BoardAssumption
  <2>3. out.OutBuffer \in Text \cup {0} /\ out.outputIndex \in 0 .. out.OutBuffer
    BY <2>2 DEF BoardInv, SerialOk
  <2> QED
    BY <2>1, <2>3 DEF TypeOK, BoardInv, CallsOk, TimingOk, SerialOk
<1> QED
  BY <1>1, BoardInvariant, PTL

(* The transmitter of the serial port interrupts exactly while there is    *)
(* output, but for an echo: the mask follows the queue of texts through    *)
(* every order of send_console_chars, typed characters and transmitter     *)
(* interrupts (uart_i_process.c).                                          *)
THEOREM InterruptsFollowOutput == Spec => []MaskFollowsOutput
<1>1. BoardInv => MaskFollowsOutput
  BY DEF BoardInv
<1> QED
  BY <1>1, BoardInvariant, PTL

-----------------------------------------------------------------------------
(* Envelopes in lists                                                      *)

(* No envelope is in a mailbox, or in the list of timeouts, twice.         *)
OnceMail(s) == \A i, j \in 1 .. Len(s) : s[i].env = s[j].env => i = j

LEMMA DropHead ==
    ASSUME NEW S \in {Env, SysEnv}, NEW s \in Seq(S), s # <<>>, Once(s)
    PROVE  /\ Head(s) \in Elements(s) /\ Head(s) \in S
           /\ Elements(Tail(s)) = Elements(s) \ {Head(s)}
           /\ Once(Tail(s))
<1>1. /\ Len(s) \in Nat /\ Len(s) # 0 /\ Len(Tail(s)) = Len(s) - 1 /\ Head(s) = s[1]
      /\ \A i \in 1 .. Len(Tail(s)) : Tail(s)[i] = s[i + 1]
  OBVIOUS
<1>2. s[1] \in S /\ 1 \in 1 .. Len(s)
  BY <1>1
<1>3. Head(s) \in Elements(s) /\ Head(s) \in S
  BY <1>1, <1>2 DEF Elements
<1>4. \A i \in 1 .. Len(Tail(s)) : i + 1 \in 1 .. Len(s) /\ i + 1 # 1
  BY <1>1
<1>5. \A i \in 1 .. Len(s) : i # 1 => i - 1 \in 1 .. Len(Tail(s)) /\ Tail(s)[i - 1] = s[i]
  BY <1>1
<1>6. Once(Tail(s))
  <2> SUFFICES ASSUME NEW i \in 1 .. Len(Tail(s)), NEW j \in 1 .. Len(Tail(s)), Tail(s)[i] = Tail(s)[j]
               PROVE  i = j
    BY DEF Once
  <2>1. s[i + 1] = s[j + 1] /\ i + 1 \in 1 .. Len(s) /\ j + 1 \in 1 .. Len(s)
    BY <1>1, <1>4
  <2>2. i + 1 = j + 1
    BY <2>1 DEF Once
  <2> QED
    BY <1>1, <2>2
<1>7. Elements(Tail(s)) \subseteq Elements(s) \ {Head(s)}
  <2> SUFFICES ASSUME NEW i \in 1 .. Len(Tail(s))
               PROVE  Tail(s)[i] \in Elements(s) /\ Tail(s)[i] # s[1]
    BY <1>1 DEF Elements
  <2>1. Tail(s)[i] = s[i + 1] /\ i + 1 \in 1 .. Len(s) /\ i + 1 # 1
    BY <1>1, <1>4
  <2> QED
    BY <1>2, <2>1 DEF Elements, Once
<1>8. Elements(s) \ {Head(s)} \subseteq Elements(Tail(s))
  <2> SUFFICES ASSUME NEW i \in 1 .. Len(s), s[i] # s[1]
               PROVE  s[i] \in Elements(Tail(s))
    BY <1>1 DEF Elements
  <2>1. i - 1 \in 1 .. Len(Tail(s)) /\ Tail(s)[i - 1] = s[i]
    BY <1>5
  <2> QED
    BY <2>1 DEF Elements
<1> QED
  BY <1>3, <1>6, <1>7, <1>8

(* The same of the envelopes of messages and timeouts.                     *)
LEMMA AppendMail ==
    ASSUME NEW s \in Seq(AnyMessage), NEW m \in AnyMessage
    PROVE  /\ Envelopes(Append(s, m)) = Envelopes(s) \cup {m.env}
           /\ OnceMail(s) /\ m.env \notin Envelopes(s) => OnceMail(Append(s, m))
<1>1. /\ Len(s) \in Nat /\ Len(Append(s, m)) = Len(s) + 1
      /\ \A i \in 1 .. Len(s) : Append(s, m)[i] = s[i]
      /\ Append(s, m)[Len(s) + 1] = m
  OBVIOUS
<1>2. \A i \in 1 .. Len(s) + 1 : i \in 1 .. Len(s) \/ i = Len(s) + 1
  BY <1>1
<1>3. (\A i \in 1 .. Len(s) : i \in 1 .. Len(s) + 1) /\ Len(s) + 1 \in 1 .. Len(s) + 1
  BY <1>1
<1> HIDE DEF Append, Len
<1>5. Envelopes(Append(s, m)) = Envelopes(s) \cup {m.env}
  BY <1>1, <1>2, <1>3, Zenon DEF Envelopes
<1>6. ASSUME OnceMail(s), m.env \notin Envelopes(s) PROVE OnceMail(Append(s, m))
  <2>1. \A i \in 1 .. Len(s) : s[i].env # m.env
    BY <1>6 DEF Envelopes
  <2> QED
    BY <1>1, <1>2, <1>6, <2>1 DEF OnceMail
<1> QED
  BY <1>5, <1>6

LEMMA DropMail ==
    ASSUME NEW R \in {AnyMessage, Node}, NEW s \in Seq(R), s # <<>>, OnceMail(s)
    PROVE  /\ Head(s).env \in Envelopes(s) /\ Head(s) \in R
           /\ Envelopes(Tail(s)) = Envelopes(s) \ {Head(s).env}
           /\ OnceMail(Tail(s))
           /\ Len(Tail(s)) = Len(s) - 1
<1>1. /\ Len(s) \in Nat /\ Len(s) # 0 /\ Len(Tail(s)) = Len(s) - 1 /\ Head(s) = s[1]
      /\ \A i \in 1 .. Len(Tail(s)) : Tail(s)[i] = s[i + 1]
  OBVIOUS
<1>2. s[1] \in R /\ 1 \in 1 .. Len(s)
  BY <1>1
<1>3. Head(s).env \in Envelopes(s) /\ Head(s) \in R
  BY <1>1, <1>2 DEF Envelopes
<1>4. \A i \in 1 .. Len(Tail(s)) : i + 1 \in 1 .. Len(s) /\ i + 1 # 1
  BY <1>1
<1>5. \A i \in 1 .. Len(s) : i # 1 => i - 1 \in 1 .. Len(Tail(s)) /\ Tail(s)[i - 1] = s[i]
  BY <1>1
<1>6. OnceMail(Tail(s))
  <2> SUFFICES ASSUME NEW i \in 1 .. Len(Tail(s)), NEW j \in 1 .. Len(Tail(s)),
                      Tail(s)[i].env = Tail(s)[j].env
               PROVE  i = j
    BY DEF OnceMail
  <2>1. s[i + 1].env = s[j + 1].env /\ i + 1 \in 1 .. Len(s) /\ j + 1 \in 1 .. Len(s)
    BY <1>1, <1>4
  <2>2. i + 1 = j + 1
    BY <2>1 DEF OnceMail
  <2> QED
    BY <1>1, <2>2
<1>7. Envelopes(Tail(s)) \subseteq Envelopes(s) \ {Head(s).env}
  <2> SUFFICES ASSUME NEW i \in 1 .. Len(Tail(s))
               PROVE  Tail(s)[i].env \in Envelopes(s) /\ Tail(s)[i].env # s[1].env
    BY <1>1 DEF Envelopes
  <2>1. Tail(s)[i] = s[i + 1] /\ i + 1 \in 1 .. Len(s) /\ i + 1 # 1
    BY <1>1, <1>4
  <2> QED
    BY <1>2, <2>1 DEF Envelopes, OnceMail
<1>8. Envelopes(s) \ {Head(s).env} \subseteq Envelopes(Tail(s))
  <2> SUFFICES ASSUME NEW i \in 1 .. Len(s), s[i].env # s[1].env
               PROVE  s[i].env \in Envelopes(Tail(s))
    BY <1>1 DEF Envelopes
  <2>1. i - 1 \in 1 .. Len(Tail(s)) /\ Tail(s)[i - 1] = s[i]
    BY <1>5
  <2> QED
    BY <2>1 DEF Envelopes
<1> QED
  BY <1>1, <1>3, <1>6, <1>7, <1>8

LEMMA OnceMailLength ==
    ASSUME NEW s \in Seq(AnyMessage), OnceMail(s)
    PROVE  IsFiniteSet(Envelopes(s)) /\ Len(s) = Cardinality(Envelopes(s))
<1> DEFINE f == [i \in 1 .. Len(s) |-> s[i].env]
<1>1. Len(s) \in Nat /\ f \in [1 .. Len(s) -> Envelopes(s)]
  BY DEF Envelopes
<1>2. IsFiniteSet(1 .. Len(s)) /\ Cardinality(1 .. Len(s)) = Len(s)
  BY <1>1, OneToN, Zenon
<1>3. f \in Surjection(1 .. Len(s), Envelopes(s)) /\ f \in Injection(1 .. Len(s), Envelopes(s))
  BY <1>1 DEF Surjection, Injection, IsInjective, Envelopes, OnceMail
<1> QED
  BY <1>2, <1>3, FS_Surjection

LEMMA InsertedEnvelopes ==
    ASSUME NEW s \in Seq(Node), NEW x \in Node, NEW i \in 1 .. Len(s) + 1
    PROVE  /\ Envelopes(Inserted(s, i, x)) = Envelopes(s) \cup {x.env}
           /\ OnceMail(s) /\ x.env \notin Envelopes(s) => OnceMail(Inserted(s, i, x))
<1> DEFINE t == Inserted(s, i, x)
           n == Len(s)
<1>1. n \in Nat /\ Len(t) = n + 1 /\ i \in 1 .. n + 1
  BY InsertedType
<1>2. \A j \in 1 .. n + 1 : t[j] = IF j < i THEN s[j] ELSE IF j = i THEN x ELSE s[j - 1]
  BY DEF Inserted
<1> HIDE DEF t, n
<1>3. \A j \in 1 .. n + 1 : /\ j < i => j \in 1 .. n
                            /\ ~(j < i) /\ j # i => j - 1 \in 1 .. n
  BY <1>1
<1>4. \A j \in 1 .. n : /\ j < i => j \in 1 .. n + 1 /\ t[j] = s[j]
                        /\ ~(j < i) => j + 1 \in 1 .. n + 1 /\ t[j + 1] = s[j]
  BY <1>1, <1>2
<1>5. t[i] = x
  BY <1>1, <1>2
<1>6. Envelopes(t) \subseteq Envelopes(s) \cup {x.env}
  <2> SUFFICES ASSUME NEW j \in 1 .. n + 1
               PROVE  t[j].env = x.env \/ \E l \in 1 .. n : t[j].env = s[l].env
    BY <1>1 DEF Envelopes, n
  <2> QED
    BY <1>2, <1>3
<1>7. Envelopes(s) \subseteq Envelopes(t)
  <2> SUFFICES ASSUME NEW j \in 1 .. n
               PROVE  \E l \in 1 .. n + 1 : s[j].env = t[l].env
    BY <1>1 DEF Envelopes, n
  <2> QED
    BY <1>4
<1>8. x.env \in Envelopes(t)
  BY <1>1, <1>5 DEF Envelopes
<1>9. ASSUME OnceMail(s), x.env \notin Envelopes(s) PROVE OnceMail(t)
  <2>1. \A j \in 1 .. n : s[j].env # x.env
    BY <1>9 DEF Envelopes, n
  <2>2. \A j, l \in 1 .. n : s[j].env = s[l].env => j = l
    BY <1>9 DEF OnceMail, n
  <2> SUFFICES ASSUME NEW j \in 1 .. n + 1, NEW l \in 1 .. n + 1, t[j].env = t[l].env
               PROVE  j = l
    BY <1>1 DEF OnceMail
  <2>3. CASE j = i
    BY <1>2, <1>3, <1>5, <2>1, <2>3
  <2>4. CASE l = i
    BY <1>2, <1>3, <1>5, <2>1, <2>4
  <2>5. CASE j < i /\ l < i
    BY <1>2, <1>3, <2>2, <2>5
  <2>6. CASE j < i /\ ~(l < i) /\ l # i
    <3>1. j \in 1 .. n /\ l - 1 \in 1 .. n /\ t[j] = s[j] /\ t[l] = s[l - 1]
      BY <1>2, <1>3, <2>6
    <3>2. j = l - 1
      BY <2>2, <3>1
    <3> QED
      BY <1>1, <2>6, <3>2
  <2>7. CASE l < i /\ ~(j < i) /\ j # i
    <3>1. l \in 1 .. n /\ j - 1 \in 1 .. n /\ t[l] = s[l] /\ t[j] = s[j - 1]
      BY <1>2, <1>3, <2>7
    <3>2. l = j - 1
      BY <2>2, <3>1
    <3> QED
      BY <1>1, <2>7, <3>2
  <2>8. CASE ~(j < i) /\ ~(l < i) /\ j # i /\ l # i
    <3>1. j - 1 \in 1 .. n /\ l - 1 \in 1 .. n /\ t[j] = s[j - 1] /\ t[l] = s[l - 1]
      BY <1>2, <1>3, <2>8
    <3>2. j - 1 = l - 1
      BY <2>2, <3>1
    <3> QED
      BY <1>1, <3>2
  <2> QED
    BY <2>3, <2>4, <2>5, <2>6, <2>7, <2>8
<1> QED
  BY <1>6, <1>7, <1>8, <1>9 DEF t

LEMMA InsertAllEnvelopes ==
    ASSUME NEW queue \in Seq(Node), NEW mail \in Seq(DelayRequest), NEW now \in Nat,
           OnceMail(queue), OnceMail(mail), Envelopes(queue) \cap Envelopes(mail) = {}
    PROVE  /\ Envelopes(InsertAll(queue, mail, now)) = Envelopes(queue) \cup Envelopes(mail)
           /\ OnceMail(InsertAll(queue, mail, now))
<1> DEFINE N == Len(mail)
           Upto(i) == {mail[j].env : j \in 1 .. i}
<1>0. PICK W : InsertTurns(W, queue, mail, now)
  BY InsertAllLoop, Zenon
<1>1. /\ W \in [0 .. N -> Seq(Node)]
      /\ W[0] = queue
      /\ \A i \in 1 .. N : W[i] = timeout_queue_insert(W[i - 1], mail[i], now)
      /\ InsertAll(queue, mail, now) = W[N]
  BY <1>0, Zenon DEF InsertTurns
<1>2. N \in Nat /\ \A i \in 1 .. N : mail[i] \in DelayRequest
  OBVIOUS
<1> DEFINE Holds == {i \in 0 .. N : /\ Envelopes(W[i]) = Envelopes(queue) \cup Upto(i)
                                    /\ OnceMail(W[i])}
<1>3. 0 \in Holds
  <2>1. Upto(0) = {}
    OBVIOUS
  <2> QED
    BY <1>1, <1>2, <2>1
<1> HIDE DEF N
<1>4. ASSUME NEW i \in 1 .. N, i - 1 \in Holds PROVE i \in Holds
  <2> DEFINE q == W[i - 1]
             x == NodeOf(mail[i], now)
  <2>1. i - 1 \in 0 .. N /\ i \in 0 .. N /\ q \in Seq(Node)
    BY <1>1, <1>2
  <2>2. Envelopes(q) = Envelopes(queue) \cup Upto(i - 1) /\ OnceMail(q)
    BY <1>4
  <2>3. W[i] = timeout_queue_insert(q, mail[i], now) /\ mail[i] \in DelayRequest
    BY <1>1, <1>2
  <2>4. x \in Node /\ x.env = mail[i].env
    BY <2>3, NodeType DEF NodeOf
  <2>5. mail[i].env \notin Envelopes(q)
    <3>1. mail[i].env \in Envelopes(mail)
      BY DEF Envelopes, N
    <3>2. mail[i].env \notin Upto(i - 1)
      <4> SUFFICES ASSUME NEW j \in 1 .. i - 1, mail[j].env = mail[i].env PROVE FALSE
        OBVIOUS
      <4>1. j \in 1 .. N /\ j # i
        BY <1>2
      <4> QED
        BY <4>1 DEF OnceMail, N
    <3> QED
      BY <2>2, <3>1, <3>2
  <2>6. Upto(i) = Upto(i - 1) \cup {mail[i].env}
    <3>1. \A j \in 1 .. i : j = i \/ j \in 1 .. i - 1
      BY <1>2
    <3>2. (\A j \in 1 .. i - 1 : j \in 1 .. i) /\ i \in 1 .. i
      BY <1>2
    <3> QED
      BY <3>1, <3>2
  <2> HIDE DEF q, x, Upto
  <2>7. PICK place \in 1 .. Len(q) + 1 : W[i] = Inserted(q, place, x)
    BY <2>1, <2>3, InsertPlace DEF x
  <2>8. Envelopes(W[i]) = Envelopes(q) \cup {x.env} /\ OnceMail(W[i])
    BY <2>1, <2>2, <2>4, <2>5, <2>7, InsertedEnvelopes
  <2> QED
    BY <2>1, <2>2, <2>4, <2>6, <2>8
<1>5. N \in Holds
  <2> HIDE DEF Holds
  <2>1. \A i \in 0 .. N : i \in Holds
    BY <1>2, <1>3, <1>4, LoopKeeps
  <2> QED
    BY <1>2, <2>1
<1>6. Upto(N) = Envelopes(mail)
  BY DEF Envelopes, N
<1> QED
  BY <1>1, <1>5, <1>6

-----------------------------------------------------------------------------
(* Every envelope in one place                                             *)

Pooled    == <<"pool", NULL>>
HeldBy(p) == <<"held", p>>
MailOf(p) == <<"mail", p>>

Place == {Pooled} \cup {HeldBy(p) : p \in Proc} \cup {MailOf(p) : p \in Proc}

(* w says where each envelope is.                                          *)
Located(kk, w) ==
    /\ w \in [Envs -> Place]
    /\ \A e \in Envs :
          /\ e \in Elements(kk.free_env_q) \/ e \in Elements(kk.sys_free_env_q) <=> w[e] = Pooled
          /\ \A p \in Proc : /\ e \in kk.held[p] <=> w[e] = HeldBy(p)
                             /\ e \in Envelopes(kk.recv_msgs[p]) <=> w[e] = MailOf(p)

ListedOnce(kk) ==
    /\ Once(kk.free_env_q) /\ Once(kk.sys_free_env_q)
    /\ \A p \in Proc : OnceMail(kk.recv_msgs[p])

Counted(kk) == \A p \in Proc : kk.env_owned[p] = Cardinality(kk.held[p]) + Len(kk.recv_msgs[p])

Accounted(kk) ==
    /\ \E w : Located(kk, w)
    /\ ListedOnce(kk)
    /\ Counted(kk)

LEMMA PlacesDiffer ==
    \A p, r : /\ Pooled # HeldBy(p) /\ Pooled # MailOf(p) /\ HeldBy(p) # MailOf(r)
              /\ HeldBy(p) = HeldBy(r) <=> p = r
              /\ MailOf(p) = MailOf(r) <=> p = r
  BY DEF Pooled, HeldBy, MailOf

LEMMA PlaceType ==
    /\ Pooled \in Place
    /\ \A p \in Proc : HeldBy(p) \in Place /\ MailOf(p) \in Place
  BY DEF Place

(* No envelope but e moves between kk and ll.                              *)
OthersStay(kk, ll, e) ==
    \A x \in Envs \ {e} :
       /\ x \in Elements(ll.free_env_q) \/ x \in Elements(ll.sys_free_env_q)
             <=> x \in Elements(kk.free_env_q) \/ x \in Elements(kk.sys_free_env_q)
       /\ \A p \in Proc :
             /\ x \in ll.held[p] <=> x \in kk.held[p]
             /\ x \in Envelopes(ll.recv_msgs[p]) <=> x \in Envelopes(kk.recv_msgs[p])

(* The envelope e is in place to, and nowhere else.                        *)
NowAt(ll, e, to) ==
    /\ e \in Elements(ll.free_env_q) \/ e \in Elements(ll.sys_free_env_q) <=> to = Pooled
    /\ \A p \in Proc : /\ e \in ll.held[p] <=> to = HeldBy(p)
                       /\ e \in Envelopes(ll.recv_msgs[p]) <=> to = MailOf(p)

(* The sets an envelope moves between are those of its two places.         *)
LEMMA Moved ==
    ASSUME NEW kk, NEW w, Located(kk, w), NEW ll, NEW e \in Envs, NEW to \in Place,
           OthersStay(kk, ll, e), NowAt(ll, e, to)
    PROVE  \E v : Located(ll, v)
<1> DEFINE v == [w EXCEPT ![e] = to]
<1>1. w \in [Envs -> Place]
  BY DEF Located
<1>2. v \in [Envs -> Place] /\ v[e] = to /\ \A x \in Envs \ {e} : v[x] = w[x]
  BY <1>1
<1> HIDE DEF v
<1>3. ASSUME NEW x \in Envs
      PROVE  /\ x \in Elements(ll.free_env_q) \/ x \in Elements(ll.sys_free_env_q) <=> v[x] = Pooled
             /\ \A p \in Proc : /\ x \in ll.held[p] <=> v[x] = HeldBy(p)
                                /\ x \in Envelopes(ll.recv_msgs[p]) <=> v[x] = MailOf(p)
  <2>1. CASE x = e
    BY <1>2, <2>1 DEF NowAt
  <2>2. CASE x # e
    <3>1. /\ x \in Elements(kk.free_env_q) \/ x \in Elements(kk.sys_free_env_q) <=> w[x] = Pooled
          /\ \A p \in Proc : /\ x \in kk.held[p] <=> w[x] = HeldBy(p)
                             /\ x \in Envelopes(kk.recv_msgs[p]) <=> w[x] = MailOf(p)
      BY DEF Located
    <3> QED
      BY <1>2, <2>2, <3>1 DEF OthersStay
  <2> QED
    BY <2>1, <2>2
<1> QED
  BY <1>2, <1>3 DEF Located

LEMMA HeldFinite ==
    ASSUME NEW kk, kk \in KernelState, NEW p \in Proc
    PROVE  IsFiniteSet(kk.held[p]) /\ Cardinality(kk.held[p]) \in Nat
<1>1. kk.held[p] \in SUBSET Envs
  BY DEF KernelState
<1>2. IsFiniteSet(Envs)
  BY EnvelopeAssumption DEF Envs
<1>3. IsFiniteSet(kk.held[p])
  BY <1>1, <1>2, FS_Subset
<1> QED
  BY <1>3, FS_CardinalityType

(* A process takes an envelope from the pool or from the reserve.          *)
LEMMA TakesFreeKeeps ==
    ASSUME NEW kk, kk \in KernelState, Accounted(kk), NEW ll, NEW p \in Proc,
           kk.free_env_q # <<>>, TakesFree(kk, ll, p)
    PROVE  Accounted(ll)
<1> DEFINE e == Head(kk.free_env_q)
<1>0. /\ kk.free_env_q \in Seq(Env) /\ kk.held \in [Proc -> SUBSET Envs]
      /\ kk.env_owned \in [Proc -> Int] /\ kk.recv_msgs \in [Proc -> Seq(AnyMessage)]
  BY DEF KernelState
<1>1. /\ e \in Elements(kk.free_env_q) /\ e \in Env /\ e \in Envs
      /\ Elements(Tail(kk.free_env_q)) = Elements(kk.free_env_q) \ {e}
      /\ Once(Tail(kk.free_env_q))
  BY <1>0, DropHead DEF Accounted, ListedOnce, Envs
<1>2. PICK w : Located(kk, w)
  BY DEF Accounted
<1> HIDE DEF e
<1>3. /\ ll.free_env_q = Tail(kk.free_env_q) /\ ll.sys_free_env_q = kk.sys_free_env_q
      /\ ll.recv_msgs = kk.recv_msgs
      /\ ll.held = [kk.held EXCEPT ![p] = @ \cup {e}]
      /\ ll.env_owned = [kk.env_owned EXCEPT ![p] = @ + 1]
  BY DEF TakesFree, e
<1>4. \A r \in Proc, x \in Envs : x \in ll.held[r] <=> x \in kk.held[r] \/ (r = p /\ x = e)
  BY <1>0, <1>3
<1>5. /\ e \notin Elements(kk.sys_free_env_q)
      /\ \A r \in Proc : e \notin kk.held[r] /\ e \notin Envelopes(kk.recv_msgs[r])
  <2>1. e \notin Elements(kk.sys_free_env_q)
    <3>1. kk.sys_free_env_q \in Seq(SysEnv) /\ e \notin SysEnv
      BY <1>1, EnvelopeAssumption DEF KernelState
    <3> QED
      BY <3>1 DEF Elements
  <2>2. w[e] = Pooled
    BY <1>1, <1>2 DEF Located
  <2> QED
    BY <1>1, <1>2, <2>1, <2>2, PlacesDiffer DEF Located
<1>6. \E v : Located(ll, v)
  <2>1. HeldBy(p) \in Place
    BY PlaceType
  <2>2. OthersStay(kk, ll, e)
    BY <1>1, <1>3, <1>4 DEF OthersStay
  <2>3. e \in Elements(ll.free_env_q) \/ e \in Elements(ll.sys_free_env_q) <=> HeldBy(p) = Pooled
    BY <1>1, <1>3, <1>5, PlacesDiffer
  <2>4. \A r \in Proc : /\ e \in ll.held[r] <=> HeldBy(p) = HeldBy(r)
                        /\ e \in Envelopes(ll.recv_msgs[r]) <=> HeldBy(p) = MailOf(r)
    BY <1>1, <1>3, <1>4, <1>5, PlacesDiffer
  <2>5. NowAt(ll, e, HeldBy(p))
    BY <2>3, <2>4, Zenon DEF NowAt
  <2>6. e \in Envs
    BY <1>1
  <2> HIDE DEF e
  <2> QED
    BY <1>2, <2>1, <2>2, <2>5, <2>6, Moved, Zenon
<1>7. ListedOnce(ll)
  BY <1>1, <1>3 DEF Accounted, ListedOnce
<1>8. Counted(ll)
  <2> SUFFICES ASSUME NEW r \in Proc
               PROVE  ll.env_owned[r] = Cardinality(ll.held[r]) + Len(ll.recv_msgs[r])
    BY DEF Counted
  <2>1. kk.env_owned[r] = Cardinality(kk.held[r]) + Len(kk.recv_msgs[r])
    BY DEF Accounted, Counted
  <2>2. IsFiniteSet(kk.held[r]) /\ Cardinality(kk.held[r]) \in Nat /\ Len(kk.recv_msgs[r]) \in Nat
    BY <1>0, HeldFinite
  <2>3. CASE r = p
    <3>1. ll.held[r] = kk.held[r] \cup {e} /\ ll.env_owned[r] = kk.env_owned[r] + 1
      BY <1>0, <1>3, <2>3
    <3>2. Cardinality(ll.held[r]) = Cardinality(kk.held[r]) + 1
      BY <1>5, <2>2, <3>1, FS_AddElement
    <3> QED
      BY <1>3, <2>1, <2>2, <3>1, <3>2
  <2>4. CASE r # p
    BY <1>0, <1>3, <2>1, <2>4
  <2> QED
    BY <2>3, <2>4
<1> QED
  BY <1>6, <1>7, <1>8 DEF Accounted

LEMMA TakesReserveKeeps ==
    ASSUME NEW kk, kk \in KernelState, Accounted(kk), NEW ll, NEW p \in Proc,
           kk.sys_free_env_q # <<>>, TakesReserve(kk, ll, p)
    PROVE  Accounted(ll)
<1> DEFINE e == Head(kk.sys_free_env_q)
<1>0. /\ kk.sys_free_env_q \in Seq(SysEnv) /\ kk.held \in [Proc -> SUBSET Envs]
      /\ kk.env_owned \in [Proc -> Int] /\ kk.recv_msgs \in [Proc -> Seq(AnyMessage)]
  BY DEF KernelState
<1>1. /\ e \in Elements(kk.sys_free_env_q) /\ e \in SysEnv /\ e \in Envs
      /\ Elements(Tail(kk.sys_free_env_q)) = Elements(kk.sys_free_env_q) \ {e}
      /\ Once(Tail(kk.sys_free_env_q))
  BY <1>0, DropHead DEF Accounted, ListedOnce, Envs
<1>2. PICK w : Located(kk, w)
  BY DEF Accounted
<1> HIDE DEF e
<1>3. /\ ll.sys_free_env_q = Tail(kk.sys_free_env_q) /\ ll.free_env_q = kk.free_env_q
      /\ ll.recv_msgs = kk.recv_msgs
      /\ ll.held = [kk.held EXCEPT ![p] = @ \cup {e}]
      /\ ll.env_owned = [kk.env_owned EXCEPT ![p] = @ + 1]
  BY DEF TakesReserve, e
<1>4. \A r \in Proc, x \in Envs : x \in ll.held[r] <=> x \in kk.held[r] \/ (r = p /\ x = e)
  BY <1>0, <1>3
<1>5. /\ e \notin Elements(kk.free_env_q)
      /\ \A r \in Proc : e \notin kk.held[r] /\ e \notin Envelopes(kk.recv_msgs[r])
  <2>1. e \notin Elements(kk.free_env_q)
    <3>1. kk.free_env_q \in Seq(Env) /\ e \notin Env
      BY <1>1, EnvelopeAssumption DEF KernelState
    <3> QED
      BY <3>1 DEF Elements
  <2>2. w[e] = Pooled
    BY <1>1, <1>2 DEF Located
  <2> QED
    BY <1>1, <1>2, <2>1, <2>2, PlacesDiffer DEF Located
<1>6. \E v : Located(ll, v)
  <2>1. HeldBy(p) \in Place
    BY PlaceType
  <2>2. OthersStay(kk, ll, e)
    BY <1>1, <1>3, <1>4 DEF OthersStay
  <2>3. e \in Elements(ll.free_env_q) \/ e \in Elements(ll.sys_free_env_q) <=> HeldBy(p) = Pooled
    BY <1>1, <1>3, <1>5, PlacesDiffer
  <2>4. \A r \in Proc : /\ e \in ll.held[r] <=> HeldBy(p) = HeldBy(r)
                        /\ e \in Envelopes(ll.recv_msgs[r]) <=> HeldBy(p) = MailOf(r)
    BY <1>1, <1>3, <1>4, <1>5, PlacesDiffer
  <2>5. NowAt(ll, e, HeldBy(p))
    BY <2>3, <2>4, Zenon DEF NowAt
  <2>6. e \in Envs
    BY <1>1
  <2> HIDE DEF e
  <2> QED
    BY <1>2, <2>1, <2>2, <2>5, <2>6, Moved, Zenon
<1>7. ListedOnce(ll)
  BY <1>1, <1>3 DEF Accounted, ListedOnce
<1>8. Counted(ll)
  <2> SUFFICES ASSUME NEW r \in Proc
               PROVE  ll.env_owned[r] = Cardinality(ll.held[r]) + Len(ll.recv_msgs[r])
    BY DEF Counted
  <2>1. kk.env_owned[r] = Cardinality(kk.held[r]) + Len(kk.recv_msgs[r])
    BY DEF Accounted, Counted
  <2>2. IsFiniteSet(kk.held[r]) /\ Cardinality(kk.held[r]) \in Nat /\ Len(kk.recv_msgs[r]) \in Nat
    BY <1>0, HeldFinite
  <2>3. CASE r = p
    <3>1. ll.held[r] = kk.held[r] \cup {e} /\ ll.env_owned[r] = kk.env_owned[r] + 1
      BY <1>0, <1>3, <2>3
    <3>2. Cardinality(ll.held[r]) = Cardinality(kk.held[r]) + 1
      BY <1>5, <2>2, <3>1, FS_AddElement
    <3> QED
      BY <1>3, <2>1, <2>2, <3>1, <3>2
  <2>4. CASE r # p
    BY <1>0, <1>3, <2>1, <2>4
  <2> QED
    BY <2>3, <2>4
<1> QED
  BY <1>6, <1>7, <1>8 DEF Accounted

(* An envelope that is held goes back to where it came from.              *)
LEMMA FreesKeeps ==
    ASSUME NEW kk, kk \in KernelState, Accounted(kk), NEW ll, NEW p \in Proc,
           NEW e \in kk.held[p], e \in Env, Frees(kk, ll, p, e)
    PROVE  Accounted(ll)
<1>0. /\ kk.free_env_q \in Seq(Env) /\ kk.held \in [Proc -> SUBSET Envs] /\ e \in Envs
      /\ kk.env_owned \in [Proc -> Int] /\ kk.recv_msgs \in [Proc -> Seq(AnyMessage)]
  BY DEF KernelState
<1>2. PICK w : Located(kk, w)
  BY DEF Accounted
<1>5. /\ e \notin Elements(kk.free_env_q) /\ e \notin Elements(kk.sys_free_env_q)
      /\ \A r \in Proc : (e \in kk.held[r] <=> r = p) /\ e \notin Envelopes(kk.recv_msgs[r])
  <2>1. w[e] = HeldBy(p)
    BY <1>0, <1>2 DEF Located
  <2> QED
    BY <1>0, <1>2, <2>1, PlacesDiffer DEF Located
<1>1. /\ Elements(Append(kk.free_env_q, e)) = Elements(kk.free_env_q) \cup {e}
      /\ Once(Append(kk.free_env_q, e))
  BY <1>0, <1>5, AppendElement DEF Accounted, ListedOnce
<1>3. /\ ll.free_env_q = Append(kk.free_env_q, e) /\ ll.sys_free_env_q = kk.sys_free_env_q
      /\ ll.recv_msgs = kk.recv_msgs
      /\ ll.held = [kk.held EXCEPT ![p] = @ \ {e}]
      /\ ll.env_owned = [kk.env_owned EXCEPT ![p] = @ - 1]
  BY DEF Frees
<1>4. \A r \in Proc, x \in Envs : x \in ll.held[r] <=> x \in kk.held[r] /\ ~(r = p /\ x = e)
  BY <1>0, <1>3
<1>6. \E v : Located(ll, v)
  <2>1. Pooled \in Place
    BY PlaceType
  <2>2. OthersStay(kk, ll, e)
    BY <1>1, <1>3, <1>4 DEF OthersStay
  <2>3. e \in Elements(ll.free_env_q) \/ e \in Elements(ll.sys_free_env_q) <=> Pooled = Pooled
    BY <1>1, <1>3
  <2>4. \A r \in Proc : /\ e \in ll.held[r] <=> Pooled = HeldBy(r)
                        /\ e \in Envelopes(ll.recv_msgs[r]) <=> Pooled = MailOf(r)
    BY <1>0, <1>3, <1>4, <1>5, PlacesDiffer
  <2>5. NowAt(ll, e, Pooled)
    BY <2>3, <2>4, Zenon DEF NowAt
  <2>6. e \in Envs
    BY <1>0
  <2> QED
    BY <1>2, <2>1, <2>2, <2>5, <2>6, Moved, Zenon
<1>7. ListedOnce(ll)
  BY <1>1, <1>3 DEF Accounted, ListedOnce
<1>8. Counted(ll)
  <2> SUFFICES ASSUME NEW r \in Proc
               PROVE  ll.env_owned[r] = Cardinality(ll.held[r]) + Len(ll.recv_msgs[r])
    BY DEF Counted
  <2>1. kk.env_owned[r] = Cardinality(kk.held[r]) + Len(kk.recv_msgs[r])
    BY DEF Accounted, Counted
  <2>2. IsFiniteSet(kk.held[r]) /\ Cardinality(kk.held[r]) \in Nat /\ Len(kk.recv_msgs[r]) \in Nat
    BY <1>0, HeldFinite
  <2>3. CASE r = p
    <3>1. ll.held[r] = kk.held[r] \ {e} /\ ll.env_owned[r] = kk.env_owned[r] - 1
      BY <1>0, <1>3, <2>3
    <3>2. Cardinality(ll.held[r]) = Cardinality(kk.held[r]) - 1
      BY <1>5, <2>2, <2>3, <3>1, FS_RemoveElement
    <3>3. ll.env_owned[r] = kk.env_owned[r] - 1
      BY <3>1
    <3>4. ll.recv_msgs[r] = kk.recv_msgs[r]
      BY <1>3
    <3> QED
      BY <2>1, <2>2, <3>2, <3>3, <3>4
  <2>4. CASE r # p
    BY <1>0, <1>3, <2>1, <2>4
  <2> QED
    BY <2>3, <2>4
<1> QED
  BY <1>6, <1>7, <1>8 DEF Accounted

LEMMA PutsBackKeeps ==
    ASSUME NEW kk, kk \in KernelState, Accounted(kk), NEW ll, NEW p \in Proc,
           NEW e \in kk.held[p], e \in SysEnv, PutsBack(kk, ll, p, e)
    PROVE  Accounted(ll)
<1>0. /\ kk.sys_free_env_q \in Seq(SysEnv) /\ kk.held \in [Proc -> SUBSET Envs] /\ e \in Envs
      /\ kk.env_owned \in [Proc -> Int] /\ kk.recv_msgs \in [Proc -> Seq(AnyMessage)]
  BY DEF KernelState
<1>2. PICK w : Located(kk, w)
  BY DEF Accounted
<1>5. /\ e \notin Elements(kk.free_env_q) /\ e \notin Elements(kk.sys_free_env_q)
      /\ \A r \in Proc : (e \in kk.held[r] <=> r = p) /\ e \notin Envelopes(kk.recv_msgs[r])
  <2>1. w[e] = HeldBy(p)
    BY <1>0, <1>2 DEF Located
  <2> QED
    BY <1>0, <1>2, <2>1, PlacesDiffer DEF Located
<1>1. /\ Elements(Append(kk.sys_free_env_q, e)) = Elements(kk.sys_free_env_q) \cup {e}
      /\ Once(Append(kk.sys_free_env_q, e))
  BY <1>0, <1>5, AppendElement DEF Accounted, ListedOnce
<1>3. /\ ll.sys_free_env_q = Append(kk.sys_free_env_q, e) /\ ll.free_env_q = kk.free_env_q
      /\ ll.recv_msgs = kk.recv_msgs
      /\ ll.held = [kk.held EXCEPT ![p] = @ \ {e}]
      /\ ll.env_owned = [kk.env_owned EXCEPT ![p] = @ - 1]
  BY DEF PutsBack
<1>4. \A r \in Proc, x \in Envs : x \in ll.held[r] <=> x \in kk.held[r] /\ ~(r = p /\ x = e)
  BY <1>0, <1>3
<1>6. \E v : Located(ll, v)
  <2>1. Pooled \in Place
    BY PlaceType
  <2>2. OthersStay(kk, ll, e)
    BY <1>1, <1>3, <1>4 DEF OthersStay
  <2>3. e \in Elements(ll.free_env_q) \/ e \in Elements(ll.sys_free_env_q) <=> Pooled = Pooled
    BY <1>1, <1>3
  <2>4. \A r \in Proc : /\ e \in ll.held[r] <=> Pooled = HeldBy(r)
                        /\ e \in Envelopes(ll.recv_msgs[r]) <=> Pooled = MailOf(r)
    BY <1>0, <1>3, <1>4, <1>5, PlacesDiffer
  <2>5. NowAt(ll, e, Pooled)
    BY <2>3, <2>4, Zenon DEF NowAt
  <2>6. e \in Envs
    BY <1>0
  <2> QED
    BY <1>2, <2>1, <2>2, <2>5, <2>6, Moved, Zenon
<1>7. ListedOnce(ll)
  BY <1>1, <1>3 DEF Accounted, ListedOnce
<1>8. Counted(ll)
  <2> SUFFICES ASSUME NEW r \in Proc
               PROVE  ll.env_owned[r] = Cardinality(ll.held[r]) + Len(ll.recv_msgs[r])
    BY DEF Counted
  <2>1. kk.env_owned[r] = Cardinality(kk.held[r]) + Len(kk.recv_msgs[r])
    BY DEF Accounted, Counted
  <2>2. IsFiniteSet(kk.held[r]) /\ Cardinality(kk.held[r]) \in Nat /\ Len(kk.recv_msgs[r]) \in Nat
    BY <1>0, HeldFinite
  <2>3. CASE r = p
    <3>1. ll.held[r] = kk.held[r] \ {e} /\ ll.env_owned[r] = kk.env_owned[r] - 1
      BY <1>0, <1>3, <2>3
    <3>2. Cardinality(ll.held[r]) = Cardinality(kk.held[r]) - 1
      BY <1>5, <2>2, <2>3, <3>1, FS_RemoveElement
    <3>3. ll.env_owned[r] = kk.env_owned[r] - 1
      BY <3>1
    <3>4. ll.recv_msgs[r] = kk.recv_msgs[r]
      BY <1>3
    <3> QED
      BY <2>1, <2>2, <3>2, <3>3, <3>4
  <2>4. CASE r # p
    BY <1>0, <1>3, <2>1, <2>4
  <2> QED
    BY <2>3, <2>4
<1> QED
  BY <1>6, <1>7, <1>8 DEF Accounted

LEMMA ReleasesKeeps ==
    ASSUME NEW kk, kk \in KernelState, Accounted(kk), NEW ll, NEW p \in Proc,
           NEW e \in kk.held[p], Releases(kk, ll, p, e)
    PROVE  Accounted(ll)
<1>1. e \in Envs
  BY DEF KernelState
<1>2. CASE e \in SysEnv
  BY <1>2, PutsBackKeeps DEF Releases
<1>3. CASE e \notin SysEnv
  BY <1>1, <1>3, FreesKeeps DEF Releases, Envs
<1> QED
  BY <1>2, <1>3

(* An envelope that is sent goes from its sender to the mailbox.           *)
LEMMA SendsKeeps ==
    ASSUME NEW kk, kk \in KernelState, Accounted(kk), NEW ll, NEW p \in Proc, NEW dest \in Proc,
           NEW m \in AnyMessage, m.env \in kk.held[p], Sends(kk, ll, p, dest, m)
    PROVE  Accounted(ll)
<1> DEFINE e == m.env
<1>0. /\ kk.held \in [Proc -> SUBSET Envs] /\ e \in Envs
      /\ kk.env_owned \in [Proc -> Int] /\ kk.recv_msgs \in [Proc -> Seq(AnyMessage)]
  BY DEF KernelState
<1>2. PICK w : Located(kk, w)
  BY DEF Accounted
<1>5. /\ e \notin Elements(kk.free_env_q) /\ e \notin Elements(kk.sys_free_env_q)
      /\ \A r \in Proc : (e \in kk.held[r] <=> r = p) /\ e \notin Envelopes(kk.recv_msgs[r])
  <2>1. w[e] = HeldBy(p)
    BY <1>0, <1>2 DEF Located
  <2> QED
    BY <1>0, <1>2, <2>1, PlacesDiffer DEF Located
<1>a. kk.recv_msgs[dest] \in Seq(AnyMessage) /\ OnceMail(kk.recv_msgs[dest])
  BY <1>0 DEF Accounted, ListedOnce
<1>1. /\ Envelopes(Append(kk.recv_msgs[dest], m)) = Envelopes(kk.recv_msgs[dest]) \cup {e}
      /\ OnceMail(Append(kk.recv_msgs[dest], m))
  BY <1>5, <1>a, AppendMail
<1>b. Len(Append(kk.recv_msgs[dest], m)) = Len(kk.recv_msgs[dest]) + 1
  BY <1>a
<1> HIDE DEF e
<1>3. /\ ll.free_env_q = kk.free_env_q /\ ll.sys_free_env_q = kk.sys_free_env_q
      /\ ll.recv_msgs = [kk.recv_msgs EXCEPT ![dest] = Append(@, m)]
      /\ ll.held = [kk.held EXCEPT ![p] = @ \ {e}]
      /\ ll.env_owned = [[kk.env_owned EXCEPT ![p] = @ - 1] EXCEPT ![dest] = @ + 1]
  BY DEF Sends, e
<1>c. /\ ll.recv_msgs[dest] = Append(kk.recv_msgs[dest], m)
      /\ \A r \in Proc : r # dest => ll.recv_msgs[r] = kk.recv_msgs[r]
      /\ ll.held[p] = kk.held[p] \ {e}
      /\ \A r \in Proc : r # p => ll.held[r] = kk.held[r]
  BY <1>0, <1>3
<1>4. \A r \in Proc, x \in Envs : x \in ll.held[r] <=> x \in kk.held[r] /\ ~(r = p /\ x = e)
  BY <1>c
<1>d. \A r \in Proc, x \in Envs :
         x \in Envelopes(ll.recv_msgs[r]) <=> x \in Envelopes(kk.recv_msgs[r]) \/ (r = dest /\ x = e)
  BY <1>1, <1>c
<1>6. \E v : Located(ll, v)
  <2>1. MailOf(dest) \in Place
    BY PlaceType
  <2>2. OthersStay(kk, ll, e)
    BY <1>3, <1>4, <1>d DEF OthersStay
  <2>3. e \in Elements(ll.free_env_q) \/ e \in Elements(ll.sys_free_env_q) <=> MailOf(dest) = Pooled
    BY <1>3, <1>5, PlacesDiffer
  <2>4. \A r \in Proc : /\ e \in ll.held[r] <=> MailOf(dest) = HeldBy(r)
                        /\ e \in Envelopes(ll.recv_msgs[r]) <=> MailOf(dest) = MailOf(r)
    BY <1>0, <1>4, <1>5, <1>d, PlacesDiffer
  <2>5. NowAt(ll, e, MailOf(dest))
    BY <2>3, <2>4, Zenon DEF NowAt
  <2>6. e \in Envs
    BY <1>0
  <2> HIDE DEF e
  <2> QED
    BY <1>2, <2>1, <2>2, <2>5, <2>6, Moved, Zenon
<1>7. ListedOnce(ll)
  BY <1>1, <1>3, <1>c DEF Accounted, ListedOnce
<1>8. Counted(ll)
  <2> SUFFICES ASSUME NEW r \in Proc
               PROVE  ll.env_owned[r] = Cardinality(ll.held[r]) + Len(ll.recv_msgs[r])
    BY DEF Counted
  <2> DEFINE gone == IF r = p THEN 1 ELSE 0
             come == IF r = dest THEN 1 ELSE 0
  <2>1. kk.env_owned[r] = Cardinality(kk.held[r]) + Len(kk.recv_msgs[r])
    BY DEF Accounted, Counted
  <2>2. IsFiniteSet(kk.held[r]) /\ Cardinality(kk.held[r]) \in Nat /\ Len(kk.recv_msgs[r]) \in Nat
    BY <1>0, HeldFinite
  <2>3. Cardinality(ll.held[r]) = Cardinality(kk.held[r]) - gone
    <3>1. CASE r = p
      BY <1>5, <1>c, <2>2, <3>1, FS_RemoveElement
    <3>2. CASE r # p
      BY <1>c, <2>2, <3>2
    <3> QED
      BY <3>1, <3>2
  <2>4. Len(ll.recv_msgs[r]) = Len(kk.recv_msgs[r]) + come
    <3>1. CASE r = dest
      BY <1>b, <1>c, <3>1
    <3>2. CASE r # dest
      BY <1>c, <2>2, <3>2
    <3> QED
      BY <3>1, <3>2
  <2>5. ll.env_owned[r] = kk.env_owned[r] - gone + come
    BY <1>0, <1>3
  <2>6. gone \in Nat /\ come \in Nat
    OBVIOUS
  <2> HIDE DEF gone, come
  <2> QED
    BY <2>1, <2>2, <2>3, <2>4, <2>5, <2>6
<1> QED
  BY <1>6, <1>7, <1>8 DEF Accounted

(* A process takes the first envelope from its mailbox.                    *)
LEMMA TakesMailKeeps ==
    ASSUME NEW kk, kk \in KernelState, Accounted(kk), NEW ll, NEW p \in Proc,
           kk.recv_msgs[p] # <<>>, TakesMail(kk, ll, p)
    PROVE  /\ Accounted(ll)
           /\ Head(kk.recv_msgs[p]).env \in ll.held[p]
<1> DEFINE e == Head(kk.recv_msgs[p]).env
           box == Tail(kk.recv_msgs[p])
<1>0. /\ kk.held \in [Proc -> SUBSET Envs]
      /\ kk.env_owned \in [Proc -> Int] /\ kk.recv_msgs \in [Proc -> Seq(AnyMessage)]
  BY DEF KernelState
<1>a. kk.recv_msgs[p] \in Seq(AnyMessage) /\ OnceMail(kk.recv_msgs[p])
  BY <1>0 DEF Accounted, ListedOnce
<1>1. /\ e \in Envelopes(kk.recv_msgs[p]) /\ Head(kk.recv_msgs[p]) \in AnyMessage
      /\ Envelopes(box) = Envelopes(kk.recv_msgs[p]) \ {e}
      /\ OnceMail(box) /\ Len(box) = Len(kk.recv_msgs[p]) - 1
  BY <1>a, DropMail
<1>b. e \in Envs
  BY <1>1 DEF AnyMessage, MessagesWith
<1>2. PICK w : Located(kk, w)
  BY DEF Accounted
<1> HIDE DEF e, box
<1>5. /\ e \notin Elements(kk.free_env_q) /\ e \notin Elements(kk.sys_free_env_q)
      /\ \A r \in Proc : (e \in Envelopes(kk.recv_msgs[r]) <=> r = p) /\ e \notin kk.held[r]
  <2>1. w[e] = MailOf(p)
    BY <1>1, <1>b, <1>2 DEF Located
  <2> QED
    BY <1>b, <1>2, <2>1, PlacesDiffer DEF Located
<1>3. /\ ll.free_env_q = kk.free_env_q /\ ll.sys_free_env_q = kk.sys_free_env_q
      /\ ll.recv_msgs = [kk.recv_msgs EXCEPT ![p] = box]
      /\ ll.held = [kk.held EXCEPT ![p] = @ \cup {e}]
      /\ ll.env_owned = kk.env_owned
  BY DEF TakesMail, e, box
<1>c. /\ ll.recv_msgs[p] = box
      /\ \A r \in Proc : r # p => ll.recv_msgs[r] = kk.recv_msgs[r]
      /\ ll.held[p] = kk.held[p] \cup {e}
      /\ \A r \in Proc : r # p => ll.held[r] = kk.held[r]
  BY <1>0, <1>3
<1>4. \A r \in Proc, x \in Envs : x \in ll.held[r] <=> x \in kk.held[r] \/ (r = p /\ x = e)
  BY <1>c
<1>d. \A r \in Proc, x \in Envs :
         x \in Envelopes(ll.recv_msgs[r]) <=> x \in Envelopes(kk.recv_msgs[r]) /\ ~(r = p /\ x = e)
  BY <1>1, <1>c
<1>6. \E v : Located(ll, v)
  <2>1. HeldBy(p) \in Place
    BY PlaceType
  <2>2. OthersStay(kk, ll, e)
    BY <1>3, <1>4, <1>d DEF OthersStay
  <2>3. e \in Elements(ll.free_env_q) \/ e \in Elements(ll.sys_free_env_q) <=> HeldBy(p) = Pooled
    BY <1>3, <1>5, PlacesDiffer
  <2>4. \A r \in Proc : /\ e \in ll.held[r] <=> HeldBy(p) = HeldBy(r)
                        /\ e \in Envelopes(ll.recv_msgs[r]) <=> HeldBy(p) = MailOf(r)
    BY <1>b, <1>4, <1>5, <1>d, PlacesDiffer
  <2>5. NowAt(ll, e, HeldBy(p))
    BY <2>3, <2>4, Zenon DEF NowAt
  <2>6. e \in Envs
    BY <1>b
  <2> HIDE DEF e
  <2> QED
    BY <1>2, <2>1, <2>2, <2>5, <2>6, Moved, Zenon
<1>7. ListedOnce(ll)
  BY <1>1, <1>3, <1>c DEF Accounted, ListedOnce
<1>8. Counted(ll)
  <2> SUFFICES ASSUME NEW r \in Proc
               PROVE  ll.env_owned[r] = Cardinality(ll.held[r]) + Len(ll.recv_msgs[r])
    BY DEF Counted
  <2>1. kk.env_owned[r] = Cardinality(kk.held[r]) + Len(kk.recv_msgs[r])
    BY DEF Accounted, Counted
  <2>2. IsFiniteSet(kk.held[r]) /\ Cardinality(kk.held[r]) \in Nat /\ Len(kk.recv_msgs[r]) \in Nat
    BY <1>0, HeldFinite
  <2>3. ll.env_owned[r] = kk.env_owned[r]
    BY <1>3
  <2>4. CASE r = p
    <3>1. Cardinality(ll.held[r]) = Cardinality(kk.held[r]) + 1
      BY <1>5, <1>c, <2>2, <2>4, FS_AddElement
    <3>2. Len(ll.recv_msgs[r]) = Len(kk.recv_msgs[r]) - 1
      BY <1>1, <1>c, <2>4
    <3> DEFINE c == Cardinality(kk.held[r])
               n == Len(kk.recv_msgs[r])
    <3>3. /\ c \in Nat /\ n \in Nat /\ ll.env_owned[r] = c + n
          /\ Cardinality(ll.held[r]) = c + 1 /\ Len(ll.recv_msgs[r]) = n - 1
      BY <2>1, <2>2, <2>3, <3>1, <3>2
    <3> HIDE DEF c, n
    <3> QED
      BY <3>3
  <2>5. CASE r # p
    BY <1>c, <2>1, <2>3, <2>5
  <2> QED
    BY <2>4, <2>5
<1> QED
  BY <1>6, <1>7, <1>8, <1>c DEF Accounted, e

(* The timer empties its mailbox at once.                                  *)
LEMMA TakesAllMailKeeps ==
    ASSUME NEW kk, kk \in KernelState, Accounted(kk), NEW ll, NEW p \in Proc, TakesAllMail(kk, ll, p)
    PROVE  Accounted(ll)
<1> DEFINE mail == Envelopes(kk.recv_msgs[p])
<1>0. /\ kk.held \in [Proc -> SUBSET Envs]
      /\ kk.env_owned \in [Proc -> Int] /\ kk.recv_msgs \in [Proc -> Seq(AnyMessage)]
  BY DEF KernelState
<1>a. kk.recv_msgs[p] \in Seq(AnyMessage) /\ OnceMail(kk.recv_msgs[p])
  BY <1>0 DEF Accounted, ListedOnce
<1>1. IsFiniteSet(mail) /\ Cardinality(mail) = Len(kk.recv_msgs[p])
  BY <1>a, OnceMailLength
<1>2. PICK w : Located(kk, w)
  BY DEF Accounted
<1>b. Envelopes(<<>>) = {} /\ OnceMail(<<>>) /\ Len(<<>>) = 0
  BY DEF Envelopes, OnceMail
<1> HIDE DEF mail
<1>3. /\ ll.free_env_q = kk.free_env_q /\ ll.sys_free_env_q = kk.sys_free_env_q
      /\ ll.recv_msgs = [kk.recv_msgs EXCEPT ![p] = <<>>]
      /\ ll.held = [kk.held EXCEPT ![p] = @ \cup mail]
      /\ ll.env_owned = kk.env_owned
  BY DEF TakesAllMail, mail
<1>c. /\ ll.recv_msgs[p] = <<>>
      /\ \A r \in Proc : r # p => ll.recv_msgs[r] = kk.recv_msgs[r]
      /\ ll.held[p] = kk.held[p] \cup mail
      /\ \A r \in Proc : r # p => ll.held[r] = kk.held[r]
  BY <1>0, <1>3
<1>4. w \in [Envs -> Place] /\ \A x \in Envs : x \in mail <=> w[x] = MailOf(p)
  BY <1>2 DEF Located, mail
<1>6. \E v : Located(ll, v)
  <2> DEFINE v == [x \in Envs |-> IF w[x] = MailOf(p) THEN HeldBy(p) ELSE w[x]]
  <2>1. v \in [Envs -> Place] /\ \A x \in Envs : v[x] = IF w[x] = MailOf(p) THEN HeldBy(p) ELSE w[x]
    BY <1>4, PlaceType
  <2> HIDE DEF v
  <2>2. ASSUME NEW x \in Envs
        PROVE  /\ x \in Elements(ll.free_env_q) \/ x \in Elements(ll.sys_free_env_q) <=> v[x] = Pooled
               /\ \A r \in Proc : /\ x \in ll.held[r] <=> v[x] = HeldBy(r)
                                  /\ x \in Envelopes(ll.recv_msgs[r]) <=> v[x] = MailOf(r)
    <3>1. /\ x \in Elements(kk.free_env_q) \/ x \in Elements(kk.sys_free_env_q) <=> w[x] = Pooled
          /\ \A r \in Proc : /\ x \in kk.held[r] <=> w[x] = HeldBy(r)
                             /\ x \in Envelopes(kk.recv_msgs[r]) <=> w[x] = MailOf(r)
      BY <1>2 DEF Located
    <3>2. v[x] = IF w[x] = MailOf(p) THEN HeldBy(p) ELSE w[x]
      BY <2>1
    <3>3. x \in Elements(ll.free_env_q) \/ x \in Elements(ll.sys_free_env_q) <=> v[x] = Pooled
      BY <1>3, <3>1, <3>2, PlacesDiffer
    <3>4. ASSUME NEW r \in Proc
          PROVE  /\ x \in ll.held[r] <=> v[x] = HeldBy(r)
                 /\ x \in Envelopes(ll.recv_msgs[r]) <=> v[x] = MailOf(r)
      <4>1. CASE r = p
        BY <1>4, <1>b, <1>c, <3>1, <3>2, <4>1, PlacesDiffer
      <4>2. CASE r # p
        BY <1>c, <3>1, <3>2, <4>2, PlacesDiffer
      <4> QED
        BY <4>1, <4>2
    <3> QED
      BY <3>3, <3>4
  <2> QED
    BY <2>1, <2>2 DEF Located
<1>7. ListedOnce(ll)
  BY <1>3, <1>b, <1>c DEF Accounted, ListedOnce
<1>8. Counted(ll)
  <2> SUFFICES ASSUME NEW r \in Proc
               PROVE  ll.env_owned[r] = Cardinality(ll.held[r]) + Len(ll.recv_msgs[r])
    BY DEF Counted
  <2>1. kk.env_owned[r] = Cardinality(kk.held[r]) + Len(kk.recv_msgs[r])
    BY DEF Accounted, Counted
  <2>2. IsFiniteSet(kk.held[r]) /\ Cardinality(kk.held[r]) \in Nat /\ Len(kk.recv_msgs[r]) \in Nat
    BY <1>0, HeldFinite
  <2>3. ll.env_owned[r] = kk.env_owned[r]
    BY <1>3
  <2>4. CASE r = p
    <3>1. kk.held[r] \cap mail = {}
      <4>1. \A x \in kk.held[p] : x \in Envs
        BY <1>0
      <4> QED
        BY <1>2, <1>4, <2>4, <4>1, PlacesDiffer DEF Located
    <3>2. Cardinality({}) = 0
      BY FS_EmptySet
    <3>3. Cardinality(kk.held[r] \cup mail) = Cardinality(kk.held[r]) + Cardinality(mail)
              - Cardinality(kk.held[r] \cap mail)
      BY <1>1, <2>2, FS_Union
    <3> DEFINE c == Cardinality(kk.held[r])
               n == Len(kk.recv_msgs[r])
    <3>4. ll.held[r] = kk.held[r] \cup mail /\ Cardinality(mail) = n
      BY <1>1, <1>c, <2>4
    <3>5. Cardinality(kk.held[r] \cap mail) = 0
      BY <3>1, <3>2
    <3>6. c \in Nat /\ n \in Nat /\ ll.env_owned[r] = c + n
      BY <2>1, <2>2, <2>3
    <3> HIDE DEF n
    <3>7. Cardinality(ll.held[r]) = c + n - 0
      BY <3>3, <3>4, <3>5
    <3>8. Len(ll.recv_msgs[r]) = 0
      BY <1>b, <1>c, <2>4
    <3> HIDE DEF c
    <3> QED
      BY <3>6, <3>7, <3>8
  <2>5. CASE r # p
    BY <1>c, <2>1, <2>3, <2>5
  <2> QED
    BY <2>4, <2>5
<1> QED
  BY <1>6, <1>7, <1>8 DEF Accounted

LEMMA BootAccounted == Accounted(k_init)
<1>1. /\ SetOrder(Env) \in Seq(Env) /\ Elements(SetOrder(Env)) = Env /\ Once(SetOrder(Env))
      /\ SetOrder(SysEnv) \in Seq(SysEnv) /\ Elements(SetOrder(SysEnv)) = SysEnv
      /\ Once(SetOrder(SysEnv))
  BY PoolOrder
<1>2. /\ k_init.free_env_q = SetOrder(Env) /\ k_init.sys_free_env_q = SetOrder(SysEnv)
      /\ \A p \in Proc : /\ k_init.recv_msgs[p] = <<>> /\ k_init.env_owned[p] = 0
                         /\ k_init.held[p] = {}
  BY DEF k_init
<1>3. Envelopes(<<>>) = {} /\ OnceMail(<<>>) /\ Len(<<>>) = 0
  BY DEF Envelopes, OnceMail
<1>4. Located(k_init, [e \in Envs |-> Pooled])
  <2> DEFINE w == [e \in Envs |-> Pooled]
  <2>1. w \in [Envs -> Place] /\ \A e \in Envs : w[e] = Pooled
    BY PlaceType
  <2> HIDE DEF w
  <2>2. \A e \in Envs : e \in Elements(k_init.free_env_q) \/ e \in Elements(k_init.sys_free_env_q)
    BY <1>1, <1>2 DEF Envs
  <2>3. \A e \in Envs, p \in Proc : e \notin k_init.held[p] /\ e \notin Envelopes(k_init.recv_msgs[p])
    BY <1>2, <1>3
  <2>4. Located(k_init, w)
    BY <2>1, <2>2, <2>3, PlacesDiffer DEF Located
  <2> QED
    BY <2>4 DEF w
<1>5. ListedOnce(k_init)
  BY <1>1, <1>2, <1>3 DEF ListedOnce
<1>6. Counted(k_init)
  <2>1. Cardinality({}) = 0
    BY FS_EmptySet
  <2> SUFFICES ASSUME NEW p \in Proc
               PROVE  k_init.env_owned[p] = Cardinality(k_init.held[p]) + Len(k_init.recv_msgs[p])
    BY DEF Counted
  <2>2. k_init.env_owned[p] = 0 /\ Cardinality(k_init.held[p]) = 0 /\ Len(k_init.recv_msgs[p]) = 0
    BY <1>2, <1>3, <2>1
  <2> QED
    BY <2>2
<1> QED
  BY <1>4, <1>5, <1>6 DEF Accounted

(* What a primitive does to the envelopes on behalf of p.                  *)
EnvelopeStep(kk, ll, p) ==
    \/ SameEnvelopes(kk, ll)
    \/ kk.free_env_q # <<>> /\ TakesFree(kk, ll, p)
    \/ kk.sys_free_env_q # <<>> /\ TakesReserve(kk, ll, p)
    \/ \E e \in kk.held[p] : Releases(kk, ll, p, e)
    \/ \E dest \in Proc, m \in AnyMessage : m.env \in kk.held[p] /\ Sends(kk, ll, p, dest, m)
    \/ kk.recv_msgs[p] # <<>> /\ TakesMail(kk, ll, p)

LEMMA SameEnvelopesKeeps ==
    ASSUME NEW kk, Accounted(kk), NEW ll, SameEnvelopes(kk, ll)
    PROVE  Accounted(ll)
  BY DEF Accounted, SameEnvelopes, Located, ListedOnce, Counted

LEMMA EnvelopeStepKeeps ==
    ASSUME NEW kk, kk \in KernelState, Accounted(kk), NEW ll, NEW p \in Proc, EnvelopeStep(kk, ll, p)
    PROVE  Accounted(ll)
<1>1. CASE SameEnvelopes(kk, ll)
  BY <1>1, SameEnvelopesKeeps
<1>2. CASE kk.free_env_q # <<>> /\ TakesFree(kk, ll, p)
  BY <1>2, TakesFreeKeeps
<1>3. CASE kk.sys_free_env_q # <<>> /\ TakesReserve(kk, ll, p)
  BY <1>3, TakesReserveKeeps
<1>4. CASE \E e \in kk.held[p] : Releases(kk, ll, p, e)
  BY <1>4, ReleasesKeeps
<1>5. CASE \E dest \in Proc, m \in AnyMessage : m.env \in kk.held[p] /\ Sends(kk, ll, p, dest, m)
  BY <1>5, SendsKeeps
<1>6. CASE kk.recv_msgs[p] # <<>> /\ TakesMail(kk, ll, p)
  BY <1>6, TakesMailKeeps
<1> QED
  BY <1>1, <1>2, <1>3, <1>4, <1>5, <1>6 DEF EnvelopeStep

(* What the timer holds changes in its own interrupt only.                 *)
LEMMA OtherHolds ==
    ASSUME NEW kk, kk \in KernelState, NEW ll, NEW p \in Proc, EnvelopeStep(kk, ll, p),
           NEW r \in Proc, r # p
    PROVE  ll.held[r] = kk.held[r]
<1>1. kk.held \in [Proc -> SUBSET Envs]
  BY DEF KernelState
<1>2. ll.held = kk.held \/ \E S : ll.held = [kk.held EXCEPT ![p] = S]
  BY DEF EnvelopeStep, SameEnvelopes, TakesFree, TakesReserve, Releases, Frees, PutsBack, Sends,
         TakesMail
<1> QED
  BY <1>1, <1>2

(* The envelopes of the timeouts are those the timer holds.                *)
TimerHolds ==
    /\ k.held[TIMER_I_PROCESS_PID] = Envelopes(timeout_queue)
    /\ OnceMail(timeout_queue)

EnvelopeInv == BoardInv /\ Accounted(k) /\ TimerHolds

LEMMA EnvelopeInvInit == Init => EnvelopeInv
<1> SUFFICES ASSUME Init PROVE EnvelopeInv
  OBVIOUS
<1>1. Accounted(k)
  BY BootAccounted DEF Init
<1>2. TimerHolds
  <2>1. k.held[TIMER_I_PROCESS_PID] = {} /\ timeout_queue = <<>>
    BY Pids DEF Init, init_timer, k_init
  <2> QED
    BY <2>1 DEF TimerHolds, Envelopes, OnceMail
<1> QED
  BY <1>1, <1>2, BoardInvInit DEF EnvelopeInv

LEMMA OtherStep ==
    ASSUME EnvelopeInv, NEW p \in Proc, p # TIMER_I_PROCESS_PID, EnvelopeStep(k, k', p),
           UNCHANGED timing
    PROVE  Accounted(k') /\ TimerHolds'
<1>1. k \in KernelState /\ Accounted(k)
  BY DEF EnvelopeInv, BoardInv, KernelOk, KernelMidway
<1>2. Accounted(k')
  BY <1>1, EnvelopeStepKeeps
<1>3. k'.held[TIMER_I_PROCESS_PID] = k.held[TIMER_I_PROCESS_PID]
  BY <1>1, OtherHolds, Pids
<1>4. timeout_queue' = timeout_queue
  BY DEF timing
<1> QED
  BY <1>2, <1>3, <1>4 DEF EnvelopeInv, TimerHolds

LEMMA LoopSteps ==
    ASSUME BoardInv, self \in UserProc, RequestLoop \/ ReceiveLoop
    PROVE  EnvelopeStep(k, k', self)
<1>0. KernelOk(k) /\ KernelMidway(k) /\ self \in Proc /\ k.current_process = self /\ self # NULL_PID
  BY Pids, SelfType DEF BoardInv, KernelOk, self
<1>1. CASE RequestLoop
  <2>1. CASE k.free_env_q = <<>>
    BY <1>0, <1>1, <2>1, RequestBlocksOk DEF RequestLoop, EnvelopeStep
  <2>2. CASE k.free_env_q # <<>>
    BY <1>0, <1>1, <2>2, FreeGrantedOk DEF RequestLoop, EnvelopeStep
  <2> QED
    BY <2>1, <2>2
<1>2. CASE ReceiveLoop
  <2>1. CASE HasMail(k, self)
    <3>1. k.recv_msgs[self] # <<>> /\ k' = MailTaken(k, self)
      BY <1>2, <2>1 DEF HasMail, ReceiveLoop
    <3> QED
      BY <1>0, <3>1, MailTakenOk DEF EnvelopeStep
  <2>2. CASE ~HasMail(k, self)
    <3>1. k.recv_msgs[self] = <<>> /\ k' = k_process_switch(k, "P_BLOCKED_ON_RECEIVE")
      BY <1>2, <2>2 DEF HasMail, ReceiveLoop
    <3> QED
      BY <1>0, <3>1, ReceiveBlocksOk DEF EnvelopeStep
  <2> QED
    BY <2>1, <2>2
<1> QED
  BY <1>1, <1>2

(* A send of an envelope its sender holds.                                 *)
LEMMA SendStep ==
    ASSUME NEW kk, KernelOk(kk), NEW p \in Proc, NEW dest \in Proc, NEW m \in MailFor(dest),
           m.env \in kk.held[p]
    PROVE  EnvelopeStep(kk, k_send_message(kk, p, dest, m), p)
  BY SendOk, MailForIsMessage DEF EnvelopeStep

LEMMA ReleaseStep ==
    ASSUME NEW kk, KernelOk(kk), NEW p \in Proc, NEW e \in kk.held[p]
    PROVE  EnvelopeStep(kk, k_release_msg_env(kk, p, e), p)
<1>1. e \in Envs
  BY DEF KernelOk, KernelMidway, KernelState
<1> QED
  BY <1>1, ReleaseOk DEF EnvelopeStep

LEMMA UserTrapSteps ==
    ASSUME BoardInv, UserTrap
    PROVE  EnvelopeStep(k, k', self) /\ UNCHANGED timing
<1>0. /\ KernelOk(k) /\ self \in Proc /\ k.held[self] \subseteq Envs
      /\ TIMER_I_PROCESS_PID \in Proc /\ UART_I_PROCESS_PID \in Proc
  BY SelfType, Pids DEF BoardInv
<1>1. CASE Trap(release_processor)
  BY <1>0, <1>1, TrapTable, ReleaseProcessorOk DEF Trap, EnvelopeStep
<1>2. ASSUME self \in UserProc, Trap(receive_message) \/ Trap(request_msg_env)
      PROVE  EnvelopeStep(k, k', self) /\ UNCHANGED timing
  BY <1>2, TrapTable, LoopSteps DEF Trap
<1>4. ASSUME NEW n \in 0 .. NUM_PRIORITIES - 1, NEW p \in Target, Trap(change_priority(n, p))
      PROVE  EnvelopeStep(k, k', self) /\ UNCHANGED timing
  <2>1. k' = k_change_priority(k, n, p) /\ UNCHANGED timing
    BY <1>4, TrapTable DEF Trap
  <2> QED
    BY <1>0, <2>1, ChangePriorityOk DEF EnvelopeStep
<1>5. ASSUME NEW e \in k.held[self], Trap(release_msg_env(e))
      PROVE  EnvelopeStep(k, k', self) /\ UNCHANGED timing
  <2>1. k' = k_release_msg_env(k, self, e) /\ UNCHANGED timing
    BY <1>5, TrapTable DEF Trap
  <2> QED
    BY <1>0, <2>1, ReleaseStep
<1>6. ASSUME NEW e \in k.held[self], NEW d \in UserProc, Trap(send_message(d, e))
      PROVE  EnvelopeStep(k, k', self) /\ UNCHANGED timing
  <2> DEFINE m == Message(e, self, "user", 0)
  <2>1. k' = k_send_message(k, self, d, m) /\ UNCHANGED timing
    BY <1>6, TrapTable DEF Trap, Content
  <2>2. m \in MailFor(d) /\ d \in Proc
    BY <1>0, MessageType, Pids DEF MessageTypes, UserProc
  <2>3. m.env = e
    BY DEF Message
  <2> HIDE DEF m
  <2> QED
    BY <1>0, <2>1, <2>2, <2>3, SendStep
<1>7. ASSUME self \in UserProc, NEW e \in k.held[self], NEW t \in Delay,
             Trap(request_delay(t, "WAKEUP", e))
      PROVE  EnvelopeStep(k, k', self) /\ UNCHANGED timing
  <2> DEFINE m == Message(e, self, "WAKEUP", t)
  <2>1. k' = k_send_message(k, self, TIMER_I_PROCESS_PID, m) /\ UNCHANGED timing
    BY <1>7, TrapTable DEF Trap, k_request_delay
  <2>2. m \in MailFor(TIMER_I_PROCESS_PID)
    BY <1>0, <1>7, MessageType DEF MessageTypes
  <2>3. m.env = e
    BY DEF Message
  <2> HIDE DEF m
  <2> QED
    BY <1>0, <2>1, <2>2, <2>3, SendStep
<1>8. ASSUME self \in UserProc, NEW e \in k.held[self], NEW a \in BOOLEAN, NEW text \in Text,
             kern_swi_handler(send_console_chars(e, a), Content("user", text))
      PROVE  EnvelopeStep(k, k', self) /\ UNCHANGED timing
  <2> DEFINE type == IF a THEN "CONSOLE_OUTPUT_REQUEST_ACK" ELSE "CONSOLE_OUTPUT"
             m == Message(e, self, type, text)
  <2>1. k_send_console_chars(e, a, text)
    BY <1>8, TrapTable DEF Content
  <2>2. k' = k_send_message(k, self, UART_I_PROCESS_PID, m) /\ UNCHANGED timing
    BY <2>1 DEF k_send_console_chars
  <2>3. m \in MailFor(UART_I_PROCESS_PID)
    BY <1>0, <1>8, MessageType DEF MessageTypes
  <2>4. m.env = e
    BY DEF Message
  <2> HIDE DEF m
  <2> QED
    BY <1>0, <2>2, <2>3, <2>4, SendStep
<1> QED
  BY <1>1, <1>2, <1>4, <1>5, <1>6, <1>7, <1>8 DEF UserTrap

(* The texts the serial port loads.                                        *)
LEMMA TextLoadedAccounts ==
    ASSUME NEW kk, KernelOk(kk), Accounted(kk), HasMail(kk, UART_I_PROCESS_PID)
    PROVE  /\ Accounted(TextLoaded(kk).k)
           /\ TextLoaded(kk).k.held[TIMER_I_PROCESS_PID] = kk.held[TIMER_I_PROCESS_PID]
<1> DEFINE u == UART_I_PROCESS_PID
           m == Head(kk.recv_msgs[u])
           taken == MailTaken(kk, u)
           ack == Message(m.env, u, "DISPLAY_ACK", 0)
           ll == TextLoaded(kk).k
<1>1. /\ u \in Proc /\ kk.recv_msgs[u] # <<>> /\ kk \in KernelState
      /\ TIMER_I_PROCESS_PID \in Proc /\ TIMER_I_PROCESS_PID # u
  BY Pids, BoardAssumption DEF HasMail, KernelOk, KernelMidway
<1>2. KernelOk(taken) /\ TakesMail(kk, taken, u) /\ m \in MailFor(u)
  BY <1>1, MailTakenOk
<1>3. m.env \in Envs /\ m.send_pid \in UserProc
  <2>1. m \in MessagesWith(UserProc, Text)
    BY <1>2, BoardAssumption DEF MailFor
  <2> QED
    BY <2>1 DEF MessagesWith
<1>4. ll = IF m.msg_type = "CONSOLE_OUTPUT"
             THEN k_release_msg_env(taken, u, m.env)
             ELSE k_send_message(taken, u, m.send_pid, ack)
  BY DEF TextLoaded, AckGoesTo
<1>5. EnvelopeStep(kk, taken, u)
  BY <1>1, <1>2 DEF EnvelopeStep
<1>6. Accounted(taken) /\ m.env \in taken.held[u]
  BY <1>1, <1>2, TakesMailKeeps
<1>7. ack \in MailFor(m.send_pid) /\ m.send_pid \in Proc /\ ack.env = m.env
  BY <1>1, <1>3, MessageType DEF MessageTypes, UserProc
<1> HIDE DEF taken, m, ack, u, ll
<1>8. EnvelopeStep(taken, ll, u)
  BY <1>1, <1>2, <1>4, <1>6, <1>7, SendStep, ReleaseStep
<1>9. taken \in KernelState
  BY <1>2 DEF KernelOk, KernelMidway
<1>10. Accounted(ll)
  BY <1>1, <1>6, <1>8, <1>9, EnvelopeStepKeeps
<1>11. /\ taken.held[TIMER_I_PROCESS_PID] = kk.held[TIMER_I_PROCESS_PID]
       /\ ll.held[TIMER_I_PROCESS_PID] = taken.held[TIMER_I_PROCESS_PID]
  BY <1>1, <1>5, <1>8, <1>9, OtherHolds
<1> QED
  BY <1>10, <1>11 DEF ll

LEMMA NextTextAccounts ==
    ASSUME NEW kk, KernelOk(kk), Accounted(kk), NEW o
    PROVE  /\ Accounted(NextText(kk, o).k)
           /\ NextText(kk, o).k.held[TIMER_I_PROCESS_PID] = kk.held[TIMER_I_PROCESS_PID]
  BY TextLoadedAccounts DEF NextText

LEMMA TransmitAccounts ==
    ASSUME EnvelopeInv, asm_uart_entry(TransmitHalf)
    PROVE  Accounted(k') /\ TimerHolds'
<1> DEFINE first == IF out.output_print_char THEN [out |-> out, k |-> k] ELSE NextText(k, out)
           next == NextText(first.k, Idle)
<1>1. UNCHANGED timing /\ k' \in {k, first.k, next.k}
  BY DEF asm_uart_entry, isr_handler, TransmitHalf
<1>2. KernelOk(k) /\ Accounted(k) /\ OutOk(out)
  BY DEF EnvelopeInv, BoardInv, SerialOk, OutOk
<1>3. /\ KernelOk(first.k) /\ Accounted(first.k)
      /\ first.k.held[TIMER_I_PROCESS_PID] = k.held[TIMER_I_PROCESS_PID]
  <2>1. CASE out.output_print_char
    BY <1>2, <2>1
  <2>2. CASE ~out.output_print_char
    BY <1>2, <2>2, NextTextOk, NextTextAccounts
  <2> QED
    BY <2>1, <2>2
<1> HIDE DEF first
<1>4. Accounted(next.k) /\ next.k.held[TIMER_I_PROCESS_PID] = k.held[TIMER_I_PROCESS_PID]
  BY <1>3, NextTextAccounts
<1> HIDE DEF next
<1>5. Accounted(k') /\ k'.held[TIMER_I_PROCESS_PID] = k.held[TIMER_I_PROCESS_PID]
  BY <1>1, <1>2, <1>3, <1>4
<1>6. timeout_queue' = timeout_queue
  BY <1>1 DEF timing
<1> QED
  BY <1>5, <1>6 DEF EnvelopeInv, TimerHolds

LEMMA ReceiveAccounts ==
    ASSUME EnvelopeInv, asm_uart_entry(ReceiveHalf)
    PROVE  Accounted(k') /\ TimerHolds'
<1>0. /\ KernelOk(k) /\ Accounted(k) /\ k \in KernelState
      /\ UART_I_PROCESS_PID \in Proc /\ TIMER_I_PROCESS_PID \in Proc
      /\ TIMER_I_PROCESS_PID # UART_I_PROCESS_PID
      /\ CCI_PID \in UserProc /\ CCI_PID \in Proc
  BY Pids, BoardAssumption DEF EnvelopeInv, BoardInv, KernelOk, KernelMidway
<1>1. ReceiveHalf /\ UNCHANGED timing
  BY DEF asm_uart_entry, isr_handler
<1>2. CASE PlainKey
  <2>1. SameEnvelopes(k, k')
    BY <1>2 DEF PlainKey, SameEnvelopes
  <2> QED
    BY <1>0, <1>1, <2>1, OtherStep DEF EnvelopeStep
<1>3. ASSUME NEW line \in Line, LineEnd(line) PROVE Accounted(k') /\ TimerHolds'
  <2> DEFINE u == UART_I_PROCESS_PID
             granted == RequestByIProcess(k, u)
             new == granted.held[u]
             e == CHOOSE env \in new : TRUE
             m == Message(e, u, "CONSOLE_INPUT", line)
  <2>1. k' = IF new = {} THEN granted ELSE k_send_message(granted, u, CCI_PID, m)
    BY <1>3 DEF LineEnd
  <2>2. KernelOk(granted) /\ EnvelopeStep(k, granted, u)
    <3>1. SameEnvelopes(k, k)
      BY DEF SameEnvelopes
    <3> QED
      BY <1>0, <3>1, RequestByIProcessOk, Pids DEF EnvelopeStep
  <2> HIDE DEF granted
  <2>3. Accounted(granted) /\ granted.held[TIMER_I_PROCESS_PID] = k.held[TIMER_I_PROCESS_PID]
    BY <1>0, <2>2, EnvelopeStepKeeps, OtherHolds
  <2>4. granted \in KernelState
    BY <2>2 DEF KernelOk, KernelMidway
  <2>5. ASSUME new # {}
        PROVE  EnvelopeStep(granted, k_send_message(granted, u, CCI_PID, m), u)
    <3>1. e \in granted.held[u]
      BY <2>5
    <3>2. e \in Envs
      BY <1>0, <2>4, <3>1 DEF KernelState
    <3> HIDE DEF e
    <3>3. m \in MailFor(CCI_PID) /\ m.env = e
      BY <1>0, <3>2, MessageType DEF MessageTypes
    <3> HIDE DEF m
    <3> QED
      BY <1>0, <2>2, <3>1, <3>3, SendStep
  <2> HIDE DEF m, new
  <2>6. k' = granted \/ EnvelopeStep(granted, k', u)
    BY <2>1, <2>5
  <2>7. Accounted(k') /\ k'.held[TIMER_I_PROCESS_PID] = k.held[TIMER_I_PROCESS_PID]
    <3>1. CASE k' = granted
      BY <2>3, <3>1
    <3>2. CASE EnvelopeStep(granted, k', u)
      BY <1>0, <2>3, <2>4, <3>2, EnvelopeStepKeeps, OtherHolds
    <3> QED
      BY <2>6, <3>1, <3>2
  <2>8. timeout_queue' = timeout_queue
    BY <1>1 DEF timing
  <2> QED
    BY <2>7, <2>8 DEF EnvelopeInv, TimerHolds
<1> QED
  BY <1>1, <1>2, <1>3 DEF ReceiveHalf

(* The timer moves its mail to the list of timeouts, and the head of the   *)
(* list, if it is due, back to its owner.                                  *)
LEMMA TimerAccounts ==
    ASSUME EnvelopeInv, asm_timer_entry
    PROVE  Accounted(k') /\ TimerHolds'
<1> DEFINE now == clock + 1
           t == TIMER_I_PROCESS_PID
           mail == k.recv_msgs[t]
           queue == InsertAll(timeout_queue, mail, now)
           kept == MailboxEmptied(k, t)
           h == Head(queue)
           m == Message(h.env, t, h.msg_type, 0)
<1>1. IF check_timeout_queue(queue, now)
        THEN /\ timeout_queue' = Tail(queue)
             /\ k' = k_send_message(kept, t, h.send_pid, m)
        ELSE /\ timeout_queue' = queue
             /\ k' = kept
  BY DEF asm_timer_entry, isr_handler, timer_i_process
<1>2. /\ t \in Proc /\ KernelOk(k) /\ k \in KernelState /\ Accounted(k)
      /\ mail \in Seq(DelayRequest) /\ timeout_queue \in Seq(Node) /\ now \in Nat
      /\ k.recv_msgs \in [Proc -> Seq(AnyMessage)] /\ k.held \in [Proc -> SUBSET Envs]
  BY TimerMail, SelfType, Pids DEF EnvelopeInv, BoardInv, KernelOk, KernelMidway, KernelState
<1>3. KernelOk(kept) /\ TakesAllMail(k, kept, t)
  BY <1>2, Pids, MailboxEmptiedOk
<1>4. k.held[t] = Envelopes(timeout_queue) /\ OnceMail(timeout_queue) /\ OnceMail(mail)
  BY <1>2 DEF EnvelopeInv, TimerHolds, Accounted, ListedOnce
<1>5. k.held[t] \cap Envelopes(mail) = {}
  <2>1. PICK w : Located(k, w)
    BY <1>2 DEF Accounted
  <2>2. \A x \in k.held[t] : x \in Envs /\ x \notin Envelopes(mail)
    BY <1>2, <2>1, PlacesDiffer DEF Located
  <2> QED
    BY <2>2
<1>6. queue \in Seq(Node)
  BY <1>2, InsertAllType
<1>7. Envelopes(queue) = k.held[t] \cup Envelopes(mail) /\ OnceMail(queue)
  BY <1>2, <1>4, <1>5, InsertAllEnvelopes
<1> HIDE DEF queue, kept, now
<1>8. Accounted(kept) /\ kept.held[t] = Envelopes(queue)
  <2>1. kept.held = [k.held EXCEPT ![t] = @ \cup Envelopes(mail)]
    BY <1>3 DEF TakesAllMail
  <2>2. Accounted(kept)
    BY <1>2, <1>3, TakesAllMailKeeps
  <2> QED
    BY <1>2, <1>7, <2>1, <2>2
<1> HIDE DEF t, mail, h, m
<1>9. CASE ~check_timeout_queue(queue, now)
  BY <1>1, <1>7, <1>8, <1>9 DEF TimerHolds, t
<1>10. CASE check_timeout_queue(queue, now)
  <2>1. queue # <<>> /\ timeout_queue' = Tail(queue) /\ k' = k_send_message(kept, t, h.send_pid, m)
    BY <1>1, <1>10 DEF check_timeout_queue
  <2>2. /\ h.env \in Envelopes(queue) /\ h \in Node
        /\ Envelopes(Tail(queue)) = Envelopes(queue) \ {h.env} /\ OnceMail(Tail(queue))
    BY <1>6, <1>7, <2>1, DropMail DEF h
  <2>3. h.env \in Envs /\ h.send_pid \in UserProc /\ h.msg_type \in MessageTypes
    BY <2>2 DEF Node
  <2>4. m \in MailFor(h.send_pid) /\ h.send_pid \in Proc
    BY <1>2, <2>3, MessageType, Pids DEF m, UserProc
  <2>5. m.env = h.env
    BY DEF m, Message
  <2>6. EnvelopeStep(kept, k', t) /\ Sends(kept, k', t, h.send_pid, m)
    BY <1>2, <1>3, <1>8, <2>1, <2>2, <2>4, <2>5, SendStep, SendOk
  <2>7. kept \in KernelState
    BY <1>3 DEF KernelOk, KernelMidway
  <2>8. Accounted(k')
    BY <1>2, <1>8, <2>6, <2>7, EnvelopeStepKeeps
  <2>9. k'.held[t] = kept.held[t] \ {h.env}
    <3>1. kept.held \in [Proc -> SUBSET Envs]
      BY <2>7 DEF KernelState
    <3>2. k'.held = [kept.held EXCEPT ![t] = @ \ {h.env}]
      BY <2>5, <2>6 DEF Sends
    <3> QED
      BY <1>2, <3>1, <3>2
  <2> QED
    BY <1>8, <2>1, <2>2, <2>8, <2>9 DEF TimerHolds, t
<1> QED
  BY <1>9, <1>10

LEMMA EnvelopeInvNext == EnvelopeInv /\ [Next]_vars => EnvelopeInv'
<1> SUFFICES ASSUME EnvelopeInv, [Next]_vars PROVE EnvelopeInv'
  OBVIOUS
<1>1. BoardInv'
  BY BoardInvNext DEF EnvelopeInv
<1>2. Accounted(k') /\ TimerHolds'
  <2>0. BoardInv /\ self \in Proc /\ self # TIMER_I_PROCESS_PID
    BY SelfType, Pids DEF EnvelopeInv, Threads
  <2>1. CASE UserTrap
    BY <2>0, <2>1, UserTrapSteps, OtherStep
  <2>2. CASE ResumeInLoop
    <3>1. self \in UserProc /\ (RequestLoop \/ ReceiveLoop) /\ UNCHANGED timing
      BY <2>0, <2>2 DEF BoardInv, CallsOk, ResumeInLoop
    <3> QED
      BY <2>0, <3>1, LoopSteps, OtherStep
  <2>3. CASE UNCHANGED vars
    BY <2>3 DEF vars, timing, EnvelopeInv, TimerHolds
  <2> QED
    BY <2>1, <2>2, <2>3, TimerAccounts, ReceiveAccounts, TransmitAccounts DEF Next
<1> QED
  BY <1>1, <1>2 DEF EnvelopeInv

(* Every envelope of the board is in one place, whatever traps and         *)
(* interrupts do in whatever order: in the pool it came from, with one     *)
(* process, or in one mailbox; env_owned counts what a process has, and    *)
(* the timer holds what its list of timeouts names (k_primitives.c,        *)
(* timer_i_process.c, uart_i_process.c).                                   *)
THEOREM EveryEnvelopeAccounted == Spec => []EnvelopesAccounted
<1>1. EnvelopeInv => EnvelopesAccounted
  <2> SUFFICES ASSUME EnvelopeInv PROVE EnvelopesAccounted
    OBVIOUS
  <2>0. /\ k.free_env_q \in Seq(Env) /\ k.sys_free_env_q \in Seq(SysEnv)
        /\ Accounted(k)
    BY DEF EnvelopeInv, BoardInv, KernelOk, KernelMidway, KernelState
  <2>1. Elements(k.free_env_q) \subseteq Env /\ Elements(k.sys_free_env_q) \subseteq SysEnv
    BY <2>0 DEF Elements
  <2>2. PICK w : Located(k, w)
    BY <2>0 DEF Accounted
  <2>3. ASSUME NEW e \in Envs
        PROVE  Cardinality({p \in Proc : e \in k.held[p]}) + Cardinality({p \in Proc : e \in Mail(p)})
                 = IF e \in Elements(k.free_env_q) \cup Elements(k.sys_free_env_q) THEN 0 ELSE 1
    <3> DEFINE holders == {p \in Proc : e \in k.held[p]}
               boxes == {p \in Proc : e \in Mail(p)}
    <3>1. /\ e \in Elements(k.free_env_q) \/ e \in Elements(k.sys_free_env_q) <=> w[e] = Pooled
          /\ \A p \in Proc : p \in holders <=> w[e] = HeldBy(p)
          /\ \A p \in Proc : p \in boxes <=> w[e] = MailOf(p)
          /\ w[e] \in Place
      BY <2>2 DEF Located, Mail
    <3>2. holders \subseteq Proc /\ boxes \subseteq Proc
      OBVIOUS
    <3>3. Cardinality({}) = 0 /\ \A p \in Proc : Cardinality({p}) = 1
      BY FS_EmptySet, FS_Singleton
    <3> HIDE DEF holders, boxes
    <3>4. CASE w[e] = Pooled
      <4>1. holders = {} /\ boxes = {}
        BY <3>1, <3>2, <3>4, PlacesDiffer
      <4> QED
        BY <3>1, <3>3, <3>4, <4>1 DEF holders, boxes
    <3>5. ASSUME NEW p \in Proc, w[e] = HeldBy(p)
          PROVE  Cardinality(holders) + Cardinality(boxes) = 1 /\ w[e] # Pooled
      <4>1. holders = {p} /\ boxes = {}
        BY <3>1, <3>2, <3>5, PlacesDiffer
      <4> QED
        BY <3>3, <3>5, <4>1, PlacesDiffer
    <3>6. ASSUME NEW p \in Proc, w[e] = MailOf(p)
          PROVE  Cardinality(holders) + Cardinality(boxes) = 1 /\ w[e] # Pooled
      <4>1. holders = {} /\ boxes = {p}
        BY <3>1, <3>2, <3>6, PlacesDiffer
      <4> QED
        BY <3>3, <3>6, <4>1, PlacesDiffer
    <3>7. \/ w[e] = Pooled
          \/ Cardinality(holders) + Cardinality(boxes) = 1 /\ w[e] # Pooled
      BY <3>1, <3>5, <3>6 DEF Place
    <3> QED
      BY <3>1, <3>4, <3>7 DEF holders, boxes
  <2>4. /\ Len(k.free_env_q) = Cardinality(Elements(k.free_env_q))
        /\ Len(k.sys_free_env_q) = Cardinality(Elements(k.sys_free_env_q))
    BY <2>0, OnceLength DEF Accounted, ListedOnce
  <2>5. \A p \in Proc : k.env_owned[p] = Cardinality(k.held[p]) + Len(k.recv_msgs[p])
    BY <2>0 DEF Accounted, Counted
  <2>6. k.held[TIMER_I_PROCESS_PID] = {node.env : node \in Elements(timeout_queue)}
    <3>1. {node.env : node \in Elements(timeout_queue)} = Envelopes(timeout_queue)
      BY DEF Elements, Envelopes
    <3> QED
      BY <3>1 DEF EnvelopeInv, TimerHolds
  <2> QED
    BY <2>1, <2>3, <2>4, <2>5, <2>6 DEF EnvelopesAccounted
<1> QED
  BY <1>1, EnvelopeInvInit, EnvelopeInvNext, PTL DEF Spec

-----------------------------------------------------------------------------
(* The board implements the delay service                                  *)

InOrder(s)   == \A i, j \in 1 .. Len(s) : i <= j => s[i].timeout <= s[j].timeout
AfterBoot(s) == \A node \in Elements(s) : node.timeout >= 1

LEMMA NodeTimes ==
    ASSUME NEW s \in Seq(Node)
    PROVE  /\ \A i \in 1 .. Len(s) : s[i] \in Elements(s) /\ s[i] \in Node /\ s[i].timeout \in Nat
           /\ \A node \in Elements(s) : node \in Node /\ node.timeout \in Nat /\ node.env \in Envelopes(s)
<1>1. \A x \in Node : x.timeout \in Nat
  BY DEF Node
<1>2. \A i \in 1 .. Len(s) : s[i] \in Node
  OBVIOUS
<1> QED
  BY <1>1, <1>2 DEF Elements, Envelopes

LEMMA InsertedElements ==
    ASSUME NEW s \in Seq(Node), NEW x \in Node, NEW i \in 1 .. Len(s) + 1
    PROVE  Elements(Inserted(s, i, x)) = Elements(s) \cup {x}
<1> DEFINE t == Inserted(s, i, x)
           n == Len(s)
<1>1. n \in Nat /\ Len(t) = n + 1 /\ i \in 1 .. n + 1
  BY InsertedType
<1>2. \A j \in 1 .. n + 1 : t[j] = IF j < i THEN s[j] ELSE IF j = i THEN x ELSE s[j - 1]
  BY DEF Inserted
<1> HIDE DEF t, n
<1>3. \A j \in 1 .. n + 1 : /\ j < i => j \in 1 .. n
                            /\ ~(j < i) /\ j # i => j - 1 \in 1 .. n
  BY <1>1
<1>4. \A j \in 1 .. n : /\ j < i => j \in 1 .. n + 1 /\ t[j] = s[j]
                        /\ ~(j < i) => j + 1 \in 1 .. n + 1 /\ t[j + 1] = s[j]
  BY <1>1, <1>2
<1>5. t[i] = x
  BY <1>1, <1>2
<1>6. Elements(t) \subseteq Elements(s) \cup {x}
  <2> SUFFICES ASSUME NEW j \in 1 .. n + 1
               PROVE  t[j] = x \/ \E l \in 1 .. n : t[j] = s[l]
    BY <1>1 DEF Elements, n
  <2> QED
    BY <1>2, <1>3
<1>7. Elements(s) \subseteq Elements(t)
  <2> SUFFICES ASSUME NEW j \in 1 .. n
               PROVE  \E l \in 1 .. n + 1 : s[j] = t[l]
    BY <1>1 DEF Elements, n
  <2> QED
    BY <1>4
<1>8. x \in Elements(t)
  BY <1>1, <1>5 DEF Elements
<1> QED
  BY <1>6, <1>7, <1>8 DEF t

LEMMA RequestData == \A m \in DelayRequest : m.data \in Nat
<1>1. Delay \subseteq Nat
  BY BoardAssumption
<1>2. \A m \in DelayRequest : m.data \in Delay
  BY DEF DelayRequest, MessagesWith
<1> QED
  BY <1>1, <1>2

LEMMA PlacesAbove ==
    ASSUME NEW n \in Nat, NEW i \in 1 .. n + 1, NEW j \in 1 .. n + 1, NEW l \in 1 .. n + 1, i < j, j < l
    PROVE  /\ j - 1 \in 1 .. n /\ l - 1 \in 1 .. n /\ j - 1 <= l - 1
           /\ ~(j < i) /\ j # i /\ ~(l < i) /\ l # i
  OBVIOUS

(* The same of numbers: u is sorted, y fits before place i, and v is u     *)
(* with y in place i.                                                      *)
SortedBut(v, u, n, i, y) ==
    /\ \A j, l \in 1 .. n : j <= l => u[j] <= u[l]
    /\ \A j \in 1 .. i - 1 : u[j] <= y
    /\ i <= n => y <= u[i]
    /\ \A j \in 1 .. n + 1 : v[j] = IF j < i THEN u[j] ELSE IF j = i THEN y ELSE u[j - 1]

(* Then v is sorted.                                                       *)
LEMMA SortedWith ==
    ASSUME NEW n \in Nat, NEW i \in 1 .. n + 1, NEW u \in [1 .. n -> Nat], NEW y \in Nat,
           NEW v \in [1 .. n + 1 -> Nat],
           SortedBut(v, u, n, i, y),
           NEW j \in 1 .. n + 1, NEW l \in 1 .. n + 1, j <= l
    PROVE  v[j] <= v[l]
<1> USE DEF SortedBut
<1>1. CASE j = l
  BY <1>1
<1>2. CASE j < l /\ l < i
  <2>1. j \in 1 .. n /\ l \in 1 .. n /\ v[j] = u[j] /\ v[l] = u[l]
    BY <1>2
  <2> QED
    BY <2>1
<1>3. CASE j < l /\ l = i
  <2>1. j \in 1 .. i - 1 /\ v[j] = u[j] /\ v[l] = y
    BY <1>3
  <2> QED
    BY <2>1
<1>4. CASE j < i /\ i < l
  <2>1. j \in 1 .. n /\ l - 1 \in 1 .. n /\ j <= l - 1 /\ v[j] = u[j] /\ v[l] = u[l - 1]
    BY <1>4
  <2> QED
    BY <2>1
<1>5. CASE j = i /\ i < l
  <2>1. i \in 1 .. n /\ l - 1 \in 1 .. n /\ i <= l - 1 /\ i <= n /\ v[j] = y /\ v[l] = u[l - 1]
    BY <1>5
  <2>2. y <= u[i] /\ u[i] <= u[l - 1] /\ u[i] \in Nat /\ u[l - 1] \in Nat
    BY <2>1
  <2> QED
    BY <2>1, <2>2
<1>6. CASE i < j /\ j < l
  <2>1. /\ j - 1 \in 1 .. n /\ l - 1 \in 1 .. n /\ j - 1 <= l - 1
        /\ ~(j < i) /\ j # i /\ ~(l < i) /\ l # i
    BY <1>6, PlacesAbove
  <2>2. v[j] = u[j - 1]
    BY <2>1
  <2>3. v[l] = u[l - 1]
    BY <2>1
  <2>4. u[j - 1] <= u[l - 1]
    BY <2>1
  <2> QED
    BY <2>2, <2>3, <2>4
<1> QED
  BY <1>1, <1>2, <1>3, <1>4, <1>5, <1>6

LEMMA InsertedOrder ==
    ASSUME NEW s \in Seq(Node), NEW x \in Node, NEW i \in 1 .. Len(s) + 1, InOrder(s), Fits(s, i, x)
    PROVE  InOrder(Inserted(s, i, x))
<1> DEFINE t == Inserted(s, i, x)
           n == Len(s)
           u == [j \in 1 .. n |-> s[j].timeout]
           v == [j \in 1 .. n + 1 |-> t[j].timeout]
<1>1. n \in Nat /\ t \in Seq(Node) /\ Len(t) = n + 1 /\ i \in 1 .. n + 1
  BY InsertedType
<1>2. \A j \in 1 .. n + 1 : t[j] = IF j < i THEN s[j] ELSE IF j = i THEN x ELSE s[j - 1]
  BY DEF Inserted
<1>3. /\ \A j \in 1 .. n : s[j].timeout \in Nat
      /\ \A j \in 1 .. Len(t) : t[j].timeout \in Nat
      /\ x.timeout \in Nat
  <2> HIDE DEF t
  <2> QED
    BY <1>1, NodeTimes DEF Node
<1>4. /\ \A j \in 1 .. i - 1 : s[j].timeout <= x.timeout
      /\ i <= n => x.timeout <= s[i].timeout
      /\ \A j, l \in 1 .. n : j <= l => s[j].timeout <= s[l].timeout
  BY DEF InOrder, Fits
<1> HIDE DEF t, n
<1>5. u \in [1 .. n -> Nat] /\ v \in [1 .. n + 1 -> Nat]
  BY <1>1, <1>3
<1>6. \A j \in 1 .. i - 1 : j \in 1 .. n
  BY <1>1
<1>7. /\ \A j, l \in 1 .. n : j <= l => u[j] <= u[l]
      /\ \A j \in 1 .. i - 1 : u[j] <= x.timeout
      /\ i <= n => x.timeout <= u[i]
  BY <1>1, <1>4, <1>6
<1>8. ASSUME NEW j \in 1 .. n + 1
      PROVE  v[j] = IF j < i THEN u[j] ELSE IF j = i THEN x.timeout ELSE u[j - 1]
  <2>1. CASE j < i
    <3>1. j \in 1 .. n /\ t[j] = s[j]
      BY <1>1, <1>2, <2>1
    <3> QED
      BY <2>1, <3>1
  <2>2. CASE j = i
    BY <1>1, <1>2, <2>2
  <2>3. CASE ~(j < i) /\ j # i
    <3>1. j - 1 \in 1 .. n /\ t[j] = s[j - 1]
      BY <1>1, <1>2, <2>3
    <3> QED
      BY <2>3, <3>1
  <2> QED
    BY <2>1, <2>2, <2>3
<1>9. \A j \in 1 .. n + 1 : v[j] = t[j].timeout
  OBVIOUS
<1> HIDE DEF u, v
<1>10. \A j, l \in 1 .. n + 1 : j <= l => v[j] <= v[l]
  <2> DEFINE y == x.timeout
  <2>1. n \in Nat /\ i \in 1 .. n + 1 /\ y \in Nat
    BY <1>1, <1>3
  <2>2. SortedBut(v, u, n, i, y)
    BY <1>7, <1>8, Zenon DEF SortedBut
  <2> HIDE DEF y
  <2> SUFFICES ASSUME NEW j \in 1 .. n + 1, NEW l \in 1 .. n + 1, j <= l
               PROVE  v[j] <= v[l]
    OBVIOUS
  <2>3. j \in 1 .. n + 1 /\ l \in 1 .. n + 1 /\ j <= l
    OBVIOUS
  <2> QED
    BY <1>5, <2>1, <2>2, <2>3, SortedWith, Zenon
<1>11. InOrder(t)
  BY <1>1, <1>9, <1>10 DEF InOrder
<1> QED
  BY <1>11 DEF t

(* After all requests are inserted the list is sorted, nothing has left it *)
(* and every request is in it.                                             *)
LEMMA InsertAllOrder ==
    ASSUME NEW queue \in Seq(Node), NEW mail \in Seq(DelayRequest), NEW now \in Nat, now >= 1,
           InOrder(queue), AfterBoot(queue)
    PROVE  /\ InOrder(InsertAll(queue, mail, now)) /\ AfterBoot(InsertAll(queue, mail, now))
           /\ Elements(queue) \subseteq Elements(InsertAll(queue, mail, now))
           /\ \A j \in 1 .. Len(mail) : NodeOf(mail[j], now) \in Elements(InsertAll(queue, mail, now))
<1> DEFINE N == Len(mail)
<1>0. PICK W : InsertTurns(W, queue, mail, now)
  BY InsertAllLoop, Zenon
<1>1. /\ W \in [0 .. N -> Seq(Node)]
      /\ W[0] = queue
      /\ \A i \in 1 .. N : W[i] = timeout_queue_insert(W[i - 1], mail[i], now)
      /\ InsertAll(queue, mail, now) = W[N]
  BY <1>0, Zenon DEF InsertTurns
<1>2. N \in Nat /\ \A i \in 1 .. N : mail[i] \in DelayRequest
  OBVIOUS
<1> DEFINE Done(i) == \A j \in 1 .. i : NodeOf(mail[j], now) \in Elements(W[i])
           Holds == {i \in 0 .. N : /\ InOrder(W[i]) /\ AfterBoot(W[i])
                                    /\ Elements(queue) \subseteq Elements(W[i])
                                    /\ Done(i)}
<1>3. 0 \in Holds
  <2>1. Done(0)
    OBVIOUS
  <2> HIDE DEF Done
  <2> QED
    BY <1>1, <1>2, <2>1
<1> HIDE DEF N
<1>4. ASSUME NEW i \in 1 .. N, i - 1 \in Holds PROVE i \in Holds
  <2> DEFINE q == W[i - 1]
             x == NodeOf(mail[i], now)
  <2>1. i - 1 \in 0 .. N /\ i \in 0 .. N /\ q \in Seq(Node)
    BY <1>1, <1>2
  <2>2. InOrder(q) /\ AfterBoot(q) /\ Elements(queue) \subseteq Elements(q) /\ Done(i - 1)
    <3> HIDE DEF Done
    <3> QED
      BY <1>4
  <2>3. W[i] = timeout_queue_insert(q, mail[i], now) /\ mail[i] \in DelayRequest
    BY <1>1, <1>2
  <2>4. x \in Node /\ x.timeout >= 1
    <3>1. x \in Node /\ x.timeout = now + mail[i].data
      BY <2>3, NodeType DEF NodeOf
    <3>2. mail[i].data \in Nat
      <4>1. Delay \subseteq Nat
        BY BoardAssumption
      <4>2. mail[i].data \in Delay
        BY <2>3 DEF DelayRequest, MessagesWith
      <4> QED
        BY <4>1, <4>2
    <3> QED
      BY <3>1, <3>2
  <2>5. \A j \in 1 .. i : j = i \/ j \in 1 .. i - 1
    BY <1>2
  <2>6. PICK place \in 1 .. Len(q) + 1 : W[i] = Inserted(q, place, x) /\ Fits(q, place, x)
    BY <2>1, <2>3, InsertPlace
  <2> HIDE DEF q, x
  <2>7. Elements(W[i]) = Elements(q) \cup {x} /\ InOrder(W[i])
    BY <2>1, <2>2, <2>4, <2>6, InsertedElements, InsertedOrder
  <2>8. AfterBoot(W[i]) /\ Elements(queue) \subseteq Elements(W[i])
    BY <2>2, <2>4, <2>7 DEF AfterBoot
  <2>9. Done(i)
    BY <2>2, <2>5, <2>7 DEF q, x
  <2> HIDE DEF Done
  <2> QED
    BY <2>1, <2>7, <2>8, <2>9
<1>5. N \in Holds
  <2> HIDE DEF Holds
  <2>1. \A i \in 0 .. N : i \in Holds
    BY <1>2, <1>3, <1>4, LoopKeeps
  <2> QED
    BY <1>2, <2>1
<1> QED
  BY <1>1, <1>5 DEF N

LEMMA TailOrder ==
    ASSUME NEW s \in Seq(Node), s # <<>>, InOrder(s), AfterBoot(s)
    PROVE  /\ InOrder(Tail(s)) /\ AfterBoot(Tail(s))
           /\ Head(s) \in Elements(s)
           /\ Elements(s) = Elements(Tail(s)) \cup {Head(s)}
           /\ \A node \in Elements(s) : Head(s).timeout <= node.timeout
<1>1. /\ Len(s) \in Nat /\ Len(s) # 0 /\ Len(Tail(s)) = Len(s) - 1 /\ Head(s) = s[1]
      /\ \A i \in 1 .. Len(Tail(s)) : Tail(s)[i] = s[i + 1]
  OBVIOUS
<1>2. 1 \in 1 .. Len(s) /\ \A i \in 1 .. Len(s) : 1 <= i
  BY <1>1
<1>3. \A i \in 1 .. Len(Tail(s)) : i + 1 \in 1 .. Len(s)
  BY <1>1
<1>4. \A i \in 1 .. Len(s) : i # 1 => i - 1 \in 1 .. Len(Tail(s)) /\ Tail(s)[i - 1] = s[i]
  BY <1>1
<1>5. Elements(s) = Elements(Tail(s)) \cup {Head(s)}
  <2>1. Elements(Tail(s)) \subseteq Elements(s)
    BY <1>1, <1>3 DEF Elements
  <2>2. \A i \in 1 .. Len(s) : s[i] \in Elements(Tail(s)) \/ s[i] = Head(s)
    BY <1>1, <1>4 DEF Elements
  <2>3. Head(s) \in Elements(s)
    BY <1>1, <1>2 DEF Elements
  <2> QED
    BY <2>1, <2>2, <2>3 DEF Elements
<1>6. InOrder(Tail(s))
  <2> SUFFICES ASSUME NEW i \in 1 .. Len(Tail(s)), NEW j \in 1 .. Len(Tail(s)), i <= j
               PROVE  Tail(s)[i].timeout <= Tail(s)[j].timeout
    BY DEF InOrder
  <2>1. i + 1 \in 1 .. Len(s) /\ j + 1 \in 1 .. Len(s) /\ i + 1 <= j + 1
    BY <1>1, <1>3
  <2>2. s[i + 1].timeout <= s[j + 1].timeout
    BY <2>1 DEF InOrder
  <2> QED
    BY <1>1, <2>2
<1>7. AfterBoot(Tail(s))
  BY <1>5 DEF AfterBoot
<1>8. \A node \in Elements(s) : Head(s).timeout <= node.timeout
  BY <1>1, <1>2 DEF Elements, InOrder
<1> QED
  BY <1>5, <1>6, <1>7, <1>8

-----------------------------------------------------------------------------
(* When an envelope is due                                                 *)

Pending == Mail(TIMER_I_PROCESS_PID) \cup k.held[TIMER_I_PROCESS_PID]

(* Due, as a function of the timer's mailbox, of what the timer holds, of  *)
(* the list and of the clock.                                              *)
DueIn(mail, held, queue, c) ==
    [env \in Envs |->
       IF env \in Envelopes(mail) THEN c + (CHOOSE m \in Elements(mail) : m.env = env).data
       ELSE IF env \in held THEN (CHOOSE node \in Elements(queue) : node.env = env).timeout - 1
       ELSE 0]

LEMMA DueIs ==
    Due = DueIn(k.recv_msgs[TIMER_I_PROCESS_PID], k.held[TIMER_I_PROCESS_PID], timeout_queue, clock)
  BY DEF Due, DueIn, Mail

LEMMA DueOfMail ==
    ASSUME NEW mail \in Seq(DelayRequest), OnceMail(mail), NEW held, NEW queue, NEW c \in Nat,
           NEW i \in 1 .. Len(mail)
    PROVE  DueIn(mail, held, queue, c)[mail[i].env] = c + mail[i].data
<1> DEFINE e == mail[i].env
           m == CHOOSE x \in Elements(mail) : x.env = e
<1>1. mail[i] \in DelayRequest /\ mail[i] \in Elements(mail) /\ e \in Envelopes(mail)
  BY DEF Elements, Envelopes
<1>2. e \in Envs
  BY <1>1 DEF DelayRequest, MessagesWith
<1>3. m \in Elements(mail) /\ m.env = e
  BY <1>1
<1>4. m = mail[i]
  <2> HIDE DEF m
  <2>1. PICK j \in 1 .. Len(mail) : m = mail[j]
    BY <1>3 DEF Elements
  <2> QED
    BY <1>3, <2>1 DEF OnceMail
<1>5. DueIn(mail, held, queue, c)[e] = c + m.data
  BY <1>1, <1>2 DEF DueIn
<1> QED
  BY <1>4, <1>5

LEMMA DueOfNode ==
    ASSUME NEW queue \in Seq(Node), OnceMail(queue), NEW mail, NEW held, NEW c,
           NEW node \in Elements(queue), node.env \notin Envelopes(mail), node.env \in held
    PROVE  DueIn(mail, held, queue, c)[node.env] = node.timeout - 1
<1> DEFINE e == node.env
           n == CHOOSE x \in Elements(queue) : x.env = e
<1>1. PICK i \in 1 .. Len(queue) : node = queue[i]
  BY DEF Elements
<1>2. e \in Envs
  <2>1. node \in Node
    BY NodeTimes
  <2> QED
    BY <2>1 DEF Node
<1>3. n \in Elements(queue) /\ n.env = e
  OBVIOUS
<1>4. n = node
  <2> HIDE DEF n
  <2>1. PICK j \in 1 .. Len(queue) : n = queue[j]
    BY <1>3 DEF Elements
  <2> QED
    BY <1>1, <1>3, <2>1 DEF OnceMail
<1>5. DueIn(mail, held, queue, c)[e] = n.timeout - 1
  BY <1>2 DEF DueIn
<1> QED
  BY <1>4, <1>5

(* The due time of an envelope that is not pending means nothing.          *)
LEMMA DueType ==
    ASSUME NEW mail \in Seq(DelayRequest), OnceMail(mail), NEW queue \in Seq(Node), OnceMail(queue),
           NEW c \in Nat
    PROVE  DueIn(mail, Envelopes(queue), queue, c) \in [Envs -> Int]
<1> DEFINE due == DueIn(mail, Envelopes(queue), queue, c)
<1>0. DOMAIN due = Envs /\ due = [e \in Envs |-> due[e]]
  BY DEF DueIn
<1>1. ASSUME NEW e \in Envs, e \in Envelopes(mail) PROVE due[e] \in Int
  <2>1. PICK i \in 1 .. Len(mail) : e = mail[i].env
    BY <1>1 DEF Envelopes
  <2>2. due[e] = c + mail[i].data
    BY <2>1, DueOfMail
  <2>3. mail[i].data \in Nat
    <3>1. mail[i] \in DelayRequest
      OBVIOUS
    <3> QED
      BY <3>1, RequestData
  <2> HIDE DEF due
  <2> QED
    BY <2>2, <2>3
<1>2. ASSUME NEW e \in Envs, e \notin Envelopes(mail), e \in Envelopes(queue) PROVE due[e] \in Int
  <2>1. PICK node \in Elements(queue) : e = node.env
    BY <1>2 DEF Envelopes, Elements
  <2>2. due[e] = node.timeout - 1
    BY <1>2, <2>1, DueOfNode
  <2>3. node.timeout \in Nat
    BY NodeTimes
  <2> HIDE DEF due
  <2> QED
    BY <2>2, <2>3
<1>3. ASSUME NEW e \in Envs, e \notin Envelopes(mail), e \notin Envelopes(queue) PROVE due[e] \in Int
  BY <1>3 DEF DueIn
<1> HIDE DEF due
<1>4. \A e \in Envs : due[e] \in Int
  BY <1>1, <1>2, <1>3
<1> QED
  BY <1>0, <1>4 DEF due

-----------------------------------------------------------------------------
(* The invariant: the list is sorted                                       *)

DelayInv == EnvelopeInv /\ InOrder(timeout_queue) /\ AfterBoot(timeout_queue)

LEMMA DelayInvInit == Init => DelayInv
<1> SUFFICES ASSUME Init PROVE DelayInv
  OBVIOUS
<1>1. timeout_queue = <<>>
  BY DEF Init, init_timer
<1> QED
  BY <1>1, EnvelopeInvInit DEF DelayInv, InOrder, AfterBoot, Elements

(* What a tick finds and leaves.                                           *)
LEMMA TickSteps ==
    ASSUME DelayInv, asm_timer_entry,
           NEW queue, queue = InsertAll(timeout_queue, k.recv_msgs[TIMER_I_PROCESS_PID], clock + 1)
    PROVE  /\ clock \in Nat /\ clock' = clock + 1
           /\ queue \in Seq(Node) /\ OnceMail(queue) /\ InOrder(queue) /\ AfterBoot(queue)
           /\ timeout_queue' = IF check_timeout_queue(queue, clock + 1) THEN Tail(queue) ELSE queue
           /\ k'.recv_msgs[TIMER_I_PROCESS_PID] = <<>>
           /\ Envelopes(queue) = Pending
           /\ \A node \in Elements(queue) : Due[node.env] = node.timeout - 1
<1> DEFINE now == clock + 1
           t == TIMER_I_PROCESS_PID
           mail == k.recv_msgs[t]
           kept == MailboxEmptied(k, t)
           h == Head(queue)
           m == Message(h.env, t, h.msg_type, 0)
<1>1. /\ clock' = now
      /\ IF check_timeout_queue(queue, now)
           THEN /\ timeout_queue' = Tail(queue)
                /\ k' = k_send_message(kept, t, h.send_pid, m)
           ELSE /\ timeout_queue' = queue
                /\ k' = kept
  BY DEF asm_timer_entry, isr_handler, timer_i_process
<1>2. /\ t \in Proc /\ KernelOk(k) /\ k \in KernelState /\ Accounted(k)
      /\ mail \in Seq(DelayRequest) /\ timeout_queue \in Seq(Node) /\ clock \in Nat /\ now \in Nat
      /\ k.recv_msgs \in [Proc -> Seq(AnyMessage)]
      /\ InOrder(timeout_queue) /\ AfterBoot(timeout_queue)
  BY TimerMail, SelfType, Pids
     DEF DelayInv, EnvelopeInv, BoardInv, KernelOk, KernelMidway, KernelState
<1>3. KernelOk(kept) /\ TakesAllMail(k, kept, t)
  BY <1>2, Pids, MailboxEmptiedOk
<1>4. k.held[t] = Envelopes(timeout_queue) /\ OnceMail(timeout_queue) /\ OnceMail(mail)
  BY <1>2 DEF DelayInv, EnvelopeInv, TimerHolds, Accounted, ListedOnce
<1>5. Envelopes(timeout_queue) \cap Envelopes(mail) = {}
  <2>1. PICK w : Located(k, w)
    BY <1>2 DEF Accounted
  <2>2. \A x \in k.held[t] : x \in Envs /\ x \notin Envelopes(mail)
    BY <1>2, <2>1, PlacesDiffer DEF Located, KernelState
  <2> QED
    BY <1>4, <2>2
<1> HIDE DEF kept, mail
<1>6. queue \in Seq(Node)
  BY <1>2, InsertAllType DEF mail
<1>7. Envelopes(queue) = Envelopes(timeout_queue) \cup Envelopes(mail) /\ OnceMail(queue)
  BY <1>2, <1>4, <1>5, InsertAllEnvelopes DEF mail
<1>8. now >= 1
  BY <1>2
<1>9. /\ InOrder(queue) /\ AfterBoot(queue)
      /\ Elements(timeout_queue) \subseteq Elements(queue)
      /\ \A j \in 1 .. Len(mail) : NodeOf(mail[j], now) \in Elements(queue)
  <2> HIDE DEF now
  <2> QED
    BY <1>2, <1>8, InsertAllOrder DEF mail, now
<1>10. k'.recv_msgs[t] = <<>>
  <2>1. kept.recv_msgs[t] = <<>> /\ kept.recv_msgs \in [Proc -> Seq(AnyMessage)]
    BY <1>2, <1>3 DEF TakesAllMail, KernelOk, KernelMidway, KernelState
  <2>2. CASE ~check_timeout_queue(queue, now)
    BY <1>1, <2>1, <2>2
  <2>3. CASE check_timeout_queue(queue, now)
    <3>1. queue # <<>> /\ k' = k_send_message(kept, t, h.send_pid, m)
      BY <1>1, <2>3 DEF check_timeout_queue
    <3>2. h \in Node
      BY <1>6, <3>1
    <3>3. h.env \in Envs /\ h.send_pid \in UserProc /\ h.msg_type \in MessageTypes
      BY <3>2 DEF Node
    <3>4. m \in MailFor(h.send_pid) /\ h.send_pid \in Proc /\ h.send_pid # t
      BY <1>2, <3>3, MessageType, Pids DEF UserProc
    <3> HIDE DEF m, h
    <3>5. Sends(kept, k', t, h.send_pid, m)
      BY <1>2, <1>3, <3>1, <3>4, SendOk
    <3> QED
      BY <1>2, <2>1, <3>4, <3>5 DEF Sends
  <2> QED
    BY <2>2, <2>3
<1>11. Envelopes(queue) = Pending
  BY <1>4, <1>7 DEF Pending, Mail, mail
<1>12. Due = DueIn(mail, Envelopes(timeout_queue), timeout_queue, clock)
  BY <1>4, DueIs DEF mail
<1>13. ASSUME NEW node \in Elements(queue) PROVE Due[node.env] = node.timeout - 1
  <2>1. node.env \in Envelopes(timeout_queue) \/ node.env \in Envelopes(mail)
    BY <1>6, <1>7, NodeTimes
  <2>2. PICK i \in 1 .. Len(queue) : node = queue[i]
    BY DEF Elements
  <2>3. ASSUME NEW x \in Elements(queue), x.env = node.env PROVE x = node
    <3>1. PICK j \in 1 .. Len(queue) : x = queue[j]
      BY DEF Elements
    <3> QED
      BY <1>7, <2>2, <2>3, <3>1 DEF OnceMail
  <2>4. ASSUME node.env \in Envelopes(timeout_queue) PROVE Due[node.env] = node.timeout - 1
    <3>1. PICK x \in Elements(timeout_queue) : x.env = node.env
      BY <2>4 DEF Envelopes, Elements
    <3>2. x = node
      BY <1>9, <2>3, <3>1
    <3>3. node.env \notin Envelopes(mail)
      BY <1>5, <2>4
    <3> QED
      BY <1>2, <1>4, <1>12, <2>4, <3>1, <3>2, <3>3, DueOfNode
  <2>5. ASSUME node.env \in Envelopes(mail) PROVE Due[node.env] = node.timeout - 1
    <3>1. PICK j \in 1 .. Len(mail) : mail[j].env = node.env
      BY <2>5 DEF Envelopes
    <3>2. NodeOf(mail[j], now).env = node.env /\ NodeOf(mail[j], now).timeout = now + mail[j].data
      BY <3>1 DEF NodeOf
    <3>3. NodeOf(mail[j], now) = node
      BY <1>9, <2>3, <3>1, <3>2
    <3>4. Due[node.env] = clock + mail[j].data
      BY <1>2, <1>4, <1>12, <3>1, DueOfMail
    <3>5. mail[j].data \in Nat
      <4>1. mail[j] \in DelayRequest
        BY <1>2
      <4> QED
        BY <4>1, RequestData
    <3>6. clock + mail[j].data = (now + mail[j].data) - 1
      <4> DEFINE d == mail[j].data
      <4>1. d \in Nat /\ clock \in Nat
        BY <1>2, <3>5
      <4> HIDE DEF d
      <4>2. clock + d = (clock + 1 + d) - 1
        BY <4>1
      <4> QED
        BY <4>2 DEF d, now
    <3> QED
      BY <3>2, <3>3, <3>4, <3>6
  <2> QED
    BY <2>1, <2>4, <2>5
<1> QED
  BY <1>1, <1>2, <1>6, <1>7, <1>9, <1>10, <1>11, <1>13

LEMMA DelayInvNext == DelayInv /\ [Next]_vars => DelayInv'
<1> SUFFICES ASSUME DelayInv, [Next]_vars PROVE DelayInv'
  OBVIOUS
<1>1. EnvelopeInv'
  BY EnvelopeInvNext DEF DelayInv
<1>2. CASE asm_timer_entry
  <2> DEFINE queue == InsertAll(timeout_queue, k.recv_msgs[TIMER_I_PROCESS_PID], clock + 1)
  <2>1. /\ queue \in Seq(Node) /\ InOrder(queue) /\ AfterBoot(queue)
        /\ timeout_queue' = IF check_timeout_queue(queue, clock + 1) THEN Tail(queue) ELSE queue
    BY <1>2, TickSteps
  <2> HIDE DEF queue
  <2>2. check_timeout_queue(queue, clock + 1) => queue # <<>>
    BY DEF check_timeout_queue
  <2>3. InOrder(timeout_queue') /\ AfterBoot(timeout_queue')
    BY <2>1, <2>2, TailOrder
  <2> QED
    BY <1>1, <2>3 DEF DelayInv
<1>3. CASE timeout_queue' = timeout_queue
  BY <1>1, <1>3 DEF DelayInv
<1>4. asm_timer_entry \/ timeout_queue' = timeout_queue
  <2>1. CASE UserTrap
    BY <2>1, UserTrapSteps DEF DelayInv, EnvelopeInv, timing
  <2> QED
    BY <2>1 DEF Next, ResumeInLoop, asm_uart_entry, vars, timing
<1> QED
  BY <1>2, <1>3, <1>4

-----------------------------------------------------------------------------
(* The refinement, step by step                                            *)

(* A step that concerns the timer's mail and list not at all.              *)
LEMMA DelaysKept ==
    ASSUME UNCHANGED timing,
           k'.recv_msgs[TIMER_I_PROCESS_PID] = k.recv_msgs[TIMER_I_PROCESS_PID],
           k'.held[TIMER_I_PROCESS_PID] = k.held[TIMER_I_PROCESS_PID]
    PROVE  UNCHANGED <<clock - 1, Pending, Due>>
<1>1. clock' = clock /\ timeout_queue' = timeout_queue
  BY DEF timing
<1> QED
  BY <1>1 DEF Pending, Due, Mail

(* Among the steps of a process, only a send to the timer concerns them.   *)
LEMMA TimerMailAfter ==
    ASSUME NEW kk, kk \in KernelState, NEW ll, NEW p \in Proc, p # TIMER_I_PROCESS_PID,
           EnvelopeStep(kk, ll, p)
    PROVE  \/ ll.recv_msgs[TIMER_I_PROCESS_PID] = kk.recv_msgs[TIMER_I_PROCESS_PID]
           \/ \E m \in AnyMessage :
                /\ m.env \in kk.held[p]
                /\ ll.recv_msgs[TIMER_I_PROCESS_PID] = Append(kk.recv_msgs[TIMER_I_PROCESS_PID], m)
<1> DEFINE t == TIMER_I_PROCESS_PID
<1>1. kk.recv_msgs \in [Proc -> Seq(AnyMessage)] /\ t \in Proc
  BY Pids DEF KernelState
<1>2. CASE SameEnvelopes(kk, ll)
  BY <1>2 DEF SameEnvelopes
<1>3. CASE TakesFree(kk, ll, p) \/ TakesReserve(kk, ll, p)
  BY <1>3 DEF TakesFree, TakesReserve
<1>4. ASSUME NEW e, Releases(kk, ll, p, e) PROVE ll.recv_msgs[t] = kk.recv_msgs[t]
  BY <1>4 DEF Releases, Frees, PutsBack
<1>5. ASSUME NEW dest \in Proc, NEW m \in AnyMessage, m.env \in kk.held[p], Sends(kk, ll, p, dest, m)
      PROVE  \/ ll.recv_msgs[t] = kk.recv_msgs[t]
             \/ m.env \in kk.held[p] /\ ll.recv_msgs[t] = Append(kk.recv_msgs[t], m)
  <2>1. ll.recv_msgs = [kk.recv_msgs EXCEPT ![dest] = Append(@, m)]
    BY <1>5 DEF Sends
  <2> QED
    BY <1>1, <1>5, <2>1
<1>6. CASE TakesMail(kk, ll, p)
  <2>1. ll.recv_msgs = [kk.recv_msgs EXCEPT ![p] = Tail(@)]
    BY <1>6 DEF TakesMail
  <2> QED
    BY <1>1, <2>1
<1> QED
  BY <1>2, <1>3, <1>4, <1>5, <1>6 DEF EnvelopeStep

(* A delay requested is an envelope handed in.                             *)
LEMMA RequestAsks ==
    ASSUME DelayInv, BoardInv', UNCHANGED timing,
           k'.held[TIMER_I_PROCESS_PID] = k.held[TIMER_I_PROCESS_PID],
           NEW p \in Proc, p # TIMER_I_PROCESS_PID, NEW m \in AnyMessage, m.env \in k.held[p],
           k'.recv_msgs[TIMER_I_PROCESS_PID] = Append(k.recv_msgs[TIMER_I_PROCESS_PID], m),
           OnceMail(k'.recv_msgs[TIMER_I_PROCESS_PID])
    PROVE  m.data \in Delay /\ m.env \in Envs /\ Service!Ask(m.env, m.data)
<1> DEFINE t == TIMER_I_PROCESS_PID
           mail == k.recv_msgs[t]
           held == k.held[t]
           after == Append(mail, m)
           e == m.env
<1>1. /\ mail \in Seq(DelayRequest) /\ after \in Seq(DelayRequest) /\ clock \in Nat
      /\ OnceMail(mail) /\ OnceMail(after)
      /\ clock' = clock /\ timeout_queue' = timeout_queue
  <2>1. k'.recv_msgs[t] \in Seq(DelayRequest)
    <3>1. k'.recv_msgs[t] \in Seq(MailFor(t))
      BY Pids DEF BoardInv, KernelOk, KernelMidway, MailOk
    <3> QED
      BY <3>1 DEF MailFor, DelayRequest
  <2>2. OnceMail(mail)
    BY Pids DEF DelayInv, EnvelopeInv, Accounted, ListedOnce
  <2> QED
    BY <2>1, <2>2, TimerMail DEF DelayInv, EnvelopeInv, timing
<1>2. /\ Len(mail) \in Nat /\ Len(after) = Len(mail) + 1
      /\ after[Len(mail) + 1] = m /\ \A i \in 1 .. Len(mail) : after[i] = mail[i]
  BY <1>1
<1>3. m \in DelayRequest
  <2> HIDE DEF after, mail
  <2>1. Len(mail) + 1 \in 1 .. Len(after)
    BY <1>2
  <2> QED
    BY <1>1, <1>2, <2>1
<1>4. m.data \in Delay /\ m.data \in Nat /\ e \in Envs
  <2>1. m.data \in Delay /\ e \in Envs
    BY <1>3 DEF DelayRequest, MessagesWith
  <2> QED
    BY <1>3, <2>1, RequestData
<1>5. e \notin Envelopes(mail) /\ e \notin held
  <2>1. PICK w : Located(k, w)
    BY DEF DelayInv, EnvelopeInv, Accounted
  <2>2. w[e] = HeldBy(p) /\ (e \in held => w[e] = HeldBy(t)) /\ (e \in Envelopes(mail) => w[e] = MailOf(t))
    BY <1>4, <2>1, Pids DEF Located
  <2> QED
    BY <2>2, PlacesDiffer, Pids
<1>6. Envelopes(after) = Envelopes(mail) \cup {e}
  <2>1. \A i \in 1 .. Len(mail) + 1 : i \in 1 .. Len(mail) \/ i = Len(mail) + 1
    BY <1>2
  <2>2. (\A i \in 1 .. Len(mail) : i \in 1 .. Len(mail) + 1) /\ Len(mail) + 1 \in 1 .. Len(mail) + 1
    BY <1>2
  <2> HIDE DEF after, mail
  <2> QED
    BY <1>2, <2>1, <2>2 DEF Envelopes
<1>7. Pending = Envelopes(mail) \cup held /\ Pending' = Envelopes(after) \cup held
  BY DEF Pending, Mail
<1>8. /\ Due = DueIn(mail, held, timeout_queue, clock)
      /\ Due' = DueIn(after, held, timeout_queue, clock)
  BY <1>1, DueIs DEF Due, DueIn, Mail
<1>9. ASSUME NEW x \in Envs, x # e PROVE Due'[x] = Due[x]
  <2>1. CASE x \in Envelopes(mail)
    <3>1. PICK i \in 1 .. Len(mail) : x = mail[i].env
      BY <2>1 DEF Envelopes
    <3>2. i \in 1 .. Len(after) /\ after[i] = mail[i]
      <4> HIDE DEF after, mail
      <4> QED
        BY <1>2
    <3>3. Due[x] = clock + mail[i].data
      BY <1>1, <1>8, <3>1, DueOfMail
    <3>4. Due'[x] = clock + after[i].data
      <4> HIDE DEF after, mail
      <4> QED
        BY <1>1, <1>8, <3>1, <3>2, DueOfMail
    <3> QED
      BY <3>2, <3>3, <3>4
  <2>2. CASE x \notin Envelopes(mail)
    <3>1. x \notin Envelopes(after)
      BY <1>6, <1>9, <2>2
    <3> HIDE DEF after, mail, held
    <3> QED
      BY <1>8, <2>2, <3>1 DEF DueIn
  <2> QED
    BY <2>1, <2>2
<1>10. Due'[e] = clock + m.data
  <2>1. Len(mail) + 1 \in 1 .. Len(after) /\ after[Len(mail) + 1].env = e
    BY <1>2
  <2> HIDE DEF after, mail, held
  <2> QED
    BY <1>1, <1>2, <1>8, <2>1, DueOfMail DEF e
<1>11. DOMAIN Due = Envs /\ DOMAIN Due' = Envs /\ Due' = [x \in Envs |-> Due'[x]]
  BY <1>8 DEF DueIn
<1> HIDE DEF e, after, mail, held
<1>12. Due' = [Due EXCEPT ![e] = clock + m.data]
  <2>1. DOMAIN Due = Envs /\ Due = [x \in Envs |-> Due[x]]
    BY <1>8 DEF DueIn
  <2>2. \A x \in Envs : Due'[x] = IF x = e THEN clock + m.data ELSE Due[x]
    BY <1>9, <1>10
  <2>3. [Due EXCEPT ![e] = clock + m.data] = [x \in Envs |-> IF x = e THEN clock + m.data ELSE Due[x]]
    BY <2>1
  <2> QED
    BY <1>11, <2>2, <2>3
<1>13. clock - 1 + 1 + m.data = clock + m.data /\ clock' - 1 = clock - 1
  BY <1>1, <1>4
<1>14. Pending' = Pending \cup {e} /\ e \notin Pending
  BY <1>5, <1>6, <1>7
<1> QED
  BY <1>4, <1>12, <1>13, <1>14 DEF Service!Ask, Pending, e

LEMMA ProcessSteps ==
    ASSUME DelayInv, DelayInv', NEW p \in Proc, p # TIMER_I_PROCESS_PID, EnvelopeStep(k, k', p),
           UNCHANGED timing
    PROVE  Service!DelayNext \/ UNCHANGED <<clock - 1, Pending, Due>>
<1> DEFINE t == TIMER_I_PROCESS_PID
<1>1. k \in KernelState /\ BoardInv' /\ OnceMail(k'.recv_msgs[t])
  BY Pids DEF DelayInv, EnvelopeInv, BoardInv, KernelOk, KernelMidway, Accounted, ListedOnce
<1>2. k'.held[t] = k.held[t]
  BY <1>1, OtherHolds, Pids
<1>3. CASE k'.recv_msgs[t] = k.recv_msgs[t]
  BY <1>2, <1>3, DelaysKept
<1>4. ASSUME NEW m \in AnyMessage, m.env \in k.held[p],
             k'.recv_msgs[t] = Append(k.recv_msgs[t], m)
      PROVE  Service!DelayNext
  <2>1. m.data \in Delay /\ m.env \in Envs /\ Service!Ask(m.env, m.data)
    BY <1>1, <1>2, <1>4, RequestAsks
  <2> QED
    BY <2>1 DEF Service!DelayNext
<1> QED
  BY <1>1, <1>3, <1>4, TimerMailAfter

(* The serial port sends to user processes and to the CCI only.            *)
LEMMA TextLoadedDelays ==
    ASSUME NEW kk, KernelOk(kk), HasMail(kk, UART_I_PROCESS_PID)
    PROVE  TextLoaded(kk).k.recv_msgs[TIMER_I_PROCESS_PID] = kk.recv_msgs[TIMER_I_PROCESS_PID]
<1> DEFINE u == UART_I_PROCESS_PID
           t == TIMER_I_PROCESS_PID
           m == Head(kk.recv_msgs[u])
           taken == MailTaken(kk, u)
           ack == Message(m.env, u, "DISPLAY_ACK", 0)
           ll == TextLoaded(kk).k
<1>1. /\ u \in Proc /\ kk.recv_msgs[u] # <<>> /\ kk.recv_msgs \in [Proc -> Seq(AnyMessage)]
      /\ t \in Proc /\ t # u
  BY Pids, BoardAssumption DEF HasMail, KernelOk, KernelMidway, KernelState
<1>2. KernelOk(taken) /\ TakesMail(kk, taken, u) /\ m \in MailFor(u)
  BY <1>1, MailTakenOk
<1>3. m.env \in Envs /\ m.send_pid \in UserProc
  <2>1. m \in MessagesWith(UserProc, Text)
    BY <1>2, BoardAssumption DEF MailFor
  <2> QED
    BY <2>1 DEF MessagesWith
<1>4. ll = IF m.msg_type = "CONSOLE_OUTPUT"
             THEN k_release_msg_env(taken, u, m.env)
             ELSE k_send_message(taken, u, m.send_pid, ack)
  BY DEF TextLoaded, AckGoesTo
<1>5. ack \in MailFor(m.send_pid) /\ m.send_pid \in Proc /\ m.send_pid # t
  BY <1>1, <1>3, MessageType, Pids DEF MessageTypes, UserProc
<1> HIDE DEF taken, m, ack, ll
<1>6. taken.recv_msgs[t] = kk.recv_msgs[t] /\ taken.recv_msgs \in [Proc -> Seq(AnyMessage)]
  BY <1>1, <1>2 DEF TakesMail, KernelOk, KernelMidway, KernelState
<1>7. Releases(taken, ll, u, m.env) \/ Sends(taken, ll, u, m.send_pid, ack)
  BY <1>1, <1>2, <1>3, <1>4, <1>5, ReleaseOk, SendOk
<1>8. ll.recv_msgs[t] = taken.recv_msgs[t]
  BY <1>1, <1>5, <1>6, <1>7 DEF Releases, Frees, PutsBack, Sends
<1> QED
  BY <1>6, <1>8 DEF ll

LEMMA NextTextDelays ==
    ASSUME NEW kk, KernelOk(kk), NEW o
    PROVE  NextText(kk, o).k.recv_msgs[TIMER_I_PROCESS_PID] = kk.recv_msgs[TIMER_I_PROCESS_PID]
  BY TextLoadedDelays DEF NextText

LEMMA SerialSteps ==
    ASSUME DelayInv, DelayInv', asm_uart_entry(ReceiveHalf) \/ asm_uart_entry(TransmitHalf)
    PROVE  UNCHANGED <<clock - 1, Pending, Due>>
<1> DEFINE t == TIMER_I_PROCESS_PID
           u == UART_I_PROCESS_PID
<1>1. UNCHANGED timing
  BY DEF asm_uart_entry, isr_handler
<1>2. k'.held[t] = k.held[t]
  BY <1>1 DEF timing, DelayInv, EnvelopeInv, TimerHolds
<1>3. KernelOk(k) /\ OutOk(out) /\ t \in Proc /\ u \in Proc /\ t # u /\ u \in IProc
      /\ CCI_PID \in Proc /\ CCI_PID # t
  BY Pids, BoardAssumption DEF DelayInv, EnvelopeInv, BoardInv, SerialOk, OutOk, UserProc
<1>4. CASE asm_uart_entry(TransmitHalf)
  <2> DEFINE first == IF out.output_print_char THEN [out |-> out, k |-> k] ELSE NextText(k, out)
             next == NextText(first.k, Idle)
  <2>1. k' \in {k, first.k, next.k}
    BY <1>4 DEF asm_uart_entry, isr_handler, TransmitHalf
  <2>2. KernelOk(first.k) /\ first.k.recv_msgs[t] = k.recv_msgs[t]
    <3>1. CASE out.output_print_char
      BY <1>3, <3>1
    <3>2. CASE ~out.output_print_char
      BY <1>3, <3>2, NextTextOk, NextTextDelays
    <3> QED
      BY <3>1, <3>2
  <2> HIDE DEF first
  <2>3. next.k.recv_msgs[t] = k.recv_msgs[t]
    BY <2>2, NextTextDelays
  <2> HIDE DEF next
  <2> QED
    BY <1>1, <1>2, <2>1, <2>2, <2>3, DelaysKept
<1>5. CASE asm_uart_entry(ReceiveHalf)
  <2>1. ReceiveHalf
    BY <1>5 DEF asm_uart_entry, isr_handler
  <2>2. CASE PlainKey
    BY <1>1, <2>2, DelaysKept DEF PlainKey
  <2>3. ASSUME NEW line \in Line, LineEnd(line) PROVE k'.recv_msgs[t] = k.recv_msgs[t]
    <3> DEFINE granted == RequestByIProcess(k, u)
               new == granted.held[u]
               e == CHOOSE env \in new : TRUE
               m == Message(e, u, "CONSOLE_INPUT", line)
    <3>1. k' = IF new = {} THEN granted ELSE k_send_message(granted, u, CCI_PID, m)
      BY <2>3 DEF LineEnd
    <3>2. KernelOk(granted) /\ granted.recv_msgs = k.recv_msgs
      BY <1>3, RequestByIProcessOk DEF TakesFree, TakesReserve
    <3> HIDE DEF granted
    <3>3. granted.recv_msgs \in [Proc -> Seq(AnyMessage)] /\ new \subseteq Envs
      BY <1>3, <3>2 DEF KernelOk, KernelMidway, KernelState
    <3>4. ASSUME new # {} PROVE k'.recv_msgs[t] = granted.recv_msgs[t]
      <4>1. e \in Envs
        <5> HIDE DEF new
        <5> QED
          BY <3>3, <3>4
      <4> HIDE DEF e
      <4>2. m \in MailFor(CCI_PID)
        BY <1>3, <2>3, <4>1, MessageType, BoardAssumption DEF MessageTypes
      <4> HIDE DEF m, new
      <4>3. Sends(granted, k', u, CCI_PID, m)
        BY <1>3, <3>1, <3>2, <3>4, <4>2, SendOk
      <4> QED
        BY <1>3, <3>3, <4>3 DEF Sends
    <3> QED
      BY <3>1, <3>2, <3>4
  <2> QED
    BY <1>1, <1>2, <2>1, <2>2, <2>3, DelaysKept DEF ReceiveHalf
<1> QED
  BY <1>4, <1>5

(* The interrupt of the timer is a tick of the service.                    *)
LEMMA TickTicks ==
    ASSUME DelayInv, DelayInv', asm_timer_entry
    PROVE  Service!Tick
<1> DEFINE t == TIMER_I_PROCESS_PID
           queue == InsertAll(timeout_queue, k.recv_msgs[t], clock + 1)
           h == Head(queue)
<1>1. /\ clock \in Nat /\ clock' = clock + 1
      /\ queue \in Seq(Node) /\ OnceMail(queue) /\ InOrder(queue) /\ AfterBoot(queue)
      /\ timeout_queue' = IF check_timeout_queue(queue, clock + 1) THEN Tail(queue) ELSE queue
      /\ k'.recv_msgs[t] = <<>>
      /\ Envelopes(queue) = Pending
      /\ \A node \in Elements(queue) : Due[node.env] = node.timeout - 1
  BY TickSteps
<1> HIDE DEF queue
<1>2. /\ timeout_queue' \in Seq(Node) /\ OnceMail(timeout_queue')
      /\ k'.held[t] = Envelopes(timeout_queue')
  BY DEF DelayInv, EnvelopeInv, BoardInv, TimingOk, TimerHolds
<1>3. <<>> \in Seq(DelayRequest) /\ OnceMail(<<>>) /\ Envelopes(<<>>) = {}
  BY DEF OnceMail, Envelopes
<1>4. Pending' = Envelopes(timeout_queue')
  BY <1>1, <1>2, <1>3 DEF Pending, Mail
<1>5. Due' = DueIn(<<>>, Envelopes(timeout_queue'), timeout_queue', clock')
  BY <1>1, <1>2 DEF Due, DueIn, Mail
<1>6. clock' \in Nat
  BY <1>1
<1>7. Due' \in [Envs -> Int]
  BY <1>2, <1>3, <1>5, <1>6, DueType
<1>8. \A node \in Elements(timeout_queue') : Due'[node.env] = node.timeout - 1
  <2> SUFFICES ASSUME NEW node \in Elements(timeout_queue')
               PROVE  Due'[node.env] = node.timeout - 1
    OBVIOUS
  <2>1. node.env \in Envelopes(timeout_queue')
    BY <1>2, NodeTimes
  <2> QED
    BY <1>2, <1>3, <1>5, <2>1, DueOfNode
<1>9. /\ \A e \in Pending : \E node \in Elements(queue) : node.env = e
      /\ \A e \in Pending' : \E node \in Elements(timeout_queue') : node.env = e
  BY <1>1, <1>4 DEF Envelopes, Elements
<1>10. Elements(timeout_queue') \subseteq Elements(queue)
  BY <1>1, TailOrder DEF check_timeout_queue
<1>11. \A e \in Pending' : Due'[e] = Due[e]
  BY <1>1, <1>8, <1>9, <1>10
<1>12. \A node \in Elements(queue) : node.timeout \in Nat /\ node.timeout >= 1 /\ node.env \in Pending
  BY <1>1, NodeTimes DEF AfterBoot
<1>13. clock' - 1 = (clock - 1) + 1 /\ (clock - 1) + 1 = clock
  BY <1>1
<1>14. CASE check_timeout_queue(queue, clock + 1)
  <2>1. queue # <<>> /\ h.timeout <= clock + 1 /\ timeout_queue' = Tail(queue)
    BY <1>1, <1>14 DEF check_timeout_queue
  <2>2. h \in Elements(queue) /\ \A node \in Elements(queue) : h.timeout <= node.timeout
    BY <1>1, <2>1, TailOrder
  <2>3. Envelopes(Tail(queue)) = Envelopes(queue) \ {h.env}
    BY <1>1, <2>1, DropMail
  <2> HIDE DEF h
  <2>4. Pending' = Pending \ {h.env}
    BY <1>1, <1>4, <2>1, <2>3
  <2>5. Due[h.env] = h.timeout - 1 /\ h.env \in Pending /\ h.timeout \in Nat /\ h.timeout >= 1
    BY <1>1, <1>12, <2>2
  <2>6. \A e \in Pending : Due[h.env] <= Due[e]
    <3> SUFFICES ASSUME NEW e \in Pending PROVE Due[h.env] <= Due[e]
      OBVIOUS
    <3>1. PICK node \in Elements(queue) : node.env = e
      BY <1>9
    <3>2. Due[e] = node.timeout - 1 /\ node.timeout \in Nat /\ h.timeout <= node.timeout
      BY <1>1, <1>12, <2>2, <3>1
    <3> QED
      BY <2>5, <3>2
  <2>7. Due[h.env] \in 0 .. clock
    BY <1>1, <2>1, <2>5
  <2> QED
    BY <1>7, <1>11, <1>13, <2>4, <2>5, <2>6, <2>7 DEF Service!Tick, Service!Earliest, Pending
<1>15. CASE ~check_timeout_queue(queue, clock + 1)
  <2>1. timeout_queue' = queue /\ Pending' = Pending
    BY <1>1, <1>4, <1>15
  <2>2. ASSUME NEW e \in Pending PROVE Due[e] \notin 0 .. clock
    <3>1. PICK node \in Elements(queue) : node.env = e
      BY <1>9
    <3>2. queue # <<>>
      BY <1>1, <3>1 DEF Elements
    <3>3. h \in Elements(queue) /\ h.timeout <= node.timeout
      BY <1>1, <3>2, TailOrder
    <3>4. ~(h.timeout <= clock + 1)
      BY <1>15, <3>2 DEF check_timeout_queue
    <3>5. Due[e] = node.timeout - 1 /\ node.timeout \in Nat /\ h.timeout \in Nat
      BY <1>1, <1>12, <3>1, <3>3
    <3> HIDE DEF h
    <3> QED
      BY <1>1, <3>3, <3>4, <3>5
  <2> QED
    BY <1>7, <1>11, <1>13, <2>1, <2>2 DEF Service!Tick, Service!Earliest, Pending
<1> QED
  BY <1>14, <1>15

LEMMA DelayInvariant == Spec => []DelayInv
  BY DelayInvInit, DelayInvNext, PTL DEF Spec

(* The timer i-process of the board, with requests that come in by traps   *)
(* and interrupts of the serial port in between, implements the delay      *)
(* service: each tick returns the earliest pending envelope if it is due,  *)
(* and nothing else changes what is pending but a request                  *)
(* (timer_i_process.c, timeout_queue.c).                                   *)
THEOREM BoardKeepsDelays == Spec => ImplementsDelayService
<1>1. Init => Service!DelayInit
  <2> SUFFICES ASSUME Init PROVE Service!DelayInit
    OBVIOUS
  <2>1. /\ clock = 1 /\ timeout_queue = <<>>
        /\ k.recv_msgs[TIMER_I_PROCESS_PID] = <<>> /\ k.held[TIMER_I_PROCESS_PID] = {}
    BY Pids DEF Init, init_timer, k_init
  <2>2. Envelopes(<<>>) = {} /\ OnceMail(<<>>) /\ <<>> \in Seq(DelayRequest) /\ <<>> \in Seq(Node)
    BY DEF Envelopes, OnceMail
  <2>3. Due \in [Envs -> Int]
    BY <2>1, <2>2, DueIs, DueType
  <2> QED
    BY <2>1, <2>2, <2>3 DEF Service!DelayInit, Mail
<1>2. DelayInv /\ DelayInv' /\ [Next]_vars => [Service!DelayNext]_(Service!delayVars)
  <2> SUFFICES ASSUME DelayInv, DelayInv', [Next]_vars
               PROVE  Service!DelayNext \/ UNCHANGED <<clock - 1, Pending, Due>>
    BY DEF Service!delayVars, Pending
  <2>0. BoardInv /\ self \in Proc /\ self # TIMER_I_PROCESS_PID
    BY SelfType, Pids DEF DelayInv, EnvelopeInv, Threads
  <2>1. CASE UserTrap
    BY <2>0, <2>1, UserTrapSteps, ProcessSteps
  <2>2. CASE ResumeInLoop
    <3>1. self \in UserProc /\ (RequestLoop \/ ReceiveLoop) /\ UNCHANGED timing
      BY <2>0, <2>2 DEF BoardInv, CallsOk, ResumeInLoop
    <3> QED
      BY <2>0, <3>1, LoopSteps, ProcessSteps
  <2>3. CASE UNCHANGED vars
    BY <2>3, DelaysKept DEF vars, timing
  <2>4. CASE asm_timer_entry
    BY <2>4, TickTicks DEF Service!DelayNext
  <2> QED
    BY <2>1, <2>2, <2>3, <2>4, SerialSteps DEF Next
<1> QED
  BY <1>1, <1>2, DelayInvariant, PTL DEF Spec, ImplementsDelayService, Service!DelaySpec

-----------------------------------------------------------------------------
(* The lists of the board's queues                                         *)

LEMMA QueueFacts ==
    /\ QueuesNamed(Queue) /\ Threads \subseteq Proc
    /\ \A i \in 0 .. NUM_PRIORITIES :
          <<"ready", i>> \in Queue /\ StatusOf(<<"ready", i>>) = "P_READY" /\ <<"ready", i>>[2] = i
    /\ \A i \in 0 .. NUM_PRIORITIES :
          /\ i # NUM_PRIORITIES => <<"blocked_request_env", i>> \in Queue
          /\ <<"blocked_request_env", i>>[2] = i
          /\ StatusOf(<<"blocked_request_env", i>>) = "P_BLOCKED_ON_ENV_REQUEST"
    /\ \A q \in blocked_request_env_pq : StatusOf(q) = "P_BLOCKED_ON_ENV_REQUEST"
    /\ \A q \in ready_pq : StatusOf(q) = "P_READY"
  BY QueueNames, TableAssumption
     DEF QueuesNamed, Threads, Queue, ready_pq, blocked_request_env_pq, proc_pq_create, StatusOf

(* The links are right for the statuses st.                                *)
RightFor(kk, links, st) == \E F : Right(Queue, Threads, links, F, st, kk.priority)

(* The processor belongs to one process, and the others stand in the lists *)
(* their statuses and priorities call for.                                 *)
ListsOk(kk) ==
    /\ \A p \in Threads : kk.state[p] = "P_EXECUTING" <=> p = kk.current_process
    /\ RightFor(kk, kk.queues, kk.state)

(* Who waits for an envelope.                                              *)
Asleep(kk) == {p \in UserProc : kk.state[p] = "P_BLOCKED_ON_ENV_REQUEST"}

LEMMA TidyRight ==
    ASSUME NEW L, NEW F, NEW st, NEW pr, Right(Queue, Threads, L, F, st, pr)
    PROVE  Right(Queue, Threads, Tidy(L), F, st, pr) /\ Tidy(L) \in LinksType(Queue)
<1> DEFINE M == Tidy(L)
<1>1. /\ L.head \in [Queue -> ProcOrNull] /\ L.tail \in [Queue -> ProcOrNull]
      /\ L.next \in [Proc -> ProcOrNull] /\ L \in LinksType(Queue)
  BY DEF Right, Linked, LinksType
<1>2. /\ M.head = L.head /\ M.next = L.next
      /\ M.tail = [q \in Queue |-> IF L.head[q] = NULL THEN NULL ELSE L.tail[q]]
      /\ M = [head |-> M.head, tail |-> M.tail, next |-> M.next]
  BY <1>1 DEF Tidy, proc_queue_is_empty, LinksType
<1> HIDE DEF M
<1>3. M \in LinksType(Queue)
  <2>1. M.tail \in [Queue -> ProcOrNull]
    BY <1>1, <1>2 DEF ProcOrNull
  <2> QED
    BY <1>1, <1>2, <2>1 DEF LinksType
<1>4. \A q \in Queue : L.head[q] # NULL => M.tail[q] = L.tail[q]
  BY <1>2
<1>5. Right(Queue, Threads, M, F, st, pr)
  BY <1>2, <1>3, <1>4, TailsOfEmpty
<1> QED
  BY <1>3, <1>5 DEF M

(* The first ready process gets the processor.                             *)
LEMMA SwitchLists ==
    ASSUME NEW kk, KernelMidway(kk), NullReady(kk), NEW to \in process_state,
           to # "P_EXECUTING",
           \A p \in Threads : p # kk.current_process => kk.state[p] # "P_EXECUTING",
           RightFor(kk, kk.queues, Marked(kk.state, kk.current_process, to))
    PROVE  /\ ListsOk(k_process_switch(kk, to))
           /\ Asleep(k_process_switch(kk, to)) =
                 {p \in UserProc : Marked(kk.state, kk.current_process, to)[p] = "P_BLOCKED_ON_ENV_REQUEST"}
<1> DEFINE c == kk.current_process
           st == Marked(kk.state, c, to)
           L  == kk.queues
           n  == proc_pq_front(L, ready_pq)
           M  == Tidy(proc_pq_dequeue(L, ready_pq))
           ll == k_process_switch(kk, to)
<1>1. /\ kk \in KernelState /\ c \in Threads /\ kk.state \in [Proc -> process_state]
      /\ \A p \in Threads : p \in Proc
  BY Pids DEF KernelMidway, KernelState
<1>2. PICK F : Right(Queue, Threads, L, F, st, kk.priority)
  BY DEF RightFor
<1>3. ready_pq \subseteq Queue /\ QueuesNamed(Queue)
  BY QueueNames, QueueFacts
<1>4. n # NULL
  <2>1. NullQueue \in NonEmpty(L, ready_pq)
    BY QueueNames, Pids DEF NonEmpty, proc_queue_is_empty, NullReady, Threads
  <2>2. L.head[proc_pq_first(L, ready_pq)] # NULL
    BY <1>3, <2>1, FirstQueue
  <2> QED
    BY <2>1, <2>2 DEF proc_pq_front
<1> HIDE DEF M, n, st, L
<1>5. PICK q \in ready_pq :
         /\ n \in Waits(Threads, st, kk.priority, q)
         /\ Right(Queue, Threads, proc_pq_dequeue(L, ready_pq), Put(F, q, Tail(F[q])),
                  Marked(st, n, "P_EXECUTING"), kk.priority)
  BY <1>2, <1>3, <1>4, FrontLeaves DEF n
<1>6. Right(Queue, Threads, M, Put(F, q, Tail(F[q])), Marked(st, n, "P_EXECUTING"), kk.priority)
  BY <1>5, TidyRight DEF M
<1>7. n \in Threads /\ n \in Proc
  BY <1>1, <1>5 DEF Waits
<1>8. /\ ll.current_process = n /\ ll.queues = M /\ ll.priority = kk.priority
      /\ ll.state = [kk.state EXCEPT ![c] = to, ![n] = "P_EXECUTING"]
  BY <1>1 DEF k_process_switch, KernelState, n, M, L
<1> HIDE DEF ll, c
<1>9. ll.state = Marked(st, n, "P_EXECUTING")
  BY <1>1, <1>7, <1>8 DEF Marked, st
<1>10. \A p \in Proc : ll.state[p] = IF p = n THEN "P_EXECUTING" ELSE IF p = c THEN to ELSE kk.state[p]
  BY <1>1, <1>7, <1>8
<1>11. \A p \in Threads : ll.state[p] = "P_EXECUTING" <=> p = n
  BY <1>1, <1>10 DEF c
<1>12. RightFor(ll, ll.queues, ll.state)
  BY <1>6, <1>8, <1>9 DEF RightFor
<1>13. Asleep(ll) = {p \in UserProc : st[p] = "P_BLOCKED_ON_ENV_REQUEST"}
  <2>1. st[n] = "P_READY"
    BY <1>5, QueueFacts DEF Waits
  <2>2. \A p \in UserProc : ll.state[p] = IF p = n THEN "P_EXECUTING" ELSE st[p]
    BY <1>1, <1>10 DEF Marked, st, UserProc
  <2> QED
    BY <2>1, <2>2 DEF Asleep
<1> QED
  BY <1>8, <1>11, <1>12, <1>13 DEF ListsOk, ll, st, c

(* The running process joins a list and gives the processor away.          *)
LEMMA SelfJoins ==
    ASSUME NEW kk, KernelMidway(kk), ListsOk(kk), NEW pq \in {"ready", "blocked_request_env"},
           kk.current_process = NULL_PID => pq = "ready", NEW to, to = StatusOf(<<pq, 0>>)
    PROVE  LET c  == kk.current_process
               mm == proc_pq_enqueue(kk, pq, c)
           IN  /\ RightFor(mm, mm.queues, Marked(mm.state, c, to))
               /\ \A p \in Threads : p # c => mm.state[p] # "P_EXECUTING"
<1> DEFINE c  == kk.current_process
           q  == <<pq, kk.priority[c]>>
           mm == proc_pq_enqueue(kk, pq, c)
<1>1. kk \in KernelState /\ c \in Threads
  BY DEF KernelMidway, KernelState
<1>2. q \in Queue /\ q[2] = kk.priority[c] /\ StatusOf(q) = to
  BY <1>1, QueueOfProcess DEF StatusOf
<1>3. /\ mm.queues = proc_queue_enqueue(kk.queues, q, c)
      /\ mm.state = kk.state /\ mm.priority = kk.priority
  BY <1>1 DEF proc_pq_enqueue, KernelState
<1>4. PICK F : Right(Queue, Threads, kk.queues, F, kk.state, kk.priority)
  BY DEF ListsOk, RightFor
<1>5. ~Queued(kk.state[c]) /\ \A p \in Threads : p # c => kk.state[p] # "P_EXECUTING"
  BY <1>1 DEF ListsOk, Queued
<1> HIDE DEF c, q, mm
<1>6. Right(Queue, Threads, proc_queue_enqueue(kk.queues, q, c), Put(F, q, Append(F[q], c)),
            Marked(kk.state, c, StatusOf(q)), kk.priority)
  BY <1>1, <1>2, <1>4, <1>5, Joins
<1>7. RightFor(mm, mm.queues, Marked(mm.state, c, to))
  BY <1>2, <1>3, <1>6 DEF RightFor
<1> QED
  BY <1>3, <1>5, <1>7 DEF c, mm

LEMMA SelfMarked ==
    ASSUME NEW kk, KernelMidway(kk), ListsOk(kk), NEW to, to # "P_BLOCKED_ON_ENV_REQUEST"
    PROVE  {p \in UserProc : Marked(kk.state, kk.current_process, to)[p] = "P_BLOCKED_ON_ENV_REQUEST"}
             = Asleep(kk)
<1>1. /\ kk.state \in [Proc -> process_state] /\ kk.current_process \in Threads
      /\ kk.state[kk.current_process] = "P_EXECUTING"
  BY DEF KernelMidway, KernelState, ListsOk
<1> QED
  BY <1>1 DEF Marked, Asleep, UserProc

LEMMA ReleaseProcessorLists ==
    ASSUME NEW kk, KernelOk(kk), ListsOk(kk)
    PROVE  /\ ListsOk(k_release_processor(kk))
           /\ Asleep(k_release_processor(kk)) = Asleep(kk)
<1> DEFINE p0 == kk.current_process
           mm == proc_pq_enqueue(kk, "ready", p0)
<1>1. KernelMidway(kk) /\ SomebodyReady(kk) /\ p0 \in Threads
  BY DEF KernelOk, KernelMidway, KernelState
<1>2. p0 = NULL_PID => kk.queues.head[NullQueue] = NULL
  BY <1>1 DEF SomebodyReady
<1>3. p0 # NULL_PID => kk.queues.head[NullQueue] = NULL_PID
  BY <1>1 DEF SomebodyReady, NullReady
<1>4. k_release_processor(kk) = k_process_switch(mm, "P_READY")
  BY DEF k_release_processor
<1>5. /\ RightFor(mm, mm.queues, Marked(mm.state, p0, "P_READY"))
      /\ \A p \in Threads : p # p0 => mm.state[p] # "P_EXECUTING"
  BY <1>1, SelfJoins DEF StatusOf
<1> HIDE DEF mm, p0
<1>6. /\ KernelMidway(mm) /\ OnlyQueues(kk, mm)
      /\ p0 = NULL_PID => NullReady(mm)
      /\ p0 # NULL_PID => mm.queues.head[NullQueue] = kk.queues.head[NullQueue]
  BY <1>1, <1>2, PqEnqueueOk DEF mm
<1>7. NullReady(mm) /\ mm.current_process = p0
  BY <1>3, <1>6 DEF NullReady, OnlyQueues, p0
<1>8. {p \in UserProc : Marked(mm.state, p0, "P_READY")[p] = "P_BLOCKED_ON_ENV_REQUEST"} = Asleep(kk)
  BY <1>1, <1>6, SelfMarked DEF OnlyQueues, p0
<1> QED
  BY <1>4, <1>5, <1>6, <1>7, <1>8, SwitchLists DEF process_state

LEMMA RequestBlocksLists ==
    ASSUME NEW kk, KernelOk(kk), ListsOk(kk), kk.current_process # NULL_PID
    PROVE  /\ ListsOk(RequestBlocks(kk))
           /\ Asleep(RequestBlocks(kk)) = Asleep(kk) \cup {kk.current_process}
<1> DEFINE p0 == kk.current_process
           mm == proc_pq_enqueue(kk, "blocked_request_env", p0)
<1>1. KernelMidway(kk) /\ SomebodyReady(kk) /\ p0 \in Threads /\ p0 # NULL_PID
  BY DEF KernelOk, KernelMidway, KernelState
<1>2. kk.queues.head[NullQueue] = NULL_PID
  BY <1>1 DEF SomebodyReady, NullReady
<1>3. RequestBlocks(kk) = k_process_switch(mm, "P_BLOCKED_ON_ENV_REQUEST")
  BY DEF RequestBlocks
<1>4. /\ RightFor(mm, mm.queues, Marked(mm.state, p0, "P_BLOCKED_ON_ENV_REQUEST"))
      /\ \A p \in Threads : p # p0 => mm.state[p] # "P_EXECUTING"
  BY <1>1, SelfJoins DEF StatusOf
<1> HIDE DEF mm, p0
<1>5. /\ KernelMidway(mm) /\ OnlyQueues(kk, mm)
      /\ mm.queues.head[NullQueue] = kk.queues.head[NullQueue]
  BY <1>1, PqEnqueueOk DEF mm
<1>6. NullReady(mm) /\ mm.current_process = p0
  BY <1>2, <1>5 DEF NullReady, OnlyQueues, p0
<1>7. {p \in UserProc : Marked(mm.state, p0, "P_BLOCKED_ON_ENV_REQUEST")[p] = "P_BLOCKED_ON_ENV_REQUEST"}
        = Asleep(kk) \cup {p0}
  <2>1. mm.state \in [Proc -> process_state] /\ mm.state = kk.state /\ p0 \in UserProc
    BY <1>1, <1>5, Pids DEF OnlyQueues, KernelMidway, KernelState
  <2> QED
    BY <2>1 DEF Marked, Asleep, UserProc
<1> QED
  BY <1>3, <1>4, <1>5, <1>6, <1>7, SwitchLists DEF process_state, p0

LEMMA ReceiveBlocksLists ==
    ASSUME NEW kk, KernelOk(kk), ListsOk(kk), kk.current_process # NULL_PID
    PROVE  /\ ListsOk(k_process_switch(kk, "P_BLOCKED_ON_RECEIVE"))
           /\ Asleep(k_process_switch(kk, "P_BLOCKED_ON_RECEIVE")) = Asleep(kk)
<1> DEFINE c == kk.current_process
<1>1. KernelMidway(kk) /\ NullReady(kk) /\ c \in Threads /\ c \in Proc
  BY Pids DEF KernelOk, KernelMidway, KernelState, SomebodyReady
<1>2. PICK F : Right(Queue, Threads, kk.queues, F, kk.state, kk.priority)
  BY DEF ListsOk, RightFor
<1>3. /\ \A p \in Threads : p # c => kk.state[p] # "P_EXECUTING"
      /\ ~Queued(kk.state[c]) /\ ~Queued("P_BLOCKED_ON_RECEIVE")
  BY <1>1 DEF ListsOk, Queued
<1> HIDE DEF c
<1>4. Right(Queue, Threads, kk.queues, F, Marked(kk.state, c, "P_BLOCKED_ON_RECEIVE"), kk.priority)
  BY <1>1, <1>2, <1>3, StaysOut
<1>5. RightFor(kk, kk.queues, Marked(kk.state, kk.current_process, "P_BLOCKED_ON_RECEIVE"))
  BY <1>4 DEF RightFor, c
<1>6. {p \in UserProc : Marked(kk.state, c, "P_BLOCKED_ON_RECEIVE")[p] = "P_BLOCKED_ON_ENV_REQUEST"} = Asleep(kk)
  BY <1>1, SelfMarked DEF c
<1> QED
  BY <1>1, <1>3, <1>5, <1>6, SwitchLists DEF process_state, c

(* A process that was in no list is made ready; st is the status it was    *)
(* out of the lists with.                                                  *)
LEMMA MakeReadyLists ==
    ASSUME NEW kk, kk \in KernelState, NEW p \in UserProc, p # kk.current_process,
           \A r \in Threads : kk.state[r] = "P_EXECUTING" <=> r = kk.current_process,
           NEW st, RightFor(kk, kk.queues, st), ~Queued(st[p]),
           Marked(st, p, "P_READY") = Marked(kk.state, p, "P_READY"),
           kk.priority[p] \in 0 .. NUM_PRIORITIES
    PROVE  ListsOk(MakeReady(kk, p)) /\ Asleep(MakeReady(kk, p)) = Asleep(kk) \ {p}
<1> DEFINE q  == <<"ready", kk.priority[p]>>
           ll == MakeReady(kk, p)
<1>1. /\ p \in Threads /\ p \in Proc /\ \A r \in Threads : r \in Proc
      /\ kk.state \in [Proc -> process_state]
  BY Pids DEF KernelState
<1>2. q \in Queue /\ StatusOf(q) = "P_READY" /\ q[2] = kk.priority[p]
  BY QueueFacts
<1>3. /\ ll.queues = proc_queue_enqueue(kk.queues, q, p)
      /\ ll.state = Marked(kk.state, p, "P_READY")
      /\ ll.priority = kk.priority /\ ll.current_process = kk.current_process
  BY DEF MakeReady, proc_pq_enqueue, KernelState, Marked
<1>4. PICK F : Right(Queue, Threads, kk.queues, F, st, kk.priority)
  BY DEF RightFor
<1> HIDE DEF q, ll
<1>5. Right(Queue, Threads, proc_queue_enqueue(kk.queues, q, p), Put(F, q, Append(F[q], p)),
            Marked(st, p, StatusOf(q)), kk.priority)
  BY <1>1, <1>2, <1>4, Joins
<1>6. RightFor(ll, ll.queues, ll.state)
  BY <1>2, <1>3, <1>5 DEF RightFor
<1>7. \A r \in Threads : ll.state[r] = "P_EXECUTING" <=> r = ll.current_process
  BY <1>1, <1>3 DEF Marked
<1>8. Asleep(ll) = Asleep(kk) \ {p}
  BY <1>1, <1>3 DEF Marked, Asleep, UserProc
<1> QED
  BY <1>6, <1>7, <1>8 DEF ListsOk, ll

-----------------------------------------------------------------------------
(* Waiting for envelopes                                                   *)

Asking(c) == {p \in UserProc : c[p] = "request_msg_env"}

(* Whoever waits for an envelope is in the loop that asks for one, and no  *)
(* more envelopes are free than processes woken for one are on their way.  *)
IdleOk(kk, c) ==
    /\ Asleep(kk) \subseteq Asking(c)
    /\ Asleep(kk) # {} => Len(kk.free_env_q) <= Cardinality(Asking(c) \ Asleep(kk))

Orderly(kk, c) == KernelOk(kk) /\ ListsOk(kk) /\ IdleOk(kk, c)

LEMMA AskingFinite ==
    ASSUME NEW c
    PROVE  \A S : S \subseteq Asking(c) => IsFiniteSet(S) /\ Cardinality(S) \in Nat
<1>1. Asking(c) \subseteq Proc
  BY DEF Asking, UserProc
<1> QED
  BY <1>1, ProcsAreFinite, FS_Subset, FS_CardinalityType

LEMMA IdleKept ==
    ASSUME NEW kk, NEW ll, NEW c, IdleOk(kk, c), KernelOk(kk), KernelOk(ll),
           Asleep(ll) = Asleep(kk), Len(ll.free_env_q) <= Len(kk.free_env_q)
    PROVE  IdleOk(ll, c)
<1>1. Len(kk.free_env_q) \in Nat /\ Len(ll.free_env_q) \in Nat
  BY DEF KernelOk, KernelMidway, KernelState
<1>2. Cardinality(Asking(c) \ Asleep(kk)) \in Nat
  BY AskingFinite
<1> QED
  BY <1>1, <1>2 DEF IdleOk

LEMMA IdleWakes ==
    ASSUME NEW kk, NEW ll, NEW c, IdleOk(kk, c), KernelOk(kk), NEW p \in Asleep(kk),
           Asleep(ll) = Asleep(kk) \ {p}, Len(ll.free_env_q) = Len(kk.free_env_q) + 1
    PROVE  IdleOk(ll, c)
<1> DEFINE S == Asking(c) \ Asleep(kk)
           T == Asking(c) \ Asleep(ll)
<1>1. Len(kk.free_env_q) \in Nat
  BY DEF KernelOk, KernelMidway, KernelState
<1>2. T = S \cup {p} /\ p \notin S
  BY DEF IdleOk
<1>3. IsFiniteSet(S)
  BY AskingFinite
<1> HIDE DEF S, T
<1>4. Cardinality(T) = Cardinality(S) + 1 /\ Cardinality(S) \in Nat
  BY <1>2, <1>3, FS_AddElement, FS_CardinalityType
<1>5. Len(kk.free_env_q) <= Cardinality(S)
  BY DEF IdleOk, S
<1>6. Len(ll.free_env_q) <= Cardinality(T)
  BY <1>1, <1>4, <1>5
<1> QED
  BY <1>6 DEF IdleOk, T

(* A step that changes envelopes and mailboxes only.                       *)
LEMMA EnvelopesOnly ==
    ASSUME NEW kk, NEW ll, NEW c, Orderly(kk, c), KernelOk(ll), SameProcesses(kk, ll),
           Len(ll.free_env_q) <= Len(kk.free_env_q)
    PROVE  Orderly(ll, c)
<1>1. ListsOk(ll)
  BY DEF Orderly, SameProcesses, ListsOk, RightFor
<1>2. Asleep(ll) = Asleep(kk)
  BY DEF SameProcesses, Asleep
<1>3. IdleOk(ll, c)
  BY <1>2, IdleKept DEF Orderly
<1> QED
  BY <1>1, <1>3 DEF Orderly

LEMMA FreeGrantedOrderly ==
    ASSUME NEW kk, NEW c, Orderly(kk, c), NEW p \in Proc, kk.free_env_q # <<>>
    PROVE  /\ Orderly(FreeGranted(kk, p), c)
           /\ Len(FreeGranted(kk, p).free_env_q) = Len(kk.free_env_q) - 1
<1> DEFINE ll == FreeGranted(kk, p)
<1>1. KernelMidway(kk) /\ SomebodyReady(kk) /\ kk.free_env_q \in Seq(Env)
  BY DEF Orderly, KernelOk, KernelMidway, KernelState
<1>2. KernelOk(ll) /\ SameProcesses(kk, ll) /\ ll.free_env_q = Tail(kk.free_env_q)
  BY <1>1, FreeGrantedOk DEF KernelOk, TakesFree
<1> HIDE DEF ll
<1>3. Len(ll.free_env_q) = Len(kk.free_env_q) - 1 /\ Len(kk.free_env_q) \in Nat
  BY <1>1, <1>2
<1>4. Len(ll.free_env_q) <= Len(kk.free_env_q)
  BY <1>3
<1>5. Orderly(ll, c)
  BY <1>2, <1>4, EnvelopesOnly
<1> QED
  BY <1>3, <1>5 DEF ll

LEMMA RequestByIProcessOrderly ==
    ASSUME NEW kk, NEW c, Orderly(kk, c), NEW p \in IProc
    PROVE  Orderly(RequestByIProcess(kk, p), c)
<1>0. p \in Proc /\ KernelMidway(kk) /\ SomebodyReady(kk)
  BY Pids DEF Orderly, KernelOk
<1>1. CASE kk.free_env_q # <<>>
  BY <1>0, <1>1, FreeGrantedOrderly DEF RequestByIProcess
<1>2. CASE kk.free_env_q = <<>> /\ kk.sys_free_env_q # <<>>
  <2> DEFINE ll == SysGranted(kk, p)
  <2>1. KernelOk(ll) /\ SameProcesses(kk, ll) /\ ll.free_env_q = kk.free_env_q
    BY <1>0, <1>2, SysGrantedOk DEF KernelOk, TakesReserve
  <2>2. kk.free_env_q \in Seq(Env)
    BY <1>0 DEF KernelMidway, KernelState
  <2> HIDE DEF ll
  <2>3. Len(ll.free_env_q) <= Len(kk.free_env_q)
    BY <2>1, <2>2
  <2>4. Orderly(ll, c)
    BY <2>1, <2>3, EnvelopesOnly
  <2> QED
    BY <1>2, <2>4 DEF RequestByIProcess, ll
<1>3. CASE kk.free_env_q = <<>> /\ kk.sys_free_env_q = <<>>
  BY <1>3 DEF RequestByIProcess
<1> QED
  BY <1>1, <1>2, <1>3

LEMMA MailTakenOrderly ==
    ASSUME NEW kk, NEW c, Orderly(kk, c), NEW p \in Proc, kk.recv_msgs[p] # <<>>
    PROVE  Orderly(MailTaken(kk, p), c)
<1> DEFINE ll == MailTaken(kk, p)
<1>1. KernelOk(kk) /\ kk.free_env_q \in Seq(Env)
  BY DEF Orderly, KernelOk, KernelMidway, KernelState
<1>2. KernelOk(ll) /\ SameProcesses(kk, ll) /\ ll.free_env_q = kk.free_env_q
  BY <1>1, MailTakenOk DEF TakesMail
<1> HIDE DEF ll
<1>3. Len(ll.free_env_q) <= Len(kk.free_env_q)
  BY <1>1, <1>2
<1> QED
  BY <1>2, <1>3, EnvelopesOnly DEF ll

LEMMA MailboxEmptiedOrderly ==
    ASSUME NEW kk, NEW c, Orderly(kk, c), NEW p \in IProc
    PROVE  Orderly(MailboxEmptied(kk, p), c)
<1> DEFINE ll == MailboxEmptied(kk, p)
<1>1. KernelOk(kk) /\ kk.free_env_q \in Seq(Env)
  BY DEF Orderly, KernelOk, KernelMidway, KernelState
<1>2. KernelOk(ll) /\ SameProcesses(kk, ll) /\ ll.free_env_q = kk.free_env_q
  BY <1>1, MailboxEmptiedOk DEF TakesAllMail
<1> HIDE DEF ll
<1>3. Len(ll.free_env_q) <= Len(kk.free_env_q)
  BY <1>1, <1>2
<1> QED
  BY <1>2, <1>3, EnvelopesOnly DEF ll

(* The first process that waits for an envelope is woken, if there is one. *)
LEMMA WakeRequesterLists ==
    ASSUME NEW kk, KernelMidway(kk), ListsOk(kk)
    PROVE  /\ ListsOk(WakeRequester(kk))
           /\ \/ Asleep(kk) = {} /\ Asleep(WakeRequester(kk)) = {}
              \/ \E p \in Asleep(kk) : Asleep(WakeRequester(kk)) = Asleep(kk) \ {p}
<1> DEFINE L == kk.queues
           b == proc_pq_front(L, blocked_request_env_pq)
           st == Marked(kk.state, b, "P_EXECUTING")
           mm == [kk EXCEPT !.queues = Tidy(proc_pq_dequeue(L, blocked_request_env_pq))]
           ll == WakeRequester(kk)
<1>1. /\ kk \in KernelState /\ kk.state \in [Proc -> process_state]
      /\ \A p \in Proc : kk.priority[p] \in 0 .. NUM_PRIORITIES
      /\ \A p \in Threads : p \in Proc
  BY Pids DEF KernelMidway, KernelState
<1>2. PICK F : Right(Queue, Threads, L, F, kk.state, kk.priority)
  BY DEF ListsOk, RightFor
<1>3. blocked_request_env_pq \subseteq Queue /\ QueuesNamed(Queue)
  BY QueueNames, QueueFacts
<1>4. CASE b = NULL
  <2>1. ll = kk
    BY <1>4 DEF WakeRequester
  <2>2. Linked(Queue, L, F) /\ \A q \in Queue : Elements(F[q]) = Waits(Threads, kk.state, kk.priority, q)
    BY <1>2 DEF Right
  <2> HIDE DEF L
  <2>3. \A q \in blocked_request_env_pq : F[q] = <<>>
    BY <1>3, <1>4, <2>2, FrontList
  <2>4. ASSUME NEW p \in Asleep(kk) PROVE FALSE
    <3> DEFINE q == <<"blocked_request_env", kk.priority[p]>>
    <3>1. p \in UserProc /\ p \in Threads /\ p \in Proc /\ p # NULL_PID
      BY Pids DEF Asleep, UserProc
    <3>2. kk.priority[p] \in 0 .. NUM_PRIORITIES /\ kk.priority[p] # NUM_PRIORITIES
      BY <1>1, <3>1 DEF KernelMidway, RanksOk
    <3>3. q \in Queue /\ q \in blocked_request_env_pq
      BY <3>2, TableAssumption DEF Queue, blocked_request_env_pq, proc_pq_create
    <3>4. p \in Waits(Threads, kk.state, kk.priority, q)
      BY <3>1, <3>2, QueueFacts DEF Waits, Asleep
    <3> HIDE DEF q
    <3>5. F[q] = <<>> /\ p \in Elements(F[q])
      BY <2>2, <2>3, <3>3, <3>4
    <3> QED
      BY <3>5 DEF Elements
  <2>5. Asleep(kk) = {}
    BY <2>4
  <2> QED
    BY <2>1, <2>5
<1>5. CASE b # NULL
  <2> HIDE DEF b, L
  <2>1. PICK q \in blocked_request_env_pq :
           /\ b \in Waits(Threads, kk.state, kk.priority, q)
           /\ Right(Queue, Threads, proc_pq_dequeue(L, blocked_request_env_pq), Put(F, q, Tail(F[q])),
                    st, kk.priority)
    BY <1>2, <1>3, <1>5, FrontLeaves DEF b
  <2>2. b \in Threads /\ kk.state[b] = "P_BLOCKED_ON_ENV_REQUEST"
    BY <2>1, QueueFacts DEF Waits
  <2>3. b \in UserProc /\ b \in Proc
    BY <1>1, <2>2, BlockedIsUser
  <2> HIDE DEF st
  <2>4. /\ Right(Queue, Threads, Tidy(proc_pq_dequeue(L, blocked_request_env_pq)),
                 Put(F, q, Tail(F[q])), st, kk.priority)
        /\ Tidy(proc_pq_dequeue(L, blocked_request_env_pq)) \in LinksType(Queue)
    BY <2>1, TidyRight
  <2>5. ll = MakeReady(mm, b)
    BY <1>5 DEF WakeRequester, b, L
  <2>6. /\ mm \in KernelState
        /\ mm.state = kk.state /\ mm.current_process = kk.current_process
        /\ mm.priority = kk.priority
        /\ mm.queues = Tidy(proc_pq_dequeue(L, blocked_request_env_pq))
    BY <1>1, <2>4 DEF KernelState
  <2> HIDE DEF mm, ll
  <2>7. RightFor(mm, mm.queues, st)
    BY <2>4, <2>6 DEF RightFor
  <2>8. /\ ~Queued(st[b]) /\ Marked(st, b, "P_READY") = Marked(mm.state, b, "P_READY")
    BY <1>1, <2>3, <2>6 DEF st, Marked, Queued
  <2>9. /\ b # mm.current_process
        /\ \A r \in Threads : mm.state[r] = "P_EXECUTING" <=> r = mm.current_process
        /\ mm.priority[b] \in 0 .. NUM_PRIORITIES
    BY <1>1, <2>2, <2>3, <2>6 DEF ListsOk
  <2>10. ListsOk(MakeReady(mm, b)) /\ Asleep(MakeReady(mm, b)) = Asleep(mm) \ {b}
    BY <2>3, <2>6, <2>7, <2>8, <2>9, MakeReadyLists
  <2>11. Asleep(mm) = Asleep(kk) /\ b \in Asleep(kk)
    BY <2>2, <2>3, <2>6 DEF Asleep
  <2> QED
    BY <2>5, <2>10, <2>11 DEF ll
<1> QED
  BY <1>4, <1>5

LEMMA ReleaseOrderly ==
    ASSUME NEW kk, NEW c, Orderly(kk, c), NEW p \in Proc, NEW env \in Envs
    PROVE  Orderly(k_release_msg_env(kk, p, env), c)
<1> DEFINE back  == [Disowned(kk, p, env) EXCEPT !.sys_free_env_q = Append(@, env)]
           freed == [Disowned(kk, p, env) EXCEPT !.free_env_q = Append(@, env)]
           ll    == k_release_msg_env(kk, p, env)
<1>1. /\ kk \in KernelState /\ KernelMidway(kk) /\ KernelOk(kk)
      /\ kk.free_env_q \in Seq(Env)
  BY DEF Orderly, KernelOk, KernelMidway, KernelState
<1>2. KernelOk(ll) /\ Releases(kk, ll, p, env)
  BY <1>1, ReleaseOk
<1>3. CASE env \in SysEnv
  <2>1. ll = back
    BY <1>3 DEF k_release_msg_env, k_is_msg_env_sys_env
  <2>2. SameProcesses(kk, back) /\ back.free_env_q = kk.free_env_q
    BY <1>1 DEF SameProcesses, Disowned, KernelState
  <2> HIDE DEF back, ll
  <2>3. Len(ll.free_env_q) <= Len(kk.free_env_q)
    BY <1>1, <2>1, <2>2
  <2>4. Orderly(ll, c)
    BY <1>2, <2>1, <2>2, <2>3, EnvelopesOnly
  <2> QED
    BY <2>4 DEF ll
<1>4. CASE env \notin SysEnv
  <2>1. ll = WakeRequester(freed)
    BY <1>4 DEF k_release_msg_env, k_is_msg_env_sys_env
  <2>2. SameProcesses(kk, freed) /\ freed.recv_msgs = kk.recv_msgs
    BY <1>1 DEF SameProcesses, Disowned, KernelState
  <2>3. freed \in KernelState
    <3>1. /\ Append(kk.free_env_q, env) \in Seq(Env)
          /\ [kk.env_owned EXCEPT ![p] = @ - 1] \in [Proc -> Int]
          /\ [kk.held EXCEPT ![p] = @ \ {env}] \in [Proc -> SUBSET Envs]
      BY <1>1, <1>4 DEF KernelState, Envs
    <3>2. freed = [kk EXCEPT !.free_env_q = Append(kk.free_env_q, env),
                             !.env_owned = [kk.env_owned EXCEPT ![p] = @ - 1],
                             !.held = [kk.held EXCEPT ![p] = @ \ {env}]]
      BY <1>1 DEF Disowned, KernelState
    <3> HIDE DEF freed
    <3> QED
      BY <1>1, <3>1, <3>2 DEF KernelState
  <2> HIDE DEF freed, ll
  <2>4. KernelMidway(freed)
    BY <1>1, <2>2, <2>3, MailKept
  <2>5. ListsOk(freed) /\ Asleep(freed) = Asleep(kk)
    BY <2>2 DEF Orderly, ListsOk, SameProcesses, RightFor, Asleep
  <2>6. /\ ListsOk(ll)
        /\ \/ Asleep(freed) = {} /\ Asleep(ll) = {}
           \/ \E r \in Asleep(freed) : Asleep(ll) = Asleep(freed) \ {r}
    BY <2>1, <2>4, <2>5, WakeRequesterLists
  <2>7. Len(ll.free_env_q) = Len(kk.free_env_q) + 1
    BY <1>1, <1>2, <1>4 DEF Releases, Frees
  <2>8. CASE Asleep(ll) = {}
    BY <1>2, <2>6, <2>8 DEF Orderly, IdleOk, ll
  <2>9. CASE \E r \in Asleep(kk) : Asleep(ll) = Asleep(kk) \ {r}
    <3>1. IdleOk(ll, c)
      BY <2>7, <2>9, IdleWakes DEF Orderly
    <3> QED
      BY <1>2, <2>6, <3>1 DEF Orderly, ll
  <2> QED
    BY <2>5, <2>6, <2>8, <2>9
<1> QED
  BY <1>3, <1>4

LEMMA SendOrderly ==
    ASSUME NEW kk, NEW c, Orderly(kk, c), NEW p \in Proc, NEW dest \in Proc, NEW m \in MailFor(dest)
    PROVE  Orderly(k_send_message(kk, p, dest, m), c)
<1> DEFINE sent == Posted(Disowned(kk, p, m.env), dest, m)
           ll == k_send_message(kk, p, dest, m)
<1>1. /\ kk \in KernelState /\ KernelMidway(kk) /\ KernelOk(kk)
      /\ kk.free_env_q \in Seq(Env)
  BY DEF Orderly, KernelOk, KernelMidway, KernelState
<1>2. KernelOk(ll) /\ ll.free_env_q = kk.free_env_q
  <2>1. KernelOk(kk)
    BY <1>1
  <2>2. KernelOk(k_send_message(kk, p, dest, m)) /\ Sends(kk, k_send_message(kk, p, dest, m), p, dest, m)
    BY <2>1, SendOk
  <2> QED
    BY <2>2 DEF Sends
<1>3. /\ SameProcesses(kk, sent) /\ sent.free_env_q = kk.free_env_q
      /\ sent = [kk EXCEPT !.env_owned = [[kk.env_owned EXCEPT ![p] = @ - 1] EXCEPT ![dest] = @ + 1],
                           !.held = [kk.held EXCEPT ![p] = @ \ {m.env}],
                           !.recv_msgs = [kk.recv_msgs EXCEPT ![dest] = Append(@, m)]]
  BY <1>1 DEF SameProcesses, Posted, Disowned, KernelState
<1>4. ll = IF kk.state[dest] = "P_BLOCKED_ON_RECEIVE" THEN MakeReady(sent, dest) ELSE sent
  BY DEF k_send_message
<1> HIDE DEF ll
<1>5. Len(ll.free_env_q) <= Len(kk.free_env_q)
  BY <1>1, <1>2
<1>6. CASE kk.state[dest] # "P_BLOCKED_ON_RECEIVE"
  <2> HIDE DEF sent
  <2> QED
    BY <1>2, <1>3, <1>4, <1>5, <1>6, EnvelopesOnly DEF ll
<1>7. CASE kk.state[dest] = "P_BLOCKED_ON_RECEIVE"
  <2>1. dest \in UserProc
    BY <1>1, <1>7, BlockedIsUser
  <2>2. sent \in KernelState
    <3> DEFINE owned == [[kk.env_owned EXCEPT ![p] = @ - 1] EXCEPT ![dest] = @ + 1]
               held0 == [kk.held EXCEPT ![p] = @ \ {m.env}]
               mail  == [kk.recv_msgs EXCEPT ![dest] = Append(@, m)]
    <3>1. owned \in [Proc -> Int] /\ held0 \in [Proc -> SUBSET Envs]
      BY <1>1 DEF KernelState
    <3>2. mail \in [Proc -> Seq(AnyMessage)]
      <4>1. m \in AnyMessage
        BY MailForIsMessage
      <4>2. \A r \in Proc : kk.recv_msgs[r] \in Seq(AnyMessage)
        BY <1>1 DEF KernelState
      <4>3. Append(kk.recv_msgs[dest], m) \in Seq(AnyMessage)
        BY <4>1, <4>2
      <4> QED
        BY <1>1, <4>2, <4>3 DEF KernelState
    <3> HIDE DEF owned, held0, mail, sent
    <3>3. sent = [kk EXCEPT !.env_owned = owned, !.held = held0, !.recv_msgs = mail]
      BY <1>3 DEF owned, held0, mail
    <3> QED
      BY <1>1, <3>1, <3>2, <3>3 DEF KernelState
  <2> HIDE DEF sent
  <2>3. /\ \A r \in Threads : sent.state[r] = "P_EXECUTING" <=> r = sent.current_process
        /\ RightFor(sent, sent.queues, sent.state) /\ Asleep(sent) = Asleep(kk)
    BY <1>3 DEF Orderly, ListsOk, SameProcesses, RightFor, Asleep
  <2>4. dest # sent.current_process /\ ~Queued(sent.state[dest])
    BY <1>3, <1>7, <2>1, <2>3, Pids DEF SameProcesses, Queued
  <2>5. sent.priority[dest] \in 0 .. NUM_PRIORITIES
    BY <2>2 DEF KernelState
  <2>6. ListsOk(MakeReady(sent, dest)) /\ Asleep(MakeReady(sent, dest)) = Asleep(sent) \ {dest}
    BY <2>1, <2>2, <2>3, <2>4, <2>5, MakeReadyLists
  <2>7. Asleep(ll) = Asleep(kk) /\ ListsOk(ll)
    BY <1>4, <1>7, <2>3, <2>6 DEF Asleep
  <2>8. IdleOk(ll, c)
    BY <1>1, <1>2, <1>5, <2>7, IdleKept DEF Orderly, ll
  <2> QED
    BY <1>2, <2>7, <2>8 DEF Orderly, ll
<1> QED
  BY <1>6, <1>7

-----------------------------------------------------------------------------
(* A change of priority                                                    *)

(* p is the last of several in its queue.                                  *)
LastOfSeveral(kk, p) ==
    \E q \in Queue : /\ p \in Members(kk.queues, q)
                     /\ kk.queues.head[q] # p /\ kk.queues.next[p] = NULL

LEMMA TidyFacts ==
    ASSUME NEW L \in LinksType(Queue)
    PROVE  /\ Tidy(L) \in LinksType(Queue)
           /\ Tidy(L).head = L.head /\ Tidy(L).next = L.next
           /\ \A q \in Queue : L.head[q] # NULL => Tidy(L).tail[q] = L.tail[q]
<1> DEFINE M == Tidy(L)
<1>1. /\ M.head = L.head /\ M.next = L.next
      /\ M.tail = [q \in Queue |-> IF L.head[q] = NULL THEN NULL ELSE L.tail[q]]
      /\ M = [head |-> M.head, tail |-> M.tail, next |-> M.next]
  BY DEF Tidy, proc_queue_is_empty, LinksType
<1> HIDE DEF M
<1>2. M.tail \in [Queue -> ProcOrNull]
  BY <1>1 DEF LinksType, ProcOrNull
<1>3. M \in LinksType(Queue)
  BY <1>1, <1>2 DEF LinksType
<1> QED
  BY <1>1, <1>3 DEF M

(* The tails of empty queues make no difference to an enqueue.             *)
LEMMA EnqueueTidy ==
    ASSUME NEW L \in LinksType(Queue), NEW q \in Queue, NEW p \in Proc
    PROVE  LET M == proc_queue_enqueue(L, q, p)
               N == proc_queue_enqueue(Tidy(L), q, p)
           IN  /\ N \in LinksType(Queue)
               /\ N.head = M.head /\ N.next = M.next
               /\ \A r \in Queue : M.head[r] # NULL => N.tail[r] = M.tail[r]
<1> DEFINE T == Tidy(L)
           M == proc_queue_enqueue(L, q, p)
           N == proc_queue_enqueue(T, q, p)
<1>1. /\ T \in LinksType(Queue) /\ T.head = L.head /\ T.next = L.next
      /\ \A r \in Queue : L.head[r] # NULL => T.tail[r] = L.tail[r]
  BY TidyFacts
<1> HIDE DEF T
<1>2. N.head = M.head /\ N.next = M.next
  BY <1>1 DEF proc_queue_enqueue, proc_queue_is_empty
<1>3. /\ T.tail \in [Queue -> ProcOrNull] /\ L.tail \in [Queue -> ProcOrNull]
      /\ L.head \in [Queue -> ProcOrNull]
  BY <1>1 DEF LinksType
<1>4. /\ N.tail = [T.tail EXCEPT ![q] = p] /\ M.tail = [L.tail EXCEPT ![q] = p]
      /\ M.head = IF L.head[q] = NULL THEN [L.head EXCEPT ![q] = p] ELSE L.head
  BY DEF proc_queue_enqueue, proc_queue_is_empty
<1>5. \A r \in Queue : M.head[r] # NULL => N.tail[r] = M.tail[r]
  BY <1>1, <1>3, <1>4
<1>6. N \in LinksType(Queue)
  <2>1. /\ T.head \in [Queue -> ProcOrNull] /\ T.tail \in [Queue -> ProcOrNull]
        /\ T.next \in [Proc -> ProcOrNull] /\ p \in ProcOrNull /\ NULL \in ProcOrNull
    BY <1>1 DEF LinksType, ProcOrNull
  <2>2. /\ N.head = IF T.head[q] = NULL THEN [T.head EXCEPT ![q] = p] ELSE T.head
        /\ N.tail = [T.tail EXCEPT ![q] = p]
        /\ N.next = IF T.head[q] = NULL THEN [T.next EXCEPT ![p] = NULL]
                    ELSE [T.next EXCEPT ![T.tail[q]] = p, ![p] = NULL]
        /\ N = [head |-> N.head, tail |-> N.tail, next |-> N.next]
    BY DEF proc_queue_enqueue, proc_queue_is_empty
  <2> HIDE DEF N
  <2>3. /\ N.head \in [Queue -> ProcOrNull] /\ N.tail \in [Queue -> ProcOrNull]
        /\ N.next \in [Proc -> ProcOrNull]
    BY <2>1, <2>2
  <2> QED
    BY <2>2, <2>3 DEF LinksType
<1> QED
  BY <1>2, <1>5, <1>6 DEF T

LEMMA RequeueLists ==
    ASSUME NEW kk, KernelMidway(kk), ListsOk(kk), NEW p \in UserProc,
           NEW pq \in {"ready", "blocked_request_env"}, kk.state[p] = StatusOf(<<pq, 0>>),
           NEW n \in 0 .. NUM_PRIORITIES - 1, n # kk.priority[p], ~LastOfSeveral(kk, p)
    PROVE  LET ll == Requeue(kk, pq, p, n)
           IN  ListsOk(ll) /\ ll.state = kk.state
<1> DEFINE L == kk.queues
           q == <<pq, kk.priority[p]>>
           r == <<pq, n>>
           M == proc_queue_remove(L, q, p)
           N == proc_queue_enqueue(Tidy(M), r, p)
           pr == Marked(kk.priority, p, n)
           ll == Requeue(kk, pq, p, n)
<1>1. /\ kk \in KernelState /\ p \in Threads /\ p \in Proc /\ kk.state \in [Proc -> process_state]
      /\ kk.priority \in [Proc -> 0 .. NUM_PRIORITIES]
  BY Pids DEF KernelMidway, KernelState
<1>2. q \in Queue /\ q[2] = kk.priority[p] /\ StatusOf(q) = kk.state[p]
  BY <1>1, QueueOfProcess, Pids DEF StatusOf, UserProc
<1>3. r \in Queue /\ r[2] = n /\ StatusOf(r) = kk.state[p] /\ r # q
  <2>1. n \in 0 .. NUM_PRIORITIES /\ n # NUM_PRIORITIES
    BY TableAssumption
  <2> QED
    BY <2>1, QueueFacts DEF StatusOf
<1>4. PICK F : Right(Queue, Threads, L, F, kk.state, kk.priority)
  BY DEF ListsOk, RightFor
<1>5. p \in Elements(F[q]) /\ Linked(Queue, L, F) /\ IsList(L, q, F[q])
  BY <1>1, <1>2, <1>4 DEF Right, Waits, Linked
<1>6. MayRemove(L, q, p)
  <2>1. p \in Members(L, q)
    BY <1>5, ReadList
  <2> QED
    BY <1>2, <2>1 DEF LastOfSeveral, MayRemove
<1>7. /\ ll.queues = N /\ ll.priority = pr /\ ll.state = kk.state
      /\ ll.current_process = kk.current_process
  BY <1>1 DEF Requeue, proc_pq_enqueue, proc_pq_remove, KernelState, Marked
<1> HIDE DEF L, q, r, pr, ll
<1>8. Right(Queue, Threads, proc_queue_enqueue(M, r, p),
            Put(Put(F, q, Without(F[q], p)), r, Append(F[r], p)), kk.state, Marked(kk.priority, p, r[2]))
  BY <1>2, <1>3, <1>4, <1>5, <1>6, Moves
<1>9. M \in LinksType(Queue)
  <2>1. Linked(Queue, proc_queue_remove(L, q, p), Put(F, q, Without(F[q], p)))
    BY <1>2, <1>5, <1>6, RemoveList
  <2> QED
    BY <2>1 DEF Linked
<1> HIDE DEF M
<1>10. /\ N \in LinksType(Queue)
       /\ N.head = proc_queue_enqueue(M, r, p).head /\ N.next = proc_queue_enqueue(M, r, p).next
       /\ \A x \in Queue : proc_queue_enqueue(M, r, p).head[x] # NULL
                              => N.tail[x] = proc_queue_enqueue(M, r, p).tail[x]
  BY <1>1, <1>3, <1>9, EnqueueTidy
<1>11. Right(Queue, Threads, proc_queue_enqueue(M, r, p),
             Put(Put(F, q, Without(F[q], p)), r, Append(F[r], p)), kk.state, pr)
  BY <1>3, <1>8 DEF pr
<1> HIDE DEF N
<1>12. Right(Queue, Threads, N, Put(Put(F, q, Without(F[q], p)), r, Append(F[r], p)), kk.state, pr)
  BY <1>10, <1>11, TailsOfEmpty
<1>13. RightFor(ll, ll.queues, ll.state)
  BY <1>7, <1>12 DEF RightFor
<1> QED
  BY <1>7, <1>13 DEF ListsOk, ll

LEMMA ChangePriorityOrderly ==
    ASSUME NEW kk, NEW c, Orderly(kk, c), NEW p \in Target, NEW n \in 0 .. NUM_PRIORITIES - 1,
           k_change_priority(kk, n, p).priority[p] # kk.priority[p] => ~LastOfSeveral(kk, p)
    PROVE  Orderly(k_change_priority(kk, n, p), c)
<1> DEFINE ll == k_change_priority(kk, n, p)
           turned_away == p \in IProc \cup SysPid \cup {NULL_PID} \/ kk.priority[p] = n
<1>1. /\ KernelOk(kk) /\ KernelMidway(kk) /\ kk \in KernelState /\ ListsOk(kk)
      /\ kk.free_env_q \in Seq(Env) /\ kk.priority \in [Proc -> 0 .. NUM_PRIORITIES]
  BY DEF Orderly, KernelOk, KernelMidway, KernelState
<1>2. p \in UserProc /\ p \in Proc /\ p \in Threads
  BY Pids
<1>3. KernelOk(ll) /\ ll.free_env_q = kk.free_env_q
  BY <1>1, ChangePriorityOk DEF SameEnvelopes
<1>4. Len(ll.free_env_q) <= Len(kk.free_env_q)
  <2> HIDE DEF ll
  <2> QED
    BY <1>1, <1>3
<1>5. CASE turned_away
  <2>1. ll = kk
    BY <1>5 DEF k_change_priority
  <2> QED
    BY <2>1
<1>6. ASSUME ~turned_away PROVE ll.priority[p] # kk.priority[p]
  <2>1. ll.priority = [kk.priority EXCEPT ![p] = n]
    BY <1>1, <1>6 DEF k_change_priority, Requeue, proc_pq_enqueue, proc_pq_remove, KernelState
  <2> QED
    BY <1>1, <1>2, <1>6, <2>1
<1>7. ASSUME ListsOk(ll), ll.state = kk.state PROVE Orderly(ll, c)
  <2>1. Asleep(ll) = Asleep(kk)
    BY <1>7 DEF Asleep
  <2>2. IdleOk(ll, c)
    BY <1>1, <1>3, <1>4, <2>1, IdleKept DEF Orderly
  <2> QED
    BY <1>3, <1>7, <2>2 DEF Orderly
<1>8. CASE ~turned_away /\ kk.state[p] = "P_READY"
  <2>1. ll = Requeue(kk, "ready", p, n)
    BY <1>8 DEF k_change_priority
  <2>2. ListsOk(ll) /\ ll.state = kk.state
    BY <1>1, <1>2, <1>6, <1>8, <2>1, RequeueLists DEF StatusOf
  <2> QED
    BY <1>7, <2>2
<1>9. CASE ~turned_away /\ kk.state[p] = "P_BLOCKED_ON_ENV_REQUEST"
  <2>1. ll = Requeue(kk, "blocked_request_env", p, n)
    BY <1>9 DEF k_change_priority
  <2>2. ListsOk(ll) /\ ll.state = kk.state
    BY <1>1, <1>2, <1>6, <1>9, <2>1, RequeueLists DEF StatusOf
  <2> QED
    BY <1>7, <2>2
<1>10. CASE ~turned_away /\ kk.state[p] \notin {"P_READY", "P_BLOCKED_ON_ENV_REQUEST"}
  <2>1. ll = [kk EXCEPT !.priority[p] = n]
    BY <1>10 DEF k_change_priority
  <2>2. /\ ll.queues = kk.queues /\ ll.state = kk.state /\ ll.current_process = kk.current_process
        /\ ll.priority = Marked(kk.priority, p, n)
    BY <1>1, <2>1 DEF KernelState, Marked
  <2> HIDE DEF ll, turned_away
  <2>3. PICK F : Right(Queue, Threads, kk.queues, F, kk.state, kk.priority)
    BY <1>1 DEF ListsOk, RightFor
  <2>4. ~Queued(kk.state[p])
    BY <1>10 DEF Queued
  <2>5. Right(Queue, Threads, kk.queues, F, kk.state, Marked(kk.priority, p, n))
    BY <1>2, <2>3, <2>4, StaysOutReprioritised
  <2>6. RightFor(ll, ll.queues, ll.state)
    BY <2>2, <2>5 DEF RightFor
  <2>7. ListsOk(ll)
    BY <1>1, <2>2, <2>6 DEF ListsOk
  <2> QED
    BY <1>7, <2>2, <2>7 DEF ll
<1> HIDE DEF ll, turned_away
<1> QED
  BY <1>5, <1>8, <1>9, <1>10 DEF ll

-----------------------------------------------------------------------------
(* Boot                                                                    *)

LEMMA BootLists == \E F : Right(Queue, Threads, init_processes, F,
                                [p \in Proc |-> "P_READY"], [p \in Proc |-> k_get_process(p).priority])
<1> DEFINE N == Len(itable)
           st == [p \in Proc |-> "P_READY"]
           pr == [p \in Proc |-> k_get_process(p).priority]
           Upto(i) == {itable[j].pid : j \in 1 .. i} \ IProc
<1>1. N \in Nat
  BY Rows
<1>2. PICK W : /\ W[0] = NoLinks
               /\ \A i \in 1 .. N : W[i] = BootTurn(W[i - 1], i)
               /\ init_processes = W[N]
  BY BootLoop
<1> DEFINE Holds == {i \in 0 .. N : \E F : Right(Queue, Upto(i), W[i], F, st, pr)}
<1>3. 0 \in Holds
  <2> DEFINE F == [q \in Queue |-> <<>>]
  <2>1. Upto(0) = {}
    OBVIOUS
  <2>2. NoLinks \in LinksType(Queue)
    BY DEF NoLinks, LinksType, ProcOrNull
  <2>3. Linked(Queue, NoLinks, F)
    BY <2>2 DEF Linked, IsList, Once, Elements, NoLinks
  <2>4. st = [p \in Proc |-> st[p]] /\ pr = [p \in Proc |-> pr[p]]
    OBVIOUS
  <2>5. Right(Queue, {}, NoLinks, F, st, pr)
    BY <2>3, <2>4, QueueFacts DEF Right, Waits, Elements
  <2> HIDE DEF F, Upto, st, pr
  <2>6. Right(Queue, Upto(0), W[0], F, st, pr)
    BY <1>2, <2>1, <2>5
  <2> QED
    BY <1>1, <2>6
<1>4. ASSUME NEW i \in 1 .. N, i - 1 \in Holds
      PROVE  i \in Holds
  <2> DEFINE L == W[i - 1]
             p == itable[i].pid
             q == <<"ready", itable[i].priority>>
  <2>1. /\ p \in Proc /\ q \in Queue /\ q[2] = itable[i].priority
        /\ k_get_process(p) = itable[i]
        /\ itable[i].is_i_process <=> p \in IProc
    BY Rows, QueueNames
  <2>2. PICK F : Right(Queue, Upto(i - 1), L, F, st, pr)
    BY <1>4
  <2>3. W[i] = BootTurn(L, i)
    BY <1>2
  <2>4. {itable[j].pid : j \in 1 .. i} = {itable[j].pid : j \in 1 .. i - 1} \cup {p}
    <3>1. \A j : j \in 1 .. i <=> j \in 1 .. i - 1 \/ j = i
      BY <1>1
    <3> QED
      BY <3>1
  <2>5. \A j \in 1 .. i - 1 : itable[j].pid # p
    <3>1. \A j \in 1 .. i - 1 : j \in 1 .. N /\ j # i
      BY <1>1
    <3> QED
      BY <3>1, Rows
  <2>6. i \in 0 .. N
    BY <1>1
  <2>7. CASE p \in IProc
    <3>1. W[i] = L /\ Upto(i) = Upto(i - 1)
      BY <2>1, <2>3, <2>4, <2>7 DEF BootTurn
    <3> QED
      BY <2>2, <2>6, <3>1
  <2>8. CASE p \notin IProc
    <3>1. W[i] = proc_queue_enqueue(L, q, p) /\ Upto(i) = Upto(i - 1) \cup {p}
      BY <2>1, <2>3, <2>4, <2>8 DEF BootTurn
    <3>2. p \in Proc \ Upto(i - 1)
      BY <2>1, <2>5
    <3>3. st[p] = StatusOf(q) /\ pr[p] = q[2]
      BY <2>1 DEF StatusOf
    <3> DEFINE T == Upto(i - 1)
    <3> HIDE DEF Upto, st, pr, L, p, q, T
    <3>4. Right(Queue, T \cup {p}, proc_queue_enqueue(L, q, p), Put(F, q, Append(F[q], p)), st, pr)
      BY <2>1, <2>2, <3>2, <3>3, Enters DEF T
    <3> QED
      BY <2>6, <3>1, <3>4 DEF T
  <2> QED
    BY <2>7, <2>8
<1>5. N \in Holds
  <2> HIDE DEF Holds, N
  <2>1. \A i \in 0 .. N : i \in Holds
    BY <1>1, <1>3, <1>4, LoopKeeps
  <2> QED
    BY <1>1, <2>1
<1>6. Upto(N) = Threads
  BY Rows DEF Threads
<1> QED
  BY <1>2, <1>5, <1>6

LEMMA BootOrderly == Orderly(k_init, [p \in Proc |-> "none"])
<1> DEFINE L  == init_processes
           n  == proc_pq_front(L, ready_pq)
           M  == Tidy(proc_pq_dequeue(L, ready_pq))
           st == [p \in Proc |-> "P_READY"]
           pr == [p \in Proc |-> k_get_process(p).priority]
<1>1. PICK F : Right(Queue, Threads, L, F, st, pr)
  BY BootLists
<1>2. ready_pq \subseteq Queue
  BY QueueNames
<1>3. n # NULL
  <2>1. NullQueue \in NonEmpty(L, ready_pq)
    BY BootQueues, QueueNames, Pids DEF NonEmpty, proc_queue_is_empty, NullReady, Threads
  <2>2. L.head[proc_pq_first(L, ready_pq)] # NULL
    BY <1>2, <2>1, FirstQueue
  <2> QED
    BY <2>1, <2>2 DEF proc_pq_front
<1>4. /\ k_init.current_process = n /\ k_init.queues = M /\ k_init.priority = pr
      /\ k_init.state = [p \in Proc |-> IF p = n THEN "P_EXECUTING" ELSE "P_READY"]
  BY DEF k_init
<1>5. k_init.state = Marked(st, n, "P_EXECUTING")
  BY <1>4 DEF Marked
<1> HIDE DEF M, n, st, pr, L
<1>6. PICK q \in ready_pq :
         /\ n \in Waits(Threads, st, pr, q)
         /\ Right(Queue, Threads, proc_pq_dequeue(L, ready_pq), Put(F, q, Tail(F[q])),
                  Marked(st, n, "P_EXECUTING"), pr)
  BY <1>1, <1>2, <1>3, FrontLeaves DEF n
<1>7. Right(Queue, Threads, M, Put(F, q, Tail(F[q])), Marked(st, n, "P_EXECUTING"), pr)
  BY <1>6, TidyRight DEF M
<1>8. RightFor(k_init, k_init.queues, k_init.state)
  BY <1>4, <1>5, <1>7 DEF RightFor
<1>9. \A p \in Threads : k_init.state[p] = "P_EXECUTING" <=> p = k_init.current_process
  BY <1>4, Pids
<1>10. Asleep(k_init) = {}
  BY <1>4 DEF Asleep, UserProc
<1> QED
  BY <1>8, <1>9, <1>10, BootOk DEF Orderly, ListsOk, IdleOk

-----------------------------------------------------------------------------
(* The steps of the board                                                  *)

OrderInv == BoardInv /\ Orderly(k, call)

LEMMA OrderInvInit == Init => OrderInv
  BY BoardInvInit, BootOrderly DEF Init, OrderInv

(* Who runs does not wait.                                                 *)
LEMMA SelfAwake ==
    ASSUME OrderInv
    PROVE  /\ self \in Proc /\ self \notin Asleep(k) /\ self = k.current_process
           /\ call \in [Proc -> {"none", "request_msg_env", "receive_message"}]
           /\ k.free_env_q \in Seq(Env)
<1>1. self \in Threads /\ self \in Proc /\ self = k.current_process
  BY SelfType DEF OrderInv, self
<1>2. k.state[self] = "P_EXECUTING"
  BY <1>1 DEF OrderInv, Orderly, ListsOk
<1> QED
  BY <1>1, <1>2 DEF Asleep, OrderInv, BoardInv, CallsOk, Orderly, KernelOk, KernelMidway, KernelState

LEMMA RequestLoopOrderly ==
    ASSUME OrderInv, self \in UserProc, RequestLoop
    PROVE  Orderly(k', call')
<1> DEFINE c == call'
<1>0. /\ KernelOk(k) /\ KernelMidway(k) /\ SomebodyReady(k) /\ ListsOk(k) /\ IdleOk(k, call)
      /\ k.current_process # NULL_PID /\ Orderly(k, call)
  BY SelfAwake DEF OrderInv, Orderly, KernelOk, UserProc
<1>1. CASE k.free_env_q = <<>>
  <2>1. k' = RequestBlocks(k) /\ c = [call EXCEPT ![self] = "request_msg_env"]
    BY <1>1 DEF RequestLoop
  <2>2. KernelOk(k') /\ k'.free_env_q = k.free_env_q
    BY <1>0, <2>1, RequestBlocksOk DEF SameEnvelopes
  <2>3. ListsOk(k') /\ Asleep(k') = Asleep(k) \cup {self}
    BY <1>0, <2>1, SelfAwake, RequestBlocksLists
  <2>4. Asking(c) = Asking(call) \cup {self}
    BY <2>1, SelfAwake DEF Asking, UserProc
  <2>5. Len(k'.free_env_q) = 0
    BY <1>1, <2>2
  <2> HIDE DEF c
  <2>6. Cardinality(Asking(c) \ Asleep(k')) \in Nat
    BY AskingFinite
  <2>7. IdleOk(k', c)
    <3>1. Asleep(k') \subseteq Asking(c)
      BY <1>0, <2>3, <2>4 DEF IdleOk
    <3>2. Len(k'.free_env_q) <= Cardinality(Asking(c) \ Asleep(k'))
      BY <2>5, <2>6
    <3> QED
      BY <3>1, <3>2 DEF IdleOk
  <2> QED
    BY <2>2, <2>3, <2>7 DEF Orderly, c
<1>2. CASE k.free_env_q # <<>>
  <2> DEFINE S == Asking(call) \ Asleep(k)
             T == Asking(c) \ Asleep(k')
  <2>1. k' = FreeGranted(k, self) /\ c = [call EXCEPT ![self] = "none"]
    BY <1>2 DEF RequestLoop
  <2>2. Orderly(k', call) /\ Len(k'.free_env_q) = Len(k.free_env_q) - 1
    BY <1>0, <1>2, <2>1, SelfAwake, FreeGrantedOrderly
  <2>3. Asleep(k') = Asleep(k)
    BY <1>0, <1>2, <2>1, SelfAwake, FreeGrantedOk DEF TakesFree, SameProcesses, Asleep
  <2>4. Asking(c) = Asking(call) \ {self}
    BY <2>1, SelfAwake DEF Asking, UserProc
  <2>5. T = S \ {self}
    BY <2>3, <2>4
  <2>6. IsFiniteSet(S)
    BY AskingFinite
  <2>7. Asleep(k') \subseteq Asking(c)
    BY <1>0, <2>3, <2>4, SelfAwake DEF IdleOk
  <2>8. Len(k.free_env_q) \in Nat
    BY SelfAwake
  <2>9. Asleep(k) # {} => Len(k.free_env_q) <= Cardinality(S)
    BY <1>0 DEF IdleOk
  <2> HIDE DEF S, T, c
  <2>10. Cardinality(S) \in Nat /\ Cardinality(T) \in Nat /\ Cardinality(S) <= Cardinality(T) + 1
    <3>1. Cardinality(S) \in Nat
      BY <2>6, FS_CardinalityType
    <3>2. Cardinality(T) = IF self \in S THEN Cardinality(S) - 1 ELSE Cardinality(S)
      BY <2>5, <2>6, FS_RemoveElement
    <3>3. IsFiniteSet(T)
      BY <2>5, <2>6, FS_Subset
    <3>4. Cardinality(T) \in Nat
      BY <3>3, FS_CardinalityType
    <3> QED
      BY <3>1, <3>2, <3>4
  <2>11. Asleep(k') # {} => Len(k'.free_env_q) <= Cardinality(T)
    BY <2>2, <2>3, <2>8, <2>9, <2>10
  <2>12. IdleOk(k', c)
    BY <2>7, <2>11 DEF IdleOk, T
  <2> QED
    BY <2>2, <2>12 DEF Orderly, c
<1> QED
  BY <1>1, <1>2

LEMMA ReceiveLoopOrderly ==
    ASSUME OrderInv, self \in UserProc, ReceiveLoop, call[self] # "request_msg_env"
    PROVE  Orderly(k', call')
<1>0. /\ KernelOk(k) /\ KernelMidway(k) /\ ListsOk(k) /\ IdleOk(k, call)
      /\ k.current_process # NULL_PID /\ Orderly(k, call)
  BY SelfAwake DEF OrderInv, Orderly, KernelOk, UserProc
<1>1. Asking(call') = Asking(call)
  BY SelfAwake DEF ReceiveLoop, Asking, UserProc
<1>2. ASSUME Orderly(k', call) PROVE Orderly(k', call')
  BY <1>1, <1>2 DEF Orderly, IdleOk
<1>3. CASE HasMail(k, self)
  <2>1. k' = MailTaken(k, self) /\ k.recv_msgs[self] # <<>>
    BY <1>3 DEF ReceiveLoop, HasMail
  <2> QED
    BY <1>0, <1>2, <2>1, SelfAwake, MailTakenOrderly
<1>4. CASE ~HasMail(k, self)
  <2>1. k' = k_process_switch(k, "P_BLOCKED_ON_RECEIVE")
    BY <1>4 DEF ReceiveLoop
  <2>2. KernelOk(k') /\ k'.free_env_q = k.free_env_q
    BY <1>0, <1>4, <2>1, SelfAwake, ReceiveBlocksOk DEF SameEnvelopes, HasMail
  <2>3. ListsOk(k') /\ Asleep(k') = Asleep(k)
    BY <1>0, <2>1, ReceiveBlocksLists
  <2>4. Len(k'.free_env_q) <= Len(k.free_env_q)
    BY <2>2, SelfAwake
  <2>5. IdleOk(k', call)
    BY <1>0, <2>2, <2>3, <2>4, IdleKept
  <2> QED
    BY <1>2, <2>2, <2>3, <2>5 DEF Orderly
<1> QED
  BY <1>3, <1>4

LEMMA ResumeOrderly ==
    ASSUME OrderInv, ResumeInLoop
    PROVE  Orderly(k', call')
<1>1. self \in UserProc
  BY SelfAwake DEF OrderInv, BoardInv, CallsOk, ResumeInLoop
<1> QED
  BY <1>1, RequestLoopOrderly, ReceiveLoopOrderly DEF ResumeInLoop

(* No step changes the priority of a process that is the last of several   *)
(* in its queue.                                                           *)
TailsStay == \A p \in Target : k'.priority[p] # k.priority[p] => ~LastOfSeveral(k, p)

LEMMA UserTrapOrderly ==
    ASSUME OrderInv, UserTrap, TailsStay
    PROVE  Orderly(k', call')
<1>0. /\ Orderly(k, call) /\ KernelOk(k) /\ ListsOk(k) /\ IdleOk(k, call)
      /\ self \in Proc /\ k.held[self] \subseteq Envs /\ k.free_env_q \in Seq(Env)
      /\ TIMER_I_PROCESS_PID \in Proc /\ UART_I_PROCESS_PID \in Proc
      /\ call[self] = "none"
  BY SelfAwake, SelfType, Pids DEF OrderInv, Orderly, UserTrap, InUserCode, self
<1>1. CASE Trap(release_processor)
  <2>1. k' = k_release_processor(k) /\ call' = call
    BY <1>1, TrapTable DEF Trap
  <2>2. KernelOk(k') /\ k'.free_env_q = k.free_env_q
    BY <1>0, <2>1, ReleaseProcessorOk DEF SameEnvelopes
  <2>3. ListsOk(k') /\ Asleep(k') = Asleep(k)
    BY <1>0, <2>1, ReleaseProcessorLists
  <2>4. Len(k'.free_env_q) <= Len(k.free_env_q)
    BY <1>0, <2>2
  <2>5. IdleOk(k', call)
    BY <1>0, <2>2, <2>3, <2>4, IdleKept
  <2> QED
    BY <2>1, <2>2, <2>3, <2>5 DEF Orderly
<1>2. ASSUME self \in UserProc, Trap(receive_message) PROVE Orderly(k', call')
  <2>1. ReceiveLoop
    BY <1>2, TrapTable DEF Trap
  <2> QED
    BY <1>0, <1>2, <2>1, ReceiveLoopOrderly
<1>3. ASSUME self \in UserProc, Trap(request_msg_env) PROVE Orderly(k', call')
  <2>1. RequestLoop
    BY <1>3, TrapTable DEF Trap
  <2> QED
    BY <1>3, <2>1, RequestLoopOrderly
<1>4. ASSUME NEW n \in 0 .. NUM_PRIORITIES - 1, NEW p \in Target, Trap(change_priority(n, p))
      PROVE  Orderly(k', call')
  <2>1. k' = k_change_priority(k, n, p) /\ call' = call
    BY <1>4, TrapTable DEF Trap
  <2>2. k_change_priority(k, n, p).priority[p] # k.priority[p] => ~LastOfSeveral(k, p)
    BY <2>1 DEF TailsStay
  <2> QED
    BY <1>0, <2>1, <2>2, ChangePriorityOrderly
<1>5. ASSUME NEW e \in k.held[self], Trap(release_msg_env(e))
      PROVE  Orderly(k', call')
  <2>1. k' = k_release_msg_env(k, self, e) /\ call' = call
    BY <1>5, TrapTable DEF Trap
  <2> QED
    BY <1>0, <2>1, ReleaseOrderly
<1>6. ASSUME NEW e \in k.held[self], NEW d \in UserProc, Trap(send_message(d, e))
      PROVE  Orderly(k', call')
  <2> DEFINE m == Message(e, self, "user", 0)
  <2>1. k' = k_send_message(k, self, d, m) /\ call' = call
    BY <1>6, TrapTable DEF Trap, Content
  <2>2. m \in MailFor(d) /\ d \in Proc
    BY <1>0, MessageType, Pids DEF MessageTypes, UserProc
  <2> HIDE DEF m
  <2> QED
    BY <1>0, <2>1, <2>2, SendOrderly
<1>7. ASSUME self \in UserProc, NEW e \in k.held[self], NEW t \in Delay,
             Trap(request_delay(t, "WAKEUP", e))
      PROVE  Orderly(k', call')
  <2> DEFINE m == Message(e, self, "WAKEUP", t)
  <2>1. k' = k_send_message(k, self, TIMER_I_PROCESS_PID, m) /\ call' = call
    BY <1>7, TrapTable DEF Trap, k_request_delay
  <2>2. m \in MailFor(TIMER_I_PROCESS_PID)
    BY <1>0, <1>7, MessageType DEF MessageTypes
  <2> HIDE DEF m
  <2> QED
    BY <1>0, <2>1, <2>2, SendOrderly
<1>8. ASSUME self \in UserProc, NEW e \in k.held[self], NEW a \in BOOLEAN, NEW text \in Text,
             kern_swi_handler(send_console_chars(e, a), Content("user", text))
      PROVE  Orderly(k', call')
  <2> DEFINE type == IF a THEN "CONSOLE_OUTPUT_REQUEST_ACK" ELSE "CONSOLE_OUTPUT"
             m == Message(e, self, type, text)
  <2>1. k_send_console_chars(e, a, text)
    BY <1>8, TrapTable DEF Content
  <2>2. k' = k_send_message(k, self, UART_I_PROCESS_PID, m) /\ call' = call
    BY <2>1 DEF k_send_console_chars
  <2>3. m \in MailFor(UART_I_PROCESS_PID)
    BY <1>0, <1>8, MessageType DEF MessageTypes
  <2> HIDE DEF m
  <2> QED
    BY <1>0, <2>2, <2>3, SendOrderly
<1> QED
  BY <1>1, <1>2, <1>3, <1>4, <1>5, <1>6, <1>7, <1>8 DEF UserTrap

LEMMA TimerOrderly ==
    ASSUME OrderInv, asm_timer_entry
    PROVE  Orderly(k', call')
<1> DEFINE now == clock + 1
           queue == InsertAll(timeout_queue, k.recv_msgs[TIMER_I_PROCESS_PID], now)
           kept == MailboxEmptied(k, TIMER_I_PROCESS_PID)
           h == Head(queue)
           m == Message(h.env, TIMER_I_PROCESS_PID, h.msg_type, 0)
<1>1. /\ call' = call
      /\ k' = IF check_timeout_queue(queue, now)
                THEN k_send_message(kept, TIMER_I_PROCESS_PID, h.send_pid, m) ELSE kept
  BY DEF asm_timer_entry, isr_handler, timer_i_process
<1>2. queue \in Seq(Node)
  BY TimerMail, InsertAllType DEF OrderInv
<1>3. TIMER_I_PROCESS_PID \in IProc /\ TIMER_I_PROCESS_PID \in Proc
  BY BoardAssumption, Pids
<1>4. Orderly(kept, call)
  BY <1>3, MailboxEmptiedOrderly DEF OrderInv
<1> HIDE DEF queue, kept, h, m
<1>5. CASE check_timeout_queue(queue, now)
  <2>1. h \in Node
    <3>1. queue # <<>>
      BY <1>5 DEF check_timeout_queue
    <3>2. \A s \in Seq(Node) : s # <<>> => Head(s) \in Node
      OBVIOUS
    <3> QED
      BY <1>2, <3>1, <3>2 DEF h
  <2>2. h.env \in Envs /\ h.send_pid \in UserProc /\ h.msg_type \in MessageTypes
    BY <2>1 DEF Node
  <2>3. m \in MailFor(h.send_pid) /\ h.send_pid \in Proc
    BY <1>3, <2>2, MessageType DEF m, UserProc
  <2> QED
    BY <1>1, <1>3, <1>4, <1>5, <2>3, SendOrderly
<1>6. CASE ~check_timeout_queue(queue, now)
  BY <1>1, <1>4, <1>6
<1> QED
  BY <1>5, <1>6

LEMMA ReceiveOrderly ==
    ASSUME OrderInv, asm_uart_entry(ReceiveHalf)
    PROVE  Orderly(k', call')
<1>1. ReceiveHalf /\ call' = call /\ Orderly(k, call)
  BY DEF asm_uart_entry, isr_handler, OrderInv
<1>2. CASE PlainKey
  BY <1>1, <1>2 DEF PlainKey
<1>3. ASSUME NEW line \in Line, LineEnd(line) PROVE Orderly(k', call')
  <2> DEFINE granted == RequestByIProcess(k, UART_I_PROCESS_PID)
             new == granted.held[UART_I_PROCESS_PID]
             e == CHOOSE env \in new : TRUE
             m == Message(e, UART_I_PROCESS_PID, "CONSOLE_INPUT", line)
  <2>1. k' = IF new = {} THEN granted
             ELSE k_send_message(granted, UART_I_PROCESS_PID, CCI_PID, m)
    BY <1>3 DEF LineEnd
  <2>2. /\ UART_I_PROCESS_PID \in IProc /\ UART_I_PROCESS_PID \in Proc
        /\ CCI_PID \in UserProc /\ CCI_PID \in Proc
    BY BoardAssumption, Pids
  <2>3. Orderly(granted, call)
    BY <1>1, <2>2, RequestByIProcessOrderly
  <2>4. new \subseteq Envs
    BY <2>2, <2>3 DEF Orderly, KernelOk, KernelMidway, KernelState
  <2> HIDE DEF granted, new, e, m
  <2>5. CASE new = {}
    BY <1>1, <2>1, <2>3, <2>5
  <2>6. CASE new # {}
    <3>1. e \in Envs
      BY <2>4, <2>6 DEF e
    <3>2. m \in MailFor(CCI_PID)
      BY <2>2, <3>1, MessageType DEF m, MessageTypes
    <3> QED
      BY <1>1, <2>1, <2>2, <2>3, <2>6, <3>2, SendOrderly
  <2> QED
    BY <2>5, <2>6
<1> QED
  BY <1>1, <1>2, <1>3 DEF ReceiveHalf

LEMMA TextLoadedOrderly ==
    ASSUME NEW kk, NEW c, Orderly(kk, c), HasMail(kk, UART_I_PROCESS_PID)
    PROVE  Orderly(TextLoaded(kk).k, c)
<1> DEFINE u == UART_I_PROCESS_PID
           m == Head(kk.recv_msgs[u])
           taken == MailTaken(kk, u)
           ack == Message(m.env, u, "DISPLAY_ACK", 0)
<1>1. u \in Proc /\ kk.recv_msgs[u] # <<>> /\ KernelOk(kk)
  BY Pids DEF HasMail, Orderly
<1>2. Orderly(taken, c)
  BY <1>1, MailTakenOrderly
<1>3. m \in MessagesWith(UserProc, Text)
  <2>1. m \in MailFor(u)
    BY <1>1, MailTakenOk
  <2> QED
    BY <2>1, BoardAssumption DEF MailFor
<1>4. m.env \in Envs /\ m.send_pid \in UserProc
  BY <1>3 DEF MessagesWith
<1>5. TextLoaded(kk).k = IF m.msg_type = "CONSOLE_OUTPUT"
                           THEN k_release_msg_env(taken, u, m.env)
                           ELSE k_send_message(taken, u, m.send_pid, ack)
  BY DEF TextLoaded, AckGoesTo
<1> HIDE DEF taken, m, ack, u
<1>6. Orderly(k_release_msg_env(taken, u, m.env), c)
  BY <1>1, <1>2, <1>4, ReleaseOrderly
<1>7. Orderly(k_send_message(taken, u, m.send_pid, ack), c)
  <2>1. ack \in MailFor(m.send_pid) /\ m.send_pid \in Proc
    BY <1>1, <1>4, MessageType DEF ack, MessageTypes, UserProc
  <2> QED
    BY <1>1, <1>2, <2>1, SendOrderly
<1> QED
  BY <1>5, <1>6, <1>7

LEMMA TransmitOrderly ==
    ASSUME OrderInv, asm_uart_entry(TransmitHalf)
    PROVE  Orderly(k', call')
<1> DEFINE first == IF out.output_print_char THEN [out |-> out, k |-> k] ELSE NextText(k, out)
           next == NextText(first.k, Idle)
<1>1. call' = call /\ (k' = k \/ k' = first.k \/ k' = next.k)
  BY DEF asm_uart_entry, isr_handler, TransmitHalf
<1>2. ASSUME NEW kk, Orderly(kk, call), NEW o PROVE Orderly(NextText(kk, o).k, call)
  BY <1>2, TextLoadedOrderly DEF NextText
<1>3. Orderly(k, call)
  BY DEF OrderInv
<1>4. Orderly(first.k, call)
  BY <1>2, <1>3
<1> HIDE DEF first
<1>5. Orderly(next.k, call)
  BY <1>2, <1>4
<1> QED
  BY <1>1, <1>3, <1>4, <1>5

LEMMA OrderInvNext == OrderInv /\ [Next]_vars /\ [TailsStay]_vars => OrderInv'
<1> SUFFICES ASSUME OrderInv, [Next]_vars, [TailsStay]_vars PROVE OrderInv'
  OBVIOUS
<1>1. BoardInv'
  BY BoardInvNext DEF OrderInv
<1>2. CASE UNCHANGED vars
  BY <1>1, <1>2 DEF vars, OrderInv
<1>3. CASE Next /\ TailsStay
  <2>1. Orderly(k', call')
    BY <1>3, UserTrapOrderly, ResumeOrderly, TimerOrderly, ReceiveOrderly, TransmitOrderly DEF Next
  <2> QED
    BY <1>1, <2>1 DEF OrderInv
<1> QED
  BY <1>2, <1>3

LEMMA OrderInvariant == Spec /\ [][TailsStay]_vars => []OrderInv
  BY OrderInvInit, OrderInvNext, PTL DEF Spec

-----------------------------------------------------------------------------
(* What is reported, and who sleeps                                        *)

LEMMA ReportRows ==
    ASSUME NEW kk
    PROVE  Elements(k_request_process_status(kk)) =
              {[pid |-> p, status |-> kk.state[p], priority |-> kk.priority[p]] : p \in Proc}
<1> DEFINE N == Len(itable)
           row(p) == [pid |-> p, status |-> kk.state[p], priority |-> kk.priority[p]]
           s == [i \in 1 .. N |-> row(itable[i].pid)]
<1>1. /\ N \in Nat /\ \A i \in 1 .. N : itable[i].pid \in Proc
      /\ \A p \in Proc : \E i \in 1 .. N : itable[i].pid = p
  BY Rows
<1>2. k_request_process_status(kk) = s
  BY DEF k_request_process_status
<1> HIDE DEF row, N
<1>3. Len(s) = N /\ \A i \in 1 .. N : s[i] = row(itable[i].pid)
  BY <1>1
<1>4. Elements(s) = {row(p) : p \in Proc}
  <2> HIDE DEF s
  <2> QED
    BY <1>1, <1>3 DEF Elements
<1> QED
  BY <1>2, <1>4 DEF row

LEMMA ReportOfOrder == OrderInv => ReportMatchesQueues
<1> SUFFICES ASSUME OrderInv PROVE ReportMatchesQueues
  OBVIOUS
<1> DEFINE report == Elements(k_request_process_status(k))
           In(status, priority) == {row.pid : row \in {r \in report : /\ r.pid \notin IProc
                                                                      /\ r.status = status
                                                                      /\ r.priority = priority}}
           At(p) == [pid |-> p, status |-> k.state[p], priority |-> k.priority[p]]
<1>1. /\ \A r \in report : /\ r.pid \in Proc /\ r.status = k.state[r.pid]
                             /\ r.priority = k.priority[r.pid]
      /\ \A p \in Proc : /\ At(p) \in report /\ At(p).pid = p
                          /\ At(p).status = k.state[p] /\ At(p).priority = k.priority[p]
  <2>1. report = {At(p) : p \in Proc}
    BY ReportRows
  <2> HIDE DEF report
  <2> QED
    BY <2>1
<1> HIDE DEF report, At
<1>2. PICK F : Right(Queue, Threads, k.queues, F, k.state, k.priority)
  BY DEF OrderInv, Orderly, ListsOk, RightFor
<1>3. \A q \in Queue : Members(k.queues, q) = Waits(Threads, k.state, k.priority, q)
  BY <1>2, ReadList DEF Right, Linked
<1>4. ASSUME NEW status, NEW priority
      PROVE  In(status, priority) = {p \in Threads : k.state[p] = status /\ k.priority[p] = priority}
  <2>1. ASSUME NEW p \in Threads, k.state[p] = status, k.priority[p] = priority
        PROVE  p \in In(status, priority)
    <3>1. /\ At(p) \in report /\ At(p).pid = p /\ p \notin IProc
          /\ At(p).status = status /\ At(p).priority = priority
      BY <1>1, <2>1 DEF Threads
    <3> QED
      BY <3>1
  <2>2. ASSUME NEW p \in In(status, priority)
        PROVE  p \in Threads /\ k.state[p] = status /\ k.priority[p] = priority
    <3>1. PICK r \in report : /\ r.pid = p /\ r.pid \notin IProc
                              /\ r.status = status /\ r.priority = priority
      BY <2>2
    <3> QED
      BY <1>1, <3>1 DEF Threads
  <2> HIDE DEF In
  <2> QED
    BY <2>1, <2>2
<1>5. {row.pid : row \in {r \in report : r.status = "P_EXECUTING"}} = {k.current_process}
  <2>1. \A p \in Proc : k.state[p] = "P_EXECUTING" <=> p = k.current_process
    <3>1. /\ \A p \in IProc : k.state[p] = "P_READY"
          /\ \A p \in Threads : k.state[p] = "P_EXECUTING" <=> p = k.current_process
          /\ k.current_process \in Threads
      BY DEF OrderInv, Orderly, ListsOk, KernelOk, KernelMidway, RanksOk, KernelState
    <3> QED
      BY <3>1 DEF Threads
  <2>2. k.current_process \in Proc
    BY SelfAwake
  <2>3. {row.pid : row \in {r \in report : r.status = "P_EXECUTING"}}
          = {p \in Proc : k.state[p] = "P_EXECUTING"}
    <3>1. ASSUME NEW p \in Proc, k.state[p] = "P_EXECUTING"
          PROVE  p \in {row.pid : row \in {r \in report : r.status = "P_EXECUTING"}}
      <4>1. At(p) \in report /\ At(p).pid = p /\ At(p).status = "P_EXECUTING"
        BY <1>1, <3>1
      <4> QED
        BY <4>1
    <3>2. \A r \in report : r.status = "P_EXECUTING" => r.pid \in Proc /\ k.state[r.pid] = "P_EXECUTING"
      BY <1>1
    <3> QED
      BY <3>1, <3>2
  <2> QED
    BY <2>1, <2>2, <2>3
<1> HIDE DEF In
<1>6. ASSUME NEW i \in 0 .. NUM_PRIORITIES
      PROVE  Members(k.queues, <<"ready", i>>) = In("P_READY", i)
  BY <1>3, <1>4, QueueFacts DEF Waits
<1>7. ASSUME NEW i \in 0 .. NUM_PRIORITIES - 1
      PROVE  Members(k.queues, <<"blocked_request_env", i>>) = In("P_BLOCKED_ON_ENV_REQUEST", i)
  <2>1. i \in 0 .. NUM_PRIORITIES /\ i # NUM_PRIORITIES
    BY TableAssumption
  <2> QED
    BY <1>3, <1>4, <2>1, QueueFacts DEF Waits
<1> QED
  BY <1>5, <1>6, <1>7 DEF ReportMatchesQueues, In, report

(* The picture request_process_status gives of the processes fits the      *)
(* queues of the kernel at any moment, whatever the traps and interrupts   *)
(* before it: one process executes, and every other stands in the queue    *)
(* its status and priority name, or in none.  The hypothesis leaves out    *)
(* the one call that breaks this, k_change_priority of a process that is   *)
(* the last of several in its queue: proc_queue_remove leaves the tail of  *)
(* the queue on the pcb it takes out (proc_queue.c).                       *)
THEOREM ReportFitsQueues == Spec /\ [][TailsStay]_vars => []ReportMatchesQueues
  BY OrderInvariant, ReportOfOrder, PTL

(* No process sleeps over a message it has, nor for an envelope while one  *)
(* is free that no woken process is on its way to, under every order of    *)
(* releases, requests and interrupts (k_request_msg_env, k_release_msg_env,*)
(* k_send_message); the hypothesis is the one of ReportFitsQueues.         *)
THEOREM NobodyOversleeps == Spec /\ [][TailsStay]_vars => []NobodySleepsOverWork
<1>1. OrderInv => NobodySleepsOverWork
  <2> SUFFICES ASSUME OrderInv PROVE NobodySleepsOverWork
    OBVIOUS
  <2>1. \A p \in UserProc : k.state[p] = "P_BLOCKED_ON_RECEIVE" => ~HasMail(k, p)
    BY DEF OrderInv, Orderly, KernelOk, KernelMidway, AwakeForMail, HasMail
  <2>2. Asking(call) \ Asleep(k) = {p \in UserProc : /\ call[p] = "request_msg_env"
                                                    /\ k.state[p] # "P_BLOCKED_ON_ENV_REQUEST"}
    BY DEF Asking, Asleep
  <2>3. (\E p \in UserProc : k.state[p] = "P_BLOCKED_ON_ENV_REQUEST") => Asleep(k) # {}
    BY DEF Asleep
  <2>4. Asleep(k) # {} => Len(k.free_env_q) <= Cardinality(Asking(call) \ Asleep(k))
    BY DEF OrderInv, Orderly, IdleOk
  <2> QED
    BY <2>1, <2>2, <2>3, <2>4 DEF NobodySleepsOverWork
<1> QED
  BY <1>1, OrderInvariant, PTL

-----------------------------------------------------------------------------
(* Few processes                                                           *)

LEMMA PrioritiesKept ==
    ASSUME NEW kk \in KernelState
    PROVE  /\ \A to : k_process_switch(kk, to).priority = kk.priority
           /\ k_release_processor(kk).priority = kk.priority
           /\ RequestBlocks(kk).priority = kk.priority
           /\ \A p : /\ FreeGranted(kk, p).priority = kk.priority
                     /\ SysGranted(kk, p).priority = kk.priority
                     /\ RequestByIProcess(kk, p).priority = kk.priority
                     /\ MailTaken(kk, p).priority = kk.priority
                     /\ MailboxEmptied(kk, p).priority = kk.priority
           /\ \A p, e : k_release_msg_env(kk, p, e).priority = kk.priority
           /\ \A p, d, m : k_send_message(kk, p, d, m).priority = kk.priority
<1>1. \A to : k_process_switch(kk, to).priority = kk.priority
  BY DEF k_process_switch, KernelState
<1>2. k_release_processor(kk).priority = kk.priority
  BY DEF k_release_processor, proc_pq_enqueue, k_process_switch, KernelState
<1>3. RequestBlocks(kk).priority = kk.priority
  BY DEF RequestBlocks, proc_pq_enqueue, k_process_switch, KernelState
<1>4. \A p : /\ FreeGranted(kk, p).priority = kk.priority
             /\ SysGranted(kk, p).priority = kk.priority
  BY DEF FreeGranted, SysGranted, Granted, PoolTaken, KernelState
<1>5. \A p : RequestByIProcess(kk, p).priority = kk.priority
  BY <1>4 DEF RequestByIProcess
<1>6. \A p : /\ MailTaken(kk, p).priority = kk.priority
             /\ MailboxEmptied(kk, p).priority = kk.priority
  BY DEF MailTaken, MailboxEmptied, KernelState
<1>7. \A p, d, m : k_send_message(kk, p, d, m).priority = kk.priority
  BY DEF k_send_message, MakeReady, proc_pq_enqueue, Posted, Disowned, KernelState
<1>8. ASSUME NEW p, NEW e PROVE k_release_msg_env(kk, p, e).priority = kk.priority
  <2>1. ASSUME NEW ll, ll = [Disowned(kk, p, e) EXCEPT !.free_env_q = Append(@, e)]
        PROVE  WakeRequester(ll).priority = kk.priority
    BY <2>1 DEF WakeRequester, MakeReady, proc_pq_enqueue, Disowned, KernelState
  <2>2. [Disowned(kk, p, e) EXCEPT !.sys_free_env_q = Append(@, e)].priority = kk.priority
    BY DEF Disowned, KernelState
  <2> QED
    BY <2>1, <2>2 DEF k_release_msg_env
<1> QED
  BY <1>1, <1>2, <1>3, <1>4, <1>5, <1>6, <1>7, <1>8

(* Whoever else is in the queue of p is a user process, too, and does not  *)
(* run.                                                                    *)
LEMMA SeveralUsers ==
    ASSUME OrderInv, NEW p \in Target, LastOfSeveral(k, p), self \in UserProc
    PROVE  \E r \in UserProc : r # p /\ r # self /\ p # self /\ p \in UserProc
<1>1. PICK F : Right(Queue, Threads, k.queues, F, k.state, k.priority)
  BY DEF OrderInv, Orderly, ListsOk, RightFor
<1>2. PICK q \in Queue : p \in Members(k.queues, q) /\ k.queues.head[q] # p
  BY DEF LastOfSeveral
<1>3. /\ Members(k.queues, q) = Elements(F[q])
      /\ Elements(F[q]) = Waits(Threads, k.state, k.priority, q)
      /\ Linked(Queue, k.queues, F)
  BY <1>1, ReadList DEF Right, Linked
<1>4. F[q] # <<>>
  BY <1>2, <1>3 DEF Elements
<1> DEFINE r == F[q][1]
<1>5. r \in Elements(F[q]) /\ k.queues.head[q] = r
  BY <1>3, <1>4, LinkedFacts
<1> HIDE DEF r
<1>6. /\ r \in Threads /\ p \in Threads /\ k.priority[r] = k.priority[p]
      /\ k.state[r] = StatusOf(q) /\ k.state[p] = StatusOf(q)
  BY <1>2, <1>3, <1>5 DEF Waits
<1>7. k.state[self] = "P_EXECUTING" /\ StatusOf(q) # "P_EXECUTING"
  BY SelfType DEF OrderInv, Orderly, ListsOk, self, StatusOf
<1>8. p \in UserProc /\ p \in Proc /\ p # NULL_PID
  BY Pids DEF UserProc
<1>9. r # NULL_PID
  <2>1. \A x \in Proc : k.priority[x] = NUM_PRIORITIES <=> x = NULL_PID
    BY DEF OrderInv, Orderly, KernelOk, KernelMidway, RanksOk
  <2>2. r \in Proc
    BY <1>6 DEF Threads
  <2> QED
    BY <1>6, <1>8, <2>1, <2>2
<1>10. r \in UserProc
  BY <1>6, <1>9 DEF UserProc, Threads
<1> QED
  BY <1>2, <1>5, <1>6, <1>7, <1>8, <1>10

LEMMA FewStay ==
    ASSUME Cardinality(UserProc) <= 2, OrderInv, Next
    PROVE  TailsStay
<1>1. ASSUME self \in UserProc, NEW p \in Target PROVE ~LastOfSeveral(k, p)
  <2> SUFFICES ASSUME LastOfSeveral(k, p) PROVE FALSE
    OBVIOUS
  <2>1. PICK r \in UserProc : r # p /\ r # self /\ p # self /\ p \in UserProc
    BY <1>1, SeveralUsers
  <2> DEFINE x == self
  <2>2. x \in UserProc /\ x # p /\ x # r
    BY <1>1, <2>1
  <2> HIDE DEF x
  <2>3. IsFiniteSet({x}) /\ Cardinality({x}) = 1
    BY FS_Singleton
  <2>4. IsFiniteSet({x} \cup {p}) /\ Cardinality({x} \cup {p}) = 2
    <3>1. p \notin {x}
      BY <2>2
    <3>2. /\ IsFiniteSet({x} \cup {p})
          /\ Cardinality({x} \cup {p}) = IF p \in {x} THEN Cardinality({x}) ELSE Cardinality({x}) + 1
      BY <2>3, FS_AddElement
    <3> QED
      BY <2>3, <3>1, <3>2
  <2>5. IsFiniteSet(({x} \cup {p}) \cup {r}) /\ Cardinality(({x} \cup {p}) \cup {r}) = 3
    <3> DEFINE S == {x} \cup {p}
    <3>1. r \notin S
      BY <2>1, <2>2
    <3> HIDE DEF S
    <3>2. /\ IsFiniteSet(S \cup {r})
          /\ Cardinality(S \cup {r}) = IF r \in S THEN Cardinality(S) ELSE Cardinality(S) + 1
      BY <2>4, FS_AddElement DEF S
    <3> QED
      BY <2>4, <3>1, <3>2 DEF S
  <2>6. IsFiniteSet(UserProc) /\ Cardinality(UserProc) \in Nat
    <3>1. UserProc \subseteq Proc
      BY DEF UserProc
    <3> QED
      BY <3>1, ProcsAreFinite, FS_Subset, FS_CardinalityType
  <2>7. ({x} \cup {p}) \cup {r} \subseteq UserProc
    BY <2>1, <2>2
  <2>8. Cardinality(({x} \cup {p}) \cup {r}) <= Cardinality(UserProc)
    BY <2>6, <2>7, FS_Subset
  <2> QED
    BY <2>5, <2>6, <2>8
<1>2. k \in KernelState /\ KernelOk(k)
  BY DEF OrderInv, Orderly, KernelOk, KernelMidway
<1>3. SUFFICES ASSUME self \notin UserProc PROVE k'.priority = k.priority
  BY <1>1 DEF TailsStay
<1>4. CASE UserTrap
  <2>1. Trap(release_processor)
    BY <1>3, <1>4 DEF UserTrap
  <2>2. k' = k_release_processor(k)
    BY <2>1, TrapTable DEF Trap
  <2> QED
    BY <1>2, <2>2, PrioritiesKept
<1>5. CASE ResumeInLoop
  BY <1>3, <1>5, SelfAwake DEF OrderInv, BoardInv, CallsOk, ResumeInLoop
<1>6. CASE asm_timer_entry
  <2> DEFINE kept == MailboxEmptied(k, TIMER_I_PROCESS_PID)
  <2>1. k' = kept \/ \E d, m : k' = k_send_message(kept, TIMER_I_PROCESS_PID, d, m)
    BY <1>6 DEF asm_timer_entry, isr_handler, timer_i_process
  <2>2. TIMER_I_PROCESS_PID \in IProc
    BY BoardAssumption
  <2>3. Orderly(kept, call)
    BY <2>2, MailboxEmptiedOrderly DEF OrderInv
  <2>4. kept \in KernelState /\ kept.priority = k.priority
    BY <1>2, <2>3, PrioritiesKept DEF Orderly, KernelOk, KernelMidway
  <2> HIDE DEF kept
  <2> QED
    BY <2>1, <2>4, PrioritiesKept
<1>7. CASE asm_uart_entry(ReceiveHalf)
  <2> DEFINE granted == RequestByIProcess(k, UART_I_PROCESS_PID)
  <2>1. \/ k' = k \/ k' = granted
        \/ \E p, d, m : k' = k_send_message(granted, p, d, m)
    BY <1>7 DEF asm_uart_entry, isr_handler, ReceiveHalf, PlainKey, LineEnd
  <2>2. UART_I_PROCESS_PID \in IProc
    BY BoardAssumption
  <2>3. Orderly(granted, call)
    BY <2>2, RequestByIProcessOrderly DEF OrderInv
  <2>4. granted \in KernelState /\ granted.priority = k.priority
    BY <1>2, <2>3, PrioritiesKept DEF Orderly, KernelOk, KernelMidway
  <2> HIDE DEF granted
  <2> QED
    BY <2>1, <2>4, PrioritiesKept
<1>8. CASE asm_uart_entry(TransmitHalf)
  <2> DEFINE first == IF out.output_print_char THEN [out |-> out, k |-> k] ELSE NextText(k, out)
             next == NextText(first.k, Idle)
  <2>1. k' = k \/ k' = first.k \/ k' = next.k
    BY <1>8 DEF asm_uart_entry, isr_handler, TransmitHalf
  <2>2. ASSUME NEW kk, Orderly(kk, call), NEW o
        PROVE  Orderly(NextText(kk, o).k, call) /\ NextText(kk, o).k.priority = kk.priority
    <3>1. CASE HasMail(kk, UART_I_PROCESS_PID)
      <4> DEFINE taken == MailTaken(kk, UART_I_PROCESS_PID)
      <4>1. NextText(kk, o).k = TextLoaded(kk).k
        BY <3>1 DEF NextText
      <4>2. \/ \E e : TextLoaded(kk).k = k_release_msg_env(taken, UART_I_PROCESS_PID, e)
            \/ \E d, m : TextLoaded(kk).k = k_send_message(taken, UART_I_PROCESS_PID, d, m)
        BY DEF TextLoaded
      <4>3. UART_I_PROCESS_PID \in Proc /\ kk.recv_msgs[UART_I_PROCESS_PID] # <<>>
        BY <3>1, Pids DEF HasMail
      <4>4. Orderly(taken, call)
        BY <2>2, <4>3, MailTakenOrderly
      <4>5. taken.priority = kk.priority
        BY <2>2, PrioritiesKept DEF Orderly, KernelOk, KernelMidway
      <4>6. taken \in KernelState
        BY <4>4 DEF Orderly, KernelOk, KernelMidway
      <4> HIDE DEF taken
      <4>7. TextLoaded(kk).k.priority = kk.priority
        BY <4>2, <4>5, <4>6, PrioritiesKept
      <4>8. Orderly(TextLoaded(kk).k, call)
        BY <2>2, <3>1, TextLoadedOrderly
      <4> QED
        BY <4>1, <4>7, <4>8
    <3>2. CASE ~HasMail(kk, UART_I_PROCESS_PID)
      BY <2>2, <3>2 DEF NextText
    <3> QED
      BY <3>1, <3>2
  <2>3. Orderly(k, call)
    BY DEF OrderInv
  <2>4. Orderly(first.k, call) /\ first.k.priority = k.priority
    BY <2>2, <2>3
  <2> HIDE DEF first
  <2>5. next.k.priority = k.priority
    BY <2>2, <2>4
  <2> QED
    BY <2>1, <2>4, <2>5
<1> QED
  BY <1>4, <1>5, <1>6, <1>7, <1>8 DEF Next

(* With two user processes no such call can be made: one of them makes the *)
(* call, and a queue of several holds the other at most.                   *)
LEMMA FewOrdered ==
    ASSUME Cardinality(UserProc) <= 2
    PROVE  Spec => [][TailsStay]_vars
<1>1. OrderInv /\ [Next]_vars => [TailsStay]_vars
  BY FewStay
<1>2. OrderInv /\ [Next]_vars => OrderInv'
  BY <1>1, OrderInvNext
<1> QED
  BY <1>1, <1>2, OrderInvInit, PTL DEF Spec

(* On a board with the CCI and one more user process the picture fits the  *)
(* queues and nobody sleeps over work after every sequence of traps and    *)
(* interrupts, changes of priority included: proc_queue_remove then never  *)
(* takes the last of several out of a queue (k_change_priority,            *)
(* k_request_process_status).                                              *)
THEOREM TwoUserProcesses ==
    ASSUME Cardinality(UserProc) <= 2
    PROVE  Spec => [](ReportMatchesQueues /\ NobodySleepsOverWork)
<1>1. Spec => [][TailsStay]_vars
  BY FewOrdered
<1> QED
  BY <1>1, ReportFitsQueues, NobodyOversleeps, PTL
=============================================================================
