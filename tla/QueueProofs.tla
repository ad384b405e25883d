----------------------------- MODULE QueueProofs -----------------------------
(***************************************************************************)
(* The linked queues of Kernel are the lists the scheduler needs: what a   *)
(* traversal of the links yields, what each queue operation makes of it,   *)
(* and the invariant QueueInv that ties the lists to the statuses and the  *)
(* priorities.  From it follow the properties of the queues and that       *)
(* Kernel implements Scheduler.                                            *)
(*                                                                         *)
(* The theorems that need the lists assume ~TailMoves.  proc_queue_remove  *)
(* leaves pq->tail on a pcb it unlinks from the end of its list, and the   *)
(* next enqueue then puts the new pcb behind the removed one; the run      *)
(* kernel_tail shows a process lost that way.  Nothing else the kernel     *)
(* does harms the lists.                                                   *)
(*                                                                         *)
(* The second half is about envelopes.  None is lost or shared: the four   *)
(* primitives that hand an envelope on each move one from one place to     *)
(* another; the scheduler moves none.  And nobody sleeps over an envelope: *)
(* neither over a message in his own mailbox, nor, as long as the lists    *)
(* are intact, over a free one that no other process is on its way to.     *)
(***************************************************************************)
EXTENDS KernelProofs

LEMMA QueueNamed ==
    /\ \A q \in Queue : Queued(StatusOf(q)) /\ StatusOf(q) \in Status /\ q[2] \in 0 .. NUM_PRIORITIES
    /\ \A q, r \in Queue : StatusOf(q) = StatusOf(r) /\ q[2] = r[2] => q = r
    /\ \A i \in 0 .. NUM_PRIORITIES :
          <<"ready", i>> \in Queue /\ StatusOf(<<"ready", i>>) = "P_READY" /\ <<"ready", i>>[2] = i
    /\ \A i \in 0 .. NUM_PRIORITIES - 1 :
          /\ <<"env_blocked", i>> \in Queue /\ <<"env_blocked", i>>[2] = i
          /\ StatusOf(<<"env_blocked", i>>) = "P_BLOCKED_ON_ENV_REQUEST"
    /\ QueuesNamed(Queue) /\ Threads \subseteq Proc
  BY PriorityAssumption
     DEF QueuesNamed, Threads, Queue, ready_pq, env_blocked_pq, proc_pq_create, StatusOf, Queued, Status

-----------------------------------------------------------------------------
(* The inductive invariant of the lists.                                   *)

Lists(L) == [q \in Queue |-> ListOf(L, q)]

QueueInv ==
    /\ SchedInv
    /\ StatusFollowsProcessor
    /\ Right(Queue, Threads, queues, Lists(queues), status, priority)

LEMMA ReadLists ==
    ASSUME NEW L, NEW F, Linked(Queue, L, F)
    PROVE  /\ Lists(L) = F
           /\ \A q \in Queue : Ends(L, q) /\ Members(L, q) = Elements(F[q]) /\ ListOf(L, q) = F[q]
<1>1. \A q \in Queue : Ends(L, q) /\ Members(L, q) = Elements(F[q]) /\ ListOf(L, q) = F[q]
  BY ReadList DEF Linked
<1>2. F = [q \in Queue |-> F[q]]
  BY DEF Linked
<1>3. Lists(L) = [q \in Queue |-> F[q]]
  BY <1>1 DEF Lists
<1> QED
  BY <1>1, <1>2, <1>3

-----------------------------------------------------------------------------
(* The queues at boot: each list holds its processes in pid order.         *)

Ascending(s) == \A j, k \in 1 .. Len(s) : j < k => s[j] < s[k]

InPidOrder(S, s) == s \in Seq(Proc) /\ Elements(s) = S /\ Ascending(s)

(* Every set of processes can be listed in pid order: take the smallest    *)
(* set that cannot, and put its greatest pid behind the others.            *)
LEMMA PidOrder ==
    ASSUME NEW S0, S0 \subseteq Proc
    PROVE  \E s : InPidOrder(S0, s)
<1> DEFINE Bad(S) == S \subseteq Proc /\ ~\E s : InPidOrder(S, s)
           Sizes == {n \in Nat : \E S : Bad(S) /\ Cardinality(S) = n}
<1> SUFFICES ASSUME Bad(S0) PROVE FALSE
  OBVIOUS
<1>1. \A S : S \subseteq Proc => IsFiniteSet(S) /\ Cardinality(S) \in Nat
  BY ProcsAreFinite, FS_Subset, FS_CardinalityType
<1>2. Cardinality(S0) \in Sizes
  BY <1>1
<1>3. Sizes \subseteq Nat /\ Sizes # {}
  BY <1>2
<1> HIDE DEF Sizes
<1>4. PICK n \in Sizes : \A m \in Sizes : n <= m
  BY <1>3, NatLeast
<1> USE DEF Sizes
<1>5. PICK S : Bad(S) /\ Cardinality(S) = n
  BY <1>4
<1>6. S # {}
  <2>1. InPidOrder({}, <<>>)
    BY DEF InPidOrder, Elements, Ascending
  <2> QED
    BY <1>5, <2>1
<1>7. PICK x \in S : \A y \in S : x >= y
  BY <1>5, <1>6, PidGreatest
<1> DEFINE T == S \ {x}
<1>8. IsFiniteSet(S) /\ Cardinality(T) = n - 1 /\ n \in Nat
  BY <1>1, <1>4, <1>5, FS_RemoveElement
<1>9. T \subseteq Proc /\ Cardinality(T) \in Nat
  BY <1>1, <1>5
<1>10. ~Bad(T)
  <2> SUFFICES ASSUME Bad(T) PROVE FALSE
    OBVIOUS
  <2>1. Cardinality(T) \in Sizes
    BY <1>9
  <2> HIDE DEF Sizes, Bad, T
  <2>2. n <= Cardinality(T)
    BY <1>4, <2>1
  <2> QED
    BY <1>8, <2>2
<1>11. PICK t : InPidOrder(T, t)
  BY <1>9, <1>10
<1> DEFINE s == Append(t, x)
<1>12. /\ x \in Proc /\ Proc \subseteq Int /\ t \in Seq(Proc) /\ s \in Seq(Proc) /\ Len(t) \in Nat
       /\ Len(s) = Len(t) + 1 /\ s[Len(t) + 1] = x
       /\ \A i \in 1 .. Len(t) : s[i] = t[i] /\ t[i] \in Proc
  BY <1>5, <1>11, ProcAssumption DEF InPidOrder
<1> HIDE DEF s, T
<1>13. \A i \in 1 .. Len(t) : t[i] \in S /\ t[i] # x /\ t[i] < x
  <2> TAKE i \in 1 .. Len(t)
  <2>1. t[i] \in T
    BY <1>11 DEF InPidOrder, Elements
  <2>2. t[i] \in S /\ t[i] # x /\ t[i] \in Int /\ x \in Int
    BY <1>12, <2>1 DEF T
  <2> QED
    BY <1>7, <2>2
<1>14. Elements(s) = S
  <2>1. ASSUME NEW i \in 1 .. Len(s) PROVE s[i] \in S
    <3>1. i \in 1 .. Len(t) \/ i = Len(t) + 1
      BY <1>12
    <3> QED
      BY <1>12, <1>13, <3>1
  <2>2. ASSUME NEW y \in S PROVE y \in Elements(s)
    <3>1. CASE y = x
      <4>1. Len(t) + 1 \in 1 .. Len(s)
        BY <1>12
      <4> QED
        BY <1>12, <3>1, <4>1 DEF Elements
    <3>2. CASE y # x
      <4>1. PICK i \in 1 .. Len(t) : y = t[i]
        BY <1>11, <3>2 DEF InPidOrder, Elements, T
      <4>2. i \in 1 .. Len(s) /\ y = s[i]
        BY <1>12, <4>1
      <4> QED
        BY <4>2 DEF Elements
    <3> QED
      BY <3>1, <3>2
  <2> QED
    BY <2>1, <2>2 DEF Elements
<1>15. Ascending(s)
  <2> SUFFICES ASSUME NEW j \in 1 .. Len(s), NEW k \in 1 .. Len(s), j < k PROVE s[j] < s[k]
    BY DEF Ascending
  <2>1. j \in 1 .. Len(t) /\ (k \in 1 .. Len(t) \/ k = Len(t) + 1)
    BY <1>12
  <2>2. CASE k \in 1 .. Len(t)
    BY <1>11, <1>12, <2>1, <2>2 DEF InPidOrder, Ascending
  <2>3. CASE k = Len(t) + 1
    BY <1>12, <1>13, <2>1, <2>3
  <2> QED
    BY <2>1, <2>2, <2>3
<1>16. InPidOrder(S, s)
  BY <1>12, <1>14, <1>15 DEF InPidOrder
<1> QED
  BY <1>5, <1>16

LEMMA Extremes ==
    ASSUME NEW S, S \subseteq Proc, NEW x \in S
    PROVE  /\ (\A y \in S : x <= y) => OrNull(S, Least(S)) = x
           /\ (\A y \in S : x >= y) => OrNull(S, Greatest(S)) = x
<1>1. S \subseteq Int
  BY ProcAssumption
<1>2. ASSUME \A y \in S : x <= y PROVE Least(S) = x
  <2>1. \A z \in S : (\A y \in S : z <= y) => z = x
    BY <1>1, <1>2
  <2> QED
    BY <1>2, <2>1 DEF Least
<1>3. ASSUME \A y \in S : x >= y PROVE Greatest(S) = x
  <2>1. \A z \in S : (\A y \in S : z >= y) => z = x
    BY <1>1, <1>3
  <2> QED
    BY <1>3, <2>1 DEF Greatest
<1> QED
  BY <1>2, <1>3 DEF OrNull

(* k_process_init links the processes of a queue in pid order.             *)
LEMMA BootList ==
    ASSUME NEW q \in Queue, NEW s, InPidOrder(InitQueued(q), s)
    PROVE  IsList(BootQueues, q, s)
<1> DEFINE S == InitQueued(q)
           n == Len(s)
<1>1. /\ BootQueues.head[q] = OrNull(S, Least(S))
      /\ BootQueues.tail[q] = OrNull(S, Greatest(S))
      /\ \A p \in Threads : BootQueues.next[p] = OrNull(Behind(p), Least(Behind(p)))
  BY DEF BootQueues, Threads
<1>2. /\ n \in Nat /\ s \in Seq(Proc) /\ (s = <<>> <=> n = 0) /\ Proc \subseteq Int
      /\ \A i \in 1 .. n : s[i] \in Proc /\ s[i] \in S
      /\ S = {s[i] : i \in 1 .. n}
  BY ProcAssumption DEF InPidOrder, Elements
<1>0. \A i \in 1 .. n : i \in Int /\ s[i] \in Int
  <2> TAKE i \in 1 .. n
  <2>1. n \in Nat /\ s[i] \in Proc /\ Proc \subseteq Int
    BY <1>2
  <2> HIDE DEF n
  <2>2. s[i] \in Int
    BY <2>1
  <2>3. i \in Int
    BY <2>1
  <2> QED
    BY <2>2, <2>3
<1>3. \A p \in S : p \in Threads /\ Behind(p) = {r \in S : r > p}
  BY DEF InitQueued, InitAtPriority, Behind
<1>4. S \subseteq Proc
  BY <1>2
<1>5. \A j, k \in 1 .. n : j < k => s[j] < s[k]
  BY DEF InPidOrder, Ascending
<1> HIDE DEF S, n
<1>6. \A j, k \in 1 .. n : j <= k => s[j] <= s[k]
  <2> TAKE j, k \in 1 .. n
  <2>1. s[j] \in Int /\ s[k] \in Int /\ j \in Int /\ k \in Int
    BY <1>0
  <2>2. j < k => s[j] < s[k]
    BY <1>5
  <2> QED
    BY <2>1, <2>2
<1>7. Once(s)
  <2> SUFFICES ASSUME NEW j \in 1 .. n, NEW k \in 1 .. n, s[j] = s[k] PROVE j = k
    BY DEF Once, n
  <2>1. s[j] \in Int /\ s[k] \in Int /\ j \in Int /\ k \in Int
    BY <1>0
  <2>2. (j < k => s[j] < s[k]) /\ (k < j => s[k] < s[j])
    BY <1>5
  <2> QED
    BY <2>1, <2>2
<1>8. CASE n = 0
  <2>1. S = {} /\ s = <<>>
    BY <1>2, <1>8
  <2> QED
    BY <1>1, <1>2, <1>7, <1>8, <2>1 DEF IsList, OrNull, n
<1>9. CASE n # 0
  <2>1. 1 \in 1 .. n /\ n \in 1 .. n /\ s # <<>> /\ \A i \in 1 .. n : 1 <= i /\ i <= n
    BY <1>2, <1>9
  <2>2. s[1] \in S /\ s[n] \in S /\ \A y \in S : s[1] <= y /\ s[n] >= y
    <3>1. \A i \in 1 .. n : s[1] <= s[i] /\ s[i] <= s[n] /\ s[i] \in Int
      BY <1>2, <1>6, <2>1
    <3> QED
      BY <1>2, <2>1, <3>1
  <2>3. BootQueues.head[q] = s[1] /\ BootQueues.tail[q] = s[n]
    BY <1>1, <1>4, <2>2, Extremes
  <2>4. ASSUME NEW i \in 1 .. n
        PROVE  BootQueues.next[s[i]] = IF i = n THEN NULL ELSE s[i + 1]
    <3>1. s[i] \in S /\ s[i] \in Threads /\ Behind(s[i]) = {r \in S : r > s[i]} /\ s[i] \in Int
      BY <1>2, <1>3
    <3>2. ASSUME NEW r \in Behind(s[i]) PROVE \E k \in 1 .. n : r = s[k] /\ i < k
      <4>1. PICK k \in 1 .. n : r = s[k]
        BY <1>2, <3>1
      <4>2. s[k] \in Int /\ i \in Int /\ k \in Int
        BY <1>0
      <4>4. s[k] > s[i]
        BY <3>1, <4>1
      <4>3. k <= i => s[k] <= s[i]
        BY <1>6
      <4> QED
        BY <3>1, <4>1, <4>2, <4>3, <4>4
    <3>3. CASE i = n
      <4>1. Behind(s[i]) = {}
        <5> SUFFICES ASSUME NEW r \in Behind(s[i]) PROVE FALSE
          OBVIOUS
        <5>1. PICK k \in 1 .. n : i < k
          BY <3>2
        <5> QED
          BY <1>2, <3>3, <5>1
      <4> QED
        BY <1>1, <3>1, <3>3, <4>1 DEF OrNull
    <3>4. CASE i # n
      <4>1. i + 1 \in 1 .. n /\ i < i + 1
        BY <1>2, <3>4
      <4>2. s[i + 1] \in Behind(s[i])
        <5>1. s[i] < s[i + 1] /\ s[i + 1] \in S /\ s[i + 1] \in Int
          BY <1>2, <1>5, <4>1
        <5> QED
          BY <3>1, <5>1
      <4>3. ASSUME NEW r \in Behind(s[i]) PROVE s[i + 1] <= r
        <5>1. PICK k \in 1 .. n : r = s[k] /\ i < k
          BY <3>2
        <5>2. i + 1 <= k
          BY <4>1, <5>1
        <5> QED
          BY <1>6, <4>1, <5>1, <5>2
      <4>4. Behind(s[i]) \subseteq Proc
        BY <1>4, <3>1
      <4>5. OrNull(Behind(s[i]), Least(Behind(s[i]))) = s[i + 1]
        BY <4>2, <4>3, <4>4, Extremes
      <4> QED
        BY <1>1, <3>1, <3>4, <4>5
    <3> QED
      BY <3>3, <3>4
  <2> QED
    BY <1>2, <1>7, <2>1, <2>3, <2>4 DEF IsList, n
<1> QED
  BY <1>8, <1>9

LEMMA BootRight ==
    /\ Right(Queue, Threads, BootQueues, Lists(BootQueues), [p \in Proc |-> "P_READY"], InitPriority)
    /\ \A q \in Queue : Ascending(Lists(BootQueues)[q])
<1> DEFINE F == [q \in Queue |-> CHOOSE s : InPidOrder(InitQueued(q), s)]
           st == [p \in Proc |-> "P_READY"]
<1>1. \A q \in Queue : InitQueued(q) \subseteq Proc
  BY DEF InitQueued, InitAtPriority, Threads
<1>2. \A q \in Queue : InPidOrder(InitQueued(q), F[q])
  BY <1>1, PidOrder
<1>3. \A q \in Queue : /\ F[q] \in Seq(Proc) /\ Elements(F[q]) = InitQueued(q) /\ Ascending(F[q])
                       /\ IsList(BootQueues, q, F[q])
  <2> TAKE q \in Queue
  <2>1. InPidOrder(InitQueued(q), F[q])
    BY <1>2
  <2> HIDE DEF F
  <2> QED
    BY <2>1, BootList DEF InPidOrder
<1>4. F \in [Queue -> Seq(Proc)]
  BY <1>3
<1> HIDE DEF F
<1>5. BootQueues \in LinksType(Queue)
  BY BootLinks DEF LinksOk
<1>6. \A q \in Queue : InitQueued(q) = Waits(Threads, st, InitPriority, q)
  BY DEF InitQueued, InitAtPriority, Waits, StatusOf, Threads
<1>7. \A q, r \in Queue : q # r => InitQueued(q) \cap InitQueued(r) = {}
  <2> SUFFICES ASSUME NEW q \in Queue, NEW r \in Queue, NEW p \in InitQueued(q), p \in InitQueued(r)
               PROVE  q = r
    OBVIOUS
  <2>1. StatusOf(q) = StatusOf(r) /\ q[2] = r[2]
    BY DEF InitQueued, InitAtPriority, StatusOf
  <2> QED
    BY <2>1, QueueNamed
<1>8. ASSUME NEW p \in Proc, \A q \in Queue : p \notin Elements(F[q])
      PROVE  BootQueues.next[p] = NULL
  <2>1. CASE p \in Threads
    <3>1. /\ <<"ready", InitPriority[p]>> \in Queue
          /\ p \in InitQueued(<<"ready", InitPriority[p]>>)
      BY <2>1, PriorityAssumption, QueueNamed DEF InitQueued, InitAtPriority
    <3> QED
      BY <1>3, <1>8, <3>1
  <2>2. CASE p \notin Threads
    BY <2>2 DEF BootQueues
  <2> QED
    BY <2>1, <2>2
<1>9. Linked(Queue, BootQueues, F)
  BY <1>3, <1>4, <1>5, <1>7, <1>8 DEF Linked
<1>10. st \in [Proc -> Status] /\ InitPriority \in [Proc -> 0 .. NUM_PRIORITIES]
  BY PriorityAssumption DEF Status
<1>11. Right(Queue, Threads, BootQueues, F, st, InitPriority)
  BY <1>3, <1>6, <1>9, <1>10, QueueNamed DEF Right
<1>12. Lists(BootQueues) = F
  BY <1>9, ReadLists
<1> QED
  BY <1>3, <1>11, <1>12

-----------------------------------------------------------------------------
(* A context switch                                                        *)

(* The first of the list q has got the processor; F are the lists the      *)
(* caller left.                                                            *)
Dispatched(F, q) ==
    /\ FirstOf(F, ready_pq, q)
    /\ current_process' = Head(F[q])
    /\ Lists(queues') = Put(F, q, Tail(F[q]))

LEMMA ReadyNamed ==
    /\ \A q \in ready_pq : /\ q \in Queue /\ StatusOf(q) = "P_READY" /\ q[2] \in 0 .. NUM_PRIORITIES
                           /\ q = <<"ready", q[2]>>
    /\ \A i \in 0 .. NUM_PRIORITIES : <<"ready", i>> \in ready_pq
  BY PriorityAssumption DEF ready_pq, proc_pq_create, Queue, StatusOf

LEMMA SwitchLists ==
    ASSUME SchedInv, StatusFollowsProcessor, interrupted_process = NULL, current_process \in Threads,
           NEW L, NEW F, NEW s \in {"P_READY", "P_BLOCKED_ON_RECEIVE", "P_BLOCKED_ON_ENV_REQUEST"},
           current_process = PROCESS_NULL_PID => s = "P_READY",
           Right(Queue, Threads, L, F, Marked(status, current_process, s), priority),
           k_process_switch(s, L), UNCHANGED <<interrupted_process, priority>>
    PROVE  /\ \E q \in ready_pq : Dispatched(F, q)
           /\ Right(Queue, Threads, queues', Lists(queues'), status', priority')
           /\ StatusFollowsProcessor'
           /\ \A p \in Threads : status[p] = "P_READY" => priority[current_process'] <= priority[p]
           /\ Receivers' = IF s = "P_BLOCKED_ON_RECEIVE" THEN Receivers \cup {current_process}
                                                        ELSE Receivers
<1> DEFINE c == current_process
           u == Marked(status, c, s)
           next == proc_pq_front(L, ready_pq)
<1>1. /\ c \in Proc /\ PROCESS_NULL_PID \in Threads /\ PROCESS_NULL_PID \in Proc
      /\ status \in [Proc -> Status] /\ priority \in [Proc -> 0 .. NUM_PRIORITIES]
      /\ priority[PROCESS_NULL_PID] = NUM_PRIORITIES
  BY ProcAssumption DEF SchedInv, TypeOK, Threads
<1>2. \A p \in Proc : u[p] = IF p = c THEN s ELSE status[p]
  BY <1>1 DEF Marked
<1>3. u[PROCESS_NULL_PID] = "P_READY"
  BY <1>1, <1>2, NullIsNoProc DEF SchedInv, StatusFollowsProcessor
<1>4. Right(Queue, Threads, L, F, u, priority) /\ Linked(Queue, L, F) /\ ready_pq \subseteq Queue
  BY DEF Right, Queue
<1> HIDE DEF u
<1>5. next # NULL
  <2>1. NullQueue \in ready_pq /\ NullQueue \in Queue /\ PROCESS_NULL_PID \in Waits(Threads, u, priority, NullQueue)
    BY <1>1, <1>3, QueueNames DEF Waits, StatusOf, NullQueue
  <2>2. F[NullQueue] # <<>>
    <3>1. PROCESS_NULL_PID \in Elements(F[NullQueue])
      BY <1>4, <2>1 DEF Right
    <3> QED
      BY <3>1 DEF Elements
  <2> QED
    BY <1>4, <2>1, <2>2, QueueNamed, FrontList
<1>6. PICK q \in ready_pq :
         /\ TakenFrom(Queue, L, F, ready_pq, q)
         /\ next \in Waits(Threads, u, priority, q)
         /\ Right(Queue, Threads, proc_pq_dequeue(L, ready_pq), Put(F, q, Tail(F[q])),
                  Marked(u, next, "P_EXECUTING"), priority)
  BY <1>4, <1>5, FrontLeaves
<1>7. /\ current_process' = next /\ queues' = proc_pq_dequeue(L, ready_pq)
      /\ status' = Marked(u, next, "P_EXECUTING")
      /\ interrupted_process' = interrupted_process /\ priority' = priority
  BY DEF k_process_switch, Marked, u
<1>8. Dispatched(F, q)
  <2>1. Linked(Queue, queues', Put(F, q, Tail(F[q])))
    BY <1>6, <1>7 DEF TakenFrom
  <2>2. Lists(queues') = Put(F, q, Tail(F[q]))
    BY <2>1, ReadLists
  <2> QED
    BY <1>6, <1>7, <2>2 DEF TakenFrom, Dispatched
<1>9. Right(Queue, Threads, queues', Lists(queues'), status', priority')
  BY <1>6, <1>7, <1>8 DEF Dispatched
<1> HIDE DEF next
<1>10. next \in Threads /\ next \in Proc /\ priority[next] = q[2] /\ u[next] = "P_READY"
  BY <1>6, ReadyNamed DEF Waits, Threads
<1>11. StatusFollowsProcessor'
  <2>1. \A p \in Proc : status'[p] = IF p = next THEN "P_EXECUTING"
                                    ELSE IF p = c THEN s ELSE status[p]
    BY <1>1, <1>2, <1>4, <1>7, <1>10 DEF Marked, Right
  <2>2. \A p \in Proc : status[p] = "P_INTERRUPTED" <=> FALSE
    BY NullIsNoProc DEF StatusFollowsProcessor
  <2>3. \A p \in Proc : p # c => status[p] # "P_EXECUTING"
    BY DEF StatusFollowsProcessor
  <2> QED
    BY <1>7, <2>1, <2>2, <2>3, NullIsNoProc DEF StatusFollowsProcessor
<1>12. ASSUME NEW p \in Threads, status[p] = "P_READY"
       PROVE  priority[next] <= priority[p]
  <2> DEFINE r == <<"ready", priority[p]>>
  <2>1. p \in Proc /\ p # c /\ u[p] = "P_READY"
    BY <1>1, <1>2, <1>12 DEF Threads, StatusFollowsProcessor
  <2>2. r \in ready_pq /\ r \in Queue /\ p \in Waits(Threads, u, priority, r)
    BY <1>1, <2>1, ReadyNamed DEF Waits
  <2>3. F[r] # <<>>
    <3>1. p \in Elements(F[r])
      BY <1>4, <2>2 DEF Right
    <3> QED
      BY <3>1 DEF Elements
  <2>4. ~(priority[p] < q[2])
    BY <1>6, <2>2, <2>3 DEF TakenFrom, FirstOf
  <2>5. priority[p] \in Int /\ q[2] \in Int
    BY <1>1, <2>1, ReadyNamed
  <2> QED
    BY <1>10, <2>4, <2>5
<1>13. Receivers' = IF s = "P_BLOCKED_ON_RECEIVE" THEN Receivers \cup {c} ELSE Receivers
  <2>1. \A p \in Proc : status'[p] = IF p = next THEN "P_EXECUTING"
                                    ELSE IF p = c THEN s ELSE status[p]
    BY <1>1, <1>2, <1>4, <1>7, <1>10 DEF Marked, Right
  <2>2. next # c => status[next] = "P_READY"
    BY <1>2, <1>10
  <2>3. next = c => s = "P_READY"
    BY <1>2, <1>10
  <2>4. status[c] = "P_EXECUTING" /\ \A p \in Threads : p \in Proc
    BY <1>1 DEF StatusFollowsProcessor, Threads
  <2> QED
    BY <2>1, <2>2, <2>3, <2>4 DEF Receivers
<1> QED
  BY <1>7, <1>8, <1>9, <1>11, <1>12, <1>13

-----------------------------------------------------------------------------
(* What each action does to the lists                                      *)

F0 == Lists(queues)

(* The lists once p, with the priority it has, has joined the ready ones,  *)
(* or the ones that wait for an envelope.                                  *)
ReadyJoined(F, p) == Put(F, ReadyQueue(p), Append(F[ReadyQueue(p)], p))
WaitJoined(F, p)  == Put(F, EnvBlockedQueue(p), Append(F[EnvBlockedQueue(p)], p))

(* Of the invariant, what a step must restore besides SchedInv.            *)
ListsRight == /\ Right(Queue, Threads, queues, F0, status, priority)
              /\ StatusFollowsProcessor

LEMMA InvFacts ==
    ASSUME QueueInv
    PROVE  /\ SchedInv /\ StatusFollowsProcessor /\ Right(Queue, Threads, queues, F0, status, priority)
           /\ current_process \in Proc /\ status \in [Proc -> Status]
           /\ priority \in [Proc -> 0 .. NUM_PRIORITIES]
           /\ \A p \in Proc : priority[p] = NUM_PRIORITIES <=> p = PROCESS_NULL_PID
           /\ status[current_process] = "P_EXECUTING" /\ ~Queued(status[current_process])
           /\ current_process \notin IProc => interrupted_process = NULL /\ current_process \in Threads
           /\ flag = 0 => interrupted_process = NULL /\ current_process \in Threads
           /\ NUM_PRIORITIES \in Nat
  BY PriorityAssumption DEF QueueInv, SchedInv, TypeOK, StatusFollowsProcessor, Queued, Threads, F0

LEMMA QueueOf ==
    ASSUME QueueInv, NEW p \in Proc
    PROVE  /\ ReadyQueue(p) \in Queue /\ ReadyQueue(p) \in ready_pq
           /\ ReadyQueue(p)[2] = priority[p] /\ StatusOf(ReadyQueue(p)) = "P_READY"
           /\ p # PROCESS_NULL_PID =>
                 /\ EnvBlockedQueue(p) \in Queue
                 /\ EnvBlockedQueue(p)[2] = priority[p]
                 /\ StatusOf(EnvBlockedQueue(p)) = "P_BLOCKED_ON_ENV_REQUEST"
                 /\ priority[p] \in 0 .. NUM_PRIORITIES - 1
<1>1. priority[p] \in 0 .. NUM_PRIORITIES
  BY InvFacts
<1>2. p # PROCESS_NULL_PID => priority[p] \in 0 .. NUM_PRIORITIES - 1
  BY <1>1, InvFacts
<1> QED
  BY <1>1, <1>2, QueueNamed, ReadyNamed DEF ReadyQueue, EnvBlockedQueue

LEMMA YieldLists ==
    ASSUME QueueInv, k_release_processor
    PROVE  /\ \E q \in ready_pq : Dispatched(ReadyJoined(F0, current_process), q)
           /\ ListsRight'
           /\ \A p \in Threads : status[p] = "P_READY" => priority[current_process'] <= priority[p]
           /\ Receivers' = Receivers
<1> DEFINE c == current_process
           r == ReadyQueue(c)
           F == ReadyJoined(F0, c)
<1>1. /\ interrupted_process = NULL /\ c \in Threads /\ c \in Proc
      /\ k_process_switch("P_READY", YieldQueued) /\ UNCHANGED <<interrupted_process, priority>>
  BY InvFacts DEF k_release_processor
<1>2. r \in Queue /\ r[2] = priority[c] /\ StatusOf(r) = "P_READY"
  BY <1>1, QueueOf
<1>3. Right(Queue, Threads, proc_queue_enqueue(queues, r, c), Put(F0, r, Append(F0[r], c)),
            Marked(status, c, StatusOf(r)), priority)
  BY <1>1, <1>2, InvFacts, Joins
<1>4. Right(Queue, Threads, YieldQueued, F, Marked(status, c, "P_READY"), priority)
  BY <1>2, <1>3 DEF YieldQueued, ReadyJoined
<1> HIDE DEF F
<1> QED
  BY <1>1, <1>4, InvFacts, SwitchLists DEF ListsRight, F0, F

LEMMA RequestBlocksLists ==
    ASSUME QueueInv, RequestBlocks
    PROVE  /\ \E q \in ready_pq : Dispatched(WaitJoined(F0, current_process), q)
           /\ ListsRight'
           /\ \A p \in Threads : status[p] = "P_READY" => priority[current_process'] <= priority[p]
           /\ Receivers' = Receivers
<1> DEFINE c == current_process
           r == EnvBlockedQueue(c)
           F == WaitJoined(F0, c)
           L == proc_queue_enqueue(queues, r, c)
<1>1. /\ interrupted_process = NULL /\ c \in Threads /\ c \in Proc /\ c # PROCESS_NULL_PID
      /\ k_process_switch("P_BLOCKED_ON_ENV_REQUEST", L)
      /\ UNCHANGED <<interrupted_process, priority>>
  BY InvFacts DEF RequestBlocks, AtRequest, Caller
<1>2. r \in Queue /\ r[2] = priority[c] /\ StatusOf(r) = "P_BLOCKED_ON_ENV_REQUEST"
  BY <1>1, QueueOf
<1>3. Right(Queue, Threads, L, Put(F0, r, Append(F0[r], c)), Marked(status, c, StatusOf(r)), priority)
  BY <1>1, <1>2, InvFacts, Joins
<1>4. Right(Queue, Threads, L, F, Marked(status, c, "P_BLOCKED_ON_ENV_REQUEST"), priority)
  BY <1>2, <1>3 DEF WaitJoined
<1> HIDE DEF F, L
<1> QED
  BY <1>1, <1>4, InvFacts, SwitchLists DEF ListsRight, F0, F

LEMMA ReceiveBlocksLists ==
    ASSUME QueueInv, ReceiveBlocks
    PROVE  /\ \E q \in ready_pq : Dispatched(F0, q)
           /\ ListsRight'
           /\ \A p \in Threads : status[p] = "P_READY" => priority[current_process'] <= priority[p]
           /\ Receivers' = Receivers \cup {current_process}
<1> DEFINE c == current_process
<1>1. /\ interrupted_process = NULL /\ c \in Threads /\ c \in Proc /\ c # PROCESS_NULL_PID
      /\ k_process_switch("P_BLOCKED_ON_RECEIVE", queues)
      /\ UNCHANGED <<interrupted_process, priority>>
  BY InvFacts DEF ReceiveBlocks, AtReceive, Caller
<1>2. ~Queued("P_BLOCKED_ON_RECEIVE") /\ "P_BLOCKED_ON_RECEIVE" \in Status
  BY DEF Queued, Status
<1>3. Right(Queue, Threads, queues, F0, Marked(status, c, "P_BLOCKED_ON_RECEIVE"), priority)
  BY <1>1, <1>2, InvFacts, StaysOut
<1> QED
  BY <1>1, <1>3, InvFacts, SwitchLists DEF ListsRight, F0

(* The longest waiting process of the most urgent list gets to the ready   *)
(* processes.                                                              *)
Woken(q) ==
    /\ FirstOf(F0, env_blocked_pq, q)
    /\ Head(F0[q]) \in Waits(Threads, status, priority, q)
    /\ status' = Marked(status, Head(F0[q]), "P_READY")
    /\ Lists(queues') = ReadyJoined(Put(F0, q, Tail(F0[q])), Head(F0[q]))

LEMMA WakeLists ==
    ASSUME QueueInv, WakeEnvWaiter, UNCHANGED <<current_process, interrupted_process, priority>>
    PROVE  /\ \/ (\A q \in env_blocked_pq : F0[q] = <<>>) /\ UNCHANGED <<status, queues>>
              \/ \E q \in env_blocked_pq : Woken(q)
           /\ ListsRight'
<1> DEFINE p == proc_pq_front(queues, env_blocked_pq)
           L == proc_pq_dequeue(queues, env_blocked_pq)
           u == Marked(status, p, "P_EXECUTING")
<1>1. Right(Queue, Threads, queues, F0, status, priority) /\ Linked(Queue, queues, F0) /\ env_blocked_pq \subseteq Queue
  BY InvFacts DEF Right, Queue
<1>2. CASE p = NULL
  <2>1. UNCHANGED <<status, queues>> /\ \A q \in env_blocked_pq : F0[q] = <<>>
    BY <1>1, <1>2, QueueNamed, FrontList DEF WakeEnvWaiter
  <2> QED
    BY <1>1, <2>1, InvFacts DEF ListsRight, F0, StatusFollowsProcessor
<1>3. CASE p # NULL
  <2>1. PICK q \in env_blocked_pq :
          /\ TakenFrom(Queue, queues, F0, env_blocked_pq, q)
          /\ p \in Waits(Threads, status, priority, q)
          /\ Right(Queue, Threads, L, Put(F0, q, Tail(F0[q])), u, priority)
    BY <1>1, <1>3, FrontLeaves
  <2>2. status' = Marked(status, p, "P_READY") /\ queues' = proc_queue_enqueue(L, ReadyQueue(p), p)
    BY <1>3 DEF WakeEnvWaiter, MakeReady, Marked
  <2>3. /\ p = Head(F0[q]) /\ p \in Threads /\ p \in Proc /\ q \in Queue
        /\ status[p] = "P_BLOCKED_ON_ENV_REQUEST"
    <3>1. StatusOf(q) = "P_BLOCKED_ON_ENV_REQUEST" /\ q \in Queue
      BY <1>1 DEF env_blocked_pq, proc_pq_create, StatusOf
    <3> QED
      BY <2>1, <3>1 DEF TakenFrom, Waits, Threads
  <2> HIDE DEF p, L
  <2> DEFINE K == Put(F0, q, Tail(F0[q]))
  <2>4. Right(Queue, Threads, L, K, u, priority)
    BY <2>1
  <2>5. ~Queued(u[p]) /\ Marked(u, p, "P_READY") = Marked(status, p, "P_READY")
    BY <2>3, InvFacts DEF Marked, Queued
  <2>6. ReadyQueue(p) \in Queue /\ ReadyQueue(p)[2] = priority[p] /\ StatusOf(ReadyQueue(p)) = "P_READY"
    BY <2>3, QueueOf
  <2> HIDE DEF K, u
  <2>7. Right(Queue, Threads, proc_queue_enqueue(L, ReadyQueue(p), p),
              Put(K, ReadyQueue(p), Append(K[ReadyQueue(p)], p)),
              Marked(u, p, StatusOf(ReadyQueue(p))), priority)
    BY <2>3, <2>4, <2>5, <2>6, Joins
  <2>8. Right(Queue, Threads, queues', ReadyJoined(K, p), status', priority)
    BY <2>2, <2>5, <2>6, <2>7 DEF ReadyJoined
  <2>9. Lists(queues') = ReadyJoined(K, p)
    BY <2>8, ReadLists DEF Right
  <2>10. StatusFollowsProcessor'
    BY <2>2, <2>3, InvFacts DEF StatusFollowsProcessor, Marked
  <2>11. Woken(q)
    BY <2>1, <2>2, <2>3, <2>9 DEF Woken, TakenFrom, K
  <2> QED
    BY <2>1, <2>8, <2>9, <2>10, <2>11 DEF ListsRight, F0
<1> QED
  BY <1>2, <1>3

LEMMA SendLists ==
    ASSUME QueueInv, NEW d \in Proc, WakeReceiver(d),
           UNCHANGED <<current_process, interrupted_process, priority>>
    PROVE  /\ \/ status[d] # "P_BLOCKED_ON_RECEIVE" /\ UNCHANGED <<status, queues>>
              \/ /\ d \in Threads /\ status[d] = "P_BLOCKED_ON_RECEIVE"
                 /\ status' = Marked(status, d, "P_READY")
                 /\ Lists(queues') = ReadyJoined(F0, d)
           /\ ListsRight'
<1>1. CASE status[d] # "P_BLOCKED_ON_RECEIVE"
  <2>1. UNCHANGED <<status, queues>>
    BY <1>1 DEF WakeReceiver
  <2> QED
    BY <1>1, <2>1, InvFacts DEF ListsRight, F0, StatusFollowsProcessor
<1>2. CASE status[d] = "P_BLOCKED_ON_RECEIVE"
  <2>1. status' = Marked(status, d, "P_READY") /\ queues' = proc_queue_enqueue(queues, ReadyQueue(d), d)
    BY <1>2 DEF WakeReceiver, MakeReady, Marked
  <2>2. d \in Threads /\ ~Queued(status[d])
    BY <1>2, InvFacts DEF SchedInv, Threads, Queued
  <2>3. ReadyQueue(d) \in Queue /\ ReadyQueue(d)[2] = priority[d] /\ StatusOf(ReadyQueue(d)) = "P_READY"
    BY QueueOf
  <2>4. Right(Queue, Threads, proc_queue_enqueue(queues, ReadyQueue(d), d),
              Put(F0, ReadyQueue(d), Append(F0[ReadyQueue(d)], d)),
              Marked(status, d, StatusOf(ReadyQueue(d))), priority)
    BY <2>2, <2>3, InvFacts, Joins
  <2>5. Right(Queue, Threads, queues', ReadyJoined(F0, d), status', priority)
    BY <2>1, <2>3, <2>4 DEF ReadyJoined
  <2>6. Lists(queues') = ReadyJoined(F0, d)
    BY <2>5, ReadLists DEF Right
  <2>7. StatusFollowsProcessor'
    BY <1>2, <2>1, InvFacts DEF StatusFollowsProcessor, Marked
  <2> QED
    BY <1>2, <2>1, <2>2, <2>5, <2>6, <2>7 DEF ListsRight, F0
<1> QED
  BY <1>1, <1>2

(* p moves to the end of the list of priority n, of the same kind.         *)
Moved(F, kind, p, n) ==
    Put(Put(F, <<kind, priority[p]>>, Without(F[<<kind, priority[p]>>], p)),
        <<kind, n>>, Append(F[<<kind, n>>], p))

LEMMA PriorityLists ==
    ASSUME QueueInv, ~TailMoves, NEW n \in 0 .. NUM_PRIORITIES - 1, NEW p \in Proc,
           k_change_priority(n, p)
    PROVE  /\ p \in UserProc /\ p \in Threads /\ n # priority[p]
           /\ priority' = Marked(priority, p, n) /\ status' = status
           /\ status[p] = "P_READY" => Lists(queues') = Moved(F0, "ready", p, n)
           /\ status[p] = "P_BLOCKED_ON_ENV_REQUEST" => Lists(queues') = Moved(F0, "env_blocked", p, n)
           /\ ~Queued(status[p]) => Lists(queues') = F0
           /\ ListsRight'
<1>1. /\ p \in UserProc /\ p \in Threads /\ p # PROCESS_NULL_PID /\ n # priority[p]
      /\ priority' = Marked(priority, p, n) /\ status' = status
      /\ UNCHANGED <<current_process, interrupted_process>>
      /\ ~MovesTail(p)
  BY DEF k_change_priority, UserProc, Marked
<1>2. StatusFollowsProcessor'
  BY <1>1, InvFacts DEF StatusFollowsProcessor
<1>3. ASSUME NEW kind \in {"ready", "env_blocked"}, status[p] = StatusOf(<<kind, 0>>)
      PROVE  /\ Lists(queues') = Moved(F0, kind, p, n)
             /\ Right(Queue, Threads, queues', Lists(queues'), status', priority')
  <2> DEFINE q == <<kind, priority[p]>>
             r == <<kind, n>>
  <2>1. priority[p] \in 0 .. NUM_PRIORITIES - 1 /\ n \in 0 .. NUM_PRIORITIES
    BY <1>1, QueueOf, InvFacts
  <2>2. /\ q \in Queue /\ r \in Queue /\ StatusOf(r) = StatusOf(q) /\ r # q /\ r[2] = n
        /\ q[2] = priority[p] /\ status[p] = StatusOf(q)
    BY <1>1, <1>3, <2>1, QueueNames DEF StatusOf
  <2>3. p \in Elements(F0[q])
    BY <1>1, <2>2, InvFacts DEF Right, Waits
  <2>4. MayRemove(queues, q, p)
    BY <1>1, <1>3 DEF MovesTail, ReadyQueue, EnvBlockedQueue, MayRemove, StatusOf
  <2>5. queues' = Requeue(kind, p, n)
    BY <1>3 DEF k_change_priority, StatusOf
  <2>6. queues' = proc_queue_enqueue(proc_queue_remove(queues, q, p), r, p)
    BY <2>5 DEF Requeue
  <2> HIDE DEF q, r
  <2>7. Right(Queue, Threads, proc_queue_enqueue(proc_queue_remove(queues, q, p), r, p),
              Put(Put(F0, q, Without(F0[q], p)), r, Append(F0[r], p)),
              status, Marked(priority, p, r[2]))
    BY <2>2, <2>3, <2>4, InvFacts, Moves
  <2>8. Right(Queue, Threads, queues', Moved(F0, kind, p, n), status', priority')
    BY <1>1, <2>2, <2>6, <2>7 DEF Moved, q, r
  <2>9. Lists(queues') = Moved(F0, kind, p, n)
    BY <2>8, ReadLists DEF Right
  <2> QED
    BY <2>8, <2>9
<1>4. ASSUME ~Queued(status[p])
      PROVE  Lists(queues') = F0 /\ Right(Queue, Threads, queues', Lists(queues'), status', priority')
  <2>1. queues' = queues
    BY <1>4 DEF k_change_priority, Queued
  <2>2. n \in 0 .. NUM_PRIORITIES
    BY InvFacts
  <2>3. Right(Queue, Threads, queues, F0, status, Marked(priority, p, n))
    BY <1>1, <1>4, <2>2, InvFacts, StaysOutReprioritised
  <2> QED
    BY <1>1, <2>1, <2>3 DEF F0
<1> QED
  BY <1>1, <1>2, <1>3, <1>4 DEF ListsRight, F0, Queued, StatusOf

LEMMA EnterLists ==
    ASSUME QueueInv, NEW i \in IProc, flag = 0, Interrupt(i)
    PROVE  queues' = queues /\ ListsRight' /\ current_process \in Threads
<1>1. /\ current_process' = i /\ interrupted_process' = current_process
      /\ status' = Marked(Marked(status, current_process, "P_INTERRUPTED"), i, "P_EXECUTING")
      /\ UNCHANGED <<priority, queues>> /\ interrupted_process = NULL
  BY InvFacts DEF Interrupt, Marked
<1>2. current_process \in Threads /\ i \in Proc /\ i \notin Threads /\ i # current_process
  BY <1>1, InvFacts, ProcAssumption DEF SchedInv, Threads
<1>3. /\ ~Queued("P_INTERRUPTED") /\ ~Queued("P_EXECUTING")
      /\ "P_INTERRUPTED" \in Status /\ "P_EXECUTING" \in Status
  BY DEF Queued, Status
<1> DEFINE u == Marked(status, current_process, "P_INTERRUPTED")
<1>4. Right(Queue, Threads, queues, F0, u, priority)
  BY <1>2, <1>3, InvFacts, StaysOut
<1> HIDE DEF u
<1>5. Right(Queue, Threads, queues, F0, Marked(u, i, "P_EXECUTING"), priority)
  BY <1>2, <1>3, <1>4, StaysOut
<1>6. StatusFollowsProcessor'
  <2>1. \A p \in Proc : status'[p] = IF p = i THEN "P_EXECUTING"
                                     ELSE IF p = current_process THEN "P_INTERRUPTED" ELSE status[p]
    BY <1>1, InvFacts DEF Marked
  <2>2. \A p \in Proc : status[p] # "P_INTERRUPTED"
    BY <1>1, InvFacts, NullIsNoProc DEF StatusFollowsProcessor
  <2>3. \A p \in Proc : p # current_process => status[p] # "P_EXECUTING"
    BY InvFacts DEF StatusFollowsProcessor
  <2> QED
    BY <1>1, <1>2, <2>1, <2>2, <2>3 DEF StatusFollowsProcessor
<1> QED
  BY <1>1, <1>2, <1>5, <1>6 DEF ListsRight, F0, u

LEMMA ExitLists ==
    ASSUME QueueInv, k_i_process_exit
    PROVE  queues' = queues /\ ListsRight'
<1> DEFINE c == current_process
           b == interrupted_process
           u == Marked(status, c, "P_READY")
<1>1. /\ current_process' = b /\ interrupted_process' = NULL
      /\ status' = Marked(u, b, "P_EXECUTING")
      /\ UNCHANGED <<priority, queues>> /\ b # NULL
  BY InvFacts, NullIsNoProc DEF k_i_process_exit, Marked, SchedInv
<1>2. c \in IProc /\ c \in Proc /\ c \notin Threads /\ b \in Proc /\ b # c
      /\ status[b] = "P_INTERRUPTED"
  BY <1>1, InvFacts DEF SchedInv, Threads, TypeOK, ProcOrNull, StatusFollowsProcessor
<1>3. ~Queued("P_INTERRUPTED") /\ ~Queued("P_EXECUTING") /\ "P_READY" \in Status /\ "P_EXECUTING" \in Status
  BY DEF Queued, Status
<1>4. Right(Queue, Threads, queues, F0, u, priority)
  BY <1>2, <1>3, InvFacts, StaysOut
<1>5. u[b] = "P_INTERRUPTED"
  BY <1>2, InvFacts DEF Marked
<1> HIDE DEF u
<1>6. Right(Queue, Threads, queues, F0, Marked(u, b, "P_EXECUTING"), priority)
  BY <1>2, <1>3, <1>4, <1>5, StaysOut
<1>7. StatusFollowsProcessor'
  <2>1. \A p \in Proc : status'[p] = IF p = b THEN "P_EXECUTING"
                                     ELSE IF p = c THEN "P_READY" ELSE status[p]
    BY <1>1, InvFacts DEF Marked, u
  <2>2. \A p \in Proc : (status[p] = "P_INTERRUPTED" => p = b) /\ (status[p] = "P_EXECUTING" => p = c)
    BY InvFacts DEF StatusFollowsProcessor
  <2> QED
    BY <1>1, <1>2, <2>1, <2>2, NullIsNoProc DEF StatusFollowsProcessor
<1> QED
  BY <1>1, <1>6, <1>7 DEF ListsRight, F0

-----------------------------------------------------------------------------
(* At boot the processor goes to the first of the most urgent list.        *)
LEMMA BootDispatch ==
    ASSUME Init
    PROVE  /\ SchedInv
           /\ Right(Queue, Threads, queues, F0, status, priority)
           /\ \E q \in ready_pq : /\ FirstOf(Lists(BootQueues), ready_pq, q)
                                  /\ current_process \in Waits(Threads, [p \in Proc |-> "P_READY"], InitPriority, q)
                                  /\ F0 = Put(Lists(BootQueues), q, Tail(Lists(BootQueues)[q]))
<1> DEFINE L == BootQueues
           F == Lists(L)
           st == [p \in Proc |-> "P_READY"]
           first == proc_pq_front(L, ready_pq)
<1>1. SchedInv
  BY SchedInvInit
<1>2. Right(Queue, Threads, L, F, st, InitPriority) /\ Linked(Queue, L, F) /\ ready_pq \subseteq Queue
  BY BootRight DEF Right, Queue
<1>3. first = current_process /\ first \in Proc /\ first # NULL
  BY <1>1, NullIsNoProc DEF Init, SchedInv, TypeOK
<1>4. PICK q \in ready_pq :
        /\ TakenFrom(Queue, L, F, ready_pq, q)
        /\ first \in Waits(Threads, st, InitPriority, q)
        /\ Right(Queue, Threads, proc_pq_dequeue(L, ready_pq), Put(F, q, Tail(F[q])),
                 Marked(st, first, "P_EXECUTING"), InitPriority)
  BY <1>2, <1>3, FrontLeaves
<1>5. /\ status = [p \in Proc |-> IF p = first THEN "P_EXECUTING" ELSE "P_READY"]
      /\ queues = proc_pq_dequeue(L, ready_pq) /\ priority = InitPriority
  BY DEF Init
<1> HIDE DEF L, F, first
<1>6. status = Marked(st, first, "P_EXECUTING")
  BY <1>5 DEF Marked
<1> HIDE DEF st
<1>7. Right(Queue, Threads, queues, Put(F, q, Tail(F[q])), status, priority)
  BY <1>4, <1>5, <1>6
<1>8. Lists(queues) = Put(F, q, Tail(F[q]))
  BY <1>7, ReadLists DEF Right
<1> QED
  BY <1>1, <1>3, <1>4, <1>7, <1>8 DEF F0, F, L, st, TakenFrom

LEMMA QueueInvInit == Init => QueueInv
<1> SUFFICES ASSUME Init PROVE QueueInv
  OBVIOUS
<1>1. SchedInv /\ Right(Queue, Threads, queues, F0, status, priority)
  BY BootDispatch
<1>2. current_process \in Proc
  BY <1>1 DEF SchedInv, TypeOK
<1>3. /\ interrupted_process = NULL
      /\ status = [p \in Proc |-> IF p = current_process THEN "P_EXECUTING" ELSE "P_READY"]
  BY DEF Init
<1>4. StatusFollowsProcessor
  BY <1>2, <1>3, NullIsNoProc DEF StatusFollowsProcessor
<1> QED
  BY <1>1, <1>4 DEF QueueInv, F0

LEMMA QueueInvNext == QueueInv /\ ~TailMoves /\ [Next]_vars => QueueInv'
<1> SUFFICES ASSUME QueueInv, ~TailMoves, [Next]_vars PROVE QueueInv'
  OBVIOUS
<1>1. SchedInv'
  BY InvFacts, SchedInvNext
<1> SUFFICES ListsRight'
  BY <1>1 DEF ListsRight, QueueInv, F0
<1>3. CASE k_release_processor
  BY <1>3, YieldLists
<1>4. ASSUME NEW n \in 0 .. NUM_PRIORITIES - 1, NEW p \in Proc, k_change_priority(n, p)
      PROVE  ListsRight'
  BY <1>4, PriorityLists
<1>5. CASE RequestBlocks
  BY <1>5, RequestBlocksLists
<1>6. CASE ReceiveBlocks
  BY <1>6, ReceiveBlocksLists
<1>7. ASSUME NEW e \in Env, k_release_msg_env(e) PROVE ListsRight'
  BY <1>7, WakeLists DEF k_release_msg_env
<1>8. ASSUME NEW d \in Proc, NEW e \in Env, k_send_message(d, e) PROVE ListsRight'
  BY <1>8, SendLists DEF k_send_message
<1>9. ASSUME NEW i \in IProc, flag = 0, Interrupt(i) PROVE ListsRight'
  BY <1>9, EnterLists
<1>10. CASE k_i_process_exit
  BY <1>10, ExitLists
<1>11. CASE RequestGranted \/ MessageReceived \/ Abort \/ UNCHANGED vars
  <2>1. UNCHANGED <<current_process, interrupted_process, status, priority, queues>>
    BY <1>11 DEF RequestGranted, MessageReceived, Abort, vars
  <2> QED
    BY <2>1, InvFacts DEF ListsRight, F0, StatusFollowsProcessor
<1> QED
  BY <1>3, <1>4, <1>5, <1>6, <1>7, <1>8, <1>9, <1>10, <1>11
     DEF Next, Terminated, k_request_msg_env, k_receive_message, k_i_process_enter

LEMMA QueueInvAlways == ~TailMoves => (Spec => []QueueInv)
<1> SUFFICES ASSUME ~TailMoves PROVE Spec => []QueueInv
  OBVIOUS
<1>1. QueueInv /\ [Next]_vars => QueueInv'
  BY QueueInvNext
<1> QED
  BY <1>1, QueueInvInit, PTL DEF Spec

(* As long as change_priority moves no tail, every list ends and holds the *)
(* processes whose status and priority call for it, so that none is        *)
(* forgotten.                                                              *)
THEOREM NobodyForgotten == ~TailMoves => (Spec => []QueuesMatchStatus)
<1> SUFFICES ASSUME ~TailMoves PROVE Spec => []QueuesMatchStatus
  OBVIOUS
<1>1. QueueInv => QueuesMatchStatus
  <2> SUFFICES ASSUME QueueInv PROVE QueuesMatchStatus
    OBVIOUS
  <2>1. Right(Queue, Threads, queues, F0, status, priority) /\ Linked(Queue, queues, F0)
    BY InvFacts DEF Right
  <2>2. \A q \in Queue : Ends(queues, q) /\ Members(queues, q) = Waits(Threads, status, priority, q)
    BY <2>1, ReadLists DEF Right
  <2> QED
    BY <2>2, QueueNamed DEF QueuesMatchStatus, Waits
<1> QED
  BY <1>1, QueueInvAlways, PTL

(* As long as it moves no tail, a process in no queue carries no link: the *)
(* assertion of proc_queue_enqueue holds whenever the kernel calls it.     *)
THEOREM EnqueueAssertion == ~TailMoves => (Spec => []UnqueuedHasNoLink)
<1> SUFFICES ASSUME ~TailMoves PROVE Spec => []UnqueuedHasNoLink
  OBVIOUS
<1>1. QueueInv => UnqueuedHasNoLink
  <2> SUFFICES ASSUME QueueInv, NEW p \in Threads, ~Queued(status[p]) PROVE queues.next[p] = NULL
    BY DEF UnqueuedHasNoLink, EnqueueAssertHolds, Queued
  <2>1. Unlisted(Queue, F0, p) /\ Linked(Queue, queues, F0) /\ p \in Proc
    BY InvFacts, NotQueued DEF Right, Threads
  <2> QED
    BY <2>1 DEF Linked, Unlisted
<1> QED
  BY <1>1, QueueInvAlways, PTL

(* As long as it moves no tail, P_EXECUTING and P_INTERRUPTED mark the     *)
(* process that has the processor and the one that will get it back.       *)
THEOREM StatusTellsTheTruth == ~TailMoves => (Spec => []StatusFollowsProcessor)
<1> SUFFICES ASSUME ~TailMoves PROVE Spec => []StatusFollowsProcessor
  OBVIOUS
<1>1. QueueInv => StatusFollowsProcessor
  BY DEF QueueInv
<1> QED
  BY <1>1, QueueInvAlways, PTL

-----------------------------------------------------------------------------
(* As long as no tail is moved, a context switch picks a process of the    *)
(* most urgent priority among the ready ones.                              *)
THEOREM DispatchesByUrgency == ~TailMoves => (Spec => MostUrgentDispatched)
<1> SUFFICES ASSUME ~TailMoves PROVE Spec => MostUrgentDispatched
  OBVIOUS
<1> DEFINE A == current_process' # current_process /\ {current_process, current_process'} \cap IProc = {}
                  => \A p \in Threads : status[p] = "P_READY" => priority[current_process'] <= priority[p]
<1>1. QueueInv /\ [Next]_vars => [A]_vars
  <2> SUFFICES ASSUME QueueInv, Next, current_process' # current_process,
                      current_process \notin IProc, current_process' \notin IProc
               PROVE  \A p \in Threads : status[p] = "P_READY" => priority[current_process'] <= priority[p]
    OBVIOUS
  <2>1. CASE k_release_processor
    BY <2>1, YieldLists
  <2>2. CASE RequestBlocks
    BY <2>2, RequestBlocksLists
  <2>3. CASE ReceiveBlocks
    BY <2>3, ReceiveBlocksLists
  <2>4. ~\E i \in IProc : k_i_process_enter(i)
    BY DEF k_i_process_enter, Interrupt, Abort
  <2>5. ~k_i_process_exit
    BY DEF k_i_process_exit
  <2>6. \A n \in 0 .. NUM_PRIORITIES - 1, p \in Proc : ~k_change_priority(n, p)
    BY DEF k_change_priority
  <2>7. /\ \A e \in Env : ~k_release_msg_env(e)
        /\ \A d \in Proc, e \in Env : ~k_send_message(d, e)
        /\ ~RequestGranted /\ ~MessageReceived
    BY DEF k_release_msg_env, k_send_message, RequestGranted, MessageReceived
  <2> QED
    BY <2>1, <2>2, <2>3, <2>4, <2>5, <2>6, <2>7
       DEF Next, Terminated, vars, k_request_msg_env, k_receive_message
<1> QED
  BY <1>1, QueueInvAlways, PTL DEF Spec, MostUrgentDispatched

(* A context switch makes nobody ready who was waiting for an envelope.    *)
LEMMA SwitchWakesNobody ==
    ASSUME QueueInv, NEW L, NEW s, k_process_switch(s, L), NEW p \in Threads,
           status[p] = "P_BLOCKED_ON_ENV_REQUEST"
    PROVE  status'[p] # "P_READY"
<1>1. p \in Proc /\ p # current_process /\ status \in [Proc -> Status]
  BY InvFacts DEF Threads
<1>2. status' = [status EXCEPT ![current_process] = s, ![current_process'] = "P_EXECUTING"]
  BY DEF k_process_switch
<1> QED
  BY <1>1, <1>2

(* As long as no tail is moved, a released envelope wakes a process of the *)
(* most urgent priority among those that wait for one.                     *)
THEOREM WakesByUrgency == ~TailMoves => (Spec => MostUrgentWaiterWoken)
<1> SUFFICES ASSUME ~TailMoves PROVE Spec => MostUrgentWaiterWoken
  OBVIOUS
<1> DEFINE A == \A p, r \in Threads :
                   /\ status[p] = "P_BLOCKED_ON_ENV_REQUEST" /\ status'[p] = "P_READY"
                   /\ status[r] = "P_BLOCKED_ON_ENV_REQUEST"
                   => priority[p] <= priority[r]
<1>1. QueueInv /\ [Next]_vars => [A]_vars
  <2> SUFFICES ASSUME QueueInv, Next, NEW p \in Threads, NEW r \in Threads,
                      status[p] = "P_BLOCKED_ON_ENV_REQUEST", status'[p] = "P_READY",
                      status[r] = "P_BLOCKED_ON_ENV_REQUEST"
               PROVE  priority[p] <= priority[r]
    OBVIOUS
  <2>0. /\ p \in Proc /\ p # current_process /\ r \in Proc /\ r # PROCESS_NULL_PID
        /\ status \in [Proc -> Status] /\ priority \in [Proc -> 0 .. NUM_PRIORITIES]
        /\ Right(Queue, Threads, queues, F0, status, priority)
    BY InvFacts DEF Threads, SchedInv
  <2>1. ASSUME NEW e \in Env, k_release_msg_env(e) PROVE priority[p] <= priority[r]
    <3>1. status' # status
      OBVIOUS
    <3>2. PICK q \in env_blocked_pq : Woken(q)
      BY <2>1, <3>1, WakeLists DEF k_release_msg_env
    <3>3. p = Head(F0[q])
      BY <2>0, <3>2 DEF Woken, Marked
    <3>4. priority[p] = q[2] /\ q \in Queue
      BY <3>2, <3>3 DEF Woken, Waits, Queue
    <3> DEFINE t == EnvBlockedQueue(r)
    <3>5. t \in env_blocked_pq /\ t \in Queue /\ t[2] = priority[r] /\ StatusOf(t) = "P_BLOCKED_ON_ENV_REQUEST"
      <4>1. priority[r] \in 0 .. NUM_PRIORITIES - 1
        BY <2>0, QueueOf
      <4> QED
        BY <2>0, <4>1, QueueOf DEF EnvBlockedQueue, env_blocked_pq, proc_pq_create
    <3>6. r \in Elements(F0[t])
      BY <2>0, <3>5 DEF Right, Waits
    <3>7. F0[t] # <<>>
      BY <3>6 DEF Elements
    <3>8. ~(priority[r] < priority[p])
      BY <3>2, <3>4, <3>5, <3>7 DEF Woken, FirstOf
    <3>9. priority[p] \in Int /\ priority[r] \in Int
      BY <2>0
    <3> QED
      BY <3>8, <3>9
  <2>2. ~k_release_processor /\ ~RequestBlocks /\ ~ReceiveBlocks
    BY SwitchWakesNobody DEF k_release_processor, RequestBlocks, ReceiveBlocks
  <2>3. ASSUME NEW d \in Proc, NEW e \in Env, k_send_message(d, e) PROVE FALSE
    BY <2>0, <2>3 DEF k_send_message, WakeReceiver, MakeReady
  <2>4. ASSUME NEW i \in IProc, k_i_process_enter(i) PROVE FALSE
    BY <2>0, <2>4 DEF k_i_process_enter, Interrupt, Abort
  <2>5. ~k_i_process_exit
    BY <2>0 DEF k_i_process_exit
  <2>6. ~RequestGranted /\ ~MessageReceived
    BY DEF RequestGranted, MessageReceived
  <2>7. \A n \in 0 .. NUM_PRIORITIES - 1, t \in Proc : ~k_change_priority(n, t)
    BY DEF k_change_priority
  <2> QED
    BY <2>1, <2>2, <2>3, <2>4, <2>5, <2>6, <2>7
       DEF Next, Terminated, vars, k_request_msg_env, k_receive_message
<1> QED
  BY <1>1, QueueInvAlways, PTL DEF Spec, MostUrgentWaiterWoken

-----------------------------------------------------------------------------
(* The abstract scheduler                                                  *)

(* Its lists, out of all the lists.                                        *)
ReadyPart(F) == [i \in 0 .. NUM_PRIORITIES |-> F[<<"ready", i>>]]
WaitPart(F)  == [i \in 0 .. NUM_PRIORITIES - 1 |-> F[<<"env_blocked", i>>]]

LEMMA ListsMapped ==
    /\ ReadyLists = ReadyPart(F0) /\ EnvBlockedLists = WaitPart(F0)
    /\ ReadyLists' = ReadyPart(Lists(queues')) /\ EnvBlockedLists' = WaitPart(Lists(queues'))
<1>1. \A L : \A q \in Queue : Lists(L)[q] = ListOf(L, q)
  BY DEF Lists
<1>2. \A L : /\ [i \in 0 .. NUM_PRIORITIES |-> ListOf(L, <<"ready", i>>)] = ReadyPart(Lists(L))
             /\ [i \in 0 .. NUM_PRIORITIES - 1 |-> ListOf(L, <<"env_blocked", i>>)] = WaitPart(Lists(L))
  BY <1>1, QueueNamed DEF ReadyPart, WaitPart
<1> QED
  BY <1>2 DEF ReadyLists, EnvBlockedLists, F0

LEMMA PutElsewhere ==
    ASSUME NEW F, F \in [Queue -> Seq(Proc)], NEW q \in Queue, NEW s
    PROVE  \A r \in Queue : Put(F, q, s)[r] = IF r = q THEN s ELSE F[r]
  BY DEF Put

LEMMA PutReady ==
    ASSUME NEW F, F \in [Queue -> Seq(Proc)], NEW i \in 0 .. NUM_PRIORITIES, NEW s
    PROVE  /\ ReadyPart(Put(F, <<"ready", i>>, s)) = [ReadyPart(F) EXCEPT ![i] = s]
           /\ WaitPart(Put(F, <<"ready", i>>, s)) = WaitPart(F)
<1> DEFINE G == Put(F, <<"ready", i>>, s)
<1>1. \A r \in Queue : G[r] = IF r = <<"ready", i>> THEN s ELSE F[r]
  BY PutElsewhere, QueueNamed
<1> HIDE DEF G
<1>2. \A j \in 0 .. NUM_PRIORITIES : G[<<"ready", j>>] = IF j = i THEN s ELSE F[<<"ready", j>>]
  BY <1>1, QueueNamed
<1>3. \A j \in 0 .. NUM_PRIORITIES - 1 : G[<<"env_blocked", j>>] = F[<<"env_blocked", j>>]
  BY <1>1, QueueNamed
<1>4. ReadyPart(G) = [ReadyPart(F) EXCEPT ![i] = s]
  BY <1>2 DEF ReadyPart
<1>5. WaitPart(G) = WaitPart(F)
  BY <1>3 DEF WaitPart
<1> QED
  BY <1>4, <1>5 DEF G

LEMMA PutWait ==
    ASSUME NEW F, F \in [Queue -> Seq(Proc)], NEW i \in 0 .. NUM_PRIORITIES - 1, NEW s
    PROVE  /\ WaitPart(Put(F, <<"env_blocked", i>>, s)) = [WaitPart(F) EXCEPT ![i] = s]
           /\ ReadyPart(Put(F, <<"env_blocked", i>>, s)) = ReadyPart(F)
<1> DEFINE G == Put(F, <<"env_blocked", i>>, s)
<1>1. \A r \in Queue : G[r] = IF r = <<"env_blocked", i>> THEN s ELSE F[r]
  BY PutElsewhere, QueueNamed
<1> HIDE DEF G
<1>2. \A j \in 0 .. NUM_PRIORITIES - 1 :
         G[<<"env_blocked", j>>] = IF j = i THEN s ELSE F[<<"env_blocked", j>>]
  BY <1>1, QueueNamed
<1>3. \A j \in 0 .. NUM_PRIORITIES : G[<<"ready", j>>] = F[<<"ready", j>>]
  BY <1>1, QueueNamed
<1>4. WaitPart(G) = [WaitPart(F) EXCEPT ![i] = s]
  BY <1>2 DEF WaitPart
<1>5. ReadyPart(G) = ReadyPart(F)
  BY <1>3 DEF ReadyPart
<1> QED
  BY <1>4, <1>5 DEF G

(* A context switch dispatches from the lists the caller left.             *)
LEMMA DispatchMapped ==
    ASSUME NEW F, F \in [Queue -> Seq(Proc)], \E q \in ready_pq : Dispatched(F, q)
    PROVE  /\ Abstract!Dispatch(ReadyPart(F))
           /\ EnvBlockedLists' = WaitPart(F)
<1>1. PICK q \in ready_pq : Dispatched(F, q)
  OBVIOUS
<1> DEFINE i == q[2]
           R == ReadyPart(F)
<1>2. q = <<"ready", i>> /\ i \in 0 .. NUM_PRIORITIES
  BY ReadyNamed
<1> HIDE DEF i
<1>3. \A j \in 0 .. NUM_PRIORITIES : /\ R[j] = F[<<"ready", j>>] /\ <<"ready", j>> \in ready_pq
                                     /\ <<"ready", j>>[2] = j
  BY ReadyNamed DEF ReadyPart
<1>4. DOMAIN R = 0 .. NUM_PRIORITIES
  BY DEF ReadyPart
<1> HIDE DEF R
<1>5. current_process' = Head(R[i])
  BY <1>1, <1>2, <1>3 DEF Dispatched
<1>6. R[i] # <<>> /\ \A j \in 0 .. NUM_PRIORITIES : j < i => R[j] = <<>>
  BY <1>1, <1>2, <1>3 DEF Dispatched, FirstOf
<1>7. ReadyLists' = [R EXCEPT ![i] = Tail(R[i])] /\ EnvBlockedLists' = WaitPart(F)
  <2>1. Lists(queues') = Put(F, <<"ready", i>>, Tail(F[<<"ready", i>>])) /\ R[i] = F[<<"ready", i>>]
    BY <1>1, <1>2, <1>3 DEF Dispatched
  <2> DEFINE t == Tail(F[<<"ready", i>>])
  <2> HIDE DEF t
  <2>2. /\ ReadyPart(Put(F, <<"ready", i>>, t)) = [ReadyPart(F) EXCEPT ![i] = t]
        /\ WaitPart(Put(F, <<"ready", i>>, t)) = WaitPart(F)
    BY <1>2, PutReady
  <2> QED
    BY <2>1, <2>2, ListsMapped DEF t, R
<1>8. Abstract!Dispatch(R)
  BY <1>2, <1>4, <1>5, <1>6, <1>7 DEF Abstract!Dispatch, Abstract!IsMostUrgent
<1> QED
  BY <1>7, <1>8 DEF R

LEMMA JoinMapped ==
    ASSUME QueueInv, NEW p \in Proc, NEW F, F \in [Queue -> Seq(Proc)]
    PROVE  /\ F0 \in [Queue -> Seq(Proc)]
           /\ ReadyJoined(F, p) \in [Queue -> Seq(Proc)]
           /\ ReadyPart(ReadyJoined(F, p)) =
                 [ReadyPart(F) EXCEPT ![priority[p]] = Append(ReadyPart(F)[priority[p]], p)]
           /\ WaitPart(ReadyJoined(F, p)) = WaitPart(F)
           /\ p # PROCESS_NULL_PID =>
                /\ WaitJoined(F, p) \in [Queue -> Seq(Proc)]
                /\ WaitPart(WaitJoined(F, p)) =
                      [WaitPart(F) EXCEPT ![priority[p]] = Append(WaitPart(F)[priority[p]], p)]
                /\ ReadyPart(WaitJoined(F, p)) = ReadyPart(F)
<1> DEFINE i == priority[p]
<1>1. /\ i \in 0 .. NUM_PRIORITIES /\ F0 \in [Queue -> Seq(Proc)]
      /\ p # PROCESS_NULL_PID => i \in 0 .. NUM_PRIORITIES - 1
  BY QueueOf, InvFacts DEF Right, Linked
<1>2. /\ ReadyQueue(p) = <<"ready", i>> /\ EnvBlockedQueue(p) = <<"env_blocked", i>>
      /\ ReadyQueue(p) \in Queue /\ (p # PROCESS_NULL_PID => EnvBlockedQueue(p) \in Queue)
  BY QueueOf DEF ReadyQueue, EnvBlockedQueue
<1> HIDE DEF i
<1>3. ReadyPart(F)[i] = F[<<"ready", i>>]
  BY <1>1 DEF ReadyPart
<1>4. p # PROCESS_NULL_PID => WaitPart(F)[i] = F[<<"env_blocked", i>>]
  BY <1>1 DEF WaitPart
<1>5. \A q \in Queue : Append(F[q], p) \in Seq(Proc)
  OBVIOUS
<1>6. \A q \in Queue : Put(F, q, Append(F[q], p)) \in [Queue -> Seq(Proc)]
  BY <1>5 DEF Put
<1>7. /\ ReadyJoined(F, p) = Put(F, <<"ready", i>>, Append(F[<<"ready", i>>], p))
      /\ WaitJoined(F, p) = Put(F, <<"env_blocked", i>>, Append(F[<<"env_blocked", i>>], p))
  BY <1>2 DEF ReadyJoined, WaitJoined
<1> DEFINE s == Append(F[<<"ready", i>>], p)
           t == Append(F[<<"env_blocked", i>>], p)
<1> HIDE DEF s, t
<1>8. /\ ReadyPart(Put(F, <<"ready", i>>, s)) = [ReadyPart(F) EXCEPT ![i] = s]
      /\ WaitPart(Put(F, <<"ready", i>>, s)) = WaitPart(F)
  BY <1>1, PutReady
<1>9. ASSUME p # PROCESS_NULL_PID
      PROVE  /\ WaitPart(Put(F, <<"env_blocked", i>>, t)) = [WaitPart(F) EXCEPT ![i] = t]
             /\ ReadyPart(Put(F, <<"env_blocked", i>>, t)) = ReadyPart(F)
  <2>1. i \in 0 .. NUM_PRIORITIES - 1
    BY <1>1, <1>9
  <2> QED
    BY <2>1, PutWait
<1>10. /\ ReadyJoined(F, p) \in [Queue -> Seq(Proc)]
       /\ p # PROCESS_NULL_PID => WaitJoined(F, p) \in [Queue -> Seq(Proc)]
  BY <1>2, <1>6, <1>7
<1> QED
  BY <1>1, <1>3, <1>4, <1>7, <1>8, <1>9, <1>10 DEF i, s, t

(* Each action of the kernel is a step of the abstract scheduler, or none. *)

LEMMA YieldMapped == ASSUME QueueInv, k_release_processor PROVE Abstract!Yield
<1> DEFINE c == current_process
           F == ReadyJoined(F0, c)
<1>1. /\ \E q \in ready_pq : Dispatched(F, q)
      /\ Receivers' = Receivers
      /\ UNCHANGED <<interrupted_process, priority>> /\ c \notin IProc /\ c \in Proc
  BY YieldLists, InvFacts DEF k_release_processor
<1>0. F0 \in [Queue -> Seq(Proc)]
  BY InvFacts DEF Right, Linked
<1>2. /\ F \in [Queue -> Seq(Proc)] /\ WaitPart(F) = WaitPart(F0)
      /\ ReadyPart(F) = [ReadyPart(F0) EXCEPT ![priority[c]] = Append(ReadyPart(F0)[priority[c]], c)]
  BY <1>0, <1>1, JoinMapped
<1> HIDE DEF F
<1>3. Abstract!Dispatch(ReadyPart(F)) /\ EnvBlockedLists' = WaitPart(F)
  BY <1>1, <1>2, DispatchMapped
<1>4. ReadyPart(F) = Abstract!JoinReady(c)
  BY <1>2, ListsMapped DEF Abstract!JoinReady
<1> QED
  BY <1>1, <1>2, <1>3, <1>4, ListsMapped DEF Abstract!Yield

LEMMA RequestMapped == ASSUME QueueInv, RequestBlocks PROVE Abstract!WaitForEnvelope
<1> DEFINE c == current_process
           F == WaitJoined(F0, c)
<1>1. /\ \E q \in ready_pq : Dispatched(F, q)
      /\ Receivers' = Receivers
      /\ UNCHANGED <<interrupted_process, priority>> /\ c \notin IProc /\ c \in Proc
      /\ c # PROCESS_NULL_PID
  BY RequestBlocksLists, InvFacts DEF RequestBlocks, AtRequest, Caller
<1>2. F0 \in [Queue -> Seq(Proc)]
  BY InvFacts DEF Right, Linked
<1>3. /\ F \in [Queue -> Seq(Proc)] /\ ReadyPart(F) = ReadyPart(F0)
      /\ WaitPart(F) = [WaitPart(F0) EXCEPT ![priority[c]] = Append(WaitPart(F0)[priority[c]], c)]
  BY <1>1, <1>2, JoinMapped
<1> HIDE DEF F
<1>4. Abstract!Dispatch(ReadyPart(F)) /\ EnvBlockedLists' = WaitPart(F)
  BY <1>1, <1>3, DispatchMapped
<1> QED
  BY <1>1, <1>3, <1>4, ListsMapped DEF Abstract!WaitForEnvelope

LEMMA ReceiveMapped == ASSUME QueueInv, ReceiveBlocks PROVE Abstract!WaitForMessage
<1>1. /\ \E q \in ready_pq : Dispatched(F0, q)
      /\ Receivers' = Receivers \cup {current_process}
      /\ UNCHANGED <<interrupted_process, priority>> /\ current_process \notin IProc
  BY ReceiveBlocksLists DEF ReceiveBlocks
<1>2. F0 \in [Queue -> Seq(Proc)]
  BY InvFacts DEF Right, Linked
<1>3. Abstract!Dispatch(ReadyPart(F0)) /\ EnvBlockedLists' = WaitPart(F0)
  BY <1>1, <1>2, DispatchMapped
<1> QED
  BY <1>1, <1>3, ListsMapped DEF Abstract!WaitForMessage

LEMMA SendMapped ==
    ASSUME QueueInv, NEW d \in Proc, NEW e \in Env, k_send_message(d, e)
    PROVE  (\E p \in Proc \ IProc : Abstract!MessageArrives(p)) \/ UNCHANGED Abstract!schedVars
<1>1. WakeReceiver(d) /\ UNCHANGED <<current_process, interrupted_process, priority>>
  BY DEF k_send_message
<1>2. CASE UNCHANGED <<status, queues>>
  BY <1>1, <1>2 DEF Abstract!schedVars, ReadyLists, EnvBlockedLists, Receivers
<1>3. CASE /\ d \in Threads /\ status[d] = "P_BLOCKED_ON_RECEIVE"
           /\ status' = Marked(status, d, "P_READY")
           /\ Lists(queues') = ReadyJoined(F0, d)
  <2>1. F0 \in [Queue -> Seq(Proc)]
    BY InvFacts DEF Right, Linked
  <2>2. /\ WaitPart(Lists(queues')) = WaitPart(F0)
        /\ ReadyPart(Lists(queues')) =
              [ReadyPart(F0) EXCEPT ![priority[d]] = Append(ReadyPart(F0)[priority[d]], d)]
    BY <1>3, <2>1, JoinMapped
  <2>3. Receivers' = Receivers \ {d} /\ d \in Receivers
    BY <1>3, InvFacts DEF Receivers, Marked, Threads
  <2>4. Abstract!MessageArrives(d)
    BY <1>1, <2>2, <2>3, ListsMapped DEF Abstract!MessageArrives, Abstract!JoinReady
  <2> QED
    BY <1>3, <2>4 DEF Threads
<1> QED
  BY <1>1, <1>2, <1>3, SendLists

LEMMA ReleaseMapped ==
    ASSUME QueueInv, NEW e \in Env, k_release_msg_env(e)
    PROVE  Abstract!EnvelopeBack \/ UNCHANGED Abstract!schedVars
<1>1. WakeEnvWaiter /\ UNCHANGED <<current_process, interrupted_process, priority>>
  BY DEF k_release_msg_env
<1>2. CASE UNCHANGED <<status, queues>>
  BY <1>1, <1>2 DEF Abstract!schedVars, ReadyLists, EnvBlockedLists, Receivers
<1>3. CASE \E q \in env_blocked_pq : Woken(q)
  <2>1. PICK q \in env_blocked_pq : Woken(q)
    BY <1>3
  <2> DEFINE i == q[2]
             p == Head(F0[q])
             K == Put(F0, q, Tail(F0[q]))
             W == WaitPart(F0)
  <2>2. q = <<"env_blocked", i>> /\ i \in 0 .. NUM_PRIORITIES - 1 /\ q \in Queue
    BY DEF env_blocked_pq, proc_pq_create, Queue
  <2>3. /\ p \in Threads /\ p \in Proc /\ status[p] = "P_BLOCKED_ON_ENV_REQUEST"
        /\ status' = Marked(status, p, "P_READY")
        /\ Lists(queues') = ReadyJoined(K, p)
    BY <2>1, <2>2 DEF Woken, Waits, Threads, StatusOf
  <2>4. F0 \in [Queue -> Seq(Proc)] /\ W[i] = F0[q]
    BY <2>2, InvFacts DEF Right, Linked, WaitPart
  <2>5. W[i] # <<>> /\ \A j \in 0 .. NUM_PRIORITIES - 1 : j < i => W[j] = <<>>
    <3>1. \A j \in 0 .. NUM_PRIORITIES - 1 : /\ W[j] = F0[<<"env_blocked", j>>]
                                             /\ <<"env_blocked", j>> \in env_blocked_pq
                                             /\ <<"env_blocked", j>>[2] = j
      BY DEF WaitPart, env_blocked_pq, proc_pq_create
    <3> HIDE DEF W
    <3> QED
      BY <2>1, <2>4, <3>1 DEF Woken, FirstOf
  <2>6. DOMAIN W = 0 .. NUM_PRIORITIES - 1
    BY DEF WaitPart
  <2>7. K \in [Queue -> Seq(Proc)]
    <3>1. Tail(F0[q]) \in Seq(Proc)
      BY <2>2, <2>4, <2>5
    <3> QED
      BY <2>2, <2>4, <3>1 DEF Put
  <2> DEFINE t == Tail(F0[q])
  <2> HIDE DEF t, i, p
  <2>8. /\ WaitPart(Put(F0, <<"env_blocked", i>>, t)) = [W EXCEPT ![i] = t]
        /\ ReadyPart(Put(F0, <<"env_blocked", i>>, t)) = ReadyPart(F0)
    <3>1. i \in 0 .. NUM_PRIORITIES - 1 /\ F0 \in [Queue -> Seq(Proc)]
      BY <2>2, <2>4
    <3> QED
      BY <3>1, PutWait
  <2>9. WaitPart(K) = [W EXCEPT ![i] = Tail(W[i])] /\ ReadyPart(K) = ReadyPart(F0)
    BY <2>2, <2>4, <2>8 DEF t
  <2> HIDE DEF K, W
  <2>10. /\ WaitPart(ReadyJoined(K, p)) = WaitPart(K)
         /\ ReadyPart(ReadyJoined(K, p)) =
               [ReadyPart(K) EXCEPT ![priority[p]] = Append(ReadyPart(K)[priority[p]], p)]
    BY <2>3, <2>7, JoinMapped
  <2>11. Receivers' = Receivers
    BY <2>3, InvFacts DEF Receivers, Marked, Threads
  <2>12. /\ EnvBlockedLists = W /\ EnvBlockedLists' = [W EXCEPT ![i] = Tail(W[i])]
         /\ ReadyLists' = [ReadyLists EXCEPT ![priority[p]] = Append(ReadyLists[priority[p]], p)]
    BY <2>3, <2>9, <2>10, ListsMapped DEF W
  <2>13. p = Head(W[i])
    BY <2>4 DEF p
  <2>14. Abstract!IsMostUrgent(EnvBlockedLists, i)
    BY <2>2, <2>5, <2>6, <2>12 DEF Abstract!IsMostUrgent
  <2>15. Abstract!EnvelopeBack
    BY <1>1, <2>2, <2>6, <2>11, <2>12, <2>13, <2>14 DEF Abstract!EnvelopeBack, Abstract!JoinReady
  <2> QED
    BY <2>15
<1> QED
  BY <1>1, <1>2, <1>3, WakeLists

(* A move within one kind of lists, as the abstract scheduler states it.   *)
LEMMA MovedParts ==
    ASSUME QueueInv, NEW p \in Threads, NEW n \in 0 .. NUM_PRIORITIES - 1, n # priority[p],
           priority[p] \in 0 .. NUM_PRIORITIES - 1
    PROVE  /\ p \in Elements(F0[<<"ready", priority[p]>>]) =>
                /\ ReadyPart(Moved(F0, "ready", p, n)) =
                      [ReadyPart(F0) EXCEPT ![priority[p]] = Without(@, p), ![n] = Append(@, p)]
                /\ WaitPart(Moved(F0, "ready", p, n)) = WaitPart(F0)
           /\ p \in Elements(F0[<<"env_blocked", priority[p]>>]) =>
                /\ WaitPart(Moved(F0, "env_blocked", p, n)) =
                      [WaitPart(F0) EXCEPT ![priority[p]] = Without(@, p), ![n] = Append(@, p)]
                /\ ReadyPart(Moved(F0, "env_blocked", p, n)) = ReadyPart(F0)
<1> DEFINE i == priority[p]
<1>1. /\ i \in 0 .. NUM_PRIORITIES - 1 /\ n # i
      /\ i \in 0 .. NUM_PRIORITIES /\ n \in 0 .. NUM_PRIORITIES
      /\ F0 \in [Queue -> Seq(Proc)] /\ Linked(Queue, queues, F0)
  BY InvFacts DEF Right, Linked
<1> HIDE DEF i
<1>2. ASSUME NEW kind \in {"ready", "env_blocked"}, p \in Elements(F0[<<kind, i>>])
      PROVE  /\ <<kind, i>> \in Queue /\ <<kind, n>> \in Queue
             /\ Put(F0, <<kind, i>>, Without(F0[<<kind, i>>], p)) \in [Queue -> Seq(Proc)]
  <2> DEFINE q == <<kind, i>>
             s == F0[q]
  <2>1. q \in Queue /\ <<kind, n>> \in Queue
    BY <1>1, QueueNamed
  <2> HIDE DEF q
  <2>2. s \in Seq(Proc) /\ Once(s)
    BY <1>1, <2>1, LinkedFacts
  <2>3. PICK k \in 1 .. Len(s) : s[k] = p
    BY <1>2 DEF Elements, q
  <2>4. Without(s, p) \in Seq(Proc)
    BY <2>2, <2>3, WithoutOnce
  <2> QED
    BY <1>1, <2>1, <2>4 DEF Put, q
<1>3. ASSUME p \in Elements(F0[<<"ready", i>>])
      PROVE  /\ ReadyPart(Moved(F0, "ready", p, n)) =
                   [ReadyPart(F0) EXCEPT ![i] = Without(@, p), ![n] = Append(@, p)]
             /\ WaitPart(Moved(F0, "ready", p, n)) = WaitPart(F0)
  <2> DEFINE R == ReadyPart(F0)
             w == Without(F0[<<"ready", i>>], p)
             a == Append(F0[<<"ready", n>>], p)
             K == Put(F0, <<"ready", i>>, w)
  <2>1. K \in [Queue -> Seq(Proc)]
    BY <1>2, <1>3
  <2>2. R[i] = F0[<<"ready", i>>] /\ R[n] = F0[<<"ready", n>>]
    BY <1>1 DEF ReadyPart
  <2>3. Moved(F0, "ready", p, n) = Put(K, <<"ready", n>>, a)
    BY DEF Moved, i
  <2> HIDE DEF w, a
  <2>4. ReadyPart(K) = [R EXCEPT ![i] = w] /\ WaitPart(K) = WaitPart(F0)
    BY <1>1, PutReady
  <2> HIDE DEF K
  <2>5. /\ ReadyPart(Put(K, <<"ready", n>>, a)) = [ReadyPart(K) EXCEPT ![n] = a]
        /\ WaitPart(Put(K, <<"ready", n>>, a)) = WaitPart(K)
    BY <1>1, <2>1, PutReady
  <2>6. ReadyPart(Moved(F0, "ready", p, n)) = [[R EXCEPT ![i] = w] EXCEPT ![n] = a]
    BY <2>3, <2>4, <2>5
  <2>7. w = Without(R[i], p) /\ a = Append(R[n], p)
    BY <2>2 DEF w, a
  <2> HIDE DEF R
  <2>8. [[R EXCEPT ![i] = w] EXCEPT ![n] = a] = [R EXCEPT ![i] = Without(@, p), ![n] = Append(@, p)]
    BY <1>1, <2>7
  <2> QED
    BY <2>3, <2>4, <2>5, <2>6, <2>8 DEF R
<1>4. ASSUME p \in Elements(F0[<<"env_blocked", i>>])
      PROVE  /\ WaitPart(Moved(F0, "env_blocked", p, n)) =
                   [WaitPart(F0) EXCEPT ![i] = Without(@, p), ![n] = Append(@, p)]
             /\ ReadyPart(Moved(F0, "env_blocked", p, n)) = ReadyPart(F0)
  <2> DEFINE W == WaitPart(F0)
             w == Without(F0[<<"env_blocked", i>>], p)
             a == Append(F0[<<"env_blocked", n>>], p)
             K == Put(F0, <<"env_blocked", i>>, w)
  <2>1. K \in [Queue -> Seq(Proc)]
    BY <1>2, <1>4
  <2>2. W[i] = F0[<<"env_blocked", i>>] /\ W[n] = F0[<<"env_blocked", n>>]
    BY <1>1 DEF WaitPart
  <2>3. Moved(F0, "env_blocked", p, n) = Put(K, <<"env_blocked", n>>, a)
    BY DEF Moved, i
  <2> HIDE DEF w, a
  <2>4. WaitPart(K) = [W EXCEPT ![i] = w] /\ ReadyPart(K) = ReadyPart(F0)
    BY <1>1, PutWait
  <2> HIDE DEF K
  <2>5. /\ WaitPart(Put(K, <<"env_blocked", n>>, a)) = [WaitPart(K) EXCEPT ![n] = a]
        /\ ReadyPart(Put(K, <<"env_blocked", n>>, a)) = ReadyPart(K)
    BY <1>1, <2>1, PutWait
  <2>6. WaitPart(Moved(F0, "env_blocked", p, n)) = [[W EXCEPT ![i] = w] EXCEPT ![n] = a]
    BY <2>3, <2>4, <2>5
  <2>7. w = Without(W[i], p) /\ a = Append(W[n], p)
    BY <2>2 DEF w, a
  <2> HIDE DEF W
  <2>8. [[W EXCEPT ![i] = w] EXCEPT ![n] = a] = [W EXCEPT ![i] = Without(@, p), ![n] = Append(@, p)]
    BY <1>1, <2>7
  <2> QED
    BY <2>3, <2>4, <2>5, <2>6, <2>8 DEF W
<1> QED
  BY <1>3, <1>4 DEF i

LEMMA PriorityMapped ==
    ASSUME QueueInv, ~TailMoves, NEW n \in 0 .. NUM_PRIORITIES - 1, NEW p \in Proc,
           k_change_priority(n, p)
    PROVE  p \in Proc \ IProc /\ Abstract!Reprioritise(p, n)
<1> DEFINE i == priority[p]
           Move(lists) == IF p \in Abstract!Elems(lists[priority[p]])
                          THEN [lists EXCEPT ![priority[p]] = Abstract!Without(@, p), ![n] = Append(@, p)]
                          ELSE lists
<1>1. /\ p \in Threads /\ n # i /\ p # PROCESS_NULL_PID
      /\ priority' = Marked(priority, p, n) /\ status' = status
      /\ status[p] = "P_READY" => Lists(queues') = Moved(F0, "ready", p, n)
      /\ status[p] = "P_BLOCKED_ON_ENV_REQUEST" => Lists(queues') = Moved(F0, "env_blocked", p, n)
      /\ ~Queued(status[p]) => Lists(queues') = F0
      /\ UNCHANGED <<current_process, interrupted_process>>
  BY PriorityLists DEF UserProc, k_change_priority
<1>2. i \in 0 .. NUM_PRIORITIES - 1 /\ i \in 0 .. NUM_PRIORITIES
  BY <1>1, QueueOf, InvFacts
<1>3. /\ ReadyLists[i] = F0[<<"ready", i>>] /\ EnvBlockedLists[i] = F0[<<"env_blocked", i>>]
      /\ p \in Elements(F0[<<"ready", i>>]) <=> status[p] = "P_READY"
      /\ p \in Elements(F0[<<"env_blocked", i>>]) <=> status[p] = "P_BLOCKED_ON_ENV_REQUEST"
  <2>1. ReadyPart(F0)[i] = F0[<<"ready", i>>] /\ WaitPart(F0)[i] = F0[<<"env_blocked", i>>]
    BY <1>2 DEF ReadyPart, WaitPart
  <2>2. /\ Elements(F0[<<"ready", i>>]) = Waits(Threads, status, priority, <<"ready", i>>)
        /\ Elements(F0[<<"env_blocked", i>>]) = Waits(Threads, status, priority, <<"env_blocked", i>>)
    BY <1>2, InvFacts, QueueNamed DEF Right
  <2> QED
    BY <1>1, <2>1, <2>2, ListsMapped DEF Waits, StatusOf
<1>4. \A s : Abstract!Elems(s) = Elements(s) /\ Abstract!Without(s, p) = Without(s, p)
  BY DEF Abstract!Elems, Elements, Abstract!Without, Without
<1>5. ReadyLists' = Move(ReadyLists) /\ EnvBlockedLists' = Move(EnvBlockedLists)
  <2> DEFINE MoveAll(lists) == [lists EXCEPT ![i] = Without(@, p), ![n] = Append(@, p)]
  <2>1. /\ Move(ReadyLists) = IF status[p] = "P_READY" THEN MoveAll(ReadyLists) ELSE ReadyLists
        /\ Move(EnvBlockedLists) = IF status[p] = "P_BLOCKED_ON_ENV_REQUEST"
                                   THEN MoveAll(EnvBlockedLists) ELSE EnvBlockedLists
    BY <1>3, <1>4
  <2> HIDE DEF Move
  <2>2. /\ status[p] = "P_READY" => /\ ReadyPart(Moved(F0, "ready", p, n)) = MoveAll(ReadyPart(F0))
                                    /\ WaitPart(Moved(F0, "ready", p, n)) = WaitPart(F0)
        /\ status[p] = "P_BLOCKED_ON_ENV_REQUEST" =>
              /\ WaitPart(Moved(F0, "env_blocked", p, n)) = MoveAll(WaitPart(F0))
              /\ ReadyPart(Moved(F0, "env_blocked", p, n)) = ReadyPart(F0)
    BY <1>1, <1>2, <1>3, MovedParts
  <2> HIDE DEF MoveAll, i
  <2>3. CASE status[p] = "P_READY"
    BY <1>1, <2>1, <2>2, <2>3, ListsMapped
  <2>4. CASE status[p] = "P_BLOCKED_ON_ENV_REQUEST"
    BY <1>1, <2>1, <2>2, <2>4, ListsMapped
  <2>5. CASE ~Queued(status[p])
    BY <1>1, <2>1, <2>5, ListsMapped DEF Queued
  <2> QED
    BY <2>3, <2>4, <2>5 DEF Queued
<1>6. Receivers' = Receivers
  BY <1>1 DEF Receivers
<1>7. priority' = [priority EXCEPT ![p] = n]
  BY <1>1 DEF Marked
<1> QED
  BY <1>1, <1>2, <1>5, <1>6, <1>7 DEF Abstract!Reprioritise, Threads

LEMMA InterruptMapped ==
    ASSUME QueueInv, NEW i \in IProc, flag = 0, Interrupt(i)
    PROVE  Abstract!Interrupt(i)
<1>1. /\ queues' = queues /\ interrupted_process = NULL /\ current_process' = i
      /\ interrupted_process' = current_process /\ priority' = priority
      /\ status' = Marked(Marked(status, current_process, "P_INTERRUPTED"), i, "P_EXECUTING")
  BY InvFacts DEF Interrupt, Marked
<1>2. /\ \A p \in Proc : p \notin {current_process, i} => status'[p] = status[p]
      /\ status'[current_process] # "P_BLOCKED_ON_RECEIVE"
      /\ status[current_process] # "P_BLOCKED_ON_RECEIVE"
  BY <1>1, InvFacts, ProcAssumption DEF Marked
<1>3. Receivers' = Receivers
  BY <1>2 DEF Receivers, Threads
<1> QED
  BY <1>1, <1>3 DEF Abstract!Interrupt, ReadyLists, EnvBlockedLists

LEMMA ReturnMapped == ASSUME QueueInv, k_i_process_exit PROVE Abstract!Return
<1> DEFINE c == current_process
           b == interrupted_process
<1>1. /\ queues' = queues /\ b # NULL /\ c' = b /\ b' = NULL /\ priority' = priority
      /\ status' = Marked(Marked(status, c, "P_READY"), b, "P_EXECUTING")
  BY ExitLists, InvFacts DEF k_i_process_exit, Marked, SchedInv
<1>2. c \in IProc /\ status[b] = "P_INTERRUPTED" /\ b \in Proc
  BY <1>1, InvFacts DEF SchedInv, TypeOK, ProcOrNull, StatusFollowsProcessor
<1>3. /\ \A p \in Proc : p \notin {c, b} => status'[p] = status[p]
      /\ status'[b] # "P_BLOCKED_ON_RECEIVE"
  BY <1>1, <1>2, InvFacts DEF Marked
<1>4. Receivers' = Receivers
  BY <1>2, <1>3 DEF Receivers, Threads
<1> QED
  BY <1>1, <1>4 DEF Abstract!Return, ReadyLists, EnvBlockedLists

(* At boot the lists are in pid order and the dispatched process, the      *)
(* first of its list, is missing from it.                                  *)
LEMMA InitMapped == ASSUME Init PROVE Abstract!SchedInit
<1> DEFINE c == current_process
           F == Lists(BootQueues)
           st == [p \in Proc |-> "P_READY"]
<1>1. PICK q \in ready_pq : /\ FirstOf(F, ready_pq, q)
                            /\ c \in Waits(Threads, st, InitPriority, q)
                            /\ F0 = Put(F, q, Tail(F[q]))
  BY BootDispatch
<1>2. /\ SchedInv /\ Right(Queue, Threads, queues, F0, status, priority)
      /\ \A r \in Queue : Ascending(F[r]) /\ Elements(F[r]) = Waits(Threads, st, InitPriority, r)
      /\ F \in [Queue -> Seq(Proc)]
  BY BootDispatch, BootRight DEF Right, Linked
<1>3. /\ interrupted_process = NULL /\ priority = InitPriority
      /\ status = [p \in Proc |-> IF p = c THEN "P_EXECUTING" ELSE "P_READY"]
  BY DEF Init
<1>4. /\ c \in Proc \ IProc /\ c \in Threads /\ InitPriority[c] = q[2]
      /\ q = <<"ready", q[2]>> /\ q \in Queue /\ q[2] \in 0 .. NUM_PRIORITIES
  BY <1>1, ReadyNamed DEF Waits, Threads
<1>5. Receivers = {}
  BY <1>3 DEF Receivers, Threads
<1>6. EnvBlockedLists = [i \in 0 .. NUM_PRIORITIES - 1 |-> <<>>]
  <2>1. \A i \in 0 .. NUM_PRIORITIES - 1 : F0[<<"env_blocked", i>>] = <<>>
    <3> TAKE i \in 0 .. NUM_PRIORITIES - 1
    <3> DEFINE r == <<"env_blocked", i>>
    <3>1. r \in Queue /\ StatusOf(r) = "P_BLOCKED_ON_ENV_REQUEST"
      BY QueueNamed
    <3>2. Waits(Threads, status, priority, r) = {}
      BY <1>3, <3>1 DEF Waits, Threads
    <3>3. Elements(F0[r]) = {} /\ F0[r] \in Seq(Proc)
      BY <1>2, <3>1, <3>2 DEF Right, Linked
    <3> HIDE DEF r
    <3> DEFINE s == F0[r]
    <3> HIDE DEF s
    <3>4. s \in Seq(Proc) /\ Elements(s) = {}
      BY <3>3 DEF s
    <3>5. \A k \in 1 .. Len(s) : FALSE
      BY <3>4 DEF Elements
    <3>6. s = <<>>
      <4>1. Len(s) \in Nat /\ (Len(s) = 0 => s = <<>>)
        BY <3>4
      <4>2. Len(s) = 0
        BY <3>5, <4>1
      <4> QED
        BY <4>1, <4>2
    <3> QED
      BY <3>6 DEF r, s
  <2> QED
    BY <2>1, ListsMapped DEF WaitPart
<1>7. ASSUME NEW i \in 0 .. NUM_PRIORITIES
      PROVE  /\ Elements(ReadyLists[i]) = {p \in Proc \ IProc : InitPriority[p] = i} \ {c}
             /\ Ascending(ReadyLists[i])
             /\ ReadyLists[i] # <<>> => InitPriority[c] <= i
  <2> DEFINE r == <<"ready", i>>
  <2>1. /\ r \in Queue /\ r \in ready_pq /\ StatusOf(r) = "P_READY" /\ r[2] = i
        /\ ReadyLists[i] = F0[r]
    BY QueueNamed, ReadyNamed, ListsMapped DEF ReadyPart
  <2>2. Elements(F0[r]) = Waits(Threads, status, priority, r)
    BY <1>2, <2>1 DEF Right
  <2>3. Waits(Threads, status, priority, r) = {p \in Proc \ IProc : InitPriority[p] = i} \ {c}
    BY <1>3, <2>1 DEF Waits, Threads
  <2>4. F0[r] = IF r = q THEN Tail(F[q]) ELSE F[r]
    <3> DEFINE t == Tail(F[q])
    <3>1. F0 = Put(F, q, t) /\ F \in [Queue -> Seq(Proc)] /\ q \in Queue
      BY <1>1, <1>2, <1>4
    <3> HIDE DEF t, F, r
    <3>2. Put(F, q, t)[r] = IF r = q THEN t ELSE F[r]
      BY <2>1, <3>1 DEF Put
    <3> QED
      BY <3>1, <3>2 DEF t
  <2>5. Ascending(F0[r])
    <3>1. CASE r # q
      BY <1>2, <2>1, <2>4, <3>1
    <3>2. CASE r = q
      <4> DEFINE s == F[q]
      <4>1. s \in Seq(Proc) /\ s # <<>> /\ Ascending(s)
        BY <1>1, <1>2, <1>4 DEF FirstOf
      <4> HIDE DEF s
      <4>2. /\ Len(s) \in Nat /\ Len(Tail(s)) = Len(s) - 1
            /\ \A j \in 1 .. Len(s) - 1 : Tail(s)[j] = s[j + 1]
        BY <4>1
      <4>3. \A j, k \in 1 .. Len(s) - 1 : j < k => s[j + 1] < s[k + 1]
        BY <4>1, <4>2 DEF Ascending
      <4>4. Ascending(Tail(s))
        BY <4>2, <4>3 DEF Ascending
      <4> QED
        BY <2>4, <3>2, <4>4 DEF s
    <3> QED
      BY <3>1, <3>2
  <2>6. F0[r] # <<>> => ~(i < q[2])
    <3>1. i < q[2] => r # q /\ F[r] = <<>>
      BY <1>1, <1>4, <2>1 DEF FirstOf
    <3> QED
      BY <2>4, <3>1
  <2>7. F0[r] # <<>> => q[2] <= i
    BY <1>4, <2>6
  <2> QED
    BY <1>4, <2>1, <2>2, <2>3, <2>5, <2>7
<1>8. \A s : Abstract!Elems(s) = Elements(s)
  BY DEF Abstract!Elems, Elements
<1> QED
  BY <1>3, <1>4, <1>5, <1>6, <1>7, <1>8 DEF Abstract!SchedInit, Ascending

LEMMA StepMapped ==
    QueueInv /\ ~TailMoves /\ [Next]_vars => [Abstract!SchedNext]_(Abstract!schedVars)
<1> SUFFICES ASSUME QueueInv, ~TailMoves, [Next]_vars
             PROVE  [Abstract!SchedNext]_(Abstract!schedVars)
  OBVIOUS
<1>1. CASE k_release_processor
  BY <1>1, YieldMapped DEF Abstract!SchedNext
<1>2. ASSUME NEW n \in 0 .. NUM_PRIORITIES - 1, NEW p \in Proc, k_change_priority(n, p)
      PROVE  [Abstract!SchedNext]_(Abstract!schedVars)
  BY <1>2, PriorityMapped DEF Abstract!SchedNext
<1>3. CASE RequestBlocks
  BY <1>3, RequestMapped DEF Abstract!SchedNext
<1>4. CASE ReceiveBlocks
  BY <1>4, ReceiveMapped DEF Abstract!SchedNext
<1>5. ASSUME NEW e \in Env, k_release_msg_env(e)
      PROVE  [Abstract!SchedNext]_(Abstract!schedVars)
  BY <1>5, ReleaseMapped DEF Abstract!SchedNext
<1>6. ASSUME NEW d \in Proc, NEW e \in Env, k_send_message(d, e)
      PROVE  [Abstract!SchedNext]_(Abstract!schedVars)
  BY <1>6, SendMapped DEF Abstract!SchedNext
<1>7. ASSUME NEW i \in IProc, flag = 0, Interrupt(i)
      PROVE  [Abstract!SchedNext]_(Abstract!schedVars)
  BY <1>7, InterruptMapped DEF Abstract!SchedNext
<1>8. CASE k_i_process_exit
  BY <1>8, ReturnMapped DEF Abstract!SchedNext
<1>9. CASE RequestGranted \/ MessageReceived \/ Abort \/ UNCHANGED vars
  <2>1. UNCHANGED <<current_process, interrupted_process, status, priority, queues>>
    BY <1>9 DEF RequestGranted, MessageReceived, Abort, vars
  <2> QED
    BY <2>1 DEF Abstract!schedVars, ReadyLists, EnvBlockedLists, Receivers
<1> QED
  BY <1>1, <1>2, <1>3, <1>4, <1>5, <1>6, <1>7, <1>8, <1>9
     DEF Next, Terminated, k_request_msg_env, k_receive_message, k_i_process_enter

(* Seen through a traversal of the links, the kernel is a scheduler with   *)
(* one first-in first-out list per priority: it starts as that scheduler   *)
(* does, and each of its steps is one of the scheduler's or changes        *)
(* nothing the scheduler has.                                              *)
THEOREM KernelImplementsScheduler == ~TailMoves => (Spec => ImplementsScheduler)
<1> SUFFICES ASSUME ~TailMoves PROVE Spec => ImplementsScheduler
  OBVIOUS
<1>1. Init => Abstract!SchedInit
  BY InitMapped
<1>2. QueueInv /\ [Next]_vars => [Abstract!SchedNext]_(Abstract!schedVars)
  BY StepMapped
<1> QED
  BY <1>1, <1>2, QueueInvAlways, PTL DEF Spec, ImplementsScheduler, Abstract!SchedSpec

-----------------------------------------------------------------------------
(* Appending a new element, and dropping the first, of a list without      *)
(* repetitions.                                                            *)
LEMMA AppendElement ==
    ASSUME NEW s \in Seq(Env), NEW e \in Env
    PROVE  /\ Elements(Append(s, e)) = Elements(s) \cup {e}
           /\ Once(s) /\ e \notin Elements(s) => Once(Append(s, e))
<1>1. /\ Len(s) \in Nat /\ Len(Append(s, e)) = Len(s) + 1
      /\ \A i \in 1 .. Len(s) : Append(s, e)[i] = s[i]
      /\ Append(s, e)[Len(s) + 1] = e
  OBVIOUS
<1>2. \A i \in 1 .. Len(s) + 1 : i \in 1 .. Len(s) \/ i = Len(s) + 1
  BY <1>1
<1>3. \A i \in 1 .. Len(s) : i \in 1 .. Len(s) + 1
  BY <1>1
<1>4. Len(s) + 1 \in 1 .. Len(s) + 1
  BY <1>1
<1> HIDE DEF Append, Len
<1>5. Elements(Append(s, e)) = Elements(s) \cup {e}
  BY <1>1, <1>2, <1>3, <1>4, Zenon DEF Elements
<1>6. ASSUME Once(s), e \notin Elements(s) PROVE Once(Append(s, e))
  <2>1. \A i \in 1 .. Len(s) : s[i] # e
    BY <1>6 DEF Elements
  <2> QED
    BY <1>1, <1>2, <1>6, <2>1 DEF Once
<1> QED
  BY <1>5, <1>6

LEMMA DropHead ==
    ASSUME NEW s \in Seq(Env), s # <<>>, Once(s)
    PROVE  /\ Head(s) \in Elements(s) /\ Head(s) \in Env
           /\ Elements(Tail(s)) = Elements(s) \ {Head(s)}
           /\ Once(Tail(s))
<1>1. /\ Len(s) \in Nat /\ Len(s) # 0 /\ Len(Tail(s)) = Len(s) - 1 /\ Head(s) = s[1]
      /\ \A i \in 1 .. Len(Tail(s)) : Tail(s)[i] = s[i + 1]
  OBVIOUS
<1>2. s[1] \in Env /\ 1 \in 1 .. Len(s)
  BY <1>1
<1>3. Head(s) \in Elements(s) /\ Head(s) \in Env
  BY <1>1, <1>2 DEF Elements
<1>4. \A i \in 1 .. Len(Tail(s)) : i + 1 \in 1 .. Len(s) /\ i + 1 # 1
  BY <1>1
<1>5. \A i \in 1 .. Len(s) : i # 1 => i - 1 \in 1 .. Len(Tail(s)) /\ Tail(s)[i - 1] = s[i]
  BY <1>1
<1>6. Once(Tail(s))
  <2> SUFFICES ASSUME NEW i \in 1 .. Len(Tail(s)), NEW j \in 1 .. Len(Tail(s)), Tail(s)[i] = Tail(s)[j]
               PROVE  i = j
    BY DEF Once
  <2>1. s[i + 1] = s[j + 1] /\ i + 1 \in 1 .. Len(s) /\ j + 1 \in 1 .. Len(s)
    BY <1>1, <1>4
  <2>2. i + 1 = j + 1
    BY <2>1 DEF Once
  <2> QED
    BY <1>1, <2>2
<1>7. Elements(Tail(s)) \subseteq Elements(s) \ {Head(s)}
  <2> SUFFICES ASSUME NEW i \in 1 .. Len(Tail(s))
               PROVE  Tail(s)[i] \in Elements(s) /\ Tail(s)[i] # s[1]
    BY <1>1 DEF Elements
  <2>1. Tail(s)[i] = s[i + 1] /\ i + 1 \in 1 .. Len(s) /\ i + 1 # 1
    BY <1>1, <1>4
  <2> QED
    BY <1>2, <2>1 DEF Elements, Once
<1>8. Elements(s) \ {Head(s)} \subseteq Elements(Tail(s))
  <2> SUFFICES ASSUME NEW i \in 1 .. Len(s), s[i] # s[1]
               PROVE  s[i] \in Elements(Tail(s))
    BY <1>1 DEF Elements
  <2>1. i - 1 \in 1 .. Len(Tail(s)) /\ Tail(s)[i - 1] = s[i]
    BY <1>5
  <2> QED
    BY <2>1 DEF Elements
<1> QED
  BY <1>3, <1>6, <1>7, <1>8

-----------------------------------------------------------------------------
(* The initial free list holds every envelope once: it is a surjection     *)
(* from 1 .. Cardinality(Env) to Env, hence an injection.                  *)
LEMMA PoolOnce == Init => Once(free_env_q) /\ Elements(free_env_q) = Env
<1> SUFFICES ASSUME Init PROVE Once(free_env_q) /\ Elements(free_env_q) = Env
  OBVIOUS
<1> DEFINE n == Cardinality(Env)
<1>1. n \in Nat
  BY EnvAssumption, FS_CardinalityType
<1>2. free_env_q \in [1 .. n -> Env] /\ Elements(free_env_q) = Env
  BY DEF Init
<1>3. Len(free_env_q) = n
  BY <1>1, <1>2
<1>4. IsFiniteSet(1 .. n) /\ Cardinality(1 .. n) = n
  BY <1>1, OneToN, Zenon
<1>5. free_env_q \in Surjection(1 .. n, Env)
  BY <1>2, <1>3 DEF Surjection, Elements
<1>6. free_env_q \in Injection(1 .. n, Env)
  BY <1>4, <1>5, FS_SurjSameCardinalityImpliesInj
<1> QED
  BY <1>2, <1>3, <1>6 DEF Injection, IsInjective, Once

LEMMA ConservedInit == Init => EnvelopesConserved
<1> SUFFICES ASSUME Init PROVE EnvelopesConserved
  OBVIOUS
<1>1. Once(free_env_q) /\ Elements(free_env_q) = Env
  BY PoolOnce
<1>2. \A p \in Proc : recv_msgs[p] = <<>> /\ held[p] = {}
  BY DEF Init
<1>3. Elements(<<>>) = {} /\ Once(<<>>)
  BY DEF Elements, Once
<1> QED
  BY <1>1, <1>2, <1>3 DEF EnvelopesConserved, NoEnvelopeMissing, NoEnvelopeInTwoPlaces

-----------------------------------------------------------------------------
(* One envelope moves; the conditions are those of the four places.        *)
LEMMA ConservedNext ==
    TypeOK /\ EnvelopesConserved /\ [Next]_vars => EnvelopesConserved'
<1> SUFFICES ASSUME TypeOK, EnvelopesConserved, [Next]_vars
             PROVE  EnvelopesConserved'
  OBVIOUS
<1> DEFINE c == current_process
           F == Elements(free_env_q)
           M(p) == Elements(recv_msgs[p])
<1>0. c \in Proc
  BY DEF TypeOK
<1>1. CASE RequestGranted
  <2> DEFINE e == Head(free_env_q)
  <2>1. /\ free_env_q' = Tail(free_env_q) /\ free_env_q # <<>> /\ recv_msgs' = recv_msgs
        /\ held' = [held EXCEPT ![c] = @ \cup {e}]
    BY <1>1 DEF RequestGranted
  <2>2. e \in F /\ Elements(Tail(free_env_q)) = F \ {e} /\ Once(Tail(free_env_q))
    BY <2>1, DropHead DEF TypeOK, EnvelopesConserved
  <2> HIDE DEF e
  <2>3. \A x : x \in Elements(free_env_q') <=> x \in F /\ x # e
    BY <2>1, <2>2
  <2>4. \A p \in Proc : \A x : x \in Elements(recv_msgs'[p]) <=> x \in M(p)
    BY <2>1
  <2>5. \A p \in Proc : \A x : x \in held'[p] <=> x \in held[p] \/ (p = c /\ x = e)
    BY <2>1 DEF TypeOK
  <2>6. Once(free_env_q') /\ \A p \in Proc : Once(recv_msgs'[p])
    BY <2>1, <2>2 DEF EnvelopesConserved
  <2>7. \A p \in Proc : e \notin M(p) /\ e \notin held[p]
    BY <2>2 DEF EnvelopesConserved, NoEnvelopeInTwoPlaces
  <2>8. NoEnvelopeMissing'
    <3> SUFFICES ASSUME NEW x \in Env
                 PROVE  \/ x \in Elements(free_env_q')
                        \/ \E p \in Proc : x \in Elements(recv_msgs'[p]) \/ x \in held'[p]
      BY DEF NoEnvelopeMissing
    <3>1. x \in F \/ \E p \in Proc : x \in M(p) \/ x \in held[p]
      BY DEF EnvelopesConserved, NoEnvelopeMissing
    <3>2. CASE x = e
      BY <1>0, <2>3, <2>4, <2>5, <3>2
    <3>3. CASE x # e
      BY <2>3, <2>4, <2>5, <3>1, <3>3
    <3> QED
      BY <3>2, <3>3
  <2>9. NoEnvelopeInTwoPlaces'
    <3>1. \A x \in Elements(free_env_q'), p \in Proc :
             x \notin Elements(recv_msgs'[p]) /\ x \notin held'[p]
      BY <2>3, <2>4, <2>5, <2>7 DEF EnvelopesConserved, NoEnvelopeInTwoPlaces
    <3>2. \A p, r \in Proc : \A x \in Elements(recv_msgs'[p]) : x \notin held'[r]
      BY <2>4, <2>5, <2>7 DEF EnvelopesConserved, NoEnvelopeInTwoPlaces
    <3>3. \A p, r \in Proc : \A x \in Elements(recv_msgs'[p]) :
             p # r => x \notin Elements(recv_msgs'[r])
      BY <2>4, <2>7 DEF EnvelopesConserved, NoEnvelopeInTwoPlaces
    <3>4. \A p, r \in Proc : \A x \in held'[p] : p # r => x \notin held'[r]
      BY <2>5, <2>7 DEF EnvelopesConserved, NoEnvelopeInTwoPlaces
    <3> QED
      BY <3>1, <3>2, <3>3, <3>4 DEF NoEnvelopeInTwoPlaces
  <2> QED
    BY <2>6, <2>8, <2>9 DEF EnvelopesConserved
<1>2. ASSUME NEW e \in Env, k_release_msg_env(e)
      PROVE  EnvelopesConserved'
  <2>1. /\ free_env_q' = Append(free_env_q, e) /\ recv_msgs' = recv_msgs
        /\ held' = [held EXCEPT ![c] = @ \ {e}] /\ e \in held[c]
    BY <1>2 DEF k_release_msg_env
  <2>2. e \notin F
    BY <1>0, <2>1 DEF EnvelopesConserved, NoEnvelopeInTwoPlaces
  <2>3. \A x : x \in Elements(free_env_q') <=> x \in F \/ x = e
    BY <2>1, AppendElement DEF TypeOK
  <2>4. \A p \in Proc : \A x : x \in Elements(recv_msgs'[p]) <=> x \in M(p)
    BY <2>1
  <2>5. \A p \in Proc : \A x : x \in held'[p] <=> x \in held[p] /\ ~(p = c /\ x = e)
    BY <2>1 DEF TypeOK
  <2>6. Once(free_env_q') /\ \A p \in Proc : Once(recv_msgs'[p])
    BY <2>1, <2>2, AppendElement DEF TypeOK, EnvelopesConserved
  <2>7. \A p \in Proc : e \notin M(p) /\ (p # c => e \notin held[p])
    BY <1>0, <2>1 DEF EnvelopesConserved, NoEnvelopeInTwoPlaces
  <2>8. NoEnvelopeMissing'
    <3> SUFFICES ASSUME NEW x \in Env
                 PROVE  \/ x \in Elements(free_env_q')
                        \/ \E p \in Proc : x \in Elements(recv_msgs'[p]) \/ x \in held'[p]
      BY DEF NoEnvelopeMissing
    <3>1. x \in F \/ \E p \in Proc : x \in M(p) \/ x \in held[p]
      BY DEF EnvelopesConserved, NoEnvelopeMissing
    <3>2. CASE x = e
      BY <1>0, <2>3, <2>4, <2>5, <3>2
    <3>3. CASE x # e
      BY <2>3, <2>4, <2>5, <3>1, <3>3
    <3> QED
      BY <3>2, <3>3
  <2>9. NoEnvelopeInTwoPlaces'
    <3>1. \A x \in Elements(free_env_q'), p \in Proc :
             x \notin Elements(recv_msgs'[p]) /\ x \notin held'[p]
      BY <2>3, <2>4, <2>5, <2>7 DEF EnvelopesConserved, NoEnvelopeInTwoPlaces
    <3>2. \A p, r \in Proc : \A x \in Elements(recv_msgs'[p]) : x \notin held'[r]
      BY <2>4, <2>5, <2>7 DEF EnvelopesConserved, NoEnvelopeInTwoPlaces
    <3>3. \A p, r \in Proc : \A x \in Elements(recv_msgs'[p]) :
             p # r => x \notin Elements(recv_msgs'[r])
      BY <2>4, <2>7 DEF EnvelopesConserved, NoEnvelopeInTwoPlaces
    <3>4. \A p, r \in Proc : \A x \in held'[p] : p # r => x \notin held'[r]
      BY <2>5, <2>7 DEF EnvelopesConserved, NoEnvelopeInTwoPlaces
    <3> QED
      BY <3>1, <3>2, <3>3, <3>4 DEF NoEnvelopeInTwoPlaces
  <2> QED
    BY <2>6, <2>8, <2>9 DEF EnvelopesConserved
<1>3. ASSUME NEW d \in Proc, NEW e \in Env, k_send_message(d, e)
      PROVE  EnvelopesConserved'
  <2>1. /\ recv_msgs' = [recv_msgs EXCEPT ![d] = Append(@, e)] /\ free_env_q' = free_env_q
        /\ held' = [held EXCEPT ![c] = @ \ {e}] /\ e \in held[c]
    BY <1>3 DEF k_send_message
  <2>2. /\ \A p \in Proc : recv_msgs'[p] = IF p = d THEN Append(recv_msgs[d], e) ELSE recv_msgs[p]
        /\ recv_msgs[d] \in Seq(Env) /\ Once(recv_msgs[d]) /\ e \notin M(d)
    BY <1>0, <2>1 DEF TypeOK, EnvelopesConserved, NoEnvelopeInTwoPlaces
  <2>3. \A x : x \in Elements(free_env_q') <=> x \in F
    BY <2>1
  <2>4. \A p \in Proc : \A x : x \in Elements(recv_msgs'[p]) <=> x \in M(p) \/ (p = d /\ x = e)
    BY <2>2, AppendElement
  <2>5. \A p \in Proc : \A x : x \in held'[p] <=> x \in held[p] /\ ~(p = c /\ x = e)
    BY <2>1 DEF TypeOK
  <2>6. Once(free_env_q') /\ \A p \in Proc : Once(recv_msgs'[p])
    BY <2>1, <2>2, AppendElement DEF EnvelopesConserved
  <2>7. /\ e \notin F
        /\ \A p \in Proc : e \notin M(p) /\ (p # c => e \notin held[p])
    BY <1>0, <2>1 DEF EnvelopesConserved, NoEnvelopeInTwoPlaces
  <2>8. NoEnvelopeMissing'
    <3> SUFFICES ASSUME NEW x \in Env
                 PROVE  \/ x \in Elements(free_env_q')
                        \/ \E p \in Proc : x \in Elements(recv_msgs'[p]) \/ x \in held'[p]
      BY DEF NoEnvelopeMissing
    <3>1. x \in F \/ \E p \in Proc : x \in M(p) \/ x \in held[p]
      BY DEF EnvelopesConserved, NoEnvelopeMissing
    <3>2. CASE x = e
      BY <1>0, <2>3, <2>4, <2>5, <3>2
    <3>3. CASE x # e
      BY <2>3, <2>4, <2>5, <3>1, <3>3
    <3> QED
      BY <3>2, <3>3
  <2>9. NoEnvelopeInTwoPlaces'
    <3>1. \A x \in Elements(free_env_q'), p \in Proc :
             x \notin Elements(recv_msgs'[p]) /\ x \notin held'[p]
      BY <2>3, <2>4, <2>5, <2>7 DEF EnvelopesConserved, NoEnvelopeInTwoPlaces
    <3>2. \A p, r \in Proc : \A x \in Elements(recv_msgs'[p]) : x \notin held'[r]
      BY <2>4, <2>5, <2>7 DEF EnvelopesConserved, NoEnvelopeInTwoPlaces
    <3>3. \A p, r \in Proc : \A x \in Elements(recv_msgs'[p]) :
             p # r => x \notin Elements(recv_msgs'[r])
      BY <2>4, <2>7 DEF EnvelopesConserved, NoEnvelopeInTwoPlaces
    <3>4. \A p, r \in Proc : \A x \in held'[p] : p # r => x \notin held'[r]
      BY <2>5, <2>7 DEF EnvelopesConserved, NoEnvelopeInTwoPlaces
    <3> QED
      BY <3>1, <3>2, <3>3, <3>4 DEF NoEnvelopeInTwoPlaces
  <2> QED
    BY <2>6, <2>8, <2>9 DEF EnvelopesConserved
<1>4. CASE MessageReceived
  <2> DEFINE e == Head(recv_msgs[c])
  <2>1. /\ recv_msgs' = [recv_msgs EXCEPT ![c] = Tail(recv_msgs[c])] /\ recv_msgs[c] # <<>>
        /\ free_env_q' = free_env_q
        /\ held' = [held EXCEPT ![c] = @ \cup {e}]
    BY <1>4 DEF MessageReceived, MailAfterReceive
  <2>2. /\ e \in M(c) /\ Elements(Tail(recv_msgs[c])) = M(c) \ {e} /\ Once(Tail(recv_msgs[c]))
        /\ \A p \in Proc : recv_msgs'[p] = IF p = c THEN Tail(recv_msgs[c]) ELSE recv_msgs[p]
    BY <1>0, <2>1, DropHead DEF TypeOK, EnvelopesConserved
  <2> HIDE DEF e
  <2>3. \A x : x \in Elements(free_env_q') <=> x \in F
    BY <2>1
  <2>4. \A p \in Proc : \A x : x \in Elements(recv_msgs'[p]) <=> x \in M(p) /\ ~(p = c /\ x = e)
    BY <2>2
  <2>5. \A p \in Proc : \A x : x \in held'[p] <=> x \in held[p] \/ (p = c /\ x = e)
    BY <2>1 DEF TypeOK
  <2>6. Once(free_env_q') /\ \A p \in Proc : Once(recv_msgs'[p])
    BY <2>1, <2>2 DEF EnvelopesConserved
  <2>7. /\ e \notin F
        /\ \A p \in Proc : e \notin held[p] /\ (p # c => e \notin M(p))
    BY <1>0, <2>2 DEF EnvelopesConserved, NoEnvelopeInTwoPlaces
  <2>8. NoEnvelopeMissing'
    <3> SUFFICES ASSUME NEW x \in Env
                 PROVE  \/ x \in Elements(free_env_q')
                        \/ \E p \in Proc : x \in Elements(recv_msgs'[p]) \/ x \in held'[p]
      BY DEF NoEnvelopeMissing
    <3>1. x \in F \/ \E p \in Proc : x \in M(p) \/ x \in held[p]
      BY DEF EnvelopesConserved, NoEnvelopeMissing
    <3>2. CASE x = e
      BY <1>0, <2>3, <2>4, <2>5, <3>2
    <3>3. CASE x # e
      BY <2>3, <2>4, <2>5, <3>1, <3>3
    <3> QED
      BY <3>2, <3>3
  <2>9. NoEnvelopeInTwoPlaces'
    <3>1. \A x \in Elements(free_env_q'), p \in Proc :
             x \notin Elements(recv_msgs'[p]) /\ x \notin held'[p]
      BY <2>3, <2>4, <2>5, <2>7 DEF EnvelopesConserved, NoEnvelopeInTwoPlaces
    <3>2. \A p, r \in Proc : \A x \in Elements(recv_msgs'[p]) : x \notin held'[r]
      BY <2>4, <2>5, <2>7 DEF EnvelopesConserved, NoEnvelopeInTwoPlaces
    <3>3. \A p, r \in Proc : \A x \in Elements(recv_msgs'[p]) :
             p # r => x \notin Elements(recv_msgs'[r])
      BY <2>4, <2>7 DEF EnvelopesConserved, NoEnvelopeInTwoPlaces
    <3>4. \A p, r \in Proc : \A x \in held'[p] : p # r => x \notin held'[r]
      BY <2>5, <2>7 DEF EnvelopesConserved, NoEnvelopeInTwoPlaces
    <3> QED
      BY <3>1, <3>2, <3>3, <3>4 DEF NoEnvelopeInTwoPlaces
  <2> QED
    BY <2>6, <2>8, <2>9 DEF EnvelopesConserved
<1>5. ASSUME UNCHANGED <<free_env_q, recv_msgs, held>>
      PROVE  EnvelopesConserved'
  BY <1>5 DEF EnvelopesConserved, NoEnvelopeMissing, NoEnvelopeInTwoPlaces
<1> QED
  BY <1>1, <1>2, <1>3, <1>4, <1>5
     DEF Next, Terminated, vars, k_release_processor, k_change_priority, k_request_msg_env,
         RequestBlocks, k_receive_message, ReceiveBlocks, k_i_process_enter, Interrupt, Abort,
         k_i_process_exit

(* Whatever the processes do with the envelopes they hold, and however the *)
(* scheduler interleaves them, every envelope stays in exactly one place.  *)
THEOREM NoEnvelopeLost == Spec => []EnvelopesConserved
  BY ConservedInit, ConservedNext, TypeCorrect, PTL DEF Spec

-----------------------------------------------------------------------------
(* A process goes to sleep on an empty mailbox, and the next message for   *)
(* it wakes it: it never sleeps over a message, whatever else happens.     *)
LEMMA MailNext == SchedInv /\ NoSleepOverMail /\ [Next]_vars => NoSleepOverMail'
<1> SUFFICES ASSUME SchedInv, NoSleepOverMail, [Next]_vars, NEW p \in Threads,
                    status'[p] = "P_BLOCKED_ON_RECEIVE"
             PROVE  recv_msgs'[p] = <<>>
  BY DEF NoSleepOverMail
<1>0. /\ p \in Proc /\ status \in [Proc -> Status] /\ recv_msgs \in [Proc -> Seq(Env)]
      /\ status[p] = "P_BLOCKED_ON_RECEIVE" => recv_msgs[p] = <<>>
  BY DEF SchedInv, TypeOK, NoSleepOverMail, Threads
<1>1. ASSUME NEW s, NEW L, k_process_switch(s, L)
      PROVE  status'[p] = status[p] \/ status'[p] = "P_EXECUTING" \/ (p = current_process /\ status'[p] = s)
  BY <1>0, <1>1 DEF k_process_switch
<1>2. ASSUME NEW r, NEW L, MakeReady(r, L) PROVE status'[p] = status[p] \/ status'[p] = "P_READY"
  BY <1>0, <1>2 DEF MakeReady
<1>3. CASE k_release_processor \/ RequestBlocks
  <2>1. recv_msgs' = recv_msgs /\ \E s, L : k_process_switch(s, L) /\ s # "P_BLOCKED_ON_RECEIVE"
    BY <1>3 DEF k_release_processor, RequestBlocks
  <2> QED
    BY <1>0, <1>1, <2>1
<1>4. CASE ReceiveBlocks
  BY <1>0, <1>1, <1>4 DEF ReceiveBlocks
<1>5. CASE RequestGranted \/ UNCHANGED vars
  BY <1>0, <1>5 DEF RequestGranted, vars
<1>6. ASSUME NEW e \in Env, k_release_msg_env(e) PROVE recv_msgs'[p] = <<>>
  <2>1. recv_msgs' = recv_msgs
    BY <1>6 DEF k_release_msg_env
  <2>2. status'[p] = status[p]
    BY <1>2, <1>6 DEF k_release_msg_env, WakeEnvWaiter
  <2> QED
    BY <1>0, <2>1, <2>2
<1>7. ASSUME NEW d \in Proc, NEW e \in Env, k_send_message(d, e) PROVE recv_msgs'[p] = <<>>
  <2>1. recv_msgs' = [recv_msgs EXCEPT ![d] = Append(@, e)] /\ WakeReceiver(d)
    BY <1>7 DEF k_send_message
  <2>2. CASE p = d
    BY <1>0, <2>1, <2>2 DEF WakeReceiver, MakeReady
  <2>3. CASE p # d
    BY <1>0, <1>2, <2>1, <2>3 DEF WakeReceiver
  <2> QED
    BY <2>2, <2>3
<1>8. CASE MessageReceived
  BY <1>0, <1>8 DEF MessageReceived
<1>9. ASSUME NEW i \in IProc, k_i_process_enter(i) PROVE recv_msgs'[p] = <<>>
  BY <1>0, <1>9 DEF k_i_process_enter, Interrupt, Abort
<1>10. CASE k_i_process_exit
  BY <1>0, <1>10 DEF k_i_process_exit
<1>11. ASSUME NEW n, NEW t, k_change_priority(n, t) PROVE recv_msgs'[p] = <<>>
  BY <1>0, <1>11 DEF k_change_priority
<1> QED
  BY <1>3, <1>4, <1>5, <1>6, <1>7, <1>8, <1>9, <1>10, <1>11
     DEF Next, Terminated, k_request_msg_env, k_receive_message

(* Whatever is sent, and in whatever order the processes run, nobody       *)
(* sleeps on a mailbox with a message in it.                               *)
THEOREM MailWakesReceiver == Spec => []NoSleepOverMail
<1>1. Init => NoSleepOverMail
  BY DEF Init, NoSleepOverMail, Threads
<1> QED
  BY <1>1, MailNext, SchedInvAlways, PTL DEF Spec

-----------------------------------------------------------------------------
(* Free envelopes and the processes that sleep for one                     *)

OnTheWay == {p \in Threads : call[p] = "request_msg_env" /\ status[p] # "P_BLOCKED_ON_ENV_REQUEST"}

Sleeper == \E p \in Threads : status[p] = "P_BLOCKED_ON_ENV_REQUEST"

(* Who sleeps does so inside k_request_msg_env: woken up, it asks again.   *)
SleepersAskAgain ==
    \A p \in Threads : status[p] = "P_BLOCKED_ON_ENV_REQUEST" => call[p] = "request_msg_env"

IdleInv == QueueInv /\ SleepersAskAgain /\ NoEnvelopeIdleWhileOneSleeps

LEMMA OnTheWayFinite ==
    ASSUME NEW S, S \subseteq Threads
    PROVE  IsFiniteSet(S) /\ Cardinality(S) \in Nat
  BY ProcsAreFinite, FS_Subset, FS_CardinalityType DEF Threads

(* A step after which as many processes are on their way as before, or     *)
(* more, and no more envelopes are free.                                   *)
LEMMA IdleKept ==
    ASSUME IdleInv, SleepersAskAgain', free_env_q' = free_env_q,
           OnTheWay \subseteq OnTheWay', Sleeper' => Sleeper
    PROVE  (SleepersAskAgain /\ NoEnvelopeIdleWhileOneSleeps)'
<1>1. OnTheWay' \subseteq Threads /\ OnTheWay \subseteq Threads
  BY DEF OnTheWay
<1>2. IsFiniteSet(OnTheWay') /\ Cardinality(OnTheWay) <= Cardinality(OnTheWay')
  BY <1>1, OnTheWayFinite, FS_Subset
<1>3. Cardinality(OnTheWay) \in Nat /\ Cardinality(OnTheWay') \in Nat
  BY <1>1, OnTheWayFinite
<1>4. Sleeper => Len(free_env_q) <= Cardinality(OnTheWay)
  BY DEF IdleInv, NoEnvelopeIdleWhileOneSleeps, Sleeper, OnTheWay
<1>5. Len(free_env_q) \in Nat
  BY InvFacts DEF IdleInv, SchedInv, TypeOK
<1>6. Sleeper' => Len(free_env_q') <= Cardinality(OnTheWay')
  BY <1>2, <1>3, <1>4, <1>5
<1> QED
  BY <1>6 DEF NoEnvelopeIdleWhileOneSleeps, Sleeper, OnTheWay

LEMMA IdleInvNext == IdleInv /\ ~TailMoves /\ [Next]_vars => IdleInv'
<1> SUFFICES ASSUME IdleInv, ~TailMoves, [Next]_vars
             PROVE  (SleepersAskAgain /\ NoEnvelopeIdleWhileOneSleeps)'
  BY QueueInvNext DEF IdleInv
<1> DEFINE c == current_process
<1>0. /\ QueueInv /\ SleepersAskAgain /\ c \in Proc /\ status[c] = "P_EXECUTING"
      /\ \A p \in Threads : p \in Proc
      /\ status \in [Proc -> Status]
      /\ call \in [Proc -> {"none", "request_msg_env", "receive_message"}]
      /\ free_env_q \in Seq(Env) /\ Len(free_env_q) \in Nat
  BY InvFacts DEF IdleInv, SchedInv, TypeOK, Threads
<1>1. Sleeper => Len(free_env_q) <= Cardinality(OnTheWay)
  BY DEF IdleInv, NoEnvelopeIdleWhileOneSleeps, Sleeper, OnTheWay
<1>2. OnTheWay \subseteq Threads /\ IsFiniteSet(OnTheWay) /\ Cardinality(OnTheWay) \in Nat
  BY OnTheWayFinite DEF OnTheWay
<1>3. ASSUME NEW s, NEW L, k_process_switch(s, L), NEW p \in Proc
      PROVE  status'[p] = IF p = current_process' THEN "P_EXECUTING" ELSE IF p = c THEN s ELSE status[p]
  BY <1>0, <1>3 DEF k_process_switch
<1>4. CASE k_release_processor
  <2>1. /\ call' = call /\ free_env_q' = free_env_q /\ call[c] = "none"
        /\ \A p \in Proc : status'[p] = IF p = current_process' THEN "P_EXECUTING"
                                        ELSE IF p = c THEN "P_READY" ELSE status[p]
    BY <1>3, <1>4 DEF k_release_processor, InUserCode
  <2>2. SleepersAskAgain' /\ OnTheWay \subseteq OnTheWay' /\ (Sleeper' => Sleeper)
    BY <1>0, <2>1 DEF SleepersAskAgain, OnTheWay, Sleeper
  <2> QED
    BY <2>1, <2>2, IdleKept
<1>5. CASE ReceiveBlocks
  <2>1. /\ call' = [call EXCEPT ![c] = "receive_message"] /\ free_env_q' = free_env_q
        /\ call[c] # "request_msg_env"
        /\ \A p \in Proc : status'[p] = IF p = current_process' THEN "P_EXECUTING"
                                        ELSE IF p = c THEN "P_BLOCKED_ON_RECEIVE" ELSE status[p]
    BY <1>3, <1>5 DEF ReceiveBlocks, AtReceive
  <2>2. SleepersAskAgain' /\ OnTheWay \subseteq OnTheWay' /\ (Sleeper' => Sleeper)
    BY <1>0, <2>1 DEF SleepersAskAgain, OnTheWay, Sleeper
  <2> QED
    BY <2>1, <2>2, IdleKept
<1>6. CASE RequestBlocks
  <2>1. /\ call' = [call EXCEPT ![c] = "request_msg_env"] /\ free_env_q' = <<>>
        /\ \A p \in Proc : status'[p] = IF p = current_process' THEN "P_EXECUTING"
                                        ELSE IF p = c THEN "P_BLOCKED_ON_ENV_REQUEST" ELSE status[p]
    BY <1>3, <1>6 DEF RequestBlocks
  <2>2. SleepersAskAgain'
    BY <1>0, <2>1 DEF SleepersAskAgain
  <2>3. Len(free_env_q') <= Cardinality(OnTheWay')
    <3>1. OnTheWay' \subseteq Threads
      BY DEF OnTheWay
    <3>2. Cardinality(OnTheWay') \in Nat /\ Len(free_env_q') = 0
      BY <2>1, <3>1, OnTheWayFinite
    <3> QED
      BY <3>2
  <2> QED
    BY <2>2, <2>3 DEF NoEnvelopeIdleWhileOneSleeps, OnTheWay
<1>7. CASE RequestGranted
  <2>1. /\ call' = [call EXCEPT ![c] = "none"] /\ status' = status
        /\ free_env_q' = Tail(free_env_q) /\ Len(free_env_q') = Len(free_env_q) - 1
    BY <1>0, <1>7 DEF RequestGranted
  <2>2. SleepersAskAgain' /\ (Sleeper' <=> Sleeper) /\ OnTheWay' = OnTheWay \ {c}
    BY <1>0, <2>1 DEF SleepersAskAgain, Sleeper, OnTheWay
  <2>3. Cardinality(OnTheWay \ {c}) >= Cardinality(OnTheWay) - 1
    BY <1>2, FS_RemoveElement, FS_CardinalityType
  <2>4. Sleeper' => Len(free_env_q') <= Cardinality(OnTheWay')
    <3>1. Cardinality(OnTheWay \ {c}) \in Nat
      BY <1>2, OnTheWayFinite
    <3> QED
      BY <1>0, <1>1, <1>2, <2>1, <2>2, <2>3, <3>1
  <2> QED
    BY <2>2, <2>4 DEF NoEnvelopeIdleWhileOneSleeps, OnTheWay, Sleeper
<1>8. ASSUME NEW e \in Env, k_release_msg_env(e)
      PROVE  (SleepersAskAgain /\ NoEnvelopeIdleWhileOneSleeps)'
  <2>1. /\ call' = call /\ free_env_q' = Append(free_env_q, e) /\ Len(free_env_q') = Len(free_env_q) + 1
        /\ WakeEnvWaiter /\ UNCHANGED <<current_process, interrupted_process, priority>>
    BY <1>0, <1>8 DEF k_release_msg_env
  <2>2. CASE \E q \in env_blocked_pq : Woken(q)
    <3>1. PICK q \in env_blocked_pq : Woken(q)
      BY <2>2
    <3> DEFINE p == Head(F0[q])
    <3>2. /\ p \in Threads /\ status[p] = "P_BLOCKED_ON_ENV_REQUEST"
          /\ status' = Marked(status, p, "P_READY")
      BY <3>1 DEF Woken, Waits, StatusOf, env_blocked_pq, proc_pq_create
    <3> HIDE DEF p
    <3>3. \A r \in Proc : status'[r] = IF r = p THEN "P_READY" ELSE status[r]
      BY <1>0, <3>2 DEF Marked
    <3>4. SleepersAskAgain' /\ OnTheWay' = OnTheWay \cup {p} /\ p \notin OnTheWay /\ Sleeper
      BY <1>0, <2>1, <3>2, <3>3 DEF SleepersAskAgain, OnTheWay, Sleeper
    <3>5. Cardinality(OnTheWay') = Cardinality(OnTheWay) + 1
      BY <1>2, <3>4, FS_AddElement
    <3>6. Len(free_env_q') <= Cardinality(OnTheWay')
      BY <1>0, <1>1, <1>2, <2>1, <3>4, <3>5
    <3> QED
      BY <3>4, <3>6 DEF NoEnvelopeIdleWhileOneSleeps, OnTheWay
  <2>3. CASE (\A q \in env_blocked_pq : F0[q] = <<>>) /\ UNCHANGED <<status, queues>>
    <3>1. ~Sleeper
      <4> SUFFICES ASSUME NEW p \in Threads, status[p] = "P_BLOCKED_ON_ENV_REQUEST" PROVE FALSE
        BY DEF Sleeper
      <4> DEFINE t == EnvBlockedQueue(p)
      <4>1. /\ p # PROCESS_NULL_PID /\ p \in Proc /\ Right(Queue, Threads, queues, F0, status, priority)
        BY <1>0, InvFacts DEF SchedInv
      <4>2. t \in env_blocked_pq /\ t \in Queue /\ t[2] = priority[p] /\ StatusOf(t) = "P_BLOCKED_ON_ENV_REQUEST"
        <5>1. priority[p] \in 0 .. NUM_PRIORITIES - 1
          BY <1>0, <4>1, QueueOf
        <5> QED
          BY <1>0, <4>1, <5>1, QueueOf DEF EnvBlockedQueue, env_blocked_pq, proc_pq_create
      <4>3. p \in Elements(F0[t])
        BY <4>1, <4>2 DEF Right, Waits
      <4>4. F0[t] # <<>>
        BY <4>3 DEF Elements
      <4> QED
        BY <2>3, <4>2, <4>4
    <3> QED
      BY <1>0, <2>1, <2>3, <3>1 DEF SleepersAskAgain, NoEnvelopeIdleWhileOneSleeps, Sleeper
  <2> QED
    BY <1>0, <2>1, <2>2, <2>3, WakeLists
<1>9. ASSUME NEW d \in Proc, NEW e \in Env, k_send_message(d, e)
      PROVE  (SleepersAskAgain /\ NoEnvelopeIdleWhileOneSleeps)'
  <2>1. call' = call /\ free_env_q' = free_env_q /\ WakeReceiver(d)
    BY <1>9 DEF k_send_message
  <2>2. \A p \in Proc : status'[p] = status[p]
                        \/ (status[p] = "P_BLOCKED_ON_RECEIVE" /\ status'[p] = "P_READY")
    BY <1>0, <2>1 DEF WakeReceiver, MakeReady
  <2>3. SleepersAskAgain' /\ OnTheWay \subseteq OnTheWay' /\ (Sleeper' => Sleeper)
    BY <1>0, <2>1, <2>2 DEF SleepersAskAgain, OnTheWay, Sleeper
  <2> QED
    BY <2>1, <2>3, IdleKept
<1>10. CASE MessageReceived
  <2>1. /\ call' = [call EXCEPT ![c] = "none"] /\ status' = status /\ free_env_q' = free_env_q
        /\ call[c] # "request_msg_env"
    BY <1>10 DEF MessageReceived, AtReceive
  <2>2. SleepersAskAgain' /\ OnTheWay \subseteq OnTheWay' /\ (Sleeper' => Sleeper)
    BY <1>0, <2>1 DEF SleepersAskAgain, OnTheWay, Sleeper
  <2> QED
    BY <2>1, <2>2, IdleKept
<1>11. ASSUME NEW i \in IProc, Interrupt(i)
       PROVE  (SleepersAskAgain /\ NoEnvelopeIdleWhileOneSleeps)'
  <2>1. /\ call' = call /\ free_env_q' = free_env_q /\ i \in Proc /\ i \notin Threads
        /\ status' = [status EXCEPT ![c] = "P_INTERRUPTED", ![i] = "P_EXECUTING"]
    BY <1>11, ProcAssumption DEF Interrupt, Threads
  <2>2. SleepersAskAgain' /\ OnTheWay \subseteq OnTheWay' /\ (Sleeper' => Sleeper)
    BY <1>0, <2>1 DEF SleepersAskAgain, OnTheWay, Sleeper
  <2> QED
    BY <2>1, <2>2, IdleKept
<1>12. CASE k_i_process_exit
  <2>1. /\ call' = call /\ free_env_q' = free_env_q
        /\ status' = [status EXCEPT ![c] = "P_READY", ![interrupted_process] = "P_EXECUTING"]
    BY <1>12 DEF k_i_process_exit
  <2>2. SleepersAskAgain' /\ OnTheWay \subseteq OnTheWay' /\ (Sleeper' => Sleeper)
    BY <1>0, <2>1 DEF SleepersAskAgain, OnTheWay, Sleeper
  <2> QED
    BY <2>1, <2>2, IdleKept
<1>13. CASE \/ UNCHANGED vars \/ Abort
            \/ \E n \in 0 .. NUM_PRIORITIES - 1, t \in Proc : k_change_priority(n, t)
  <2>1. UNCHANGED <<call, status, free_env_q>>
    BY <1>13 DEF vars, Abort, k_change_priority
  <2> QED
    BY <1>0, <2>1 DEF IdleInv, SleepersAskAgain, NoEnvelopeIdleWhileOneSleeps
<1> QED
  BY <1>4, <1>5, <1>6, <1>7, <1>8, <1>9, <1>10, <1>11, <1>12, <1>13
     DEF Next, Terminated, k_request_msg_env, k_receive_message, k_i_process_enter

(* As long as no tail is moved: while a process sleeps for an envelope,    *)
(* each free one has a woken process on its way to it.                     *)
THEOREM NoWakeupLost == ~TailMoves => (Spec => []NoEnvelopeIdleWhileOneSleeps)
<1> SUFFICES ASSUME ~TailMoves PROVE Spec => []NoEnvelopeIdleWhileOneSleeps
  OBVIOUS
<1>1. Init => IdleInv
  <2> SUFFICES ASSUME Init PROVE IdleInv
    OBVIOUS
  <2>1. \A p \in Threads : status[p] # "P_BLOCKED_ON_ENV_REQUEST"
    BY DEF Init, Threads
  <2> QED
    BY <2>1, QueueInvInit DEF IdleInv, SleepersAskAgain, NoEnvelopeIdleWhileOneSleeps
<1>2. IdleInv /\ [Next]_vars => IdleInv'
  BY IdleInvNext
<1>3. IdleInv => NoEnvelopeIdleWhileOneSleeps
  BY DEF IdleInv
<1> QED
  BY <1>1, <1>2, <1>3, PTL DEF Spec
=============================================================================
