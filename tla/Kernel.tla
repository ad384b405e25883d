------------------------------- MODULE Kernel -------------------------------
(***************************************************************************)
(* The RTX kernel as the unix port builds it (unix/kern/src): processes,   *)
(* the priority scheduler, message envelopes and message passing, with the *)
(* i-processes that run when a signal interrupts a process.                *)
(*                                                                         *)
(* A primitive runs with the signals masked (k_primitives.c wraps each in  *)
(* atomic(ON) ... atomic(OFF)), so a call that does not block is one step. *)
(* k_request_msg_env and k_receive_message contain a loop with a context   *)
(* switch inside: call[p] says which of them p is suspended in.  The       *)
(* process is dispatched inside the loop and tests the condition again,    *)
(* still with the signals masked.                                          *)
(*                                                                         *)
(* What user code does is left open: any process may call any primitive,   *)
(* in any order, on any envelope it holds.                                 *)
(***************************************************************************)
EXTENDS ProcQueue

CONSTANTS
    MAX_NUM_PROCESSES,  \* the length of p_table
    IProc,              \* the i-processes
    PROCESS_NULL_PID,   \* the null process
    NUM_PRIORITIES,     \* priorities of user processes; the null process has one more
    InitPriority,       \* the priority column of init_table
    Env,                \* the message envelopes
    TailMoves           \* may change_priority move the last of several queued processes?

(* Pids index p_table, an array of MAX_NUM_PROCESSES entries.              *)
ASSUME ProcAssumption == /\ MAX_NUM_PROCESSES \in Nat
                         /\ Proc \subseteq 0 .. MAX_NUM_PROCESSES - 1
                         /\ IProc \subseteq Proc
                         /\ PROCESS_NULL_PID \in Proc \ IProc
ASSUME PriorityAssumption == /\ NUM_PRIORITIES \in Nat \ {0}
                             /\ InitPriority \in [Proc -> 0 .. NUM_PRIORITIES]
                             /\ \A p \in Proc : InitPriority[p] = NUM_PRIORITIES <=> p = PROCESS_NULL_PID
ASSUME EnvAssumption == IsFiniteSet(Env)
ASSUME TailMovesAssumption == TailMoves \in BOOLEAN

VARIABLES
    current_process,     \* the pid that has the processor
    interrupted_process, \* the process the running i-process interrupted, or NULL
    status,              \* pcb->status
    priority,            \* pcb->priority
    queues,              \* ready_pq, env_blocked_pq and the pcbs' next fields
    free_env_q,          \* the free envelopes, a FIFO list
    recv_msgs,           \* pcb->recv_msgs, a FIFO list of envelopes
    held,                \* the envelopes whose pointer user code has been given
    call,                \* the kernel loop a process is suspended in, or "none"
    flag,                \* is an i-process running?
    aborted              \* has an assertion failed?

vars == <<current_process, interrupted_process, status, priority, queues,
          free_env_q, recv_msgs, held, call, flag, aborted>>

Status == {"P_READY", "P_EXECUTING", "P_INTERRUPTED", "P_BLOCKED_ON_RECEIVE",
           "P_BLOCKED_ON_ENV_REQUEST"}

Threads == Proc \ IProc                  \* what the scheduler schedules
UserProc == Threads \ {PROCESS_NULL_PID}

ready_pq       == proc_pq_create("ready", NUM_PRIORITIES + 1)
env_blocked_pq == proc_pq_create("env_blocked", NUM_PRIORITIES)
Queue          == ready_pq \cup env_blocked_pq

ReadyQueue(p)      == <<"ready", priority[p]>>
EnvBlockedQueue(p) == <<"env_blocked", priority[p]>>

-----------------------------------------------------------------------------
(* k_process_init queues the processes in pid order, each behind the ones  *)
(* of its priority; k_enter_scheduler then dispatches the first.           *)

InitAtPriority(i) == {p \in Threads : InitPriority[p] = i}
InitQueued(q) == IF q[1] = "ready" THEN InitAtPriority(q[2]) ELSE {}

Least(S)    == CHOOSE p \in S : \A r \in S : p <= r
Greatest(S) == CHOOSE p \in S : \A r \in S : p >= r
OrNull(S, p) == IF S = {} THEN NULL ELSE p

Behind(p) == {r \in InitAtPriority(InitPriority[p]) : r > p}

BootQueues ==
    [head |-> [q \in Queue |-> OrNull(InitQueued(q), Least(InitQueued(q)))],
     tail |-> [q \in Queue |-> OrNull(InitQueued(q), Greatest(InitQueued(q)))],
     next |-> [p \in Proc |-> IF p \in Threads THEN OrNull(Behind(p), Least(Behind(p)))
                                               ELSE NULL]]

Init ==
    /\ current_process = proc_pq_front(BootQueues, ready_pq)
    /\ interrupted_process = NULL
    /\ status = [p \in Proc |-> IF p = proc_pq_front(BootQueues, ready_pq)
                                THEN "P_EXECUTING" ELSE "P_READY"]
    /\ priority = InitPriority
    /\ queues = proc_pq_dequeue(BootQueues, ready_pq)
    /\ free_env_q \in {s \in [1 .. Cardinality(Env) -> Env] : Elements(s) = Env}
    /\ recv_msgs = [p \in Proc |-> <<>>]
    /\ held = [p \in Proc |-> {}]
    /\ call = [p \in Proc |-> "none"]
    /\ flag = 0
    /\ aborted = FALSE

-----------------------------------------------------------------------------
(* Scheduling                                                              *)

(* k_process_switch(next_status), with the queues as the caller left them. *)
k_process_switch(next_status, L) ==
    LET next == proc_pq_front(L, ready_pq)
    IN  /\ current_process' = next
        /\ status' = [status EXCEPT ![current_process] = next_status, ![next] = "P_EXECUTING"]
        /\ queues' = proc_pq_dequeue(L, ready_pq)

(* Fault: the process is marked ready but not queued.                      *)
MarkReadyOnly(p, L) ==
    /\ status' = [status EXCEPT ![p] = "P_READY"]
    /\ queues' = L

(* pcb->status = P_READY; proc_pq_enqueue(ready_pq, pcb).                  *)
MakeReady(p, L) ==
    /\ status' = [status EXCEPT ![p] = "P_READY"]
    /\ queues' = proc_queue_enqueue(L, ReadyQueue(p), p)

(* Running user code, or an i-process between two kernel calls.            *)
InUserCode == call[current_process] = "none"

(* The processes that call more than release_processor: the null process   *)
(* does nothing else (null_process.c).                                     *)
Caller == current_process # PROCESS_NULL_PID

(* Fault: the process gives the processor away without queueing up.        *)
YieldUnqueued == queues

(* The queues once the current process has joined the ready ones.          *)
YieldQueued == proc_queue_enqueue(queues, ReadyQueue(current_process), current_process)

k_release_processor ==
    /\ InUserCode
    /\ current_process \notin IProc
    /\ k_process_switch("P_READY", YieldQueued)
    /\ UNCHANGED <<interrupted_process, priority, free_env_q, recv_msgs, held, call,
                   flag, aborted>>

(* Does the change unlink the last of several processes from their list?   *)
MovesTail(p) ==
    LET Last(q) == queues.head[q] # p /\ queues.next[p] = NULL
    IN  \/ status[p] = "P_READY" /\ Last(ReadyQueue(p))
        \/ status[p] = "P_BLOCKED_ON_ENV_REQUEST" /\ Last(EnvBlockedQueue(p))

(* Fault: the enqueue still uses the old priority.                         *)
RequeueBeforeUpdate(pq, target, new_priority) ==
    proc_queue_enqueue(proc_queue_remove(queues, <<pq, priority[target]>>, target),
                       <<pq, priority[target]>>, target)

(* The queues after target was moved, in one proc_pq, to its new priority. *)
Requeue(pq, target, new_priority) ==
    proc_queue_enqueue(proc_queue_remove(queues, <<pq, priority[target]>>, target),
                       <<pq, new_priority>>, target)

(* Bad arguments, i-processes, the null process and an unchanged priority  *)
(* are turned away without effect.                                         *)
k_change_priority(new_priority, target) ==
    /\ InUserCode /\ Caller /\ current_process \notin IProc
    /\ target \in UserProc
    /\ new_priority # priority[target]
    /\ TailMoves \/ ~MovesTail(target)
    /\ priority' = [priority EXCEPT ![target] = new_priority]
    /\ queues' = CASE status[target] = "P_READY" -> Requeue("ready", target, new_priority)
                   [] status[target] = "P_BLOCKED_ON_ENV_REQUEST" ->
                        Requeue("env_blocked", target, new_priority)
                   [] OTHER -> queues
    /\ UNCHANGED <<current_process, interrupted_process, status, free_env_q, recv_msgs, held, call,
                   flag, aborted>>

-----------------------------------------------------------------------------
(* Envelopes                                                               *)

(* The loop of k_request_msg_env, first entered or resumed after a wakeup. *)
AtRequest == Caller /\ call[current_process] \in {"none", "request_msg_env"}

RequestGranted ==
    /\ AtRequest
    /\ free_env_q # <<>>
    /\ free_env_q' = Tail(free_env_q)
    /\ held' = [held EXCEPT ![current_process] = @ \cup {Head(free_env_q)}]
    /\ call' = [call EXCEPT ![current_process] = "none"]
    /\ UNCHANGED <<current_process, interrupted_process, status, priority, queues, recv_msgs,
                   flag, aborted>>

(* Fault: an i-process that finds no envelope blocks as well.              *)
RequestBlocksAnyone ==
    /\ AtRequest
    /\ free_env_q = <<>>
    /\ call' = [call EXCEPT ![current_process] = "request_msg_env"]
    /\ k_process_switch("P_BLOCKED_ON_ENV_REQUEST",
                        proc_queue_enqueue(queues, EnvBlockedQueue(current_process), current_process))
    /\ UNCHANGED <<interrupted_process, priority, free_env_q, recv_msgs, held, flag, aborted>>

(* An i-process is handed NULL here instead, and nothing changes.          *)
RequestBlocks ==
    /\ AtRequest
    /\ free_env_q = <<>>
    /\ current_process \notin IProc
    /\ call' = [call EXCEPT ![current_process] = "request_msg_env"]
    /\ k_process_switch("P_BLOCKED_ON_ENV_REQUEST",
                        proc_queue_enqueue(queues, EnvBlockedQueue(current_process), current_process))
    /\ UNCHANGED <<interrupted_process, priority, free_env_q, recv_msgs, held, flag, aborted>>

k_request_msg_env == RequestGranted \/ RequestBlocks

(* Fault: the wakeup is skipped while other envelopes are free.            *)
WakeOnlyWhenPoolWasEmpty ==
    LET blocked == proc_pq_front(queues, env_blocked_pq)
    IN  IF blocked = NULL \/ free_env_q # <<>>
          THEN UNCHANGED <<status, queues>>
          ELSE MakeReady(blocked, proc_pq_dequeue(queues, env_blocked_pq))

(* One process blocked on an envelope request is made ready, if there is   *)
(* one.  It has not got the envelope: it asks again once it is dispatched. *)
WakeEnvWaiter ==
    LET blocked == proc_pq_front(queues, env_blocked_pq)
    IN  IF blocked = NULL
          THEN UNCHANGED <<status, queues>>
          ELSE MakeReady(blocked, proc_pq_dequeue(queues, env_blocked_pq))

k_release_msg_env(env) ==
    /\ InUserCode /\ Caller
    /\ env \in held[current_process]
    /\ free_env_q' = Append(free_env_q, env)
    /\ held' = [held EXCEPT ![current_process] = @ \ {env}]
    /\ WakeEnvWaiter
    /\ UNCHANGED <<current_process, interrupted_process, priority, recv_msgs, call, flag, aborted>>

-----------------------------------------------------------------------------
(* Messages                                                                *)

(* Fault: the wakeup looks at the mailbox the message has yet to join.     *)
WakeReceiverWithMail(dest) ==
    IF status[dest] = "P_BLOCKED_ON_RECEIVE" /\ recv_msgs[dest] # <<>>
      THEN MakeReady(dest, queues)
      ELSE UNCHANGED <<status, queues>>

(* Fault: whoever gets a message is made ready.                            *)
WakeAnyone(dest) == MakeReady(dest, queues)

(* The part of k_send_message that wakes the destination.                  *)
WakeReceiver(dest) ==
    IF status[dest] = "P_BLOCKED_ON_RECEIVE"
      THEN MakeReady(dest, queues)
      ELSE UNCHANGED <<status, queues>>

(* A NULL envelope or a pid out of range is turned away without effect.    *)
k_send_message(dest, env) ==
    /\ InUserCode /\ Caller
    /\ env \in held[current_process]
    /\ recv_msgs' = [recv_msgs EXCEPT ![dest] = Append(@, env)]
    /\ held' = [held EXCEPT ![current_process] = @ \ {env}]
    /\ WakeReceiver(dest)
    /\ UNCHANGED <<current_process, interrupted_process, priority, free_env_q, call,
                   flag, aborted>>

AtReceive == Caller /\ call[current_process] \in {"none", "receive_message"}

(* Fault: the message stays in the mailbox.                                *)
MailNotTaken == recv_msgs[current_process]

(* What is left of the mailbox after one message was taken.                *)
MailAfterReceive == Tail(recv_msgs[current_process])

MessageReceived ==
    /\ AtReceive
    /\ recv_msgs[current_process] # <<>>
    /\ recv_msgs' = [recv_msgs EXCEPT ![current_process] = MailAfterReceive]
    /\ held' = [held EXCEPT ![current_process] = @ \cup {Head(recv_msgs[current_process])}]
    /\ call' = [call EXCEPT ![current_process] = "none"]
    /\ UNCHANGED <<current_process, interrupted_process, status, priority, queues, free_env_q,
                   flag, aborted>>

(* An i-process is handed NULL here instead, and nothing changes.          *)
ReceiveBlocks ==
    /\ AtReceive
    /\ recv_msgs[current_process] = <<>>
    /\ current_process \notin IProc
    /\ call' = [call EXCEPT ![current_process] = "receive_message"]
    /\ k_process_switch("P_BLOCKED_ON_RECEIVE", queues)
    /\ UNCHANGED <<interrupted_process, priority, free_env_q, recv_msgs, held, flag, aborted>>

k_receive_message == MessageReceived \/ ReceiveBlocks

-----------------------------------------------------------------------------
(* Signals                                                                 *)

(* The current process is put aside for the i-process.                     *)
Interrupt(i_process) ==
    /\ flag' = 1
    /\ interrupted_process' = current_process
    /\ current_process' = i_process
    /\ status' = [status EXCEPT ![current_process] = "P_INTERRUPTED", ![i_process] = "P_EXECUTING"]
    /\ UNCHANGED <<priority, queues, free_env_q, recv_msgs, held, call, aborted>>

(* assert(flag == 0) fails: the handler of SIGABRT terminates the RTX.     *)
Abort ==
    /\ aborted' = TRUE
    /\ UNCHANGED <<current_process, interrupted_process, status, priority, queues, free_env_q,
                   recv_msgs, held, call, flag>>

(* handle_signal, when SIGALRM, SIGUSR1 or SIGUSR2 is delivered to a       *)
(* process outside the primitives, which mask the signals, or to an        *)
(* i-process: its handler masks them too, but only its own signal if it    *)
(* interrupted a process between the count and the mask of atomic (see     *)
(* Signals).                                                               *)
k_i_process_enter(i_process) ==
    /\ InUserCode
    /\ i_process # current_process
    /\ IF flag = 0 THEN Interrupt(i_process) ELSE Abort

(* The interrupted process gets the processor back whoever became ready.   *)
k_i_process_exit ==
    /\ current_process \in IProc
    /\ flag' = 0
    /\ interrupted_process' = NULL
    /\ current_process' = interrupted_process
    /\ status' = [status EXCEPT ![current_process] = "P_READY", ![interrupted_process] = "P_EXECUTING"]
    /\ UNCHANGED <<priority, queues, free_env_q, recv_msgs, held, call, aborted>>

-----------------------------------------------------------------------------
(* exit(0): nothing runs any more.                                         *)
Terminated == aborted /\ UNCHANGED vars

Next ==
    \/ /\ ~aborted
       /\ \/ k_release_processor
          \/ \E new_priority \in 0 .. NUM_PRIORITIES - 1, target \in Proc :
                k_change_priority(new_priority, target)
          \/ k_request_msg_env
          \/ \E env \in Env : k_release_msg_env(env)
          \/ \E dest \in Proc, env \in Env : k_send_message(dest, env)
          \/ k_receive_message
          \/ \E i_process \in IProc : k_i_process_enter(i_process)
          \/ k_i_process_exit
    \/ Terminated

Spec == Init /\ [][Next]_vars

-----------------------------------------------------------------------------
(* Properties                                                              *)

(* Every field holds a value of its C type; in particular the processor    *)
(* always belongs to a process of p_table.                                 *)
TypeOK ==
    /\ current_process \in Proc
    /\ interrupted_process \in ProcOrNull
    /\ status \in [Proc -> Status]
    /\ priority \in [Proc -> 0 .. NUM_PRIORITIES]
    /\ queues \in LinksType(Queue)
    /\ free_env_q \in Seq(Env)
    /\ recv_msgs \in [Proc -> Seq(Env)]
    /\ held \in [Proc -> SUBSET Env]
    /\ call \in [Proc -> {"none", "request_msg_env", "receive_message"}]
    /\ flag \in {0, 1}
    /\ aborted \in BOOLEAN

(* The process marked executing is the one that has the processor, and the *)
(* one marked interrupted is the one k_i_process_exit will resume.         *)
StatusFollowsProcessor ==
    \A p \in Proc : /\ status[p] = "P_EXECUTING"   <=> p = current_process
                    /\ status[p] = "P_INTERRUPTED" <=> p = interrupted_process

(* An i-process borrows the processor.  While one runs, there is a process *)
(* it took it from and to which k_i_process_exit returns it, as the two    *)
(* assertions there demand; otherwise flag is 0, so that the assertion in  *)
(* k_i_process_enter fails for nothing but a signal to an i-process.  And  *)
(* no i-process is ever blocked or queued, although it calls the same      *)
(* primitives as everyone else.                                            *)
InterruptedComesBack ==
    /\ IF current_process \in IProc
         THEN flag = 1 /\ interrupted_process \in Threads
         ELSE flag = 0 /\ interrupted_process = NULL
    /\ \A p \in IProc : /\ status[p] \in {"P_READY", "P_EXECUTING"}
                        /\ call[p] = "none"
                        /\ \A q \in Queue : p \notin {queues.head[q], queues.tail[q]}

(* The null process is ready whenever it does not run, alone in the last   *)
(* ready queue, so k_process_switch always finds a process to dispatch     *)
(* (the debug build asserts it: k_scheduler.c:24).                         *)
NullProcessStandsBy ==
    LET q == <<"ready", NUM_PRIORITIES>>
    IN  IF PROCESS_NULL_PID \in {current_process, interrupted_process}
          THEN queues.head[q] = NULL
          ELSE queues.head[q] = PROCESS_NULL_PID

(* A process waits in exactly the list its status and priority call for,   *)
(* and every list ends.  A ready process that is in no list would never    *)
(* run again.                                                              *)
QueuesMatchStatus ==
    /\ \A q \in Queue : Ends(queues, q)
    /\ \A i \in 0 .. NUM_PRIORITIES :
          Members(queues, <<"ready", i>>) =
             {p \in Threads : status[p] = "P_READY" /\ priority[p] = i}
    /\ \A i \in 0 .. NUM_PRIORITIES - 1 :
          Members(queues, <<"env_blocked", i>>) =
             {p \in Threads : status[p] = "P_BLOCKED_ON_ENV_REQUEST" /\ priority[p] = i}

(* What assert(pcb->next == NULL) in proc_queue_enqueue (proc_queue.c:62)  *)
(* relies on: a process in no queue, which the kernel may enqueue next,    *)
(* carries no link of a queue it was in before.                            *)
UnqueuedHasNoLink ==
    \A p \in Threads :
       status[p] \notin {"P_READY", "P_BLOCKED_ON_ENV_REQUEST"} => EnqueueAssertHolds(queues, p)

(* An envelope is in one place: once in the free list, once in one         *)
(* mailbox, or in the hands of one process; none is lost, listed twice or  *)
(* given to two processes.                                                 *)
NoEnvelopeMissing ==
    \A env \in Env : \/ env \in Elements(free_env_q)
                     \/ \E p \in Proc : env \in Elements(recv_msgs[p]) \/ env \in held[p]

NoEnvelopeInTwoPlaces ==
    /\ \A env \in Elements(free_env_q), p \in Proc :
          env \notin Elements(recv_msgs[p]) /\ env \notin held[p]
    /\ \A p, r \in Proc : \A env \in Elements(recv_msgs[p]) :
          env \notin held[r] /\ (p # r => env \notin Elements(recv_msgs[r]))
    /\ \A p, r \in Proc : \A env \in held[p] : p # r => env \notin held[r]

EnvelopesConserved ==
    /\ NoEnvelopeMissing
    /\ NoEnvelopeInTwoPlaces
    /\ Once(free_env_q) /\ \A p \in Proc : Once(recv_msgs[p])

(* k_release_msg_env wakes one process per envelope but another may take   *)
(* the envelope first.  Still, as long as some process sleeps for an       *)
(* envelope, every free envelope has a woken process on its way to it.     *)
NoEnvelopeIdleWhileOneSleeps ==
    (\E p \in Threads : status[p] = "P_BLOCKED_ON_ENV_REQUEST")
       => Len(free_env_q) <= Cardinality({p \in Threads :
                                /\ call[p] = "request_msg_env"
                                /\ status[p] # "P_BLOCKED_ON_ENV_REQUEST"})

(* A process never sleeps on a mailbox with a message in it                *)
(* (k_send_message, k_receive_message).                                    *)
NoSleepOverMail ==
    \A p \in Threads : status[p] = "P_BLOCKED_ON_RECEIVE" => recv_msgs[p] = <<>>

(* When the processor changes hands outside an interrupt, no ready process *)
(* is more urgent than the one that gets it.                               *)
MostUrgentDispatched ==
    [][ current_process' # current_process /\ {current_process, current_process'} \cap IProc = {}
          => \A p \in Threads : status[p] = "P_READY" => priority[current_process'] <= priority[p]
      ]_vars

(* Of the processes blocked on an envelope request, the one woken is of    *)
(* the most urgent priority, as it is now: change_priority moves a waiting *)
(* process between the lists.                                              *)
MostUrgentWaiterWoken ==
    [][ \A p, r \in Threads :
           /\ status[p] = "P_BLOCKED_ON_ENV_REQUEST" /\ status'[p] = "P_READY"
           /\ status[r] = "P_BLOCKED_ON_ENV_REQUEST"
           => priority[p] <= priority[r] ]_vars

(* The linked lists behave as first-in first-out lists: every step of the  *)
(* kernel is a step of the abstract scheduler on the lists a traversal of  *)
(* the links yields, or none.                                              *)
ReadyLists      == [i \in 0 .. NUM_PRIORITIES |-> ListOf(queues, <<"ready", i>>)]
EnvBlockedLists == [i \in 0 .. NUM_PRIORITIES - 1 |-> ListOf(queues, <<"env_blocked", i>>)]
Receivers       == {p \in Threads : status[p] = "P_BLOCKED_ON_RECEIVE"}

Abstract ==
    INSTANCE Scheduler WITH
       current     <- current_process,
       interrupted <- interrupted_process,
       ready       <- ReadyLists,
       waiting     <- EnvBlockedLists,
       receiving   <- Receivers

ImplementsScheduler == Abstract!SchedSpec
=============================================================================
