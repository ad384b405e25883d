---------------------------- MODULE ColdfireKernel ----------------------------
(***************************************************************************)
(* The primitives of the Coldfire kernel (coldfire/kern/src/k_primitives.c,*)
(* k_process.c, k_scheduler.c, msg_env_queue.c), as operators from one     *)
(* state of the kernel to the next.                                        *)
(*                                                                         *)
(* On this board every entry into the kernel, by trap or by interrupt,     *)
(* first sets the status register to 0x2700 and masks all interrupts.  An  *)
(* i-process runs to its end under that mask and calls several primitives  *)
(* on the way; as operators, they compose within the one step it takes.    *)
(* `self' is current_process at the time of the call, which during an      *)
(* interrupt is the i-process.                                             *)
(*                                                                         *)
(* The queues of processes are the unix ones, function by function (the    *)
(* Coldfire proc_queue_enqueue has lost the assertion), so module          *)
(* ProcQueue serves both ports.                                            *)
(***************************************************************************)
EXTENDS ProcQueue

CONSTANTS
    itable,          \* main.c: a sequence of [pid, priority, is_i_process]
    NULL_PID,        \* the null process, 0
    SysPid,          \* the pids below 0: the i-processes and the CCI
    NUM_PRIORITIES,  \* priorities of user processes; the null process has one more
    Env,             \* env_pool
    SysEnv           \* sys_env_pool, reserved for i-processes

ASSUME TableAssumption ==
    /\ NUM_PRIORITIES \in Nat
    /\ itable \in Seq([pid : Proc, priority : 0 .. NUM_PRIORITIES, is_i_process : BOOLEAN])
    /\ \A p \in Proc : \E i \in 1 .. Len(itable) : itable[i].pid = p
    /\ \A i, j \in 1 .. Len(itable) : itable[i].pid = itable[j].pid => i = j
    /\ \A i \in 1 .. Len(itable) :
          itable[i].priority = NUM_PRIORITIES <=> itable[i].pid = NULL_PID
ASSUME PidAssumption == SysPid \subseteq Proc /\ NULL_PID \in Proc \ SysPid
ASSUME EnvelopeAssumption == IsFiniteSet(Env \cup SysEnv) /\ Env \cap SysEnv = {}

(* k_get_process: the row of a pid.                                        *)
k_get_process(pid) == itable[CHOOSE i \in 1 .. Len(itable) : itable[i].pid = pid]

IProc    == {p \in Proc : k_get_process(p).is_i_process}
UserProc == Proc \ (IProc \cup {NULL_PID})

process_state == {"P_READY", "P_EXECUTING", "P_BLOCKED_ON_ENV_REQUEST", "P_BLOCKED_ON_RECEIVE"}

ready_pq               == proc_pq_create("ready", NUM_PRIORITIES + 1)
blocked_request_env_pq == proc_pq_create("blocked_request_env", NUM_PRIORITIES)
Queue                  == ready_pq \cup blocked_request_env_pq

(* What is in a mailbox: an envelope and the fields set by its sender.     *)
Message(env, from, type, data) == [env |-> env, send_pid |-> from, msg_type |-> type, data |-> data]

Envelopes(mail) == {mail[i].env : i \in 1 .. Len(mail)}

(* The tail of an empty queue is never read, since the next enqueue        *)
(* overwrites it; NULL stands for whatever proc_queue_dequeue left there.  *)
Tidy(L) ==
    [L EXCEPT !.tail = [q \in Queue |-> IF proc_queue_is_empty(L, q) THEN NULL ELSE @[q]]]

(* proc_pq_enqueue and proc_pq_remove find the queue by the pcb's priority *)
(* at the time.                                                            *)
proc_pq_enqueue(k, pq, p) ==
    [k EXCEPT !.queues = proc_queue_enqueue(@, <<pq, k.priority[p]>>, p)]

proc_pq_remove(k, pq, p) ==
    [k EXCEPT !.queues = Tidy(proc_queue_remove(@, <<pq, k.priority[p]>>, p))]

(* msg_env_queue_dequeue on the pool, which is not empty.                  *)
PoolTaken(k) == [k EXCEPT !.free_env_q = Tail(@)]

-----------------------------------------------------------------------------
(* Boot                                                                    *)

(* A pool is filled in the order of its array, one envelope a turn.        *)
SetOrder(S) ==
    LET filled[n \in 0 .. Cardinality(S)] ==
          IF n = 0 THEN <<>>
          ELSE Append(filled[n - 1], CHOOSE e \in S : e \notin Elements(filled[n - 1]))
    IN  filled[Cardinality(S)]

NoLinks == [head |-> [q \in Queue |-> NULL],
            tail |-> [q \in Queue |-> NULL],
            next |-> [p \in Proc |-> NULL]]

(* All but the i-processes become ready, in the order of the table.        *)
init_processes ==
    LET after[i \in 0 .. Len(itable)] ==
          IF i = 0 THEN NoLinks
          ELSE IF itable[i].is_i_process THEN after[i - 1]
          ELSE proc_queue_enqueue(after[i - 1], <<"ready", itable[i].priority>>, itable[i].pid)
    IN  after[Len(itable)]

(* k_init: the pools are filled, the processes created and the first one   *)
(* dispatched.  (The interrupts are open a little before current_process   *)
(* is set; isr_handler restores what it finds there, so that one taken in  *)
(* between does what it would do right after.)                             *)
k_init ==
    LET first == proc_pq_front(init_processes, ready_pq)
    IN  [current_process |-> first,
         state          |-> [p \in Proc |-> IF p = first THEN "P_EXECUTING" ELSE "P_READY"],
         priority       |-> [p \in Proc |-> k_get_process(p).priority],
         queues         |-> Tidy(proc_pq_dequeue(init_processes, ready_pq)),
         free_env_q     |-> SetOrder(Env),
         sys_free_env_q |-> SetOrder(SysEnv),
         recv_msgs      |-> [p \in Proc |-> <<>>],
         env_owned      |-> [p \in Proc |-> 0],
         held           |-> [p \in Proc |-> {}]]

-----------------------------------------------------------------------------
(* Processes                                                               *)

(* The process that leaves goes on, once it is dispatched again, behind    *)
(* its call of k_process_switch.                                           *)
k_process_switch(k, transition_to) ==
    LET next == proc_pq_front(k.queues, ready_pq)
    IN  [k EXCEPT !.current_process = next,
                  !.state = [@ EXCEPT ![k.current_process] = transition_to, ![next] = "P_EXECUTING"],
                  !.queues = Tidy(proc_pq_dequeue(@, ready_pq))]

(* state = P_READY; proc_pq_enqueue(ready_pq, p).                          *)
MakeReady(k, p) ==
    proc_pq_enqueue([k EXCEPT !.state[p] = "P_READY"], "ready", p)

(* Fault: the process gives the processor away without queueing up.        *)
ReleaseUnqueued(k) == k_process_switch(k, "P_READY")

k_release_processor(k) ==
    k_process_switch(proc_pq_enqueue(k, "ready", k.current_process), "P_READY")

(* Fault: the process is put back before its priority is set.              *)
RequeueAtOldPriority(k, pq, p, new_priority) ==
    [proc_pq_enqueue(proc_pq_remove(k, pq, p), pq, p) EXCEPT !.priority[p] = new_priority]

Requeue(k, pq, p, new_priority) ==
    proc_pq_enqueue([proc_pq_remove(k, pq, p) EXCEPT !.priority[p] = new_priority], pq, p)

(* System processes and the null process are turned away, as is an         *)
(* unchanged priority.  A pid that does not exist is not: its pcb is read  *)
(* from address 0.  Callers are taken to name a process.                   *)
k_change_priority(k, new_priority, target) ==
    IF target \in IProc \cup SysPid \cup {NULL_PID} \/ k.priority[target] = new_priority
      THEN k
      ELSE CASE k.state[target] = "P_READY" -> Requeue(k, "ready", target, new_priority)
             [] k.state[target] = "P_BLOCKED_ON_ENV_REQUEST" ->
                  Requeue(k, "blocked_request_env", target, new_priority)
             [] OTHER -> [k EXCEPT !.priority[target] = new_priority]

(* What is written into the caller's envelope, in the order of the table.  *)
k_request_process_status(k) ==
    [i \in 1 .. Len(itable) |-> LET pid == itable[i].pid
                                IN  [pid |-> pid, status |-> k.state[pid], priority |-> k.priority[pid]]]

-----------------------------------------------------------------------------
(* Envelopes                                                               *)

(* Given to self: env_owned counts what a process holds or has in its      *)
(* mailbox.                                                                *)
Granted(k, self, env) == [k EXCEPT !.env_owned[self] = @ + 1, !.held[self] = @ \cup {env}]

FreeGranted(k, self) == Granted(PoolTaken(k), self, Head(k.free_env_q))

(* Fault: the early return forgets the count.                              *)
SysGrantedUncounted(k, self) ==
    [k EXCEPT !.sys_free_env_q = Tail(@), !.held[self] = @ \cup {Head(k.sys_free_env_q)}]

SysGranted(k, self) ==
    Granted([k EXCEPT !.sys_free_env_q = Tail(@)], self, Head(k.sys_free_env_q))

(* An i-process falls back on the reserved envelopes, and then goes        *)
(* without; k is unchanged where the code returns NULL.                    *)
RequestByIProcess(k, self) ==
    IF k.free_env_q # <<>> THEN FreeGranted(k, self)
    ELSE IF k.sys_free_env_q # <<>> THEN SysGranted(k, self)
    ELSE k

(* A process joins the blocked ones and gives the processor away.          *)
RequestBlocks(k) ==
    k_process_switch(proc_pq_enqueue(k, "blocked_request_env", k.current_process),
                     "P_BLOCKED_ON_ENV_REQUEST")

(* The first blocked process is made ready; it will ask again.             *)
WakeRequester(k) ==
    LET blocked_process == proc_pq_front(k.queues, blocked_request_env_pq)
    IN  IF blocked_process = NULL THEN k
        ELSE MakeReady([k EXCEPT !.queues = Tidy(proc_pq_dequeue(@, blocked_request_env_pq))],
                       blocked_process)

k_is_msg_env_sys_env(env) == env \in SysEnv

Disowned(k, self, env) == [k EXCEPT !.env_owned[self] = @ - 1, !.held[self] = @ \ {env}]

k_release_msg_env(k, self, env) ==
    IF k_is_msg_env_sys_env(env)
      THEN [Disowned(k, self, env) EXCEPT !.sys_free_env_q = Append(@, env)]
      ELSE WakeRequester([Disowned(k, self, env) EXCEPT !.free_env_q = Append(@, env)])

-----------------------------------------------------------------------------
(* Messages                                                                *)

(* msg_env_queue_enqueue on a mailbox.                                     *)
Posted(k, dest, message) ==
    [k EXCEPT !.recv_msgs[dest] = Append(@, message), !.env_owned[dest] = @ + 1]

(* Fault: the message is queued, but its receiver not woken.               *)
SendWithoutWakeup(k, self, dest, message) ==
    Posted(Disowned(k, self, message.env), dest, message)

k_send_message(k, self, dest, message) ==
    LET sent == Posted(Disowned(k, self, message.env), dest, message)
    IN  IF k.state[dest] = "P_BLOCKED_ON_RECEIVE" THEN MakeReady(sent, dest) ELSE sent

HasMail(k, self) == k.recv_msgs[self] # <<>>

(* k_receive_message behind its loop; the message itself is the head of    *)
(* the mailbox before.                                                     *)
MailTaken(k, self) ==
    [k EXCEPT !.recv_msgs[self] = Tail(@),
              !.held[self] = @ \cup {Head(k.recv_msgs[self]).env}]
=============================================================================
