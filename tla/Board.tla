-------------------------------- MODULE Board --------------------------------
(***************************************************************************)
(* The Coldfire board: the kernel under traps from user code and under the *)
(* interrupts of its timer and its serial port (coldfire/kern/src/k_api.c, *)
(* isr_handler.c, isr_entries.s, uart_i_process.c, timer_i_process.c,      *)
(* timeout_queue.c, k_clock.c).                                            *)
(*                                                                         *)
(* A trap or an interrupt masks all interrupts with its first instruction  *)
(* and lowers the mask with its last but one; an interrupt taken in        *)
(* between the two ends of that window runs wholly before or wholly after. *)
(* Each is therefore one step, except that a process may leave             *)
(* k_request_msg_env or k_receive_message in the middle of their loops:    *)
(* call[p] says which of them p is in.  It is dispatched there with the    *)
(* interrupts still masked, and tests the loop's condition again.          *)
(*                                                                         *)
(* The user code is any sequence of traps with envelopes it holds; it      *)
(* reaches the two i-processes through request_delay and                   *)
(* send_console_chars only.  Of a text, its length is kept.                *)
(***************************************************************************)
EXTENDS ColdfireKernel, TrapStubs

CONSTANTS
    TIMER_I_PROCESS_PID, UART_I_PROCESS_PID, CCI_PID,
    Target,     \* the processes whose priority is changed
    Delay,      \* the delays processes ask for
    Text,       \* the lengths of the texts processes print
    Line,       \* the lines users type
    MaxTime     \* bound on the clock, which the code lets run on

ASSUME BoardAssumption ==
    /\ IProc = {TIMER_I_PROCESS_PID, UART_I_PROCESS_PID} /\ TIMER_I_PROCESS_PID # UART_I_PROCESS_PID
    /\ SysPid = IProc \cup {CCI_PID} /\ CCI_PID \in UserProc /\ Target \subseteq UserProc
    /\ Delay \subseteq Nat /\ Text \subseteq Nat /\ MaxTime \in Nat \ {0}

VARIABLES
    k,              \* the kernel's data
    call,           \* the kernel loop a process is suspended in, or "none"
    clock,          \* ticks, from 1
    timeout_queue,  \* the sorted list: [env, send_pid, msg_type, timeout]
    SERIAL1_IMR,    \* 2: interrupts for a received character; 3: for sent ones, too
    out,            \* OutBuffer (its length), outputIndex, output_print_char
    echoed          \* history: a character was echoed since the last send_console_chars

serial  == <<SERIAL1_IMR, out, echoed>>
timing  == <<clock, timeout_queue>>
vars    == <<k, call, timing, serial>>

Idle == [OutBuffer |-> 0, outputIndex |-> 0, output_print_char |-> FALSE]

(* Interrupts for received characters only.                                *)
init_uart == SERIAL1_IMR = 2 /\ out = Idle /\ echoed = FALSE

init_timer == clock = 1 /\ timeout_queue = <<>>

Init ==
    /\ k = k_init
    /\ call = [p \in Proc |-> "none"]
    /\ init_uart
    /\ init_timer

(* Not in a trap: the status register is 0x2000.                           *)
InUserCode == call[k.current_process] = "none"

-----------------------------------------------------------------------------
(* Traps                                                                   *)

self == k.current_process

(* The loops, first entered or resumed after a wakeup.                     *)
RequestLoop ==
    IF k.free_env_q = <<>>
      THEN /\ k' = RequestBlocks(k)
           /\ call' = [call EXCEPT ![self] = "request_msg_env"]
      ELSE /\ k' = FreeGranted(k, self)
           /\ call' = [call EXCEPT ![self] = "none"]

ReceiveLoop ==
    IF HasMail(k, self)
      THEN /\ k' = MailTaken(k, self)
           /\ call' = [call EXCEPT ![self] = "none"]
      ELSE /\ k' = k_process_switch(k, "P_BLOCKED_ON_RECEIVE")
           /\ call' = [call EXCEPT ![self] = "receive_message"]

(* k_context_switch returns in a process that had left in a loop.          *)
ResumeInLoop ==
    /\ \/ call[self] = "request_msg_env" /\ RequestLoop
       \/ call[self] = "receive_message" /\ ReceiveLoop
    /\ UNCHANGED <<timing, serial>>

k_send_console_chars(env, request_ack, text) ==
    /\ k' = k_send_message(k, self, UART_I_PROCESS_PID,
               Message(env, self,
                       IF request_ack THEN "CONSOLE_OUTPUT_REQUEST_ACK" ELSE "CONSOLE_OUTPUT", text))
    /\ SERIAL1_IMR' = 3
    /\ echoed' = FALSE
    /\ UNCHANGED <<call, timing, out>>

k_request_delay(env, time_delay, wakeup_code) ==
    /\ k' = k_send_message(k, self, TIMER_I_PROCESS_PID, Message(env, self, wakeup_code, time_delay))
    /\ UNCHANGED <<call, timing, serial>>

(* The primitive that d0 names gets its arguments from d2, d3 and d4;      *)
(* content is what the caller has written into the envelope it passes.     *)
(* The primitives that only report are left out.                           *)
kern_swi_handler(regs, content) ==
    CASE regs.d0 = TRAP_TABLE_SEND_MESSAGE ->
           /\ k' = k_send_message(k, self, regs.d2,
                       Message(regs.d3, self, content.msg_type, content.data))
           /\ UNCHANGED <<call, timing, serial>>
      [] regs.d0 = TRAP_TABLE_RECEIVE_MESSAGE -> ReceiveLoop /\ UNCHANGED <<timing, serial>>
      [] regs.d0 = TRAP_TABLE_REQUEST_MSG_ENV -> RequestLoop /\ UNCHANGED <<timing, serial>>
      [] regs.d0 = TRAP_TABLE_RELEASE_MSG_ENV ->
           /\ k' = k_release_msg_env(k, self, regs.d2)
           /\ UNCHANGED <<call, timing, serial>>
      [] regs.d0 = TRAP_TABLE_RELEASE_PROCESSOR ->
           /\ k' = k_release_processor(k)
           /\ UNCHANGED <<call, timing, serial>>
      [] regs.d0 = TRAP_TABLE_CHANGE_PRIORITY ->
           /\ k' = k_change_priority(k, regs.d2, regs.d3)
           /\ UNCHANGED <<call, timing, serial>>
      [] regs.d0 = TRAP_TABLE_REQUEST_DELAY -> k_request_delay(regs.d4, regs.d2, regs.d3)
      [] regs.d0 = TRAP_TABLE_SEND_CONSOLE_CHARS -> k_send_console_chars(regs.d2, regs.d3, content.data)

(* The bound leaves time for the tick at which the delay is over.          *)
TimeLeft(time_delay) == clock + 1 + time_delay <= MaxTime

Content(msg_type, data) == [msg_type |-> msg_type, data |-> data]

Trap(regs) == kern_swi_handler(regs, Content("user", 0))

(* The null process does nothing but release the processor.                *)
UserTrap ==
    /\ InUserCode
    /\ \/ Trap(release_processor)
       \/ /\ self \in UserProc
          /\ \/ Trap(receive_message)
             \/ Trap(request_msg_env)
             \/ \E new_priority \in 0 .. NUM_PRIORITIES - 1, target \in Target :
                   Trap(change_priority(new_priority, target))
             \/ \E env \in k.held[self] :
                   \/ Trap(release_msg_env(env))
                   \/ \E dest \in UserProc : Trap(send_message(dest, env))
                   \/ \E time_delay \in Delay :
                         TimeLeft(time_delay) /\ Trap(request_delay(time_delay, "WAKEUP", env))
                   \/ \E request_ack \in BOOLEAN, text \in Text :
                         kern_swi_handler(send_console_chars(env, request_ack), Content("user", text))

-----------------------------------------------------------------------------
(* The timer interrupt                                                     *)

(* The first envelope, from the second on, that is due no sooner; else the *)
(* end of the list.  (At the end the code reads through the NULL it has    *)
(* reached, which on this board yields a number and no fault, and leaves   *)
(* the loop.)                                                              *)
FirstNoSooner(queue, timeout) ==
    CHOOSE i \in 2 .. Len(queue) + 1 :
       /\ i <= Len(queue) => timeout <= queue[i].timeout
       /\ \A j \in 2 .. i - 1 : queue[j].timeout < timeout

timeout_queue_insert(queue, message, now) ==
    LET node == [env      |-> message.env,
                 send_pid |-> message.send_pid,
                 msg_type |-> message.msg_type,
                 timeout  |-> now + message.data]
        i    == FirstNoSooner(queue, node.timeout)
    IN  IF queue = <<>> \/ node.timeout <= Head(queue).timeout
          THEN <<node>> \o queue
          ELSE SubSeq(queue, 1, i - 1) \o <<node>> \o SubSeq(queue, i, Len(queue))

(* The whole mailbox, oldest message first.                                *)
InsertAll(queue, mail, now) ==
    LET after[i \in 0 .. Len(mail)] ==
          IF i = 0 THEN queue ELSE timeout_queue_insert(after[i - 1], mail[i], now)
    IN  after[Len(mail)]

MailboxEmptied(kk, p) ==
    [kk EXCEPT !.recv_msgs[p] = <<>>,
               !.held[p] = @ \cup Envelopes(kk.recv_msgs[p])]

(* Fault: the head is returned whether or not it is due.                   *)
HeadReturned(queue, now) == queue # <<>>

check_timeout_queue(queue, now) == queue # <<>> /\ Head(queue).timeout <= now

(* One envelope at most is sent back per tick.                             *)
timer_i_process ==
    LET now   == clock + 1
        queue == InsertAll(timeout_queue, k.recv_msgs[TIMER_I_PROCESS_PID], now)
        kept  == MailboxEmptied(k, TIMER_I_PROCESS_PID)
    IN  /\ clock' = now
        /\ IF check_timeout_queue(queue, now)
             THEN /\ timeout_queue' = Tail(queue)
                  /\ k' = k_send_message(kept, TIMER_I_PROCESS_PID, Head(queue).send_pid,
                             Message(Head(queue).env, TIMER_I_PROCESS_PID, Head(queue).msg_type, 0))
             ELSE /\ timeout_queue' = queue
                  /\ k' = kept

(* The i-process of the interrupt runs as current_process, and then the    *)
(* interrupted process goes on, whoever became ready.                      *)
isr_handler(i_process) == i_process /\ UNCHANGED call

asm_timer_entry ==
    /\ InUserCode
    /\ clock < MaxTime
    /\ isr_handler(timer_i_process)
    /\ UNCHANGED serial

-----------------------------------------------------------------------------
(* The serial port's interrupt: one of two halves                          *)

(* SERIAL1_IMR = 3; SERIAL1_WD = c; SERIAL1_IMR = 2.                       *)
Echo ==
    /\ SERIAL1_IMR' = 2
    /\ echoed' = TRUE

(* A line that ends goes to CCI, in an envelope of the i-process or not at *)
(* all.  (What the line is, module SerialInput says.)                      *)
LineEnd(line) ==
    LET granted == RequestByIProcess(k, UART_I_PROCESS_PID)
        new     == granted.held[UART_I_PROCESS_PID]
    IN  /\ Echo
        /\ k' = IF new = {} THEN granted
                ELSE k_send_message(granted, UART_I_PROCESS_PID, CCI_PID,
                        Message(CHOOSE env \in new : TRUE, UART_I_PROCESS_PID, "CONSOLE_INPUT", line))
        /\ UNCHANGED out

(* Any other character is echoed.  (Hotkeys, which only print kernel data, *)
(* and characters that InBuffer has no room for change nothing.)           *)
PlainKey == Echo /\ UNCHANGED <<k, out>>

(* A character is in the receiver.  (While the interrupts are masked it    *)
(* waits there: as if it had come later.)                                  *)
ReceiveHalf == PlainKey \/ \E line \in Line : LineEnd(line)

(* Fault: the text is acknowledged to the i-process itself.                *)
AckToSelf(m) == UART_I_PROCESS_PID

AckGoesTo(m) == m.send_pid

(* The next text is copied to OutBuffer, and its envelope goes back to the *)
(* sender or to the pool at once.                                          *)
TextLoaded(kk) ==
    LET m     == Head(kk.recv_msgs[UART_I_PROCESS_PID])
        taken == MailTaken(kk, UART_I_PROCESS_PID)
    IN  [out |-> [OutBuffer |-> m.data, outputIndex |-> 0, output_print_char |-> TRUE],
         k   |-> IF m.msg_type = "CONSOLE_OUTPUT"
                   THEN k_release_msg_env(taken, UART_I_PROCESS_PID, m.env)
                   ELSE k_send_message(taken, UART_I_PROCESS_PID, AckGoesTo(m),
                           Message(m.env, UART_I_PROCESS_PID, "DISPLAY_ACK", 0))]

NextText(kk, o) ==
    IF HasMail(kk, UART_I_PROCESS_PID) THEN TextLoaded(kk) ELSE [out |-> o, k |-> kk]

(* Fault: the end of any text masks the transmitter.                       *)
MaskedAfterEachText(loaded) == 2

ImrAfterText(loaded) == IF loaded.out.output_print_char THEN SERIAL1_IMR ELSE 2

(* An idle i-process first takes a text.  Then it writes one character or, *)
(* at the end of a text, takes the next one or masks the transmitter.      *)
TransmitHalf ==
    LET first == IF out.output_print_char THEN [out |-> out, k |-> k] ELSE NextText(k, out)
        next  == NextText(first.k, Idle)
    IN  /\ SERIAL1_IMR = 3
        /\ IF ~first.out.output_print_char
             THEN UNCHANGED <<k, out, SERIAL1_IMR>>
             ELSE IF first.out.outputIndex = first.out.OutBuffer
             THEN /\ k' = next.k /\ out' = next.out
                  /\ SERIAL1_IMR' = ImrAfterText(next)
             ELSE /\ k' = first.k
                  /\ out' = [first.out EXCEPT !.outputIndex = @ + 1]
                  /\ UNCHANGED SERIAL1_IMR
        /\ UNCHANGED echoed

(* A received character is seen to first; the transmitter has its turn     *)
(* when there is none.                                                     *)
asm_uart_entry(half) ==
    /\ InUserCode
    /\ isr_handler(half)
    /\ UNCHANGED timing

-----------------------------------------------------------------------------
Next ==
    \/ UserTrap
    \/ ResumeInLoop
    \/ asm_timer_entry
    \/ asm_uart_entry(ReceiveHalf)
    \/ asm_uart_entry(TransmitHalf)

Spec == Init /\ [][Next]_vars

(* A process in a kernel loop goes on.  An interrupt that is pending is    *)
(* taken as soon as the mask is lowered; and characters come in so slowly  *)
(* that the transmitter has its turn between two of them.                  *)
FairSpec ==
    /\ Spec
    /\ WF_vars(ResumeInLoop)
    /\ SF_vars(asm_uart_entry(TransmitHalf))

-----------------------------------------------------------------------------
(* Properties                                                              *)

Envs == Env \cup SysEnv

(* Every field holds a value of its C type, outputIndex stays within the   *)
(* text, and the processor belongs to a process.                           *)
TypeOK ==
    /\ k.current_process \in Proc \ IProc
    /\ k.state \in [Proc -> process_state]
    /\ k.priority \in [Proc -> 0 .. NUM_PRIORITIES]
    /\ k.queues \in LinksType(Queue)
    /\ k.env_owned \in [Proc -> Int]
    /\ k.held \in [Proc -> SUBSET Envs]
    /\ call \in [Proc -> {"none", "request_msg_env", "receive_message"}]
    /\ clock \in 1 .. MaxTime
    /\ SERIAL1_IMR \in {2, 3}
    /\ out.OutBuffer \in Text \cup {0} /\ out.outputIndex \in 0 .. out.OutBuffer
    /\ echoed \in BOOLEAN

(* The mail of p, as envelopes.                                            *)
Mail(p) == Envelopes(k.recv_msgs[p])

(* Every envelope is in one place, those reserved for i-processes never    *)
(* end in the common pool, and env_owned, which the hotkey ` prints as     *)
(* "Env Held", is right although i-processes take part (k_send_message,    *)
(* k_request_msg_env, k_release_msg_env).                                  *)
EnvelopesAccounted ==
    /\ Elements(k.free_env_q) \subseteq Env /\ Elements(k.sys_free_env_q) \subseteq SysEnv
    /\ \A env \in Envs :
          Cardinality({p \in Proc : env \in k.held[p]}) + Cardinality({p \in Proc : env \in Mail(p)})
             = IF env \in Elements(k.free_env_q) \cup Elements(k.sys_free_env_q) THEN 0 ELSE 1
    /\ Len(k.free_env_q) = Cardinality(Elements(k.free_env_q))
    /\ Len(k.sys_free_env_q) = Cardinality(Elements(k.sys_free_env_q))
    /\ \A p \in Proc : k.env_owned[p] = Cardinality(k.held[p]) + Len(k.recv_msgs[p])
    /\ k.held[TIMER_I_PROCESS_PID] = {node.env : node \in Elements(timeout_queue)}

(* request_process_status gives a picture that fits the queues: one        *)
(* process executes, and every process reported ready, or blocked on an    *)
(* envelope, stands in the queue of the priority reported.                 *)
ReportMatchesQueues ==
    LET report == Elements(k_request_process_status(k))
        In(status, priority) == {row.pid : row \in {r \in report : /\ r.pid \notin IProc
                                                                   /\ r.status = status
                                                                   /\ r.priority = priority}}
    IN  /\ {row.pid : row \in {r \in report : r.status = "P_EXECUTING"}} = {k.current_process}
        /\ \A i \in 0 .. NUM_PRIORITIES : Members(k.queues, <<"ready", i>>) = In("P_READY", i)
        /\ \A i \in 0 .. NUM_PRIORITIES - 1 :
              Members(k.queues, <<"blocked_request_env", i>>) = In("P_BLOCKED_ON_ENV_REQUEST", i)

(* No process sleeps over a message, nor over a free envelope unless one   *)
(* that was woken for it is on its way; interrupts send and release, too.  *)
NobodySleepsOverWork ==
    /\ \A p \in UserProc : k.state[p] = "P_BLOCKED_ON_RECEIVE" => ~HasMail(k, p)
    /\ (\E p \in UserProc : k.state[p] = "P_BLOCKED_ON_ENV_REQUEST")
          => Len(k.free_env_q) <= Cardinality({p \in UserProc :
                                     /\ call[p] = "request_msg_env"
                                     /\ k.state[p] # "P_BLOCKED_ON_ENV_REQUEST"})

OutputPending == out.output_print_char \/ HasMail(k, UART_I_PROCESS_PID)

(* The transmitter interrupts exactly while there is something to print,   *)
(* but for the echo.  An interrupt for nothing ("Uart i process expected   *)
(* an env but received NULL", uart_i_process.c:108) would not mask itself  *)
(* and come back for ever.  The other way round, output stops half-way in  *)
(* one way only: a character was typed and its echo has masked the         *)
(* transmitter (uart_i_process.c:50, :76), which nothing but another       *)
(* send_console_chars undoes.                                              *)
MaskFollowsOutput ==
    /\ SERIAL1_IMR = 3 => OutputPending
    /\ OutputPending => SERIAL1_IMR = 3 \/ echoed

(* The delay service as a process sees it; times count from 0, and a       *)
(* message in the mailbox becomes a timeout at the next tick.              *)
Due == [env \in Envs |->
          IF env \in Mail(TIMER_I_PROCESS_PID)
            THEN clock + (CHOOSE m \in Elements(k.recv_msgs[TIMER_I_PROCESS_PID]) : m.env = env).data
          ELSE IF env \in k.held[TIMER_I_PROCESS_PID]
            THEN (CHOOSE node \in Elements(timeout_queue) : node.env = env).timeout - 1
          ELSE 0]

Service == INSTANCE DelayService WITH
              Env     <- Envs,
              now     <- clock - 1,
              pending <- Mail(TIMER_I_PROCESS_PID) \cup k.held[TIMER_I_PROCESS_PID],
              due     <- Due

(* The timer i-process of this port, too, returns the earliest envelope    *)
(* once it is due.                                                         *)
ImplementsDelayService == Service!DelaySpec

(* A text handed to the serial port is loaded in the end, and its envelope *)
(* given back, unless an echo stops the output.                            *)
TextsLoadedOrSilenced ==
    \A env \in Envs :
       env \in Mail(UART_I_PROCESS_PID) ~> env \notin Mail(UART_I_PROCESS_PID) \/ echoed
=============================================================================
