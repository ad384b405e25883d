----------------------------- MODULE Applications -----------------------------
(***************************************************************************)
(* The programs of the Coldfire port on their kernel: the CCI              *)
(* (kern/src/cci.c, cci_utils.c), the wall clock (user/src/wallclock.c),   *)
(* the processes A, B and C and the null process.  Module Board is the     *)
(* machine under them, with its interrupts.                                *)
(*                                                                         *)
(* A program is what it still has to do: a list of calls.  The code        *)
(* between two calls touches nothing but the program's own variables, and  *)
(* belongs to the call before it.  A program that has done all goes back   *)
(* to the head of its loop.  Texts have no characters here: one interrupt  *)
(* writes one.  Left out are CCI's `pong', for which it enters the kernel  *)
(* without a trap, `t', which ends it all, and the two calls that only     *)
(* fill status_env for `ps' and `b'.                                       *)
(***************************************************************************)
EXTENDS Board

LOCAL INSTANCE SequencesExt

CONSTANTS
    WALLCLOCK_PID, PROC_A_PID, PROC_B_PID, PROC_C_PID,
    ONE_SECOND_DELAY, TEN_SECONDS,   \* in ticks
    PERIOD,      \* C reports the counts this divides (20)
    Counts,      \* A's counter is kept modulo this, a multiple of PERIOD
    TableRows,   \* the texts a table consists of
    Keys         \* what is typed: each a sequence of lines and other keys

ASSUME ApplicationsAssumption ==
    /\ {CCI_PID, WALLCLOCK_PID, PROC_A_PID, PROC_B_PID, PROC_C_PID} = UserProc
    /\ {ONE_SECOND_DELAY, TEN_SECONDS, TableRows} \subseteq Nat
    /\ \A typed \in Keys : \A i \in DOMAIN typed : typed[i] \in Line \cup {NULL}
    /\ PERIOD \in Nat \ {0} /\ Counts \in Nat \ {0} /\ Counts % PERIOD = 0

VARIABLES
    program,           \* what each process has to do, and its variables
    counter,           \* A's
    clock_display_en,  \* the wall clock's
    handled,           \* history: the last count C has looked at
    keys               \* what has yet to be typed; NULL is a key that ends no line

locals  == <<program, counter, clock_display_en, handled>>
appVars == <<vars, locals, keys>>

-----------------------------------------------------------------------------
(* Calls.  An envelope is named by the variable that points to it; "env"   *)
(* is the message the process has in hand.                                 *)

RequestEnv(v)             == [do |-> "request", env |-> v]
Receive                   == [do |-> "receive"]
Await(msg_type)           == [do |-> "await", msg_type |-> msg_type]
Send(dest, v, content)    == [do |-> "send", dest |-> dest, env |-> v, content |-> content]
Release(v)                == [do |-> "release", env |-> v]
Yield                     == [do |-> "yield"]
RequestDelay(v, ticks, wakeup_code) ==
    [do |-> "delay", env |-> v, ticks |-> ticks, wakeup_code |-> wakeup_code]
PrintText(v, request_ack)     == [do |-> "print", env |-> v, request_ack |-> request_ack]
ChangePriority            == [do |-> "change_priority"]
DisplayClock(on)          == [do |-> "display_clock", on |-> on]

print_ack(v) == <<PrintText(v, TRUE), Await("DISPLAY_ACK")>>

Texts(n, v) == FlattenSeq([i \in 1 .. n |-> print_ack(v)])

-----------------------------------------------------------------------------
(* The CCI                                                                 *)

(* A message to the wall clock, and its answer.                            *)
AskWallClock(msg_type, data) ==
    <<Send(WALLCLOCK_PID, "clock_env", Content(msg_type, data)), Await("CLOCK_RET")>>

CCI_displayWallClock(disp_b) == AskWallClock(IF disp_b THEN "CLOCK_ON" ELSE "CLOCK_OFF", "")

CCI_setWallClock(newTime) == AskWallClock("CLOCK_SET", newTime)

(* A line is its first word, and what else there is to tell about it.      *)
Command(line, proc_a_env) ==
    CASE line.cmd = "s"  -> IF proc_a_env # NULL
                              THEN <<Send(PROC_A_PID, "proc_a_env", Content("START", ""))>>
                              ELSE print_ack("print_env")
      [] line.cmd \in {"ps", "b"} -> Texts(TableRows, "print_env")
      [] line.cmd = "cd" -> CCI_displayWallClock(TRUE)
      [] line.cmd = "ct" -> CCI_displayWallClock(FALSE)
      [] line.cmd = "n"  -> IF line.arg = "valid" THEN <<ChangePriority>> ELSE print_ack("print_env")
      [] line.cmd = "c"  -> IF line.arg = "" THEN print_ack("print_env") ELSE CCI_setWallClock(line.arg)
      [] line.cmd = ""   -> Texts(2, "print_env")
      [] OTHER           -> print_ack("print_env")

(* Every message goes back to the pool, the ones CCI should not get, too.  *)
start_cci(m, proc_a_env) ==
    (IF m.msg_type = "CONSOLE_INPUT" THEN Command(m.data, proc_a_env) \o print_ack("print_env")
                                     ELSE <<>>)
    \o <<Release("env")>>

-----------------------------------------------------------------------------
(* The wall clock and the processes A, B and C                             *)

TickDelay == RequestDelay("timeout_env", ONE_SECOND_DELAY, "WAKEUP_CODE")

ReplyTo(m, data) == <<Send(m.send_pid, "env", Content("CLOCK_RET", data))>>

_displayWallClock(disp_b) ==
    (IF disp_b THEN <<>> ELSE print_ack("send_env")) \o <<DisplayClock(disp_b)>>

start_wallclock(m) ==
    CASE m.msg_type = "WAKEUP_CODE" ->
           <<TickDelay>> \o (IF clock_display_en THEN print_ack("send_env") ELSE <<>>)
      [] m.msg_type = "CLOCK_ON"  -> _displayWallClock(TRUE) \o ReplyTo(m, "")
      [] m.msg_type = "CLOCK_OFF" -> _displayWallClock(FALSE) \o ReplyTo(m, "")
      [] m.msg_type = "CLOCK_SET" ->
           (IF m.data = "valid" THEN <<>> ELSE print_ack("send_env")) \o ReplyTo(m, "")
      [] OTHER -> <<>>

process_A == <<RequestEnv("count_msg"),
               Send(PROC_B_PID, "count_msg", Content("COUNT_REPORT", counter)),
               Yield>>

process_B(m) == <<Send(PROC_C_PID, "env", Content(m.msg_type, m.data))>>

(* The processor is released at the end of the loop.                       *)
process_C(m) ==
    (IF m.msg_type = "COUNT_REPORT" /\ m.data % PERIOD = 0
       THEN <<PrintText("env", FALSE),
              RequestDelay("timeout_msg", TEN_SECONDS, "WAKEUP_10"),
              Await("WAKEUP_10")>>
       ELSE <<Release("env")>>)
    \o <<Yield>>

-----------------------------------------------------------------------------
(* What a process does from its start, in each round of its loop, and with *)
(* a message                                                               *)

Start(p) ==
    CASE p = CCI_PID       -> <<RequestEnv("print_env"), RequestEnv("proc_a_env"),
                                RequestEnv("status_env"), RequestEnv("clock_env")>>
                              \o Texts(2, "print_env")
      [] p = WALLCLOCK_PID -> <<RequestEnv("timeout_env"), RequestEnv("send_env"), TickDelay>>
      [] p = PROC_A_PID    -> <<Receive>>
      [] p = PROC_C_PID    -> <<RequestEnv("timeout_msg")>>
      [] OTHER             -> <<>>

Loop(p) ==
    CASE p = PROC_A_PID -> process_A
      [] p = NULL_PID   -> <<Yield>>
      [] OTHER          -> <<Receive>>

Reaction(p, m) ==
    CASE p = CCI_PID       -> start_cci(m, program[p].var["proc_a_env"])
      [] p = WALLCLOCK_PID -> start_wallclock(m)
      [] p = PROC_A_PID    -> <<Release("env")>>
      [] p = PROC_B_PID    -> process_B(m)
      [] p = PROC_C_PID    -> process_C(m)

(* The variables that point to envelopes the process means to keep, and    *)
(* those it forgets once it has given the envelope away.                   *)
Kept == {"print_env", "status_env", "clock_env", "timeout_env", "send_env", "timeout_msg"}
Var  == Kept \cup {"proc_a_env", "count_msg"}

NoMessage == Message(NULL, NULL, "none", 0)

AppInit ==
    /\ Init
    /\ program = [p \in Proc \ IProc |->
                     [todo |-> Start(p), var |-> [v \in Var |-> NULL], msg |-> NoMessage, queue |-> <<>>]]
    /\ counter = 0
    /\ clock_display_en = FALSE
    /\ handled = Counts - 1
    /\ keys \in Keys

-----------------------------------------------------------------------------
(* One call of the process that has the processor                          *)

Todo(p) == IF program[p].todo = <<>> THEN Loop(p) ELSE program[p].todo

NextCall == Head(Todo(self))

Done == [program[self] EXCEPT !.todo = Tail(Todo(self))]

Envelope(v) == IF v = "env" THEN program[self].msg.env ELSE program[self].var[v]

Given(v) ==
    CASE v = "env"  -> [Done EXCEPT !.msg = NoMessage]
      [] v \in Kept -> Done
      [] OTHER      -> [Done EXCEPT !.var[v] = NULL]

(* A message is in hand.  C notes the counts it sees.                      *)
Taken(m, queue) ==
    /\ program' = [program EXCEPT ![self] =
                      [Done EXCEPT !.msg = m, !.queue = queue, !.todo = Reaction(self, m) \o @]]
    /\ handled' = IF self = PROC_C_PID /\ m.msg_type = "COUNT_REPORT" THEN m.data ELSE handled

(* Fault: the latest message comes first.                                  *)
QueuedInFront(queue, m) == <<m>> \o queue

(* Fault: the messages that come in meanwhile are dropped.                 *)
NotQueued(queue, m) == queue

msg_env_queue_enqueue(queue, m) == Append(queue, m)

(* The loops that wait for one type of message and queue up the others.    *)
Awaited(m) ==
    /\ program' = [program EXCEPT ![self] =
                      IF m.msg_type = NextCall.msg_type THEN Done
                      ELSE [@ EXCEPT !.queue = msg_env_queue_enqueue(@, m), !.todo = Todo(self)]]
    /\ UNCHANGED handled

(* From the process's own queue, if there is something in it.              *)
FromQueue ==
    /\ NextCall.do = "receive"
    /\ program[self].queue # <<>>
    /\ Taken(Head(program[self].queue), Tail(program[self].queue))
    /\ UNCHANGED <<vars, counter, clock_display_en>>

FromMailbox ==
    /\ \/ NextCall.do = "receive" /\ program[self].queue = <<>>
       \/ NextCall.do = "await"
    /\ ReceiveLoop
    /\ IF ~HasMail(k, self) THEN UNCHANGED <<program, handled>>
       ELSE LET m == Head(k.recv_msgs[self])
            IN  IF NextCall.do = "await" THEN Awaited(m) ELSE Taken(m, program[self].queue)
    /\ UNCHANGED <<timing, serial, counter, clock_display_en>>

FromPool ==
    /\ NextCall.do = "request"
    /\ RequestLoop
    /\ program' = IF k.free_env_q = <<>> THEN program
                  ELSE [program EXCEPT ![self] = [Done EXCEPT !.var[NextCall.env] = Head(k.free_env_q)]]
    /\ UNCHANGED <<timing, serial, counter, clock_display_en, handled>>

(* A call that gives an envelope away.                                     *)
GiveAway ==
    /\ LET env == Envelope(NextCall.env)
       IN  \/ NextCall.do = "send" /\ kern_swi_handler(send_message(NextCall.dest, env), NextCall.content)
           \/ NextCall.do = "release" /\ Trap(release_msg_env(env))
           \/ NextCall.do = "delay" /\ Trap(request_delay(NextCall.ticks, NextCall.wakeup_code, env))
           \/ /\ NextCall.do = "print"
              /\ kern_swi_handler(send_console_chars(env, NextCall.request_ack), Content("", 0))
    /\ program' = [program EXCEPT ![self] = Given(NextCall.env)]
    /\ counter' = IF self = PROC_A_PID /\ NextCall.do = "send" THEN (counter + 1) % Counts ELSE counter
    /\ UNCHANGED <<clock_display_en, handled>>

(* Any other call.                                                         *)
OtherCall ==
    /\ \/ NextCall.do = "yield" /\ Trap(release_processor) /\ UNCHANGED clock_display_en
       \/ /\ NextCall.do = "change_priority"
          /\ \E new_priority \in 0 .. NUM_PRIORITIES - 1, target \in Target :
                Trap(change_priority(new_priority, target))
          /\ UNCHANGED clock_display_en
       \/ NextCall.do = "display_clock" /\ clock_display_en' = NextCall.on /\ UNCHANGED vars
    /\ program' = [program EXCEPT ![self] = Done]
    /\ UNCHANGED <<counter, handled>>

ProgramStep ==
    /\ FromQueue \/ FromMailbox \/ FromPool \/ GiveAway \/ OtherCall
    /\ UNCHANGED keys

TimerInterrupt == asm_timer_entry /\ UNCHANGED <<locals, keys>>

TransmitInterrupt == asm_uart_entry(TransmitHalf) /\ UNCHANGED <<locals, keys>>

KeyHit ==
    /\ keys # <<>>
    /\ keys' = Tail(keys)
    /\ asm_uart_entry(IF Head(keys) = NULL THEN PlainKey ELSE LineEnd(Head(keys)))
    /\ UNCHANGED locals

AppNext == ProgramStep \/ TimerInterrupt \/ TransmitInterrupt \/ KeyHit

AppSpec == AppInit /\ [][AppNext]_appVars

(* The processor runs, whatever the interrupts; the transmitter as before. *)
AppFairSpec == AppSpec /\ WF_appVars(ProgramStep) /\ SF_appVars(TransmitInterrupt)

-----------------------------------------------------------------------------
(* Properties                                                              *)

(* The counts get to C in the order A sent them and without a gap, through *)
(* two mailboxes, the queue C fills while it waits for its ten seconds,    *)
(* and a pool that runs dry (a.c, b.c, c.c).                               *)
CountsInOrder == [][handled' # handled => handled' = (handled + 1) % Counts]_handled

(* The envelopes p can reach.                                              *)
Reachable(p) ==
    {program[p].var[v] : v \in Var} \cup {program[p].msg.env} \cup Envelopes(program[p].queue)

(* The programs lose no envelope, and use none that they have given away:  *)
(* what a process holds, it can reach, and what it is about to pass to the *)
(* kernel, it holds.                                                       *)
EnvelopesInHand ==
    /\ \A p \in UserProc : k.held[p] \subseteq Reachable(p)
    /\ self \in UserProc /\ NextCall.do \in {"send", "release", "delay", "print"}
          => Envelope(NextCall.env) \in k.held[self]

(* A command that CCI has begun is over in the end, unless a key hit in    *)
(* the middle of the output has stopped it (uart_i_process.c:50, :76).     *)
CciBusy == Head(Todo(CCI_PID)).do # "receive"
Silenced == SERIAL1_IMR = 2 /\ OutputPending
CommandsEnd == CciBusy ~> ~CciBusy \/ Silenced
=============================================================================
