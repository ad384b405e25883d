# A specification of RTX

RTX is a small real-time executive: a fixed set of processes, priority
scheduling without preemption, envelopes for message passing, a timing service
and a console. The repository holds two ports of it: `src/unix`, where the
kernel is one unix process, hardware interrupts are signals, and two helper
processes stand for the keyboard and the screen; and `src/coldfire`, which runs
on an MCF5307 board with a serial port and a hardware timer.

This directory specifies both ports in TLA+: the kernel of the unix port with
its signals and helper processes, and the Coldfire port from its interrupts up
to the programs that run on it. In section 1, `kern/` is `src/unix/kern/src`
where the unix port is described and `src/coldfire/kern/src` where the other
one is.

## 1. The system

### Components of the unix port

| Component | State | Operations | What makes it correct |
|---|---|---|---|
| Process queues (`kern/proc_queue.c`, `proc_pq.c`) | per queue `head`, `tail`; per pcb one `next`, shared by all queues | enqueue, dequeue, remove, scan by priority | each queue is a FIFO list; a pcb is in the one its status calls for; no link survives in a pcb that is in none |
| Scheduler (`k_scheduler.c`, `k_process.c`, `null_process.c`) | `current_process`, `status`, `priority`, ready queues | process switch, release_processor, change_priority, boot | the processor always has an owner; the most urgent ready process gets it; equals take turns |
| Envelope storage (`k_storage.c`, `msg_env_queue.c`) | free list, queues of waiting processes | request_msg_env, release_msg_env | an envelope is in one place; nobody sleeps for an envelope while one is free and unspoken for |
| Message passing (`k_ipc.c`) | a mailbox per process | send_message, receive_message | no message is lost, no process sleeps over a full mailbox |
| Signal entry (`k_signal_handler.c`) | `interrupted_process`, the static `flag` | enter and exit of an i-process | an i-process never blocks; the interrupted process resumes |
| Atomic sections (`k_atomic.c`, `k_primitives.c`) | `atomic_count` per process, the signal mask, one static saved mask | atomic(ON), atomic(OFF) | a primitive is not interrupted; afterwards all signals get through again |
| Timing service (`timeout_i_process.c`, `timeout_queue.c`, `k_clock.c`, `k_delay.c`) | the clock, a list sorted by timeout | request_delay, the tick | never early, boundedly late, always answered |
| Console output (`k_console.c`, `crt_i_process.c`, `crt/src/main.c`) | a display queue, memory shared with the helper, its flag | send_console_chars, the CRT i-process, the helper's loop | every text once, in order, acknowledged after it is printed |
| Console input (`kb_i_process.c`, `keyboard/src/main.c`) | shared buffer, length, flag | get_console_chars, the KB i-process, the helper's loop | a line is delivered as typed if nobody types on meanwhile, and leaves nothing behind |
| Message trace (`k_ipc.c:68-127`) | two rings of 16 records | log, dump | the dump shows the last 16, oldest first |
| Processes (`abc`, `cci`, `wallclock`, `rtx_util`) | their own queues and counters | messages between them | nobody waits for ever for an envelope or an acknowledgement |
| Boot (`k_init.c`, `k_uart.c`, `main.c`) | - | allocation, fork, mmap | the initial state of the rest |

The components meet in three ways. Primitives are plain calls from the running
process into the kernel, with the signals masked. A signal switches to an
i-process on top of the running process; the i-process uses the same primitives
and then gives the processor back. The helpers run truly in parallel with the
kernel, and share a buffer and a flag with one i-process each.

### Components of the Coldfire port

| Component | State | Operations | What makes it correct |
|---|---|---|---|
| Kernel (`kern/k_primitives.c`, `k_process.c`, `k_scheduler.c`, `k_ipc.c`, `proc_pq.c`, `msg_env_queue.c`) | as on unix; also `env_owned` per process and a pool of envelopes reserved for i-processes | the same primitives | as on unix, although interrupts call several primitives in one go; the reserve and the counts are never mixed up |
| Traps (`k_api.c`, `isr_entries.s`, `trap_table.h`) | registers, the interrupt mask | one stub per primitive, `kern_swi_handler` | the primitive called is the one meant, with its arguments |
| Timer (`timer_i_process.c`, `timeout_queue.c`, `k_clock.c`) | as on unix | the timer interrupt | as on unix |
| Serial port (`uart_i_process.c`, `k_hotkeys.c`) | a line that comes in, a text that goes out, the port's own interrupt mask | send_console_chars, a character received, a character sent | lines arrive as typed; the transmitter is masked exactly when there is nothing to send |
| Message trace (`k_ipc.c`, `k_primitives.c:218`) | two rings of 16 records | log, dump, CCI's table of the dump | the last 16 of each kind, oldest first |
| Programs (`kern/cci.c`, `cci_utils.c`, `user/src`) | queues of their own, the envelopes they keep, A's counter | messages between them, `print_ack` | no envelope is lost or used by two; counts stay in order; commands end |
| Time of day (`wallclock.c`, `util/src/utils.c`) | offset and reference | set, show | the time shown is the time it is |

Here the kernel is entered by a trap or by an interrupt, both of which mask all
interrupts from their first instruction to their last but one. An i-process
runs to its end as `current_process`; nothing is switched on the way, and
whoever became ready waits for the next switch.

### What is hard

* **Pointers shared by queues.** One `next` per pcb serves every queue, so one
  wrong pointer damages several lists, some calls later.
* **Loops with a switch inside.** A process woken in `k_request_msg_env` or
  `k_receive_message` has been given nothing; it tests again when it runs.
* **Signals.** They arrive between any two instructions outside a primitive,
  also inside `atomic` itself, merge when they are pending already, and find a
  saved mask that all processes and handlers share.
* **Two processes and one flag.** The CRT i-process reads the helper's flag
  twice in one run, and the helper may lower it in between. The keyboard's pair
  shares a buffer and its length, and has no working flag at all.
* **Boundaries of lists.** The end of the timeout list, the tail of a queue,
  the full line buffer, the wrap-around of the trace rings.
* **One mask, two purposes.** The serial port's mask says whether a text is
  under way. Echoing a key clears it, whatever is under way.
* **Queues behind mailboxes.** A program that waits for one kind of message
  puts the others into a queue of its own, and must look there first afterwards.
* **Bounded resources.** 32 envelopes for everybody; one text in the buffer;
  one timeout returned per tick.

`PROJECT.json` lists each of these at its line, with the properties that guard
it, or the reason why none does.

## 2. The modules

| Module | What it is |
|---|---|
| `ProcQueue` | the process queues, as operators on the record of all `head`, `tail` and `next` pointers |
| `Kernel` | scheduler, envelopes, messages and i-process entry: one action per primitive, or per branch of one that can block |
| `Scheduler` | the abstract scheduler: FIFO lists by priority. `Kernel` implements it |
| `Timer` | the timing service, one action per step of the i-process |
| `DelayService` | what a delay promises, with no list in it. `Timer` implements it |
| `Console` | console output, one action per access to the shared memory |
| `Display` | a FIFO screen with acknowledgements. `Console` implements it |
| `Signals` | `atomic` and the signal handler, one action per access to the counter or the mask |
| `ColdfireKernel` | the primitives of the Coldfire kernel, as operators from one state of it to the next |
| `TrapStubs` | the stubs of `k_api.c`: the registers they load |
| `Board` | the machine: traps from any user code, the timer interrupt, the two halves of the serial interrupt. It implements `DelayService`, too |
| `Applications` | CCI, wall clock, A, B, C and the null process as programs on `Board` |
| `Keyboard` | the unix console's line: helper and i-process, one action per access to the shared memory |
| `SerialInput` | the line buffer behind the serial port |
| `MessageTrace` | the trace rings of both ports, the dump, and the table the board's CCI prints |
| `TimeOfDay` | the wall clock's arithmetic and text, with `rtx_atoi` and `rtx_sprintf` |
| `MCKernel`, `MCTimer`, `MCConsole`, `MCSignals`, `MCBoard`, `MCApplications`, `MCTools` | the instances TLC checks |
| `ProcQueueProofs`, `KernelProofs`, `QueueProofs`, `TimerProofs`, `ConsoleProofs`, `SignalsProofs`, `BoardProofs`, `ToolsProofs` | theorems |

**How they fit together.** `Kernel` takes a primitive, and a call of one by an
i-process, as one step. `Signals` looks at the steps inside: its theorem
`PrimitivesAtomic` says that no handler runs within a primitive. What `Signals`
does not exclude is a handler on top of another (`signals_nest`); in `Kernel`,
too, a signal may reach an i-process, and then the assertion in
`k_i_process_enter` fails and the RTX is over (`aborted`). So what `Kernel` shows
holds up to that point, and nothing is assumed about nesting. `Timer` and
`Console` look at two users of the kernel and take from it that mailboxes are
FIFO and that an i-process runs alone until it exits.

**Kernel.** `queues` holds the pointers of all queues; `status`, `priority`,
`recv_msgs`, `free_env_q`, `current_process`, `interrupted_process` and `flag` are
the fields and globals of those names. `call[p]` stands for the program counter of
a process suspended in a primitive. `held[p]` is the set of envelopes user code
has a pointer to; the model's only assumption about user code is that it sends
and releases envelopes it holds. The free list and the mailboxes, whose
envelopes are in one place under that assumption, are sequences.

**Timer.** `msg[env]` is the integer inside the envelope: the delay while it is
in the mailbox, the absolute timeout once it is in the list. `promised` is a
history variable. The crash of the search is `running = "terminated"`.

**Console.** `sender` covers a process from its call to the acknowledgement,
which it has once its state is `answered`; since each sender waits for it (as
CCI, the wall clock and C do), its name serves as its envelope and its text.
`kill` of oneself is synchronous, the helper's signal is not, and both merge in
`SIGUSR2`.

**Signals.** `frames[p]` is the stack of handlers on top of process p, each
with the mask it will restore. `at[p]` tells where in `atomic` the process
itself is.

**ColdfireKernel and Board.** The kernel's data are one record `k`, and each
primitive is an operator on it named after the C function. An interrupt makes
several calls in one step, and the operators compose. What differs from the
unix kernel is in `RequestByIProcess`, `Disowned`, `Posted` and
`k_release_msg_env`; the process queues do not differ, so both use `ProcQueue`.
`call[p]` says in which of the two loops with a switch inside p is suspended.
`out` is the text under way, as its length and how much of it is written;
`SERIAL1_IMR` is the register. `echoed` is a history variable.

**Applications.** A program is a list of calls it still has to make, built from
operators named after its functions: what the code does between two calls
touches its own variables only. `ProgramStep` makes one call of the running
program through the stubs and the trap handler of `Board`. `program[p].queue`
is the queue the code moves other messages to while it waits for one. Of a
command line the model keeps the command and whether its arguments are valid.

**Keyboard.** `helper` and `kb` are program counters; `at` is the length the
helper has loaded when it stores its character, so that `length++` can write
back a length that was reset in between. `undisturbed` is a history variable:
it turns FALSE when a key is hit while a line is taken in, and TRUE again when
the i-process empties the buffer with nothing typed since.

**SerialInput, MessageTrace, TimeOfDay** are algorithms on their own data. Each
carries a history variable with what the answer should be: the line as typed,
the last messages, the time as hours, minutes and seconds. `MCTools` checks
them and `Keyboard` in one run, one of them per behaviour.

Definitions whose comment starts with "Fault:" are plausible mistakes, next to
the definition they would replace; no specification uses them. Each property
below has been seen to fail with one of them in place.

## 3. The runs

| Run | Question | Result |
|---|---|---|
| `kernel_mixed` | 3 user processes of 2 priorities, 2 i-processes, 2 envelopes; all calls and signals in all orders | 560 000 states: types, status, return from interrupts, null process, envelope, wakeup and urgency properties hold |
| `kernel_crowd` | 4 user processes, 1 envelope: lists of three | 100 000 states: the pointer lists match the statuses, and the kernel implements `Scheduler` |
| `kernel_tail` | as `kernel_mixed`, with `TailMoves = TRUE` | **violated**: `assert(pcb->next == NULL)` can fail |
| `timer_delay` | 3 delays at a time, of 0, 1 or 3 ticks | 31 000 states: sorted, never early, late by at most the number of others, answered, implements `DelayService` |
| `timer_fall` | does the search always find a place? | **violated**: it runs off a list of two |
| `console_shared` | 3 senders, i-process and helper in every order | 7 500 states: implements `Display`, the buffer is stable, every text is shown |
| `console_ack` | is every sender acknowledged? | **violated**: one acknowledgement can be overwritten |
| `signals_mask` | 2 processes, 3 signals, arriving between any two steps | 300 000 states: primitives are not interrupted, no mask goes stale, signals are handled |
| `signals_nest` | can an i-process be interrupted by another? | **violated**: `assert(flag == 0)` can fail |
| `coldfire_board` | CCI and a user process, all traps and interrupts in all orders, one envelope in the pool and one in the reserve | 210 000 states: envelopes and `env_owned` are right, the status report fits the queues, nobody sleeps over work, the transmitter interrupts only for work, only an echo stops the output, every text is loaded and its envelope given back, `DelayService` is implemented |
| `coldfire_applications` | the programs together, a pool that A empties, one or two lines or keys typed at any time | 175 000 states: programs hold and can reach the same envelopes, the counts reach C in order, commands end |
| `coldfire_tools` | lines up to and over the limit of the buffers, on unix with helper and i-process in every order; rings of 4 that wrap around, messages received in any order; clock set to the edges of hour and day | 183 000 states: lines, the dump on unix, the table on the board and the time are what they should be |

### What the violations show

* `kernel_tail` - `proc_queue_remove` unlinks the last of several pcbs without
  moving `queue->tail`. The next enqueue then writes the `next` of a process
  that has left the list. Two processes of one priority and `change_priority`
  are enough. The passing kernel runs exclude exactly that call
  (`TailMoves = FALSE`: `change_priority` does not move the last of several
  queued processes), and what they show holds up to it.
* `timer_fall` - `timeout_queue_insert` reads `node->msg` before it tests `node`
  for NULL. Two envelopes queued and a third due after both: the RTX is
  terminated by its SIGSEGV handler. The two delays the shipped processes use
  (the wall clock and C) cannot do it (theorem `TwoDelaysAreSafe`).
* `console_ack` - the CRT i-process tests the flag for the acknowledgement, and
  again for the next text. When the helper lowers it in between, the second
  text takes the place of the first in `prev_msg`.
* `signals_nest` - `atomic` counts before it masks. A signal in between takes
  the section for masked already and runs its i-process with other signals open.

### What the Coldfire runs say about the echo

`uart_i_process` echoes a key by setting the mask to 3, writing, and setting it
to 2 (lines 48-50 and 74-76). If a text is under way, the transmitter is masked
with it, and the text, its acknowledgement and the program that waits for it
stand still until some process prints again. No document says that this may not
happen, so it is no finding, but every property about output has it as its
exception: `MaskFollowsOutput`, `TextsLoadedOrSilenced`, `CommandsEnd`. The first
says that there is no other reason. A wall clock whose display is on
waits for an acknowledgement itself and so need not end the silence.

### Bounds

* Processes and priorities: a wakeup or urgency property relates at most two
  processes and the running one, which three user processes and two priorities
  provide, with two i-processes that interrupt any of them, or each
  other. Unlinking from the middle of a list needs a list of three besides the
  running process, hence the four user processes of `kernel_crowd`. Two envelopes let one be free while another
  is waited for; that needs the requester to be interrupted or slow, which
  happens in `kernel_mixed`.
* `VIEW LiveLinks`: the `tail` of an empty queue is never read, so states that
  differ there only are taken for one. No property mentions such a tail, except
  that i-processes are not in it (`InterruptedComesBack`), which the theorem
  covers for every state.
* `MaxTime` bounds the clock of `Timer`. A request is made only if time for its
  answer is left, so the bound cuts off no answer. Three envelopes suffice for a
  list of two with a third to be inserted before, between or behind them; with
  delays 0, 1 and 3 equal, adjacent and separated timeouts occur.
* Three senders put one text on the screen, one in the queue and one on its
  way. A signal is pending or not; there is no counter to bound.
* `Board`: one envelope in the pool and one in the reserve are enough for an
  i-process to take from either or to go without, and for a process to wait
  while an interrupt releases. A text of length 1 has a first, a last and a
  terminating step; the second text is the one in the mailbox. With CCI and one
  user process, at most two processes are queued, and change_priority cannot
  unlink from the middle: the Coldfire queues have the tail of `kernel_tail`,
  too, and `Board` does not reach it. `MaxTime` as in `Timer`. CCI is a target
  of change_priority only to be turned away.
* `Applications`: nine envelopes are what the programs keep, and two for A to
  run out of. C pauses at every second count instead of every twentieth, for one
  tick instead of a thousand; A's count is kept modulo 4, twice that period. The
  clock stops after 3 ticks, which are enough for C to pause and resume and for
  the wall clock to show the time. Texts are as short as possible, and one
  stands for a table. Two keys, so that the second can hit while the first is
  worked on. Of all commands only `s` starts A, so only what is left of `s` itself
  runs beside a pool that is drained. A second line after it makes the run too
  long: with the clock at 3 the liveness check does not end in five minutes, and
  the safety properties alone take 1.3 million states.
* `MCTools`: the unix buffer of 2 gets lines of up to 3, and one request for
  input at a time is pending or none. The board's buffer of 6 takes 3 characters
  and the carriage return; lines of up to 6 occur. Two messages are sent and
  received any number of times, in any order. Rings of 4 stand for 16, with a
  multiple of 4 for 2^32; a second has 2 ticks, and the clock starts at 1, as the
  code's does. The commands include every carry, and texts that are refused or
  wrongly accepted.
* `CHECK_DEADLOCK FALSE`, where it appears: `Timer` stops at its clock bound or
  when the RTX has terminated, `Console` when no acknowledgement is to come,
  `Signals` when an assertion has failed. `Kernel` stops only when the
  assertion on `flag` has failed, after which it stutters (`Terminated`), and is
  checked for deadlock.

### Fairness

* `Kernel`: none. It has no liveness property: processes may keep the processor
  for as long as they like, since nothing preempts them.
* `Timer`: SIGALRM comes every 100 ms, and the i-process runs to its exit.
* `Console`: a pending signal is delivered, an i-process runs to its exit, a
  sender that has put its text into the mailbox goes on to its `kill`, and unix
  schedules the helper. Nobody has to send.
* `Signals`: handlers and `atomic` go on; some process leaves its primitive
  again and again; and a signal unblocked again and again gets through, because
  `sigprocmask` delivers a pending signal before it returns. Nothing is assumed
  about signals being raised.

* `Board`: a process dispatched in a kernel loop goes on (weak fairness); a
  transmit interrupt that is possible again and again is taken (strong, as the
  mask comes and goes). A pending interrupt is taken when the mask is lowered,
  and a received character goes before, but a terminal is slower than that.
  Nothing is assumed about processes, ticks or keys.
* `Applications`: also, the running program makes its next call, whatever
  interrupts. Only the null process gives up the processor in every round, but
  so does every program that waits, so each gets its turn by the scheduler and
  not by an assumption.

## 4. The proofs

TLAPS checks the theorems below for every value of the constants.

| Theorem | Statement |
|---|---|
| `KernelProofs!TypeCorrect` | `[]TypeOK` |
| `KernelProofs!SchedulerNeverIdle` | `[]NullProcessStandsBy`: `k_process_switch` always finds a process |
| `KernelProofs!IProcessesOnlyBorrow` | `[]InterruptedComesBack`: the assertions of `k_i_process_exit` hold, an i-process never blocks, and `flag` is 0 whenever a process runs |
| `QueueProofs!NobodyForgotten`, `EnqueueAssertion`, `StatusTellsTheTruth` | if no tail is moved: `[]QueuesMatchStatus`, `[]UnqueuedHasNoLink`, `[]StatusFollowsProcessor` |
| `QueueProofs!DispatchesByUrgency`, `WakesByUrgency` | if no tail is moved: the action properties `MostUrgentDispatched`, `MostUrgentWaiterWoken` |
| `QueueProofs!KernelImplementsScheduler` | if no tail is moved: `Kernel` implements `Scheduler` |
| `QueueProofs!NoEnvelopeLost` | `[]EnvelopesConserved` |
| `QueueProofs!MailWakesReceiver` | `[]NoSleepOverMail` |
| `QueueProofs!NoWakeupLost` | if no tail is moved: `[]NoEnvelopeIdleWhileOneSleeps` |
| `TimerProofs!TimerTypeCorrect`, `QueueSorted`, `NoEnvelopeListedTwice` | `[]TypeOK`, `[]Sorted`, `[]ListedOnce` |
| `TimerProofs!DelaysNeverShort` | `NeverEarly`, also for negative delays |
| `TimerProofs!LatenessBounded` | if no delay is negative: `[]BoundedLateness` |
| `TimerProofs!TimerRefines` | `Timer` implements `DelayService` |
| `TimerProofs!TwoDelaysAreSafe` | with two envelopes the search never falls off the list |
| `ConsoleProofs!ConsoleTypes`, `BufferNeverChangesUnderHelper` | `[]TypeOK`, `BufferStable` |
| `ConsoleProofs!ConsoleImplementsDisplay` | `Console` implements `Display` |
| `SignalsProofs!CountersNeverNegative` | `[]TypeOK`, the assertion in `atomic` included |
| `SignalsProofs!PrimitivesAtomic` | `[]PrimitivesNotInterrupted` |
| `SignalsProofs!SignalsReachUserCode` | `[]UserCodeInterruptible` |
| `BoardProofs!BoardTypes`, `InterruptsFollowOutput` | `[]TypeOK`, `[]MaskFollowsOutput` |
| `BoardProofs!EveryEnvelopeAccounted` | `[]EnvelopesAccounted` |
| `BoardProofs!BoardKeepsDelays` | `Board` implements `DelayService` |
| `BoardProofs!ReportFitsQueues`, `NobodyOversleeps` | if no tail is moved (`TailsStay`): `[]ReportMatchesQueues`, `[]NobodySleepsOverWork` |
| `BoardProofs!TwoUserProcesses` | with two user processes, both in any case |
| `ToolsProofs!LineArrivesAsTyped`, `WholeLineReachesCci` | `[]LineReadAsTyped`, `[]LineReachesCci` |
| `ToolsProofs!TraceShowsLastMessages` | `[]TraceInOrder`: the dump on unix, the table on the board |
| `ToolsProofs!ClockShowsTheTime` | `[]ShowsTheTime`, until the 32-bit system time overflows (248 days) |

*Kernel.* `SchedInv` is the inductive invariant. Besides the types it says that
no queue but the last ready queue holds the null process, in `head`, `tail` or
any `next`, that i-processes are in none, and that `flag` is 1 exactly while a
process is interrupted. It says nothing about lists being
well formed, which is why these theorems need no assumption about `TailMoves`:
even with damaged queues the processor is never without an owner. `TypeOK`
alone is not inductive: `current_process' = NULL` is excluded only by the null
process standing by. `EnvelopesConserved` is inductive relative to `TypeOK`.

*The queues.* `QueueInv` says that there are sequences of processes, one for
every queue, such that following the links from `head` yields the sequence and
ends at `tail`, every process is in the sequence its status and priority name
and in no other, and a process in none has no link. The properties speak of
`Members`, a traversal, and `ProcQueueProofs` first shows, for the queues of
either port, that the traversal of a list is its sequence, what each function of
`proc_queue.c` makes of it, and that the lists stay those the statuses and the
priorities call for (`Right`). The
theorems that rest on `QueueInv` have the hypothesis `~TailMoves`: with the
calls it excludes they are false, as `kernel_tail` shows. `NoSleepOverMail` has
an invariant of its own and holds in any case. `Kernel` maps to `Scheduler` by
these sequences, and each function on the links to one on sequences; a wakeup is
the append of a process to a ready list, in the same step as its removal from
the waiting list.

*Timer.* `TimerInv` adds to `Sorted` that each envelope is in one list and there
once, without which writing a timeout could disturb the order, and that the
promised time lies before the timeout. The refinement maps every action but the
exit of the i-process and the request to a stutter. For `BoundedLateness`,
`LatenessInv` counts for each envelope that is due those due no later than it:
their number and the ticks it is late together stay below the number of
envelopes, since every tick returns one of them and a request is due in the
future. That last step is where delays must not be negative. The C code does not
forbid a negative delay, which is in time as soon as the next tick comes, but is
inserted in front of envelopes that are late.

*Console.* `ConsoleInv` says that a text is in one place only, in the mailbox,
in the display queue, on its way to the buffer or in `prev_msg`; that its sender
waits for as long; and that the flag is up exactly while the helper may read.
With it, a text queued, printed or acknowledged is a step of `Display`, and
everything else a stutter.

*Signals.* `MaskInv` says that the counter of a process is the number of calls
of `atomic(ON)` on its stack not undone yet; that every user process but the
one that runs (or would but for an i-process) is inside a primitive with no
handler on top; and that the running one, when inside a primitive, has all
signals blocked. Counting is what excludes a process that enters its primitive,
finds a count other than 1 and does not mask. `UserCodeInterruptible` is about
the mask as `sigprocmask` restores it, from one static variable. `StackInv` says
which mask that is: on the stack of the running process each handler was entered
with the mask of the one below it and its own signal; only the first call of
`atomic(ON)` on the stack blocks all signals, and nothing comes on top of it; a
process that leaves the processor inside a primitive has an empty stack and has
saved an empty mask. It holds until a handler interrupts an i-process, which
then runs into the assertion on `flag` (`signals_nest`).

*Board.* An interrupt makes several calls of the kernel in one step, so
`BoardProofs` shows for each primitive that it keeps `KernelOk`, whoever calls
it, and then puts them together. `KernelOk` holds of damaged lists, too: this
port has the tail of `kernel_tail`. For the envelopes, a function locates each
of them, so that it cannot be in two places; every primitive moves one envelope
or none, and the insertion of the timer's mail into the list is a loop of moves.
The loops of the code (`init_processes`, the pools, `InsertAll`) are recursive
functions, whose existence is proved before they are used (`LoopDefines`). With
the list sorted and each envelope in one place, the due time of an envelope is
the same while it is a message as when it is in the list, and the timer
interrupt is a tick of `DelayService`.

For the queues of the board, `Orderly` adds to `KernelOk` that the lists are
right (`ListsOk`), from the loop of `init_processes` on, and that whoever waits
for an envelope is in the loop of `k_request_msg_env` and no more envelopes are
free than there are processes in that loop that do not wait (`IdleOk`): a
release frees one and wakes one, and a process leaves the loop with one. Each
primitive keeps `Orderly`, but for `k_change_priority` of a process that is the
last of several in its queue. `Board` has no constant that excludes this call,
so the two theorems have the hypothesis that no step makes it
(`[][TailsStay]_vars`). It is needed: with three user processes TLC finds
`ReportMatchesQueues` violated after four traps. With two there is no such call
to make, since the caller runs and is in no queue; that is `TwoUserProcesses`,
and the reason why the run `coldfire_board` needs no hypothesis.

*Lines, trace, time.* For both lines the invariant relates the buffer to what
was typed. On unix (`KeyInv`) two conditions take turns as long as the line is
not disturbed: while it is typed, the buffer holds it up to the character the
helper is about to store or to count; from the newline to the reset it holds all
of it and the helper rests. Once disturbed, only the types are known, up to the
next reset that finds nothing typed. On the board (`LineInv`) `InBuffer` holds
the line as far as there is room, the carriage return included. `Ring` says that
a ring holds the last N messages from its oldest entry to `tail`; the search of
either dump then stops at the oldest entry (`HeadFound`), on unix also where the
subtraction from an unsigned 0 wraps around, because N divides 2^32. `ClockInv`
says that offset and ticks since the reference time come to the second of the
day on the face. The rest is arithmetic: what `rtx_atoi` reads of a command is
the time it means (`MeantIsParsed`), the fields of the text are the quotients
and remainders of that second (`OfTheDay`), and each is written with two digits
(`TwoDigits`).

The assumptions are those of the modules (`ASSUME`): sets of processes and
envelopes are finite, pids are table indices and each process has one row of the
table, exactly the null process has the last priority, delays are integers (on
the board, where texts have a length, naturals), users and signals are disjoint,
the board's i-processes are the timer and the serial port; buffers have the
room the code takes for granted (two characters behind the line, at least one
character or message), the size of a trace divides 2^32 on unix, the clock is followed
up to 2^31 - 1 ticks and a second has more than one, and a command is a sequence
of characters. TLC evaluates them in
every run of a module that has them. Hypotheses of single theorems are in the table above.

**Only model-checked:** the programs on the board (`EnvelopesInHand`,
`CountsInOrder`), whose control state is the list of calls a program has still
to make; and all liveness (`DelayAnswered`, `EveryTextShown`, `SignalsHandled`,
`TextsLoadedOrSilenced`, `CommandsEnd`), which is out of reach of the prover.

## 5. Not modelled, and why

* *The unix programs* (`abc`, `cci`, `wallclock`, `rtx_util`). They are earlier
  versions of the board's, which `Applications` models, with two differences. The
  unix CCI prints one column of the received messages in the trace from the sent
  ones (`cci/src/cci_util.c:78`, against line 117 of the board's `cci_utils.c`),
  so that a message received out of the order of sending is shown with the
  destination of another; `TraceInOrder` claims the dump for unix, and the table
  for the board only. And at
  the end of its loop the unix process C releases pointers to envelopes it has
  released or sent (`abc/src/c.c:89-91`). An envelope can then be in two lists
  at once. A model would need the `next` pointers of envelopes in place of the
  sequences of `Kernel`. To `Kernel` these programs are callers of primitives in
  any order, with envelopes they hold.
* *Boot, files, processes and signals that end the program; tests; debug
  output.* Operating-system calls without a state of their own here.
* *Pong* (`user/src/pong.c`, the branch for `pong_mode` in `uart_i_process`, the
  command `pong`). The game is unfinished: it takes no account of the limits of
  its board, and CCI starts it by calling kernel functions without a trap.
* *Primitives that only report* (`request_process_status` is an operator, used
  in `ReportMatchesQueues`; get_system_time, get_trace_buffers) are no steps of
  `Board`. `terminate` ends the program.
* *Messages from user code straight to an i-process.* `Board` lets processes
  reach the i-processes through request_delay and send_console_chars only, as
  all programs do.
* *Texts*: the characters of messages, tables and escape sequences, other than
  the time and the line.

On unix, a line of 1024 characters has its terminator written one byte behind
the envelope's text (`kb_i_process.c:22`); `Keyboard` has the text of such a
line, and no memory behind it.

Three things seen in the Coldfire port that no property is about: `rtx_atoi`
takes `:` for a digit of value 10 (`utils.c:246`), and the wall clock accepts
negative fields, after which `ShowsTheTime` says nothing; the search in an empty
trace ring does not end on the board, where `uint32_t` is signed
(`coldfire.h:52`), which cannot happen to a user because the command line that
asks for the trace is a message itself; and change_priority of a pid that does
not exist reads through NULL (`k_primitives.c:157`).
