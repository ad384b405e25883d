------------------------------- MODULE Signals -------------------------------
(***************************************************************************)
(* How the unix port makes its primitives atomic (unix/kern/src/           *)
(* k_atomic.c, k_primitives.c, k_signal_handler.c).  A primitive calls     *)
(* atomic(ON) before and atomic(OFF) after its work: a counter per process *)
(* that blocks the signals when it becomes 1 and restores the former mask, *)
(* kept in one static variable, when it becomes 0.  The handler of a       *)
(* signal does the same around the i-process it switches to.               *)
(*                                                                         *)
(* Module Kernel takes primitives and i-processes for single steps.  Here  *)
(* are the steps that are to make them so: every instruction of atomic     *)
(* that changes the counter or the mask, with signals arriving in between. *)
(***************************************************************************)
EXTENDS Integers, Sequences

CONSTANTS
    User,    \* the processes that are not i-processes
    Signal,  \* SIGALRM, SIGUSR1, SIGUSR2; each stands for its i-process, too
    NULL

ASSUME UserAssumption == User # {} /\ User \cap Signal = {}
ASSUME NullAssumption == NULL \notin User \cup Signal

Process == User \cup Signal

VARIABLES
    current_process,
    interrupted_process,
    atomic_count,  \* pcb->atomic_count
    at,            \* where a process is: see UserStep; "kernel" for an i-process
    frames,        \* per process, the handlers that run on its stack, innermost last
    blocked,       \* the signal mask of the unix process that is the RTX
    oldmask,       \* the static variable of atomic
    pending,       \* the signals raised and not delivered
    flag,          \* is an i-process running?
    aborted        \* has an assertion failed?

vars == <<current_process, interrupted_process, atomic_count, at, frames,
          blocked, oldmask, pending, flag, aborted>>

Frame == [sig : Signal, mask : SUBSET Signal,
          at : {"on", "counted", "enter", "away", "off", "uncounted", "return"}]

(* Fault: every process starts with a count of 0.                          *)
CountFromZero == [p \in Process |-> 0]

(* A process that was not dispatched yet starts with a call of atomic(OFF).*)
InitialCount == [p \in Process |-> IF p \in User \ {current_process} THEN 1 ELSE 0]

(* The first process has left atomic(OFF) and runs; the others are as if   *)
(* in the primitive they will return from when they are dispatched.        *)
Init ==
    /\ current_process \in User
    /\ interrupted_process = NULL
    /\ atomic_count = InitialCount
    /\ at = [p \in Process |-> IF p = current_process THEN "user" ELSE "kernel"]
    /\ frames = [p \in Process |-> <<>>]
    /\ blocked = {}
    /\ oldmask = {}
    /\ pending = {}
    /\ flag = 0
    /\ aborted = FALSE

-----------------------------------------------------------------------------
(* The four steps of atomic, by the current process                        *)

CountUp   == atomic_count' = [atomic_count EXCEPT ![current_process] = @ + 1]
CountDown == atomic_count' = [atomic_count EXCEPT ![current_process] = @ - 1]

(* Fault: the count is tested as it was before the increment.              *)
FirstOnTooLate == atomic_count[current_process] = 2

FirstOn == atomic_count[current_process] = 1

(* Fault: the count is tested as it was before the decrement.              *)
LastOffTooEarly == atomic_count[current_process] = 1

LastOff == atomic_count[current_process] = 0

BlockSignals ==
    IF FirstOn THEN oldmask' = blocked /\ blocked' = blocked \cup Signal
               ELSE UNCHANGED <<oldmask, blocked>>

RestoreMask ==
    /\ blocked' = IF LastOff THEN oldmask ELSE blocked
    /\ UNCHANGED oldmask

-----------------------------------------------------------------------------
(* A user process: "user" -> "counted" -> "kernel" -> "uncounted" -> "user"*)

InProcess(place) ==
    /\ ~aborted
    /\ current_process \in User
    /\ frames[current_process] = <<>>
    /\ at[current_process] = place

GoTo(place) ==
    /\ at' = [at EXCEPT ![current_process] = place]
    /\ UNCHANGED <<current_process, interrupted_process, frames, pending, flag, aborted>>

EnterPrimitive == InProcess("user") /\ CountUp /\ GoTo("counted") /\ UNCHANGED <<blocked, oldmask>>

MaskPrimitive == InProcess("counted") /\ BlockSignals /\ GoTo("kernel") /\ UNCHANGED atomic_count

LeavePrimitive ==
    /\ InProcess("kernel")
    /\ CountDown
    /\ GoTo("uncounted")
    /\ UNCHANGED <<blocked, oldmask>>

UnmaskPrimitive == InProcess("uncounted") /\ RestoreMask /\ GoTo("user") /\ UNCHANGED atomic_count

(* k_process_switch to a process that left the processor the same way.     *)
SwitchTo(p) ==
    /\ InProcess("kernel")
    /\ p \in User \ {current_process}
    /\ current_process' = p
    /\ UNCHANGED <<interrupted_process, atomic_count, at, frames, blocked, oldmask, pending,
                   flag, aborted>>

UserStep ==
    \/ EnterPrimitive \/ MaskPrimitive \/ LeavePrimitive \/ UnmaskPrimitive
    \/ \E p \in User : SwitchTo(p)

-----------------------------------------------------------------------------
(* Signals                                                                 *)

(* A signal that is pending already is not raised twice.                   *)
Raise(sig) ==
    /\ ~aborted
    /\ sig \notin pending
    /\ pending' = pending \cup {sig}
    /\ UNCHANGED <<current_process, interrupted_process, atomic_count, at, frames, blocked,
                   oldmask, flag, aborted>>

(* A handler installed with sigset runs with its own signal blocked.       *)
Deliver(sig) ==
    /\ ~aborted
    /\ sig \in pending \ blocked
    /\ pending' = pending \ {sig}
    /\ frames' = [frames EXCEPT ![current_process] =
                     Append(@, [sig |-> sig, mask |-> blocked, at |-> "on"])]
    /\ blocked' = blocked \cup {sig}
    /\ UNCHANGED <<current_process, interrupted_process, atomic_count, at, oldmask, flag, aborted>>

-----------------------------------------------------------------------------
(* handle_signal: "on" -> "counted" -> "enter" -> "away" -> "off" ->       *)
(* "uncounted" -> return                                                   *)

Innermost(p) == frames[p][Len(frames[p])]

InHandler(place) ==
    /\ ~aborted
    /\ frames[current_process] # <<>>
    /\ Innermost(current_process).at = place

Moved(p, place) == [frames EXCEPT ![p][Len(frames[p])].at = place]

HandlerOn ==
    /\ InHandler("on")
    /\ CountUp
    /\ frames' = Moved(current_process, "counted")
    /\ UNCHANGED <<current_process, interrupted_process, at, blocked, oldmask, pending, flag, aborted>>

HandlerMask ==
    /\ InHandler("counted")
    /\ BlockSignals
    /\ frames' = Moved(current_process, "enter")
    /\ UNCHANGED <<current_process, interrupted_process, atomic_count, at, pending, flag, aborted>>

(* assert(flag == 0): the handler of SIGABRT terminates the RTX.           *)
k_i_process_enter ==
    /\ InHandler("enter")
    /\ IF flag = 0
         THEN /\ flag' = 1
              /\ interrupted_process' = current_process
              /\ current_process' = Innermost(current_process).sig
              /\ frames' = Moved(current_process, "away")
              /\ UNCHANGED aborted
         ELSE /\ aborted' = TRUE
              /\ UNCHANGED <<flag, interrupted_process, current_process, frames>>
    /\ UNCHANGED <<atomic_count, at, blocked, oldmask, pending>>

(* Back into the handler on the stack of the interrupted process.          *)
k_i_process_exit ==
    /\ ~aborted
    /\ current_process \in Signal
    /\ frames[current_process] = <<>>
    /\ flag' = 0
    /\ interrupted_process' = NULL
    /\ current_process' = interrupted_process
    /\ frames' = Moved(interrupted_process, "off")
    /\ UNCHANGED <<atomic_count, at, blocked, oldmask, pending, aborted>>

HandlerOff ==
    /\ InHandler("off")
    /\ CountDown
    /\ frames' = Moved(current_process, "uncounted")
    /\ UNCHANGED <<current_process, interrupted_process, at, blocked, oldmask, pending, flag, aborted>>

HandlerUnmask ==
    /\ InHandler("uncounted")
    /\ RestoreMask
    /\ frames' = Moved(current_process, "return")
    /\ UNCHANGED <<current_process, interrupted_process, atomic_count, at, pending, flag, aborted>>

(* The mask becomes what it was when the signal was delivered.             *)
HandlerReturn ==
    /\ InHandler("return")
    /\ blocked' = Innermost(current_process).mask
    /\ frames' = [frames EXCEPT ![current_process] = SubSeq(@, 1, Len(@) - 1)]
    /\ UNCHANGED <<current_process, interrupted_process, atomic_count, at, oldmask, pending,
                   flag, aborted>>

HandlerStep ==
    \/ HandlerOn \/ HandlerMask \/ k_i_process_enter \/ k_i_process_exit
    \/ HandlerOff \/ HandlerUnmask \/ HandlerReturn

-----------------------------------------------------------------------------
Next ==
    \/ UserStep
    \/ \E sig \in Signal : Raise(sig) \/ Deliver(sig)
    \/ HandlerStep

Spec == Init /\ [][Next]_vars

(* A handler runs on; a process in a primitive leaves it, or another one   *)
(* does, since some process can always run; and sigprocmask does not       *)
(* return before a pending signal it unblocks has been delivered, so that  *)
(* one whose mask is opened again and again gets through.                  *)
FairSpec ==
    /\ Spec
    /\ WF_vars(HandlerStep)
    /\ WF_vars(MaskPrimitive \/ UnmaskPrimitive)
    /\ SF_vars(LeavePrimitive)
    /\ \A sig \in Signal : SF_vars(Deliver(sig))

-----------------------------------------------------------------------------
(* Properties                                                              *)

(* Every variable holds a value of its type, and no counter is negative,   *)
(* as the assertion in atomic demands (k_atomic.c:38).                     *)
TypeOK ==
    /\ current_process \in Process
    /\ interrupted_process \in Process \cup {NULL}
    /\ atomic_count \in [Process -> Nat]
    /\ at \in [Process -> {"user", "counted", "kernel", "uncounted"}]
    /\ frames \in [Process -> Seq(Frame)]
    /\ blocked \subseteq Signal
    /\ oldmask \subseteq Signal
    /\ pending \subseteq Signal
    /\ flag \in {0, 1}
    /\ aborted \in BOOLEAN

(* Once atomic(ON) has returned and until atomic(OFF) has counted down, no *)
(* handler runs on the stack of the process, although other processes, and *)
(* their calls of atomic, may run in between: the work of a primitive is   *)
(* not interrupted.                                                        *)
PrimitivesNotInterrupted ==
    \A p \in User : at[p] = "kernel" => /\ frames[p] = <<>>
                                        /\ p = current_process => blocked = Signal

(* Outside the primitives and the handlers every signal gets through:      *)
(* however handlers and primitives have nested, none has left a stale mask *)
(* in oldmask.                                                             *)
UserCodeInterruptible ==
    \A p \in User : p = current_process /\ at[p] = "user" /\ frames[p] = <<>> => blocked = {}

(* When no more signals are raised, every pending one gets its i-process,  *)
(* unless the assertion in k_i_process_enter has stopped the RTX.  (While  *)
(* they keep coming, one that arrives at every return of a handler could   *)
(* keep that handler from returning for ever.)                             *)
SignalsHandled ==
    <>[][\A sig \in Signal : ~Raise(sig)]_vars => <>[](pending = {} \/ aborted)

(* assert(flag == 0) in k_i_process_enter (k_signal_handler.c:99): an      *)
(* i-process is not interrupted to run another one.                        *)
IProcessesDoNotNest == ~aborted
=============================================================================
