-------------------------------- MODULE Timer --------------------------------
(***************************************************************************)
(* The timing service (unix/kern/src/timeout_i_process.c, timeout_queue.c, *)
(* k_clock.c, k_delay.c): processes hand envelopes in with a delay, and on *)
(* every SIGALRM the timeout i-process records a tick, moves what is in    *)
(* its mailbox to a list sorted by timeout, and returns one envelope that  *)
(* is due.                                                                 *)
(*                                                                         *)
(* The i-process is not interrupted and nothing else runs before it exits, *)
(* so its steps are only interleaved with requests between two ticks.      *)
(***************************************************************************)
EXTENDS Integers, Sequences, FiniteSets

CONSTANTS
    Env,      \* the envelopes processes use for delays
    Delay,    \* the delays they ask for
    MaxTime   \* bound on the clock, which the code lets run on

ASSUME EnvIsFinite == IsFiniteSet(Env)
ASSUME DelayIsInt == Delay \subseteq Int
ASSUME MaxTimeIsNat == MaxTime \in Nat

VARIABLES
    clock,          \* ticks since boot
    running,        \* "user", "timeout_i" or, once the RTX has crashed, "terminated"
    mailbox,        \* recv_msgs of the timeout i-process
    msg,            \* the integer in each envelope: the delay, then the timeout
    timeout_queue,  \* the sorted list, as the sequence its links form
    promised        \* history: the clock at the request plus the delay

vars == <<clock, running, mailbox, msg, timeout_queue, promised>>

Elements(seq) == {seq[i] : i \in 1 .. Len(seq)}

Pending == Elements(mailbox) \cup Elements(timeout_queue)

Init ==
    /\ clock = 0
    /\ running = "user"
    /\ mailbox = <<>>
    /\ msg = [env \in Env |-> 0]
    /\ timeout_queue = <<>>
    /\ promised = [env \in Env |-> 0]

(* A process may use any envelope it holds: one that was not handed in or  *)
(* has come back.  The bound leaves time for every envelope to come back.  *)
k_request_delay(env, time_delay) ==
    /\ clock + time_delay + Cardinality(Env) <= MaxTime
    /\ running = "user"
    /\ env \notin Pending
    /\ msg' = [msg EXCEPT ![env] = time_delay]
    /\ mailbox' = Append(mailbox, env)
    /\ promised' = [promised EXCEPT ![env] = clock + time_delay]
    /\ UNCHANGED <<clock, running, timeout_queue>>

(* SIGALRM: the i-process starts with k_clock_incr_system_time.            *)
TickRecorded ==
    /\ running = "user"
    /\ clock < MaxTime
    /\ clock' = clock + 1
    /\ running' = "timeout_i"
    /\ UNCHANGED <<mailbox, msg, timeout_queue, promised>>

-----------------------------------------------------------------------------
(* timeout_queue_insert                                                    *)

(* Fault: the envelope's next is set to the one it follows.                *)
InsertAfterWithLoop(i, env) ==
    SubSeq(timeout_queue, 1, i) \o <<env>> \o SubSeq(timeout_queue, i, Len(timeout_queue))

InsertAfter(i, env) ==
    SubSeq(timeout_queue, 1, i) \o <<env>> \o SubSeq(timeout_queue, i + 1, Len(timeout_queue))

(* Fault: only an empty list is treated apart.                             *)
GoesFirstIfEmpty(timeout) == timeout_queue = <<>>

GoesFirst(timeout) == timeout_queue # <<>> => timeout <= msg[Head(timeout_queue)]

(* The search, which starts at the second envelope, stops at the i-th.     *)
SearchStops(timeout, i) ==
    /\ i \in 2 .. Len(timeout_queue)
    /\ timeout <= msg[timeout_queue[i]]
    /\ \A j \in 2 .. i - 1 : timeout > msg[timeout_queue[j]]

(* The loop reads the timeout of the next node before it tests the node    *)
(* for NULL: with two or more envelopes queued, all due before the new     *)
(* one, it follows the NULL of the last, and the handler of SIGSEGV        *)
(* terminates the RTX.                                                     *)
SearchFallsOff(timeout) ==
    /\ ~GoesFirst(timeout)
    /\ Len(timeout_queue) >= 2
    /\ \A i \in 2 .. Len(timeout_queue) : timeout > msg[timeout_queue[i]]

Inserted(env, timeout) ==
    \/ /\ GoesFirst(timeout)
       /\ timeout_queue' = <<env>> \o timeout_queue
    \/ /\ ~GoesFirst(timeout) /\ Len(timeout_queue) = 1
       /\ timeout_queue' = InsertAfter(1, env)
    \/ \E i \in 2 .. Len(timeout_queue) :
          /\ ~GoesFirst(timeout)
          /\ SearchStops(timeout, i)
          /\ timeout_queue' = InsertAfter(i - 1, env)

(* The next envelope of the mailbox.                                       *)
timeout_queue_insert ==
    /\ running = "timeout_i"
    /\ mailbox # <<>>
    /\ LET env     == Head(mailbox)
           timeout == clock + msg[env]
       IN  IF SearchFallsOff(timeout)
             THEN /\ running' = "terminated"
                  /\ UNCHANGED <<mailbox, msg, timeout_queue>>
             ELSE /\ mailbox' = Tail(mailbox)
                  /\ msg' = [msg EXCEPT ![env] = timeout]
                  /\ Inserted(env, timeout)
                  /\ UNCHANGED running
    /\ UNCHANGED <<clock, promised>>

-----------------------------------------------------------------------------
(* Fault: an envelope due at this tick is kept until the next.             *)
ExpiredLate(timeout) == timeout \in 0 .. clock - 1

(* Fault: an envelope due at the next tick is returned at this one.        *)
ExpiredEarly(timeout) == timeout \in 0 .. clock + 1

(* Fault: only an envelope due at this very tick is returned.              *)
ExpiredExactly(timeout) == timeout = clock

(* The timeout, an int, is compared to the unsigned 64-bit clock: one      *)
(* below zero is taken for a huge number.                                  *)
Expired(timeout) == timeout \in 0 .. clock

(* The mailbox is empty: return the first envelope if it is due, and exit. *)
check_timeout_queue ==
    /\ running = "timeout_i"
    /\ mailbox = <<>>
    /\ running' = "user"
    /\ timeout_queue' = IF timeout_queue # <<>> /\ Expired(msg[Head(timeout_queue)])
                        THEN Tail(timeout_queue) ELSE timeout_queue
    /\ UNCHANGED <<clock, mailbox, msg, promised>>

Next ==
    \/ \E env \in Env, time_delay \in Delay : k_request_delay(env, time_delay)
    \/ TickRecorded
    \/ timeout_queue_insert
    \/ check_timeout_queue

Spec == Init /\ [][Next]_vars

(* SIGALRM comes every 100 ms and the i-process runs to its exit.          *)
FairSpec == Spec /\ WF_vars(TickRecorded \/ timeout_queue_insert \/ check_timeout_queue)

-----------------------------------------------------------------------------
(* Properties                                                              *)

(* Every field holds a value of its C type.                                *)
TypeOK ==
    /\ clock \in 0 .. MaxTime
    /\ running \in {"user", "timeout_i", "terminated"}
    /\ mailbox \in Seq(Env)
    /\ msg \in [Env -> Int]
    /\ timeout_queue \in Seq(Env)
    /\ promised \in [Env -> Int]

(* No envelope is twice in the mailbox or the list: its one next field     *)
(* would close a loop of nodes.                                            *)
ListedOnce == Len(mailbox) + Len(timeout_queue) = Cardinality(Pending)

(* The list is sorted by timeout, which check_timeout_queue relies on when *)
(* it looks at the head only.                                              *)
Sorted ==
    \A i, j \in 1 .. Len(timeout_queue) :
       i < j => msg[timeout_queue[i]] <= msg[timeout_queue[j]]

(* A process that asked for d ticks is not woken before d full ticks have  *)
(* passed: the tick under way at the request does not count.               *)
NeverEarly ==
    [][ \A env \in Env : env \in Pending /\ env \notin Pending' => clock > promised[env] ]_vars

(* One envelope is returned per tick, but an overdue one is never late by  *)
(* more ticks than there are other envelopes, although a new request goes  *)
(* before an equal one.  (No delay being negative.)                        *)
BoundedLateness ==
    running = "user" =>
       \A env \in Elements(timeout_queue) : clock - msg[env] <= Cardinality(Env) - 2

(* timeout_queue_insert finds where an envelope belongs ("Find the         *)
(* insertion point", timeout_queue.c:37).                                  *)
InsertionPointFound == running # "terminated"

(* The clock and the due times as a process sees them: a tick counts when  *)
(* the i-process exits, and an envelope still in the mailbox will have its *)
(* timeout computed at the next tick or at the one under way.              *)
Now == IF running = "user" THEN clock ELSE clock - 1

Due == [env \in Env |->
          IF env \in Elements(mailbox)
            THEN msg[env] + (IF running = "user" THEN clock + 1 ELSE clock)
            ELSE msg[env]]

(* The i-process implements the delay service: it returns the earliest     *)
(* envelope once that one is due, whatever the order of requests.          *)
Service == INSTANCE DelayService WITH now <- Now, pending <- Pending, due <- Due

ImplementsDelayService == Service!DelaySpec

(* Every process that asked for a delay gets its envelope back, unless the *)
(* RTX terminates first.                                                   *)
DelayAnswered == \A env \in Env : env \in Pending ~> env \notin Pending \/ running = "terminated"
=============================================================================
