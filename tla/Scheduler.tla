------------------------------ MODULE Scheduler ------------------------------
(***************************************************************************)
(* What the RTX scheduler promises, without pcbs, links or envelopes: the  *)
(* ready processes form one first-in first-out list per priority, so do    *)
(* the processes that wait for an envelope, the processor always goes to   *)
(* the first process of the most urgent ready list, and an i-process only  *)
(* borrows it.  Module Kernel implements this specification.               *)
(***************************************************************************)
EXTENDS Integers, Sequences

CONSTANTS Proc, NULL, IProc, NUM_PRIORITIES, InitPriority

VARIABLES current, interrupted, priority, ready, waiting, receiving

schedVars == <<current, interrupted, priority, ready, waiting, receiving>>

Elems(seq) == {seq[i] : i \in 1 .. Len(seq)}

(* The list without p, which is in it once.                                *)
Without(seq, p) ==
    LET k == CHOOSE i \in 1 .. Len(seq) : seq[i] = p
    IN  [i \in 1 .. Len(seq) - 1 |-> IF i < k THEN seq[i] ELSE seq[i + 1]]

(* Most urgent non-empty list, if there is one.                            *)
IsMostUrgent(lists, i) ==
    /\ i \in DOMAIN lists
    /\ lists[i] # <<>>
    /\ \A j \in DOMAIN lists : j < i => lists[j] = <<>>

(* The processor goes to the first of the most urgent list of r.           *)
Dispatch(r) ==
    \E i \in DOMAIN r :
       /\ IsMostUrgent(r, i)
       /\ current' = Head(r[i])
       /\ ready' = [r EXCEPT ![i] = Tail(@)]

JoinReady(p) == [ready EXCEPT ![priority[p]] = Append(@, p)]

-----------------------------------------------------------------------------
(* At start every process but the dispatched one is in its ready list, in  *)
(* the order of the pids.                                                  *)
SchedInit ==
    /\ current \in Proc \ IProc
    /\ interrupted = NULL
    /\ priority = InitPriority
    /\ receiving = {}
    /\ waiting = [i \in 0 .. NUM_PRIORITIES - 1 |-> <<>>]
    /\ \A i \in 0 .. NUM_PRIORITIES :
          /\ Elems(ready[i]) = {p \in Proc \ IProc : InitPriority[p] = i} \ {current}
          /\ \A j, k \in 1 .. Len(ready[i]) : j < k => ready[i][j] < ready[i][k]
          /\ ready[i] # <<>> => InitPriority[current] <= i

Yield ==
    /\ current \notin IProc
    /\ Dispatch(JoinReady(current))
    /\ UNCHANGED <<interrupted, priority, waiting, receiving>>

WaitForEnvelope ==
    /\ current \notin IProc
    /\ waiting' = [waiting EXCEPT ![priority[current]] = Append(@, current)]
    /\ Dispatch(ready)
    /\ UNCHANGED <<interrupted, priority, receiving>>

WaitForMessage ==
    /\ current \notin IProc
    /\ receiving' = receiving \cup {current}
    /\ Dispatch(ready)
    /\ UNCHANGED <<interrupted, priority, waiting>>

(* The first of the most urgent waiting list becomes ready.                *)
EnvelopeBack ==
    \E i \in DOMAIN waiting :
       /\ IsMostUrgent(waiting, i)
       /\ waiting' = [waiting EXCEPT ![i] = Tail(@)]
       /\ ready' = JoinReady(Head(waiting[i]))
       /\ UNCHANGED <<current, interrupted, priority, receiving>>

MessageArrives(p) ==
    /\ p \in receiving
    /\ receiving' = receiving \ {p}
    /\ ready' = JoinReady(p)
    /\ UNCHANGED <<current, interrupted, priority, waiting>>

(* A queued process goes to the end of the list of its new priority.       *)
Reprioritise(p, n) ==
    LET Move(lists) == IF p \in Elems(lists[priority[p]])
                       THEN [lists EXCEPT ![priority[p]] = Without(@, p), ![n] = Append(@, p)]
                       ELSE lists
    IN  /\ priority[p] \in 0 .. NUM_PRIORITIES - 1
        /\ n # priority[p]
        /\ priority' = [priority EXCEPT ![p] = n]
        /\ ready' = Move(ready)
        /\ waiting' = Move(waiting)
        /\ UNCHANGED <<current, interrupted, receiving>>

Interrupt(i) ==
    /\ interrupted = NULL
    /\ current' = i
    /\ interrupted' = current
    /\ UNCHANGED <<priority, ready, waiting, receiving>>

Return ==
    /\ interrupted # NULL
    /\ current' = interrupted
    /\ interrupted' = NULL
    /\ UNCHANGED <<priority, ready, waiting, receiving>>

SchedNext ==
    \/ Yield \/ WaitForEnvelope \/ WaitForMessage \/ EnvelopeBack
    \/ \E p \in Proc \ IProc : MessageArrives(p)
    \/ \E p \in Proc \ IProc, n \in 0 .. NUM_PRIORITIES - 1 : Reprioritise(p, n)
    \/ \E i \in IProc : Interrupt(i)
    \/ Return

SchedSpec == SchedInit /\ [][SchedNext]_schedVars
=============================================================================
