----------------------------- MODULE DelayService -----------------------------
(***************************************************************************)
(* What request_delay promises, without the list the timeout i-process     *)
(* keeps: an envelope handed in at time t with delay d is due at the tick  *)
(* t + 1 + d, and every tick returns the earliest pending envelope to its  *)
(* sender once that one is due.  Module Timer implements this              *)
(* specification.                                                          *)
(***************************************************************************)
EXTENDS Integers

CONSTANTS Env, Delay

VARIABLES now,     \* ticks since boot
          pending, \* the envelopes handed in and not returned
          due      \* the tick at which an envelope is due

delayVars == <<now, pending, due>>

DelayInit == /\ now = 0
             /\ pending = {}
             /\ due \in [Env -> Int]

(* A new due time, all that a process can bring about.                     *)
Ask(env, d) ==
    /\ env \notin pending
    /\ pending' = pending \cup {env}
    /\ due' = [due EXCEPT ![env] = now + 1 + d]
    /\ UNCHANGED now

Earliest(env) == env \in pending /\ \A e \in pending : due[env] <= due[e]

(* A tick returns an envelope as soon as the earliest one is due.  A due   *)
(* time before boot counts as one that never comes.  The due time of an    *)
(* envelope that is not pending means nothing.                             *)
Tick ==
    /\ now' = now + 1
    /\ due' \in [Env -> Int] /\ \A env \in pending' : due'[env] = due[env]
    /\ \/ \E env \in pending : /\ Earliest(env)
                               /\ due[env] \in 0 .. now + 1
                               /\ pending' = pending \ {env}
       \/ /\ \A env \in pending : Earliest(env) => due[env] \notin 0 .. now + 1
          /\ UNCHANGED pending

DelayNext == Tick \/ \E env \in Env, d \in Delay : Ask(env, d)

DelaySpec == DelayInit /\ [][DelayNext]_delayVars
=============================================================================
