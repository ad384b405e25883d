------------------------------ MODULE MCKernel ------------------------------
(***************************************************************************)
(* Instances of Kernel for TLC.  Pid 1 is the null process, 2 to 4 (or 5)  *)
(* are user processes, and the others i-processes.                         *)
(***************************************************************************)
EXTENDS Kernel, TLC

(* Three user processes of two priorities, and the i-processes 0 and 5,    *)
(* one of which may interrupt the other.                                   *)
MixedProc == 0 .. 5
MixedIProc == {0, 5}
MixedPriority == 0 :> 0 @@ 5 :> 0 @@ 1 :> 2 @@ 2 :> 0 @@ 3 :> 1 @@ 4 :> 1

(* Four user processes and no i-process: with one of them running, a list  *)
(* of three can form, whose middle element change_priority may unlink.     *)
CrowdProc == 1 .. 5
CrowdIProc == {}
CrowdPriority == 1 :> 2 @@ 2 :> 0 @@ 3 :> 1 @@ 4 :> 1 @@ 5 :> 1

(* The tail of an empty queue is never read: proc_queue_enqueue overwrites *)
(* it.  States that differ only there are the same state.                  *)
LiveLinks == <<current_process, interrupted_process, status, priority,
               [queues EXCEPT !.tail =
                   [q \in Queue |-> IF proc_queue_is_empty(queues, q) THEN NULL ELSE @[q]]],
               free_env_q, recv_msgs, held, call, flag, aborted>>
=============================================================================
