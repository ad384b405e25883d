------------------------------- MODULE Console -------------------------------
(***************************************************************************)
(* Console output (unix/kern/src/k_console.c, crt_i_process.c and the      *)
(* helper process of unix/crt/src/main.c).  A process sends an envelope    *)
(* with a text to the CRT i-process and raises SIGUSR2; the i-process      *)
(* copies one text at a time into memory shared with the helper and raises *)
(* a flag; the helper, a process of its own, prints the text, lowers the   *)
(* flag and raises SIGUSR2 again, upon which the i-process returns the     *)
(* envelope as a DISPLAY_ACK.                                              *)
(*                                                                         *)
(* The RTX runs one process at a time and does not preempt a process       *)
(* except for i-processes, but the helper runs truly in parallel: each     *)
(* access of either side to the flag and to the buffer is a step.  Every   *)
(* sender waits for its acknowledgement before it sends again, as CCI, the *)
(* wall clock (RTX_printf) and process C do, so its name stands for its    *)
(* envelope and its text.                                                  *)
(***************************************************************************)
EXTENDS Sequences, FiniteSets

CONSTANTS Sender, NULL

ASSUME NullIsNoSender == NULL \notin Sender

VARIABLES
    sender,              \* per sender: "running", "kill" (sent, about to signal), "answered"
                         \* (that, and acknowledged already) or "waiting"
    mailbox,             \* recv_msgs of the CRT i-process
    SIGUSR2,             \* is the signal pending?
    crt,                 \* where the i-process is
    message,             \* its local variables
    prev_msg,
    displayQueue,
    i_process_wait_flag, \* the shared memory: the flag and the text
    data,
    helper               \* where the helper's loop is

vars == <<sender, mailbox, SIGUSR2, crt, message, prev_msg, displayQueue,
          i_process_wait_flag, data, helper>>

senderVars == <<sender, mailbox>>
crtVars    == <<crt, message, prev_msg, displayQueue>>

Init ==
    /\ sender = [s \in Sender |-> "running"]
    /\ mailbox = <<>>
    /\ SIGUSR2 = FALSE
    /\ crt = "exited"
    /\ message = NULL
    /\ prev_msg = NULL
    /\ displayQueue = <<>>
    /\ i_process_wait_flag = "FREE"
    /\ data = NULL
    /\ helper = "poll"

-----------------------------------------------------------------------------
(* The senders                                                             *)

AboutToSignal(s) == sender[s] \in {"kill", "answered"}

(* The primitive, up to atomic(OFF).  A sender between the primitive and   *)
(* its kill keeps the processor.                                           *)
k_send_console_chars(s) ==
    /\ crt = "exited"
    /\ sender[s] = "running"
    /\ \A r \in Sender : ~AboutToSignal(r)
    /\ sender' = [sender EXCEPT ![s] = "kill"]
    /\ mailbox' = Append(mailbox, s)
    /\ UNCHANGED <<SIGUSR2, crtVars, i_process_wait_flag, data, helper>>

(* kill(rtx_pid, SIGUSR2).  A process that signals itself is interrupted   *)
(* before kill returns; a signal of the helper pending just then merges    *)
(* with it.  The sender goes on to receive_message, where it does not wait *)
(* if a signal of the helper has had its text printed before.              *)
KillSelf(s) ==
    /\ crt = "exited"
    /\ AboutToSignal(s)
    /\ sender' = [sender EXCEPT ![s] = IF @ = "answered" THEN "running" ELSE "waiting"]
    /\ SIGUSR2' = FALSE
    /\ crt' = "acknowledge"
    /\ UNCHANGED <<mailbox, message, prev_msg, displayQueue, i_process_wait_flag, data, helper>>

(* The signal of the helper interrupts whoever runs.                       *)
SignalDelivered ==
    /\ crt = "exited"
    /\ SIGUSR2
    /\ SIGUSR2' = FALSE
    /\ crt' = "acknowledge"
    /\ UNCHANGED <<senderVars, message, prev_msg, displayQueue, i_process_wait_flag, data, helper>>

-----------------------------------------------------------------------------
(* The CRT i-process, from one k_i_process_exit to the next                *)

(* Fault: the text is acknowledged whether or not it was printed.          *)
MayAcknowledgeAtOnce == prev_msg # NULL

MayAcknowledge == prev_msg # NULL /\ i_process_wait_flag = "FREE"

AcknowledgePrinted ==
    /\ crt = "acknowledge"
    /\ crt' = "show"
    /\ IF MayAcknowledge
         THEN /\ sender' = [sender EXCEPT ![prev_msg] = IF @ = "kill" THEN "answered" ELSE "running"]
              /\ prev_msg' = NULL
         ELSE UNCHANGED <<sender, prev_msg>>
    /\ UNCHANGED <<mailbox, SIGUSR2, message, displayQueue, i_process_wait_flag, data, helper>>

(* Fault: the NULL that k_receive_message returns is enqueued, too.        *)
ReceivedUnchecked == Append(displayQueue, IF mailbox = <<>> THEN NULL ELSE Head(mailbox))

(* The display queue once one message, if there is one, has joined it.     *)
Received == IF mailbox = <<>> THEN displayQueue ELSE Append(displayQueue, Head(mailbox))

(* Fault: the buffer is not tested.                                        *)
BufferAssumedFree == TRUE

BufferFree == i_process_wait_flag = "FREE"

(* A message is received, and the first of the display queue is taken out  *)
(* if the buffer is free.                                                  *)
TakeFromQueue ==
    /\ crt = "show"
    /\ mailbox' = IF mailbox = <<>> THEN mailbox ELSE Tail(mailbox)
    /\ IF BufferFree /\ Received # <<>>
         THEN /\ message' = Head(Received)
              /\ displayQueue' = Tail(Received)
              /\ crt' = "copy"
         ELSE /\ message' = IF mailbox = <<>> THEN NULL ELSE Head(mailbox)
              /\ displayQueue' = Received
              /\ crt' = "exited"
    /\ UNCHANGED <<sender, SIGUSR2, prev_msg, i_process_wait_flag, data, helper>>

CopyText ==
    /\ crt = "copy"
    /\ crt' = "flag"
    /\ data' = message
    /\ UNCHANGED <<senderVars, SIGUSR2, message, prev_msg, displayQueue, i_process_wait_flag, helper>>

RaiseFlag ==
    /\ crt = "flag"
    /\ crt' = "exited"
    /\ i_process_wait_flag' = "WAIT"
    /\ prev_msg' = message
    /\ UNCHANGED <<senderVars, SIGUSR2, message, displayQueue, data, helper>>

start_crt_i_process == AcknowledgePrinted \/ TakeFromQueue \/ CopyText \/ RaiseFlag

-----------------------------------------------------------------------------
(* The helper process                                                      *)

PollFlag ==
    /\ helper = "poll"
    /\ i_process_wait_flag = "WAIT"
    /\ helper' = "print"
    /\ UNCHANGED <<senderVars, SIGUSR2, crtVars, i_process_wait_flag, data>>

PrintText ==
    /\ helper = "print"
    /\ helper' = "lower"
    /\ UNCHANGED <<senderVars, SIGUSR2, crtVars, i_process_wait_flag, data>>

(* Fault: the helper does not signal that the text is printed.             *)
LowerFlagSilently ==
    /\ helper = "lower"
    /\ helper' = "poll"
    /\ i_process_wait_flag' = "FREE"
    /\ UNCHANGED <<senderVars, SIGUSR2, crtVars, data>>

LowerFlag ==
    /\ helper = "lower"
    /\ helper' = "kill"
    /\ i_process_wait_flag' = "FREE"
    /\ UNCHANGED <<senderVars, SIGUSR2, crtVars, data>>

KillParent ==
    /\ helper = "kill"
    /\ helper' = "poll"
    /\ SIGUSR2' = TRUE
    /\ UNCHANGED <<senderVars, crtVars, i_process_wait_flag, data>>

Helper == PollFlag \/ PrintText \/ LowerFlag \/ KillParent

-----------------------------------------------------------------------------
Next ==
    \/ \E s \in Sender : k_send_console_chars(s) \/ KillSelf(s)
    \/ SignalDelivered
    \/ start_crt_i_process
    \/ Helper

Spec == Init /\ [][Next]_vars

(* A sender that has sent goes on to its kill, a pending signal is         *)
(* delivered, an i-process runs to its exit, and the operating system      *)
(* schedules the helper.  Nobody has to send.                              *)
FairSpec ==
    /\ Spec
    /\ WF_vars(\E s \in Sender : KillSelf(s))
    /\ WF_vars(SignalDelivered)
    /\ WF_vars(start_crt_i_process)
    /\ WF_vars(Helper)

-----------------------------------------------------------------------------
(* Properties                                                              *)

TextOrNull == Sender \cup {NULL}

(* Every field holds a value of its type.                                  *)
TypeOK ==
    /\ sender \in [Sender -> {"running", "kill", "answered", "waiting"}]
    /\ mailbox \in Seq(Sender)
    /\ SIGUSR2 \in BOOLEAN
    /\ crt \in {"exited", "acknowledge", "show", "copy", "flag"}
    /\ message \in TextOrNull
    /\ prev_msg \in TextOrNull
    /\ displayQueue \in Seq(Sender)
    /\ i_process_wait_flag \in {"FREE", "WAIT"}
    /\ data \in TextOrNull
    /\ helper \in {"poll", "print", "lower", "kill"}

(* The text on its way from the display queue to the screen.               *)
InTransit == CASE crt \in {"copy", "flag"} -> <<message>>
               [] i_process_wait_flag = "WAIT" /\ helper # "lower" -> <<data>>
               [] OTHER -> <<>>

Texts == InTransit \o displayQueue \o mailbox

Unanswered(s) == sender[s] \in {"kill", "waiting"}

(* The buffer, the flag and the two queues behave as one first-in          *)
(* first-out display: no text is lost, printed twice or overtaken, and     *)
(* none is acknowledged before the helper has printed it.                  *)
Screen == INSTANCE Display WITH
             texts <- Texts,
             shown <- {s \in Sender : Unanswered(s) /\ \A i \in DOMAIN Texts : Texts[i] # s}

ImplementsDisplay == Screen!DisplaySpec

(* The buffer is not written while the helper reads it.                    *)
BufferStable == [][data' # data => helper # "print"]_vars

(* Every text that was sent gets to the screen, whichever way signals      *)
(* merge and the i-process and the helper overtake each other.             *)
EveryTextShown ==
    \A s \in Sender : sender[s] = "kill" ~> \A i \in DOMAIN Texts : Texts[i] # s

(* Every sender gets its DISPLAY_ACK, for which it waits in a loop         *)
(* (rtx_util.c:25-38, c.c:41-66).                                          *)
EveryTextAcknowledged == \A s \in Sender : sender[s] = "kill" ~> sender[s] = "running"
=============================================================================
