------------------------------- MODULE Display -------------------------------
(***************************************************************************)
(* What the console promises a process that calls send_console_chars,      *)
(* without signals, shared memory or a helper process: texts appear on the *)
(* screen once each, in the order they were sent, and a sender is          *)
(* acknowledged only after its text has appeared.  Module Console          *)
(* implements this specification.                                          *)
(***************************************************************************)
EXTENDS Sequences

CONSTANT Sender

VARIABLES texts, \* the texts to appear, each named by its sender, in order
          shown  \* the senders whose text has appeared without acknowledgement

displayVars == <<texts, shown>>

Waiting == {texts[i] : i \in DOMAIN texts} \cup shown

DisplayInit == texts = <<>> /\ shown = {}

SendText(s) ==
    /\ s \notin Waiting
    /\ texts' = Append(texts, s)
    /\ UNCHANGED shown

ShowText ==
    /\ texts # <<>>
    /\ texts' = Tail(texts)
    /\ shown' = shown \cup {Head(texts)}

Acknowledge(s) ==
    /\ s \in shown
    /\ shown' = shown \ {s}
    /\ UNCHANGED texts

DisplayNext == ShowText \/ \E s \in Sender : SendText(s) \/ Acknowledge(s)

DisplaySpec == DisplayInit /\ [][DisplayNext]_displayVars
=============================================================================
