---------------------------- MODULE ConsoleProofs ----------------------------
(***************************************************************************)
(* Theorems about Console, for any number of senders.  The invariant       *)
(* ConsoleInv says where each text is, and that the flag, the buffer and   *)
(* prev_msg agree; a step that the display sees is SendText when a text is *)
(* queued, ShowText when the helper has printed it, and Acknowledge when   *)
(* the i-process returns the envelope.  The rest is stuttering.            *)
(***************************************************************************)
EXTENDS Console, TLAPS, SequenceTheorems

Elems(seq) == {seq[i] : i \in DOMAIN seq}

Distinct(seq) == \A i, j \in DOMAIN seq : seq[i] = seq[j] => i = j

(* The texts the helper has yet to be given.                               *)
Queued == displayQueue \o mailbox

(* A text is being put into the buffer.                                    *)
Loading == crt \in {"copy", "flag"}

(* A text that waits, is being loaded or has yet to be acknowledged keeps  *)
(* its sender waiting, and is in only one of these places; the flag is up  *)
(* exactly as long as the helper may read the buffer.                      *)
ConsoleInv ==
    /\ TypeOK
    /\ Distinct(Queued)
    /\ \A s \in Elems(Queued) : Unanswered(s)
    /\ Loading => /\ message \in Sender /\ Unanswered(message) /\ message \notin Elems(Queued)
                  /\ message # prev_msg
                  /\ i_process_wait_flag = "FREE"
    /\ crt = "flag" => data = message
    /\ prev_msg # NULL => Unanswered(prev_msg) /\ prev_msg \notin Elems(Queued)
    /\ i_process_wait_flag = "WAIT" => prev_msg # NULL /\ data = prev_msg
    /\ helper \in {"print", "lower"} => i_process_wait_flag = "WAIT"

-----------------------------------------------------------------------------
(* Lists of texts                                                          *)

LEMMA AppendText ==
    ASSUME NEW q \in Seq(Sender), NEW s \in Sender
    PROVE  /\ Append(q, s) \in Seq(Sender)
           /\ Elems(Append(q, s)) = Elems(q) \cup {s}
           /\ Distinct(q) /\ s \notin Elems(q) => Distinct(Append(q, s))
<1> DEFINE n == Len(q)
           a == Append(q, s)
<1>1. /\ n \in Nat /\ DOMAIN q = 1 .. n /\ a \in Seq(Sender) /\ DOMAIN a = 1 .. n + 1
      /\ \A i \in 1 .. n : a[i] = q[i]
      /\ a[n + 1] = s
  BY LenProperties, AppendProperties
<1> HIDE DEF n, a
<1>2. \A i : i \in 1 .. n + 1 <=> i \in 1 .. n \/ i = n + 1
  BY <1>1
<1>3. ~(n + 1 \in 1 .. n)
  BY <1>1
<1>4. Elems(a) = Elems(q) \cup {s}
  BY <1>1, <1>2 DEF Elems
<1>5. ASSUME Distinct(q), s \notin Elems(q) PROVE Distinct(a)
  <2> SUFFICES ASSUME NEW i \in DOMAIN a, NEW j \in DOMAIN a, a[i] = a[j] PROVE i = j
    BY DEF Distinct
  <2>1. \A k \in 1 .. n : q[k] # s
    BY <1>1, <1>5 DEF Elems
  <2> QED
    BY <1>1, <1>2, <1>5, <2>1 DEF Distinct
<1> QED
  BY <1>1, <1>4, <1>5 DEF a

LEMMA TailText ==
    ASSUME NEW q \in Seq(Sender), q # <<>>, Distinct(q)
    PROVE  /\ Tail(q) \in Seq(Sender) /\ Head(q) \in Sender
           /\ Head(q) \in Elems(q)
           /\ Elems(Tail(q)) = Elems(q) \ {Head(q)}
           /\ Distinct(Tail(q))
<1> DEFINE n == Len(q)
           t == Tail(q)
<1>1. /\ n \in Nat /\ n >= 1 /\ DOMAIN q = 1 .. n /\ t \in Seq(Sender) /\ DOMAIN t = 1 .. n - 1
      /\ \A i \in 1 .. n - 1 : t[i] = q[i + 1]
      /\ Head(q) = q[1] /\ Head(q) \in Sender
  BY LenProperties, HeadTailProperties, EmptySeq
<1> HIDE DEF n, t
<1>2. \A i \in 1 .. n : i = 1 \/ i - 1 \in 1 .. n - 1
  BY <1>1
<1>3. \A i \in 1 .. n - 1 : i + 1 \in 1 .. n /\ i + 1 # 1 /\ (i + 1) - 1 = i
  BY <1>1
<1>4. \A i \in 1 .. n : i # 1 => t[i - 1] = q[i]
  <2> TAKE i \in 1 .. n
  <2> HAVE i # 1
  <2>1. i - 1 \in 1 .. n - 1 /\ (i - 1) + 1 = i
    BY <1>1
  <2>2. t[i - 1] = q[(i - 1) + 1]
    BY <1>1, <2>1
  <2> QED
    BY <2>1, <2>2
<1>5. 1 \in 1 .. n
  BY <1>1
<1>6. Elems(t) \subseteq Elems(q) \ {q[1]}
  <2> SUFFICES ASSUME NEW i \in 1 .. n - 1 PROVE t[i] \in Elems(q) \ {q[1]}
    BY <1>1 DEF Elems
  <2>1. i + 1 \in DOMAIN q /\ i + 1 # 1 /\ t[i] = q[i + 1] /\ 1 \in DOMAIN q
    BY <1>1, <1>3, <1>5
  <2> QED
    BY <2>1 DEF Elems, Distinct
<1>7. Elems(q) \ {q[1]} \subseteq Elems(t)
  <2> SUFFICES ASSUME NEW i \in 1 .. n, q[i] # q[1] PROVE q[i] \in Elems(t)
    BY <1>1 DEF Elems
  <2>1. i # 1
    OBVIOUS
  <2>2. i - 1 \in DOMAIN t /\ t[i - 1] = q[i]
    BY <1>1, <1>2, <1>4, <2>1
  <2> QED
    BY <2>2 DEF Elems
<1>8. Distinct(t)
  <2> SUFFICES ASSUME NEW i \in 1 .. n - 1, NEW j \in 1 .. n - 1, t[i] = t[j] PROVE i = j
    BY <1>1 DEF Distinct
  <2>1. i + 1 \in DOMAIN q /\ j + 1 \in DOMAIN q /\ q[i + 1] = q[j + 1]
    BY <1>1, <1>3
  <2>2. i + 1 = j + 1
    BY <2>1 DEF Distinct
  <2> QED
    BY <2>2, <1>1
<1> QED
  BY <1>1, <1>5, <1>6, <1>7, <1>8 DEF t, Elems

(* A text that arrives joins the end of the queued ones; a text that the   *)
(* i-process moves from its mailbox to its display queue keeps its place;  *)
(* the first of the display queue is the first of all.                     *)
LEMMA QueuedTexts ==
    ASSUME NEW d \in Seq(Sender), NEW m \in Seq(Sender)
    PROVE  /\ d \o m \in Seq(Sender)
           /\ \A s \in Sender : d \o Append(m, s) = Append(d \o m, s)
           /\ m # <<>> => Append(d, Head(m)) \o Tail(m) = d \o m
           /\ d # <<>> => /\ Head(d \o m) = Head(d) /\ Tail(d \o m) = Tail(d) \o m
                          /\ d \o m # <<>>
           /\ d = <<>> => d \o m = m
<1>1. d \o m \in Seq(Sender) /\ (d = <<>> => d \o m = m)
  BY ConcatProperties, ConcatEmptySeq
<1>2. ASSUME NEW s \in Sender PROVE d \o Append(m, s) = Append(d \o m, s)
  <2>1. Append(m, s) = m \o <<s>> /\ Append(d \o m, s) = (d \o m) \o <<s>>
    BY <1>1, AppendIsConcat
  <2>2. <<s>> \in Seq(Sender)
    OBVIOUS
  <2>3. (d \o m) \o <<s>> = d \o (m \o <<s>>)
    BY <2>2, ConcatAssociative
  <2> QED
    BY <2>1, <2>3
<1>3. ASSUME m # <<>> PROVE Append(d, Head(m)) \o Tail(m) = d \o m
  <2>1. Head(m) \in Sender /\ Tail(m) \in Seq(Sender) /\ m = <<Head(m)>> \o Tail(m)
    BY <1>3
  <2> DEFINE h == Head(m)
             t == Tail(m)
  <2> HIDE DEF h, t
  <2>2. h \in Sender /\ t \in Seq(Sender) /\ <<h>> \in Seq(Sender)
    BY <2>1 DEF h, t
  <2>3. Append(d, h) = d \o <<h>>
    BY <2>2, AppendIsConcat
  <2>4. (d \o <<h>>) \o t = d \o (<<h>> \o t)
    BY <2>2, ConcatAssociative
  <2> QED
    BY <2>1, <2>3, <2>4 DEF h, t
<1>4. ASSUME d # <<>> PROVE Head(d \o m) = Head(d) /\ Tail(d \o m) = Tail(d) \o m /\ d \o m # <<>>
  <2>1. Head(d) \in Sender /\ Tail(d) \in Seq(Sender) /\ d = <<Head(d)>> \o Tail(d)
    BY <1>4
  <2> DEFINE h == Head(d)
             t == Tail(d)
             x == t \o m
  <2> HIDE DEF h, t
  <2>2. h \in Sender /\ t \in Seq(Sender) /\ <<h>> \in Seq(Sender) /\ x \in Seq(Sender)
    BY <2>1, ConcatProperties DEF h, t
  <2>3. d \o m = <<h>> \o x
    <3>1. (<<h>> \o t) \o m = <<h>> \o (t \o m)
      BY <2>2, ConcatAssociative
    <3> QED
      BY <2>1, <3>1 DEF h, t
  <2> HIDE DEF x
  <2>4. Head(<<h>> \o x) = h /\ Tail(<<h>> \o x) = x /\ <<h>> \o x # <<>>
    BY <2>2
  <2> QED
    BY <2>3, <2>4 DEF h, t, x
<1> QED
  BY <1>1, <1>2, <1>3, <1>4

(* The queue of texts after the i-process has looked for a message.        *)
LEMMA ReceivedTexts ==
    ASSUME TypeOK
    PROVE  /\ Received \in Seq(Sender)
           /\ Received \o (IF mailbox = <<>> THEN mailbox ELSE Tail(mailbox)) = Queued
           /\ (IF mailbox = <<>> THEN mailbox ELSE Tail(mailbox)) \in Seq(Sender)
           /\ Queued \in Seq(Sender)
<1>1. displayQueue \in Seq(Sender) /\ mailbox \in Seq(Sender)
  BY DEF TypeOK
<1>2. mailbox # <<>> => Head(mailbox) \in Sender /\ Tail(mailbox) \in Seq(Sender)
  BY <1>1
<1>3. Received \in Seq(Sender)
  BY <1>1, <1>2, AppendText DEF Received
<1> QED
  BY <1>1, <1>2, <1>3, QueuedTexts DEF Received, Queued

-----------------------------------------------------------------------------
(* The invariant                                                           *)

LEMMA ConsoleInvInit == Init => ConsoleInv
<1> SUFFICES ASSUME Init PROVE ConsoleInv
  OBVIOUS
<1>1. TypeOK
  BY EmptySeq DEF Init, TypeOK, TextOrNull
<1>2. displayQueue = <<>> /\ mailbox = <<>> /\ <<>> \in Seq(Sender)
  BY EmptySeq DEF Init
<1>3. Queued = <<>>
  BY <1>2, ConcatEmptySeq DEF Queued
<1>4. DOMAIN <<>> = {}
  OBVIOUS
<1>5. Distinct(Queued) /\ Elems(Queued) = {}
  BY <1>3, <1>4 DEF Distinct, Elems
<1> QED
  BY <1>1, <1>5 DEF Init, ConsoleInv, Loading

(* Steps that touch none of the texts.                                     *)
LEMMA QuietSteps ==
    ASSUME ConsoleInv,
           (\E s \in Sender : KillSelf(s)) \/ SignalDelivered \/ Helper \/ UNCHANGED vars
    PROVE  ConsoleInv'
<1>1. Queued' = Queued
  BY DEF KillSelf, SignalDelivered, Helper, PollFlag, PrintText, LowerFlag, KillParent,
         senderVars, crtVars, vars, Queued
<1>2. \A r \in Sender : Unanswered(r)' <=> Unanswered(r)
  BY DEF KillSelf, SignalDelivered, Helper, PollFlag, PrintText, LowerFlag, KillParent,
         senderVars, crtVars, vars, Unanswered, AboutToSignal, ConsoleInv, TypeOK
<1>3. \A r \in Elems(Queued) : r \in Sender
  BY ReceivedTexts, ElementOfSeq, LenProperties DEF ConsoleInv, Elems
<1>4. TypeOK'
  BY DEF KillSelf, SignalDelivered, Helper, PollFlag, PrintText, LowerFlag, KillParent,
         senderVars, crtVars, vars, AboutToSignal, ConsoleInv, TypeOK, TextOrNull
<1>5. /\ message' = message /\ prev_msg' = prev_msg /\ data' = data
      /\ Loading' => Loading
      /\ crt' = "flag" => crt = "flag"
  BY DEF KillSelf, SignalDelivered, Helper, PollFlag, PrintText, LowerFlag, KillParent,
         senderVars, crtVars, vars, Loading
<1>6. /\ i_process_wait_flag' = "WAIT" => i_process_wait_flag = "WAIT"
      /\ Loading' => i_process_wait_flag' = "FREE"
      /\ helper' \in {"print", "lower"} => i_process_wait_flag' = "WAIT"
  BY DEF KillSelf, SignalDelivered, Helper, PollFlag, PrintText, LowerFlag, KillParent,
         senderVars, crtVars, vars, ConsoleInv, Loading
<1>7. prev_msg \in Sender \cup {NULL}
  BY DEF ConsoleInv, TypeOK, TextOrNull
<1> QED
  BY <1>1, <1>2, <1>3, <1>4, <1>5, <1>6, <1>7 DEF ConsoleInv

LEMMA SendStep ==
    ASSUME ConsoleInv, NEW s \in Sender, k_send_console_chars(s)
    PROVE  /\ ConsoleInv'
           /\ Queued' = Append(Queued, s) /\ s \notin Elems(Queued)
<1>1. /\ sender[s] = "running" /\ sender' = [sender EXCEPT ![s] = "kill"]
      /\ mailbox' = Append(mailbox, s) /\ crt = "exited"
      /\ UNCHANGED <<SIGUSR2, crt, message, prev_msg, displayQueue, i_process_wait_flag, data, helper>>
  BY DEF k_send_console_chars, crtVars
<1>2. ~Unanswered(s) /\ Queued \in Seq(Sender) /\ TypeOK
  BY <1>1, ReceivedTexts DEF Unanswered, ConsoleInv
<1>3. s \notin Elems(Queued) /\ (prev_msg # NULL => prev_msg # s)
  BY <1>2 DEF ConsoleInv
<1>4. Queued' = Append(Queued, s)
  BY <1>1, <1>2, QueuedTexts DEF Queued, TypeOK
<1>5. Elems(Queued') = Elems(Queued) \cup {s} /\ Distinct(Queued')
  BY <1>2, <1>3, <1>4, AppendText DEF ConsoleInv
<1>6. TypeOK'
  BY <1>1, <1>2, AppendProperties DEF TypeOK
<1>7. \A r \in Sender : Unanswered(r)' <=> Unanswered(r) \/ r = s
  BY <1>1, <1>2 DEF Unanswered, TypeOK
<1>8. \A r \in Elems(Queued) : r \in Sender
  BY <1>2, LenProperties DEF Elems
<1>9. prev_msg \in Sender \cup {NULL}
  BY <1>2 DEF TypeOK, TextOrNull
<1> QED
  BY <1>1, <1>3, <1>4, <1>5, <1>6, <1>7, <1>8, <1>9 DEF ConsoleInv, Loading

LEMMA AcknowledgeStep ==
    ASSUME ConsoleInv, AcknowledgePrinted
    PROVE  ConsoleInv'
<1>1. /\ crt = "acknowledge" /\ crt' = "show"
      /\ UNCHANGED <<mailbox, SIGUSR2, message, displayQueue, i_process_wait_flag, data, helper>>
      /\ TypeOK /\ Queued' = Queued
  BY DEF AcknowledgePrinted, ConsoleInv, Queued
<1>2. \A r \in Elems(Queued) : r \in Sender
  BY <1>1, ReceivedTexts, LenProperties DEF Elems
<1>3. CASE MayAcknowledge
  <2>1. /\ prev_msg \in Sender /\ prev_msg' = NULL /\ i_process_wait_flag = "FREE"
        /\ sender' = [sender EXCEPT ![prev_msg] = IF @ = "kill" THEN "answered" ELSE "running"]
    BY <1>1, <1>3 DEF AcknowledgePrinted, MayAcknowledge, TypeOK, TextOrNull
  <2>2. TypeOK'
    BY <1>1, <2>1 DEF TypeOK, TextOrNull
  <2>3. \A r \in Sender : r # prev_msg => (Unanswered(r)' <=> Unanswered(r))
    BY <1>1, <2>1 DEF Unanswered, TypeOK
  <2>4. prev_msg \notin Elems(Queued)
    BY <2>1, NullIsNoSender DEF ConsoleInv
  <2> QED
    BY <1>1, <1>2, <2>1, <2>2, <2>3, <2>4 DEF ConsoleInv, Loading
<1>4. CASE ~MayAcknowledge
  <2>1. UNCHANGED <<sender, prev_msg>>
    BY <1>4 DEF AcknowledgePrinted
  <2> QED
    BY <1>1, <2>1 DEF ConsoleInv, Loading, TypeOK, Unanswered
<1> QED
  BY <1>3, <1>4

LEMMA TakeStep ==
    ASSUME ConsoleInv, TakeFromQueue
    PROVE  /\ ConsoleInv'
           /\ \/ Queued' = Queued /\ crt' = "exited"
              \/ /\ Queued # <<>> /\ Queued' = Tail(Queued) /\ message' = Head(Queued)
                 /\ crt' = "copy" /\ i_process_wait_flag = "FREE"
<1> DEFINE rest == IF mailbox = <<>> THEN mailbox ELSE Tail(mailbox)
<1>1. /\ crt = "show" /\ mailbox' = rest
      /\ UNCHANGED <<sender, SIGUSR2, prev_msg, i_process_wait_flag, data, helper>>
      /\ TypeOK
  BY DEF TakeFromQueue, ConsoleInv
<1>2. Received \in Seq(Sender) /\ rest \in Seq(Sender) /\ Received \o rest = Queued /\ Queued \in Seq(Sender)
  BY <1>1, ReceivedTexts
<1>3. \A r \in Elems(Queued) : r \in Sender
  BY <1>2, LenProperties DEF Elems
<1>4. \A r \in Sender : Unanswered(r)' <=> Unanswered(r)
  BY <1>1 DEF Unanswered
<1>5. CASE BufferFree /\ Received # <<>>
  <2>1. message' = Head(Received) /\ displayQueue' = Tail(Received) /\ crt' = "copy"
        /\ i_process_wait_flag = "FREE"
    BY <1>5 DEF TakeFromQueue, BufferFree
  <2>2. Queued # <<>> /\ Queued' = Tail(Queued) /\ message' = Head(Queued)
    <3> HIDE DEF rest
    <3>1. /\ Head(Received \o rest) = Head(Received) /\ Tail(Received \o rest) = Tail(Received) \o rest
          /\ Received \o rest # <<>>
      BY <1>2, <1>5, QueuedTexts
    <3> QED
      BY <1>1, <1>2, <2>1, <3>1 DEF Queued
  <2>3. /\ Head(Queued) \in Elems(Queued) /\ Head(Queued) \in Sender
        /\ Elems(Tail(Queued)) = Elems(Queued) \ {Head(Queued)} /\ Distinct(Tail(Queued))
    BY <1>2, <2>2, TailText DEF ConsoleInv
  <2>4. TypeOK'
    <3>1. Tail(Received) \in Seq(Sender)
      BY <1>2, <1>5
    <3> QED
      BY <1>1, <1>2, <2>1, <2>2, <2>3, <3>1 DEF TypeOK, TextOrNull
  <2> QED
    BY <1>1, <1>3, <1>4, <2>1, <2>2, <2>3, <2>4, NullIsNoSender DEF ConsoleInv, Loading, Unanswered
<1>6. CASE ~(BufferFree /\ Received # <<>>)
  <2>1. /\ message' = (IF mailbox = <<>> THEN NULL ELSE Head(mailbox)) /\ displayQueue' = Received
        /\ crt' = "exited"
    BY <1>6 DEF TakeFromQueue
  <2>2. Queued' = Queued
    BY <1>1, <1>2, <2>1 DEF Queued
  <2>3. TypeOK'
    <3>1. mailbox # <<>> => Head(mailbox) \in Sender
      BY <1>1 DEF TypeOK
    <3> QED
      BY <1>1, <1>2, <2>1, <3>1 DEF TypeOK, TextOrNull
  <2> QED
    BY <1>1, <1>3, <1>4, <2>1, <2>2, <2>3 DEF ConsoleInv, Loading, Unanswered
<1> QED
  BY <1>5, <1>6

LEMMA LoadStep ==
    ASSUME ConsoleInv, CopyText \/ RaiseFlag
    PROVE  ConsoleInv'
<1>1. Queued' = Queued /\ sender' = sender
  BY DEF CopyText, RaiseFlag, senderVars, Queued
<1>2. TypeOK'
  BY DEF CopyText, RaiseFlag, senderVars, ConsoleInv, TypeOK, TextOrNull
<1>3. message \in Sender /\ message # NULL
  BY NullIsNoSender DEF CopyText, RaiseFlag, ConsoleInv, Loading
<1> QED
  BY <1>1, <1>2, <1>3 DEF CopyText, RaiseFlag, senderVars, ConsoleInv, Loading, Unanswered

LEMMA ConsoleInvNext == ConsoleInv /\ [Next]_vars => ConsoleInv'
<1> SUFFICES ASSUME ConsoleInv, [Next]_vars PROVE ConsoleInv'
  OBVIOUS
<1>1. ASSUME NEW s \in Sender, k_send_console_chars(s) PROVE ConsoleInv'
  BY <1>1, SendStep
<1> QED
  BY <1>1, QuietSteps, AcknowledgeStep, TakeStep, LoadStep DEF Next, start_crt_i_process

LEMMA ConsoleInvAlways == Spec => []ConsoleInv
<1> QED
  BY ConsoleInvInit, ConsoleInvNext, PTL DEF Spec

(* Every field holds a value of its type; in particular the i-process      *)
(* never queues the NULL that k_receive_message returns it.                *)
THEOREM ConsoleTypes == Spec => []TypeOK
<1>1. ConsoleInv => TypeOK
  BY DEF ConsoleInv
<1> QED
  BY <1>1, ConsoleInvAlways, PTL

(* The i-process writes a text into the shared buffer only when the helper *)
(* has lowered the flag, and so never while the helper reads it.           *)
THEOREM BufferNeverChangesUnderHelper == Spec => BufferStable
<1>1. ConsoleInv /\ [Next]_vars => [data' # data => helper # "print"]_vars
  <2> SUFFICES ASSUME ConsoleInv, Next, data' # data PROVE helper # "print"
    OBVIOUS
  <2>1. CopyText
    BY DEF Next, k_send_console_chars, KillSelf, SignalDelivered, start_crt_i_process,
           AcknowledgePrinted, TakeFromQueue, RaiseFlag, Helper, PollFlag, PrintText, LowerFlag,
           KillParent
  <2> QED
    BY <2>1 DEF CopyText, ConsoleInv, Loading
<1> QED
  BY <1>1, ConsoleInvAlways, PTL DEF Spec, BufferStable

-----------------------------------------------------------------------------
(* The display                                                             *)

LEMMA PrependText ==
    ASSUME NEW q \in Seq(Sender), NEW s \in Sender
    PROVE  /\ Elems(<<s>> \o q) = {s} \cup Elems(q)
           /\ <<s>> \o q # <<>> /\ Head(<<s>> \o q) = s /\ Tail(<<s>> \o q) = q
           /\ <<>> \o q = q
<1> DEFINE t == <<s>> \o q
           n == Len(q)
<1>1. /\ n \in Nat /\ DOMAIN q = 1 .. n /\ DOMAIN t = 1 .. n + 1
      /\ t[1] = s /\ \A i \in 1 .. n : t[i + 1] = q[i]
      /\ t # <<>> /\ Head(t) = s /\ Tail(t) = q
  <2>1. n \in Nat /\ DOMAIN q = 1 .. n
    BY LenProperties
  <2>2. DOMAIN t = 1 .. n + 1
    OBVIOUS
  <2>3. t[1] = s /\ \A i \in 1 .. n : t[i + 1] = q[i]
    OBVIOUS
  <2>4. t # <<>> /\ Head(t) = s /\ Tail(t) = q
    OBVIOUS
  <2> QED
    BY <2>1, <2>2, <2>3, <2>4
<1> HIDE DEF t, n
<1>2. \A i \in 1 .. n + 1 : i = 1 \/ (i - 1 \in 1 .. n /\ (i - 1) + 1 = i)
  BY <1>1
<1>3. 1 \in 1 .. n + 1 /\ \A i \in 1 .. n : i + 1 \in 1 .. n + 1
  BY <1>1
<1>4. {s} \cup Elems(q) \subseteq Elems(t)
  BY <1>1, <1>3 DEF Elems
<1>5. Elems(t) \subseteq {s} \cup Elems(q)
  <2> SUFFICES ASSUME NEW i \in 1 .. n + 1, i # 1 PROVE t[i] \in Elems(q)
    BY <1>1 DEF Elems
  <2>1. i - 1 \in DOMAIN q /\ t[(i - 1) + 1] = q[i - 1] /\ (i - 1) + 1 = i
    BY <1>1, <1>2
  <2> QED
    BY <2>1 DEF Elems
<1> QED
  BY <1>1, <1>4, <1>5, ConcatEmptySeq DEF t

(* What the display sees, before and after a step: the text in transit, if *)
(* there is one, and then the queued ones.                                 *)
LEMMA DisplayTexts ==
    ASSUME ConsoleInv, ConsoleInv'
    PROVE  /\ Texts = InTransit \o Queued /\ Texts' = InTransit' \o Queued'
           /\ Queued \in Seq(Sender) /\ Queued' \in Seq(Sender)
           /\ InTransit = <<>> \/ \E s \in Sender : InTransit = <<s>>
           /\ InTransit' = <<>> \/ \E s \in Sender : InTransit' = <<s>>
<1>1. /\ displayQueue \in Seq(Sender) /\ mailbox \in Seq(Sender)
      /\ displayQueue' \in Seq(Sender) /\ mailbox' \in Seq(Sender)
  BY DEF ConsoleInv, TypeOK
<1>2. InTransit = <<>> \/ \E s \in Sender : InTransit = <<s>>
  BY DEF InTransit, ConsoleInv, TypeOK, TextOrNull, Loading
<1>3. InTransit' = <<>> \/ \E s \in Sender : InTransit' = <<s>>
  BY DEF InTransit, ConsoleInv, TypeOK, TextOrNull, Loading
<1>4. <<>> \in Seq(Sender) /\ \A s \in Sender : <<s>> \in Seq(Sender)
  BY EmptySeq
<1>5. InTransit \in Seq(Sender) /\ InTransit' \in Seq(Sender)
  BY <1>2, <1>3, <1>4
<1>6. /\ (InTransit \o displayQueue) \o mailbox = InTransit \o (displayQueue \o mailbox)
      /\ (InTransit' \o displayQueue') \o mailbox' = InTransit' \o (displayQueue' \o mailbox')
  <2>1. \A x, d, m \in Seq(Sender) : (x \o d) \o m = x \o (d \o m)
    BY ConcatAssociative
  <2>2. (InTransit \o displayQueue) \o mailbox = InTransit \o (displayQueue \o mailbox)
    <3>1. InTransit \in Seq(Sender) /\ displayQueue \in Seq(Sender) /\ mailbox \in Seq(Sender)
      BY <1>1, <1>5
    <3> QED
      BY ONLY <2>1, <3>1
  <2>3. (InTransit' \o displayQueue') \o mailbox' = InTransit' \o (displayQueue' \o mailbox')
    <3>1. InTransit' \in Seq(Sender) /\ displayQueue' \in Seq(Sender) /\ mailbox' \in Seq(Sender)
      BY <1>1, <1>5
    <3> QED
      BY ONLY <2>1, <3>1
  <2> QED
    BY <2>2, <2>3
<1>7. displayQueue \o mailbox \in Seq(Sender) /\ displayQueue' \o mailbox' \in Seq(Sender)
  BY <1>1, ConcatProperties
<1> QED
  BY <1>2, <1>3, <1>6, <1>7 DEF Texts, Queued

(* The senders whose text has appeared but is not acknowledged.            *)
Shown == {s \in Sender : Unanswered(s) /\ s \notin Elems(Texts)}

LEMMA ShownIs ==
    /\ Screen!displayVars = <<Texts, Shown>> /\ Screen!displayVars' = <<Texts', Shown'>>
    /\ Screen!DisplayInit <=> Texts = <<>> /\ Shown = {}
    /\ Screen!ShowText <=> Texts # <<>> /\ Texts' = Tail(Texts) /\ Shown' = Shown \cup {Head(Texts)}
    /\ \A s : Screen!SendText(s) <=> /\ s \notin Elems(Texts) \cup Shown
                                   /\ Texts' = Append(Texts, s) /\ Shown' = Shown
    /\ \A s : Screen!Acknowledge(s) <=> s \in Shown /\ Shown' = Shown \ {s} /\ Texts' = Texts
<1>1. \A q, s : (\A i \in DOMAIN q : q[i] # s) <=> s \notin Elems(q)
  BY DEF Elems
<1>2. /\ Shown = {s \in Sender : Unanswered(s) /\ \A i \in DOMAIN Texts : Texts[i] # s}
      /\ Shown' = {s \in Sender : Unanswered(s)' /\ \A i \in DOMAIN Texts' : Texts'[i] # s}
  BY <1>1 DEF Shown
<1> QED
  BY <1>2 DEF Screen!displayVars, Screen!DisplayInit, Screen!ShowText, Screen!SendText,
              Screen!Acknowledge, Screen!Waiting, Elems

LEMMA DisplayInitMapped == Init => Screen!DisplayInit
<1> SUFFICES ASSUME Init PROVE Texts = <<>> /\ Shown = {}
  BY ShownIs
<1>1. displayQueue = <<>> /\ mailbox = <<>> /\ InTransit = <<>>
  BY DEF Init, InTransit
<1>2. Texts = <<>>
  BY <1>1, EmptySeq, ConcatEmptySeq DEF Texts
<1>3. \A s \in Sender : ~Unanswered(s)
  BY DEF Init, Unanswered
<1> QED
  BY <1>2, <1>3 DEF Shown

(* Steps the display does not see.                                         *)
LEMMA UnseenSteps ==
    ASSUME ConsoleInv, ConsoleInv',
           \/ (\E s \in Sender : KillSelf(s)) \/ SignalDelivered
           \/ CopyText \/ RaiseFlag
           \/ PollFlag \/ LowerFlag \/ KillParent \/ UNCHANGED vars
    PROVE  UNCHANGED Screen!displayVars
<1>1. Queued' = Queued
  BY DEF KillSelf, SignalDelivered, CopyText, RaiseFlag, PollFlag, LowerFlag, KillParent,
         senderVars, crtVars, vars, Queued
<1>2. \A r \in Sender : Unanswered(r)' <=> Unanswered(r)
  BY DEF KillSelf, SignalDelivered, CopyText, RaiseFlag, PollFlag, LowerFlag, KillParent,
         senderVars, crtVars, vars, Unanswered, AboutToSignal, ConsoleInv, TypeOK
<1>3. InTransit' = InTransit
  BY DEF KillSelf, SignalDelivered, CopyText, RaiseFlag, PollFlag, LowerFlag, KillParent,
         senderVars, crtVars, vars, InTransit, Loading, ConsoleInv, TypeOK
<1>4. Texts' = Texts
  BY <1>1, <1>3, DisplayTexts
<1>5. Shown' = Shown
  BY <1>2, <1>4 DEF Shown
<1> QED
  BY <1>4, <1>5, ShownIs

LEMMA StepShown ==
    ConsoleInv /\ [Next]_vars => [Screen!DisplayNext]_(Screen!displayVars)
<1> SUFFICES ASSUME ConsoleInv, [Next]_vars PROVE [Screen!DisplayNext]_(Screen!displayVars)
  OBVIOUS
<1>0. ConsoleInv' /\ TypeOK
  BY ConsoleInvNext DEF ConsoleInv
<1>1. ASSUME NEW s \in Sender, k_send_console_chars(s) PROVE Screen!SendText(s)
  <2>1. /\ sender[s] = "running" /\ sender' = [sender EXCEPT ![s] = "kill"]
        /\ InTransit' = InTransit /\ Queued' = Append(Queued, s) /\ s \notin Elems(Queued)
    BY <1>1, SendStep DEF k_send_console_chars, crtVars, InTransit
  <2>2. /\ Texts = InTransit \o Queued /\ Texts' = InTransit' \o Queued'
        /\ Queued \in Seq(Sender) /\ InTransit \in Seq(Sender)
    <3>1. <<>> \in Seq(Sender) /\ \A r \in Sender : <<r>> \in Seq(Sender)
      BY EmptySeq
    <3> QED
      BY <1>0, <3>1, DisplayTexts
  <2>3. Texts' = Append(Texts, s) /\ Texts \in Seq(Sender)
    BY <2>1, <2>2, QueuedTexts
  <2>4. s \notin Elems(Texts)
    <3>1. InTransit # <<s>>
      <4>1. ~Unanswered(s)
        BY <2>1 DEF Unanswered
      <4>2. Loading => message # s
        BY <4>1 DEF ConsoleInv
      <4>3. i_process_wait_flag = "WAIT" => data # s
        BY <4>1 DEF ConsoleInv
      <4> QED
        BY <4>2, <4>3 DEF InTransit, Loading
    <3>2. InTransit = <<>> \/ \E r \in Sender : InTransit = <<r>>
      BY <1>0, DisplayTexts
    <3> QED
      BY <2>1, <2>2, <3>1, <3>2, PrependText
  <2>5. \A r \in Sender : Unanswered(r)' <=> Unanswered(r) \/ r = s
    BY <1>0, <2>1 DEF Unanswered, TypeOK
  <2>6. Elems(Texts') = Elems(Texts) \cup {s}
    BY <2>3, AppendText
  <2>7. ~Unanswered(s)
    BY <2>1 DEF Unanswered
  <2>8. Shown' = Shown /\ s \notin Shown
    BY <2>5, <2>6, <2>7 DEF Shown
  <2> QED
    BY <2>3, <2>4, <2>8, ShownIs
<1>2. CASE AcknowledgePrinted
  <2>1. InTransit' = InTransit /\ Queued' = Queued
    BY <1>2 DEF AcknowledgePrinted, InTransit, Queued
  <2>2. Texts' = Texts
    BY <1>0, <2>1, DisplayTexts
  <2>3. CASE MayAcknowledge
    <3>1. /\ prev_msg \in Sender /\ i_process_wait_flag = "FREE" /\ crt = "acknowledge"
          /\ sender' = [sender EXCEPT ![prev_msg] = IF @ = "kill" THEN "answered" ELSE "running"]
      BY <1>0, <1>2, <2>3 DEF AcknowledgePrinted, MayAcknowledge, TypeOK, TextOrNull
    <3>2. Unanswered(prev_msg) /\ prev_msg \notin Elems(Queued)
      BY <3>1, NullIsNoSender DEF ConsoleInv
    <3>3. InTransit = <<>>
      BY <3>1 DEF InTransit
    <3>4. Texts = Queued
      BY <1>0, <3>1, <3>3, DisplayTexts, PrependText
    <3>5. \A r \in Sender : Unanswered(r)' <=> Unanswered(r) /\ r # prev_msg
      BY <1>0, <3>1 DEF Unanswered, TypeOK
    <3>6. Shown' = Shown \ {prev_msg} /\ prev_msg \in Shown
      BY <2>2, <3>1, <3>2, <3>4, <3>5 DEF Shown
    <3>7. PICK s \in Sender : s = prev_msg
      BY <3>1
    <3>8. Screen!Acknowledge(s)
      BY <2>2, <3>6, <3>7, ShownIs
    <3> QED
      BY <3>8 DEF Screen!DisplayNext
  <2>4. CASE ~MayAcknowledge
    <3>1. sender' = sender
      BY <1>2, <2>4 DEF AcknowledgePrinted
    <3>2. Shown' = Shown
      BY <2>2, <3>1 DEF Shown, Unanswered
    <3> QED
      BY <2>2, <3>2, ShownIs
  <2> QED
    BY <2>3, <2>4
<1>3. CASE TakeFromQueue
  <2>1. crt = "show" /\ UNCHANGED <<sender, i_process_wait_flag, data, helper>>
    BY <1>3 DEF TakeFromQueue
  <2>2. CASE Queued' = Queued /\ crt' = "exited"
    <3>1. InTransit' = InTransit
      BY <2>1, <2>2 DEF InTransit
    <3> QED
      BY <1>0, <2>1, <2>2, <3>1, DisplayTexts, ShownIs DEF Shown, Unanswered
  <2>3. CASE /\ Queued # <<>> /\ Queued' = Tail(Queued) /\ message' = Head(Queued)
             /\ crt' = "copy" /\ i_process_wait_flag = "FREE"
    <3>1. InTransit = <<>> /\ InTransit' = <<Head(Queued)>>
      BY <2>1, <2>3 DEF InTransit
    <3>2. Queued \in Seq(Sender) /\ Head(Queued) \in Sender
      BY <1>0, <2>3, DisplayTexts, HeadTailProperties
    <3>3. Queued = <<Head(Queued)>> \o Tail(Queued)
      BY <2>3, <3>2
    <3>4. Texts = Queued
      BY <1>0, <3>1, <3>2, DisplayTexts, PrependText
    <3>5. Texts' = Texts
      BY <1>0, <2>3, <3>1, <3>3, <3>4, DisplayTexts
    <3> QED
      BY <2>1, <3>5, ShownIs DEF Shown, Unanswered
  <2> QED
    BY <1>3, <2>2, <2>3, TakeStep
<1>4. CASE PrintText
  <2>1. /\ helper = "print" /\ helper' = "lower" /\ i_process_wait_flag = "WAIT"
        /\ sender' = sender /\ crt' = crt /\ message' = message /\ Queued' = Queued
        /\ i_process_wait_flag' = "WAIT"
    BY <1>4 DEF PrintText, senderVars, crtVars, Queued, ConsoleInv
  <2>2. /\ ~Loading /\ data \in Sender /\ Unanswered(data) /\ data \notin Elems(Queued)
    BY <1>0, <2>1, NullIsNoSender DEF ConsoleInv, TypeOK, TextOrNull
  <2>3. InTransit = <<data>> /\ InTransit' = <<>>
    BY <2>1, <2>2 DEF InTransit, Loading
  <2>4. /\ Texts # <<>> /\ Head(Texts) = data /\ Tail(Texts) = Queued /\ Texts' = Queued
        /\ Elems(Texts) = {data} \cup Elems(Queued)
    <3>1. /\ Texts = <<data>> \o Queued /\ Texts' = <<>> \o Queued
          /\ Queued \in Seq(Sender)
      BY <1>0, <2>1, <2>3, DisplayTexts
    <3>2. \A s \in Sender : /\ Elems(<<s>> \o Queued) = {s} \cup Elems(Queued)
                            /\ <<s>> \o Queued # <<>> /\ Head(<<s>> \o Queued) = s
                            /\ Tail(<<s>> \o Queued) = Queued /\ <<>> \o Queued = Queued
      BY <3>1, PrependText
    <3> QED
      BY <2>2, <3>1, <3>2
  <2>5. Shown' = Shown \cup {data}
    <3>1. \A r \in Sender : Unanswered(r)' <=> Unanswered(r)
      BY <2>1 DEF Unanswered
    <3> QED
      BY <2>2, <2>4, <3>1 DEF Shown
  <2>6. Screen!ShowText
    BY <2>4, <2>5, ShownIs
  <2> QED
    BY <2>6 DEF Screen!DisplayNext
<1> QED
  BY <1>0, <1>1, <1>2, <1>3, <1>4, UnseenSteps
     DEF Next, start_crt_i_process, Helper, Screen!DisplayNext

(* Two processes, shared memory, a flag and signals that may merge behave  *)
(* as one display: texts appear once each, in the order they were sent,    *)
(* and are acknowledged only after that, for any number of senders.        *)
THEOREM ConsoleImplementsDisplay == Spec => ImplementsDisplay
<1>1. Init => Screen!DisplayInit
  BY DisplayInitMapped
<1>2. ConsoleInv /\ [Next]_vars => [Screen!DisplayNext]_(Screen!displayVars)
  BY StepShown
<1> QED
  BY <1>1, <1>2, ConsoleInvAlways, PTL DEF Spec, ImplementsDisplay, Screen!DisplaySpec
=============================================================================
