----------------------------- MODULE MessageTrace -----------------------------
(***************************************************************************)
(* The trace of the last messages, sent and received: two ring buffers,    *)
(* the dump get_trace_buffers makes of them, and the table the board's CCI *)
(* prints of its dump (unix/kern/src/k_ipc.c; coldfire/kern/src/k_ipc.c,   *)
(* k_primitives.c and cci_utils.c).                                        *)
(*                                                                         *)
(* An entry's four fields are taken for one value, as they are copied      *)
(* together by all but the table of unix, which is left out: it fills a    *)
(* column of the received messages from the sent ones (unix                *)
(* cci/src/cci_util.c:78).  NONE is an entry never written, whose          *)
(* time_stamp is MAX_UINT32.  The ports differ in the type of tail, and so *)
(* in what tail - 1 is for tail = 0.                                       *)
(***************************************************************************)
EXTENDS Integers, Sequences, FiniteSets, FiniteSetsExt

CONSTANTS
    IPC_MESSAGE_TRACE_HISTORY_SIZE,
    UINT32,      \* 2^32, the number of values of an unsigned word
    Event,       \* the messages, as the trace notes them
    NONE

N == IPC_MESSAGE_TRACE_HISTORY_SIZE

ASSUME TraceAssumption ==
    /\ N \in Nat \ {0} /\ UINT32 \in Nat \ {0} /\ UINT32 % N = 0
    /\ NONE \notin Event

VARIABLES
    trace_buf,   \* the rings for "send" and "recv": [tail, buf]
    underway,    \* the messages sent and not received yet
    recent       \* history: the last N messages of each kind, oldest first

traceVars == <<trace_buf, underway, recent>>

Kind == {"send", "recv"}

circle_index(i) == i % N

k_ipc_init == [tail |-> 0, buf |-> [i \in 0 .. N - 1 |-> NONE]]

TraceInit ==
    /\ trace_buf = [kind \in Kind |-> k_ipc_init]
    /\ underway = {}
    /\ recent = [kind \in Kind |-> <<>>]

_log_msg_event(tbuf, event) ==
    [tail |-> circle_index(tbuf.tail + 1),
     buf  |-> [tbuf.buf EXCEPT ![tbuf.tail] = event]]

LastN(seq) == IF Len(seq) > N THEN Tail(seq) ELSE seq

Logged(kind, event) ==
    /\ trace_buf' = [trace_buf EXCEPT ![kind] = _log_msg_event(@, event)]
    /\ recent' = [recent EXCEPT ![kind] = LastN(Append(@, event))]

Sent(event) ==
    /\ Logged("send", event)
    /\ underway' = underway \cup {event}

(* Any receiver may be the first to run.                                   *)
Received(event) ==
    /\ event \in underway
    /\ Logged("recv", event)
    /\ underway' = underway \ {event}

TraceNext == \E event \in Event : Sent(event) \/ Received(event)

TraceSpec == TraceInit /\ [][TraceNext]_traceVars

(* Fault: the search takes the entry at tail for the oldest.               *)
NoSearch(tbuf, last) == circle_index(tbuf.tail)

(* The loop goes on over empty entries up to the last one; -1 stands for a *)
(* loop that does not end.                                                 *)
HeadFrom(tbuf, last) ==
    LET At(i)  == circle_index(tbuf.tail + i)
        stops  == {i \in 0 .. N - 1 : tbuf.buf[At(i)] # NONE \/ At(i) = last}
    IN  IF stops = {} THEN -1 ELSE At(Min(stops))

(* On unix tail - 1 wraps to the largest unsigned word.                    *)
_find_trace_buf_head(tbuf) == HeadFrom(tbuf, circle_index((tbuf.tail - 1) % UINT32))

(* On the board uint32_t is a signed type (coldfire.h:52), whose remainder *)
(* -1 % N is -1.                                                           *)
find_trace_buf_head(tbuf) == HeadFrom(tbuf, IF tbuf.tail = 0 THEN -1 ELSE circle_index(tbuf.tail - 1))

(* What one ring leaves in the caller's envelope.                          *)
Dump(tbuf, head) == [i \in 0 .. N - 1 |-> tbuf.buf[circle_index(head + i)]]

(* Of both rings, on unix and on the board.                                *)
k_get_trace_buffers ==
    [kind \in Kind |-> Dump(trace_buf[kind], _find_trace_buf_head(trace_buf[kind]))]

k_get_trace_buffers_cf ==
    [kind \in Kind |-> Dump(trace_buf[kind], find_trace_buf_head(trace_buf[kind]))]

(* The rows of the table end before the first that has neither side.       *)
Rows(dump) ==
    LET empty == {i \in 0 .. N - 1 : \A kind \in Kind : dump[kind][i] = NONE}
    IN  1 .. (IF empty = {} THEN N ELSE Min(empty))

(* The table of the board.                                                 *)
CCI_printTraceBuffers(dump) ==
    [i \in Rows(dump) |-> [kind \in Kind |-> dump[kind][i - 1]]]

-----------------------------------------------------------------------------
(* The last messages of each kind, all of them, the oldest first: that is  *)
(* the dump on unix; and on the board the table of the dump, once a        *)
(* message has been sent and received, as the line with the command has    *)
(* been.  The search for the oldest ends (_find_trace_buf_head and         *)
(* k_get_trace_buffers of unix; find_trace_buf_head, k_get_trace_buffers   *)
(* and CCI_printTraceBuffers of the board).                                *)
TraceInOrder ==
    LET Entry(kind, i) == IF i <= Len(recent[kind]) THEN recent[kind][i] ELSE NONE
    IN  /\ \A kind \in Kind : _find_trace_buf_head(trace_buf[kind]) # -1
        /\ k_get_trace_buffers
              = [kind \in Kind |-> [i \in 0 .. N - 1 |-> Entry(kind, i + 1)]]
        /\ (\A kind \in Kind : recent[kind] # <<>>)
              => /\ \A kind \in Kind : find_trace_buf_head(trace_buf[kind]) # -1
                 /\ CCI_printTraceBuffers(k_get_trace_buffers_cf)
                       = [i \in 1 .. Max({Len(recent[kind]) : kind \in Kind}) |->
                            [kind \in Kind |-> Entry(kind, i)]]
=============================================================================
