------------------------------ MODULE ProcQueue ------------------------------
(***************************************************************************)
(* The kernel's process queues (unix/kern/src/proc_queue.c, proc_pq.c).    *)
(*                                                                         *)
(* A proc_queue is a singly linked list threaded through the pcbs          *)
(* themselves: the queue holds `head' and `tail', each pcb one `next'.     *)
(* Because the `next' field is shared by all the queues, a queue with a    *)
(* wrong pointer damages its neighbours; the lists are therefore kept at   *)
(* the level of pointers, in one record                                    *)
(*                                                                         *)
(*    [head |-> [Queue -> Proc \cup {NULL}],                               *)
(*     tail |-> [Queue -> Proc \cup {NULL}],                               *)
(*     next |-> [Proc  -> Proc \cup {NULL}]]                               *)
(*                                                                         *)
(* and every operation of the C code is an operator from such a record to  *)
(* the next one.  The arguments the code checks for NULL never are: the    *)
(* kernel passes queues it has created and pcbs of p_table.                *)
(***************************************************************************)
EXTENDS Integers, FiniteSets, Sequences

CONSTANTS Proc, NULL

ASSUME NullIsNoProc == NULL \notin Proc
ASSUME ProcsAreFinite == IsFiniteSet(Proc)

ProcOrNull == Proc \cup {NULL}

(* Of a list, as a sequence: what is on it, and that nothing is on it      *)
(* twice.                                                                  *)
Elements(seq) == {seq[i] : i \in 1 .. Len(seq)}

Once(seq) == \A i, j \in 1 .. Len(seq) : seq[i] = seq[j] => i = j

(* proc_pq_create: one proc_queue per priority, all empty.  A queue is     *)
(* named by its proc_pq and its priority.                                  *)
proc_pq_create(pq, priorities) == {<<pq, i>> : i \in 0 .. priorities - 1}

LinksType(Queue) == [head : [Queue -> ProcOrNull],
                     tail : [Queue -> ProcOrNull],
                     next : [Proc -> ProcOrNull]]

-----------------------------------------------------------------------------
(* What a traversal from the head of q sees.                               *)

(* The pcbs reached along `next', one per step; NULL once the list ended.  *)
Walk(L, q) ==
    LET at[i \in 0 .. Cardinality(Proc)] ==
          IF i = 0 THEN L.head[q]
                   ELSE IF at[i - 1] = NULL THEN NULL ELSE L.next[at[i - 1]]
    IN  at

(* The processes on the list of q.                                         *)
Members(L, q) ==
    LET at == Walk(L, q)
    IN  Proc \cap {at[i] : i \in 0 .. Cardinality(Proc)}

(* The list ends: it does not loop back into itself.                       *)
Ends(L, q) == Walk(L, q)[Cardinality(Proc)] = NULL

(* The list of q, head first, for a q whose list ends.                     *)
ListOf(L, q) ==
    LET at == Walk(L, q)
    IN  [n \in 1 .. Cardinality(Members(L, q)) |-> at[n - 1]]

-----------------------------------------------------------------------------
proc_queue_is_empty(L, q) == L.head[q] = NULL

(* Fault: the dequeued pcb keeps its link to the rest of the list.         *)
DequeueKeepsLink(L, q) == [L EXCEPT !.head[q] = L.next[L.head[q]]]

(* The tail is not reset when the last pcb leaves: the next enqueue finds  *)
(* head = NULL and overwrites it.                                          *)
proc_queue_dequeue(L, q) ==
    LET pcb == L.head[q]
    IN  [head |-> [L.head EXCEPT ![q] = L.next[pcb]],
         tail |-> L.tail,
         next |-> [L.next EXCEPT ![pcb] = NULL]]

(* What assert(pcb->next == NULL) demands of a call to proc_queue_enqueue. *)
EnqueueAssertHolds(L, pcb) == L.next[pcb] = NULL

(* Fault: the pcb is pushed in front of the list.                          *)
EnqueueAtHead(L, q, pcb) ==
    [head |-> [L.head EXCEPT ![q] = pcb],
     tail |-> IF proc_queue_is_empty(L, q) THEN [L.tail EXCEPT ![q] = pcb] ELSE L.tail,
     next |-> [L.next EXCEPT ![pcb] = L.head[q]]]

proc_queue_enqueue(L, q, pcb) ==
    [head |-> IF proc_queue_is_empty(L, q) THEN [L.head EXCEPT ![q] = pcb] ELSE L.head,
     tail |-> [L.tail EXCEPT ![q] = pcb],
     next |-> IF proc_queue_is_empty(L, q)
              THEN [L.next EXCEPT ![pcb] = NULL]
              ELSE [L.next EXCEPT ![L.tail[q]] = pcb, ![pcb] = NULL]]

(* The pcbs of q whose `next' is pcb: the code's prev_node.                *)
Predecessors(L, q, pcb) == {p \in Members(L, q) : L.next[p] = pcb}

(* Only the head case goes through dequeue.  Further down the list the pcb *)
(* is unlinked and `tail' is left alone even when the pcb was the tail.    *)
proc_queue_remove(L, q, pcb) ==
    IF L.head[q] = pcb
      THEN proc_queue_dequeue(L, q)
      ELSE IF Predecessors(L, q, pcb) = {}
             THEN L
             ELSE LET prev == CHOOSE p \in Predecessors(L, q, pcb) : TRUE
                  IN  [head |-> L.head,
                       tail |-> L.tail,
                       next |-> [L.next EXCEPT ![prev] = L.next[pcb], ![pcb] = NULL]]

-----------------------------------------------------------------------------
(* A proc_pq scans its queues from priority 0, the most urgent.            *)

NonEmpty(L, pq) == {q \in pq : ~proc_queue_is_empty(L, q)}

proc_pq_first(L, pq) == CHOOSE q \in NonEmpty(L, pq) : \A r \in NonEmpty(L, pq) : q[2] <= r[2]

(* The pcb proc_pq_dequeue returns and the queues it leaves.               *)
proc_pq_front(L, pq) == IF NonEmpty(L, pq) = {} THEN NULL ELSE L.head[proc_pq_first(L, pq)]

proc_pq_dequeue(L, pq) ==
    IF NonEmpty(L, pq) = {} THEN L ELSE proc_queue_dequeue(L, proc_pq_first(L, pq))
=============================================================================
