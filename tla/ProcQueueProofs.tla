--------------------------- MODULE ProcQueueProofs ---------------------------
(***************************************************************************)
(* What each queue operation of ProcQueue makes of a list, for the kernels *)
(* of both ports: what a traversal of the links yields, what an enqueue, a *)
(* dequeue and a removal do to the lists of a set Queue of queues, and     *)
(* that the lists stay those the statuses and the priorities of the        *)
(* scheduled processes, Threads, call for (Right).                         *)
(***************************************************************************)
EXTENDS ProcQueue, TLAPS, WellFoundedInduction, FiniteSetTheorems

(* A non-empty set of naturals has a least element (the scan of a proc_pq, *)
(* and the boot order, choose one).                                        *)
LEMMA NatLeast ==
    ASSUME NEW S, S \subseteq Nat, S # {}
    PROVE  \E x \in S : \A y \in S : x <= y
<1>1. \E x \in S : \A y \in S : ~ (<<y, x>> \in OpToRel(<, Nat))
  BY NatLessThanWellFounded, WFMin
<1>2. PICK x \in S : \A y \in S : ~ (<<y, x>> \in OpToRel(<, Nat))
  BY <1>1
<1>3. \A y \in S : ~(y < x)
  BY <1>2 DEF OpToRel
<1>4. \A y \in S : x <= y
  <2> TAKE y \in S
  <2>1. x \in Nat /\ y \in Nat
    OBVIOUS
  <2> QED
    BY <1>3, <2>1
<1> QED
  BY <1>4

-----------------------------------------------------------------------------
(* In L, the list of q is s: the pcbs of s, each once, are linked in this  *)
(* order from head to tail, and the last one ends the list.                *)
IsList(L, q, s) ==
    /\ s \in Seq(Proc)
    /\ Once(s)
    /\ L.head[q] = IF s = <<>> THEN NULL ELSE s[1]
    /\ s # <<>> => L.tail[q] = s[Len(s)]
    /\ \A i \in 1 .. Len(s) : L.next[s[i]] = IF i = Len(s) THEN NULL ELSE s[i + 1]

(* How many numbers there are from 1 to n.                                 *)
LEMMA OneToN ==
    ASSUME NEW n \in Nat
    PROVE  IsFiniteSet(1 .. n) /\ Cardinality(1 .. n) = n
<1> DEFINE one == 1
<1>1. one \in Int /\ n \in Int /\ (one > n => n = 0) /\ n - one + 1 = n
  OBVIOUS
<1> HIDE DEF one
<1>2. IsFiniteSet(one .. n) /\ Cardinality(one .. n) = IF one > n THEN 0 ELSE n - one + 1
  BY <1>1, FS_Interval, Zenon
<1> DEFINE size == Cardinality(one .. n)
<1> HIDE DEF size
<1>3. size = n
  <2>1. size = IF one > n THEN 0 ELSE n - one + 1
    BY <1>2 DEF size
  <2> QED
    BY <1>1, <2>1
<1> QED
  BY <1>2, <1>3 DEF size, one

(* A list without repetitions is no longer than there are processes.       *)
LEMMA ListIsShort ==
    ASSUME NEW s \in Seq(Proc), Once(s)
    PROVE  /\ Cardinality(Proc) \in Nat
           /\ Len(s) <= Cardinality(Proc)
           /\ Cardinality(Elements(s)) = Len(s)
<1>1. Len(s) \in Nat /\ \A i \in 1 .. Len(s) : s[i] \in Proc
  OBVIOUS
<1>2. IsFiniteSet(1 .. Len(s)) /\ Cardinality(1 .. Len(s)) = Len(s)
  BY <1>1, OneToN, Zenon
<1>3. s \in [1 .. Len(s) -> Elements(s)]
  BY DEF Elements
<1>4. s \in Injection(1 .. Len(s), Elements(s)) /\ s \in Surjection(1 .. Len(s), Elements(s))
  BY <1>3 DEF Injection, Surjection, IsInjective, Elements, Once
<1>5. Cardinality(Elements(s)) = Len(s) /\ IsFiniteSet(Elements(s))
  BY <1>2, <1>4, FS_Surjection
<1>6. Elements(s) \in SUBSET Proc
  BY <1>1 DEF Elements
<1> QED
  BY <1>5, <1>6, ProcsAreFinite, FS_Subset, FS_CardinalityType

(* What a traversal sees of a list.                                        *)
LEMMA WalkOfList ==
    ASSUME NEW L, NEW q, NEW s, IsList(L, q, s)
    PROVE  Walk(L, q) = [i \in 0 .. Cardinality(Proc) |-> IF i < Len(s) THEN s[i + 1] ELSE NULL]
<1> DEFINE N == Cardinality(Proc)
           f == [i \in 0 .. N |-> IF i < Len(s) THEN s[i + 1] ELSE NULL]
           Step(g) == [i \in 0 .. N |-> IF i = 0 THEN L.head[q]
                                        ELSE IF g[i - 1] = NULL THEN NULL ELSE L.next[g[i - 1]]]
<1>1. N \in Nat /\ Len(s) \in Nat /\ Len(s) <= N /\ \A i \in 1 .. Len(s) : s[i] \in Proc
  BY ListIsShort DEF IsList
<1> HIDE DEF N
<1>2. f = Step(f)
  <2>1. f[0] = L.head[q]
    BY <1>1 DEF IsList
  <2>2. ASSUME NEW i \in 1 .. N
        PROVE  f[i] = IF f[i - 1] = NULL THEN NULL ELSE L.next[f[i - 1]]
    <3>1. i - 1 \in 0 .. N /\ f[i - 1] = IF i - 1 < Len(s) THEN s[i] ELSE NULL
      BY <1>1
    <3>2. CASE i - 1 < Len(s)
      <4>1. i \in 1 .. Len(s) /\ s[i] # NULL
        BY <1>1, <3>2, NullIsNoProc
      <4>2. L.next[s[i]] = IF i = Len(s) THEN NULL ELSE s[i + 1]
        BY <4>1 DEF IsList
      <4> QED
        BY <1>1, <3>1, <3>2, <4>1, <4>2
    <3>3. CASE ~(i - 1 < Len(s))
      BY <1>1, <3>1, <3>3
    <3> QED
      BY <3>2, <3>3
  <2>3. \A i \in 0 .. N : f[i] = Step(f)[i]
    BY <1>1, <2>1, <2>2
  <2> QED
    BY <2>3
<1>3. Walk(L, q) = CHOOSE g : g = Step(g)
  BY DEF Walk, N
<1> DEFINE W == Walk(L, q)
<1>4. W = Step(W)
  <2>1. \E g : g = Step(g)
    BY <1>2
  <2> HIDE DEF Step, f
  <2> QED
    BY <1>3, <2>1, Zenon
<1> HIDE DEF W, f
<1>5. ASSUME \E i \in 0 .. N : W[i] # f[i]
      PROVE  FALSE
  <2> DEFINE T == {i \in 0 .. N : W[i] # f[i]}
  <2>0. T \subseteq Nat /\ T # {}
    BY <1>1, <1>5
  <2> HIDE DEF T
  <2>1. PICK i \in T : \A j \in T : i <= j
    BY <2>0, NatLeast
  <2> USE DEF T
  <2>2. i # 0
    BY <1>1, <1>2, <1>4, <2>1
  <2>3. i - 1 \in 0 .. N /\ i - 1 \notin T
    BY <1>1, <2>1, <2>2
  <2>4. W[i - 1] = f[i - 1]
    BY <2>3
  <2>5. W[i] = f[i]
    <3>1. i \in 0 .. N
      BY <2>1
    <3>2. W[i] = Step(W)[i] /\ f[i] = Step(f)[i]
      BY <1>2, <1>4
    <3>3. Step(W)[i] = Step(f)[i]
      BY <2>2, <2>4, <3>1
    <3> QED
      BY <3>2, <3>3, Zenon
  <2> QED
    BY <2>1, <2>5
<1>6. W = [i \in 0 .. N |-> W[i]] /\ f = [i \in 0 .. N |-> f[i]]
  BY <1>4 DEF f
<1>7. W = f
  BY <1>5, <1>6
<1> QED
  BY <1>7 DEF W, f, N

(* A list read back.                                                       *)
LEMMA ReadList ==
    ASSUME NEW L, NEW q, NEW s, IsList(L, q, s)
    PROVE  /\ Ends(L, q)
           /\ Members(L, q) = Elements(s)
           /\ ListOf(L, q) = s
<1> DEFINE N == Cardinality(Proc)
           at == Walk(L, q)
<1>1. N \in Nat /\ Len(s) \in Nat /\ Len(s) <= N /\ Cardinality(Elements(s)) = Len(s)
  BY ListIsShort DEF IsList
<1>2. s \in Seq(Proc) /\ \A i \in 1 .. Len(s) : s[i] \in Proc
  BY DEF IsList
<1>3. at = [i \in 0 .. N |-> IF i < Len(s) THEN s[i + 1] ELSE NULL]
  BY WalkOfList
<1>4. Ends(L, q)
  BY <1>1, <1>3 DEF Ends
<1>5. Members(L, q) = Proc \cap {at[i] : i \in 0 .. N}
  BY DEF Members
<1> HIDE DEF N, at
<1>6. Proc \cap {at[i] : i \in 0 .. N} = Elements(s)
  <2>1. ASSUME NEW i \in 0 .. N, at[i] \in Proc
        PROVE  at[i] \in Elements(s)
    <3>1. i < Len(s) /\ at[i] = s[i + 1]
      BY <1>3, <2>1, NullIsNoProc
    <3>2. i + 1 \in 1 .. Len(s)
      BY <1>1, <3>1
    <3> QED
      BY <3>1, <3>2 DEF Elements
  <2>2. ASSUME NEW i \in 1 .. Len(s)
        PROVE  s[i] \in Proc \cap {at[j] : j \in 0 .. N}
    <3>1. i - 1 \in 0 .. N /\ at[i - 1] = s[i]
      BY <1>1, <1>3
    <3> QED
      BY <1>2, <3>1
  <2> QED
    BY <2>1, <2>2 DEF Elements
<1>7. ListOf(L, q) = [n \in 1 .. Len(s) |-> at[n - 1]]
  BY <1>1, <1>5, <1>6 DEF ListOf, at
<1>8. \A n \in 1 .. Len(s) : at[n - 1] = s[n]
  BY <1>1, <1>3
<1>9. [n \in 1 .. Len(s) |-> at[n - 1]] = [n \in 1 .. Len(s) |-> s[n]]
  BY <1>8
<1>10. s = [n \in 1 .. Len(s) |-> s[n]]
  BY <1>2
<1> QED
  BY <1>4, <1>5, <1>6, <1>7, <1>9, <1>10

-----------------------------------------------------------------------------
(* Sequences without repetitions, one element longer or shorter.           *)

Without(s, p) ==
    LET k == CHOOSE i \in 1 .. Len(s) : s[i] = p
    IN  [i \in 1 .. Len(s) - 1 |-> IF i < k THEN s[i] ELSE s[i + 1]]

LEMMA SeqIsFunction ==
    ASSUME NEW s \in Seq(Proc)
    PROVE  s = [i \in 1 .. Len(s) |-> s[i]] /\ (s = <<>> <=> Len(s) = 0)
  OBVIOUS

LEMMA AppendOnce ==
    ASSUME NEW s \in Seq(Proc), Once(s), NEW p \in Proc, p \notin Elements(s)
    PROVE  /\ Append(s, p) \in Seq(Proc)
           /\ Once(Append(s, p))
           /\ Elements(Append(s, p)) = Elements(s) \cup {p}
           /\ Append(s, p) # <<>>
           /\ Append(s, p)[1] = IF s = <<>> THEN p ELSE s[1]
<1>1. /\ Len(s) \in Nat /\ Append(s, p) \in Seq(Proc) /\ Len(Append(s, p)) = Len(s) + 1
      /\ \A i \in 1 .. Len(s) : Append(s, p)[i] = s[i] /\ s[i] \in Proc
      /\ Append(s, p)[Len(s) + 1] = p
      /\ s = <<>> <=> Len(s) = 0
      /\ Append(s, p) # <<>>
  OBVIOUS

<1>2. \A i \in 1 .. Len(s) : s[i] # p
  BY DEF Elements
<1>3. Once(Append(s, p))
  BY <1>1, <1>2 DEF Once
<1>4. Elements(Append(s, p)) \subseteq Elements(s) \cup {p}
  BY <1>1 DEF Elements
<1>5. Elements(s) \subseteq Elements(Append(s, p))
  <2> SUFFICES ASSUME NEW i \in 1 .. Len(s) PROVE s[i] \in Elements(Append(s, p))
    BY DEF Elements
  <2>1. i \in 1 .. Len(Append(s, p)) /\ Append(s, p)[i] = s[i]
    BY <1>1
  <2> QED
    BY <2>1 DEF Elements
<1>6. p \in Elements(Append(s, p))
  <2>1. Len(s) + 1 \in 1 .. Len(Append(s, p))
    BY <1>1
  <2> QED
    BY <1>1, <2>1 DEF Elements
<1> QED
  BY <1>1, <1>3, <1>4, <1>5, <1>6

(* Dropping the first element is removing it.                              *)
LEMMA WithoutOnce ==
    ASSUME NEW s \in Seq(Proc), Once(s), NEW k \in 1 .. Len(s)
    PROVE  /\ Without(s, s[k]) = [i \in 1 .. Len(s) - 1 |-> IF i < k THEN s[i] ELSE s[i + 1]]
           /\ Without(s, s[k]) \in Seq(Proc)
           /\ Len(Without(s, s[k])) = Len(s) - 1
           /\ Once(Without(s, s[k]))
           /\ Elements(Without(s, s[k])) = Elements(s) \ {s[k]}
<1>0. Len(s) \in Nat /\ \A i \in 1 .. Len(s) : s[i] \in Proc
  OBVIOUS
<1> DEFINE w == [i \in 1 .. Len(s) - 1 |-> IF i < k THEN s[i] ELSE s[i + 1]]
<1>1. (CHOOSE i \in 1 .. Len(s) : s[i] = s[k]) = k
  BY DEF Once
<1>2. Without(s, s[k]) = w
  BY <1>1 DEF Without
<1>3. \A i \in 1 .. Len(s) - 1 : /\ w[i] = IF i < k THEN s[i] ELSE s[i + 1]
                                 /\ i \in 1 .. Len(s) /\ i + 1 \in 1 .. Len(s)
  BY <1>0
<1>4. w \in [1 .. Len(s) - 1 -> Proc] /\ Len(s) - 1 \in Nat
  BY <1>0
<1>5. w \in Seq(Proc) /\ Len(w) = Len(s) - 1
  BY <1>4
<1> HIDE DEF w
<1>6. Once(w)
  <2> SUFFICES ASSUME NEW i \in 1 .. Len(s) - 1, NEW j \in 1 .. Len(s) - 1, w[i] = w[j]
               PROVE  i = j
    BY <1>5 DEF Once
  <2>1. /\ (IF i < k THEN i ELSE i + 1) = (IF j < k THEN j ELSE j + 1)
    BY <1>3 DEF Once
  <2> QED
    BY <1>0, <2>1
<1>7. Elements(w) \subseteq Elements(s) \ {s[k]}
  <2> SUFFICES ASSUME NEW i \in 1 .. Len(s) - 1
               PROVE  w[i] \in Elements(s) /\ w[i] # s[k]
    BY <1>5 DEF Elements
  <2> DEFINE j == IF i < k THEN i ELSE i + 1
  <2>1. w[i] = s[j] /\ j \in 1 .. Len(s) /\ j # k
    BY <1>0, <1>3
  <2> HIDE DEF j
  <2> QED
    BY <2>1 DEF Elements, Once
<1>8. Elements(s) \ {s[k]} \subseteq Elements(w)
  <2> SUFFICES ASSUME NEW i \in 1 .. Len(s), s[i] # s[k] PROVE s[i] \in Elements(w)
    BY DEF Elements
  <2> DEFINE j == IF i < k THEN i ELSE i - 1
  <2>1. j \in 1 .. Len(s) - 1 /\ s[i] = IF j < k THEN s[j] ELSE s[j + 1]
    BY <1>0
  <2> HIDE DEF j
  <2>2. w[j] = s[i]
    BY <1>3, <2>1
  <2> QED
    BY <1>5, <2>1, <2>2 DEF Elements
<1> QED
  BY <1>2, <1>5, <1>6, <1>7, <1>8 DEF w

LEMMA TailIsWithout ==
    ASSUME NEW s \in Seq(Proc), Once(s), s # <<>>
    PROVE  Head(s) = s[1] /\ 1 \in 1 .. Len(s) /\ Tail(s) = Without(s, s[1])
<1>1. Head(s) = s[1] /\ 1 \in 1 .. Len(s) /\ Len(s) \in Nat
  OBVIOUS
<1>2. Tail(s) = [i \in 1 .. Len(s) - 1 |-> s[i + 1]]
  <2>1. Tail(s) \in Seq(Proc) /\ Len(Tail(s)) = Len(s) - 1
    OBVIOUS
  <2>2. \A i \in 1 .. Len(s) - 1 : Tail(s)[i] = s[i + 1]
    OBVIOUS
  <2> DEFINE t == Tail(s)
  <2>3. t = [i \in 1 .. Len(t) |-> t[i]]
    BY <2>1, SeqIsFunction
  <2> HIDE DEF t
  <2>4. [i \in 1 .. Len(t) |-> t[i]] = [i \in 1 .. Len(s) - 1 |-> s[i + 1]]
    BY <2>1, <2>2 DEF t
  <2> QED
    BY <2>3, <2>4 DEF t
<1>3. Without(s, s[1]) = [i \in 1 .. Len(s) - 1 |-> IF i < 1 THEN s[i] ELSE s[i + 1]]
  BY <1>1, WithoutOnce
<1>4. \A i \in 1 .. Len(s) - 1 : ~(i < 1)
  BY <1>1
<1> QED
  BY <1>1, <1>2, <1>3, <1>4

-----------------------------------------------------------------------------
(* In L, every queue is a list; no pcb is in two of them, and one that is  *)
(* in none has no link.                                                    *)
Linked(Queue, L, F) ==
    /\ L \in LinksType(Queue)
    /\ F \in [Queue -> Seq(Proc)]
    /\ \A q \in Queue : IsList(L, q, F[q])
    /\ \A q, r \in Queue : q # r => Elements(F[q]) \cap Elements(F[r]) = {}
    /\ \A p \in Proc : (\A q \in Queue : p \notin Elements(F[q])) => L.next[p] = NULL

Put(F, q, s) == [F EXCEPT ![q] = s]

Unlisted(Queue, F, p) == \A q \in Queue : p \notin Elements(F[q])

LEMMA LinkedFacts ==
    ASSUME NEW Queue, NEW L, NEW F, Linked(Queue, L, F), NEW q \in Queue
    PROVE  /\ F[q] \in Seq(Proc) /\ Once(F[q])
           /\ Len(F[q]) \in Nat
           /\ F[q] = <<>> <=> Len(F[q]) = 0
           /\ F[q] = <<>> <=> L.head[q] = NULL
           /\ F[q] # <<>> => /\ L.head[q] = F[q][1] /\ L.tail[q] = F[q][Len(F[q])]
                             /\ F[q][1] \in Proc /\ F[q][Len(F[q])] \in Proc
                             /\ 1 \in 1 .. Len(F[q]) /\ Len(F[q]) \in 1 .. Len(F[q])
           /\ \A i \in 1 .. Len(F[q]) :
                 /\ F[q][i] \in Proc /\ F[q][i] # NULL /\ F[q][i] \in Elements(F[q])
                 /\ L.next[F[q][i]] = IF i = Len(F[q]) THEN NULL ELSE F[q][i + 1]
<1>1. F[q] \in Seq(Proc) /\ IsList(L, q, F[q])
  BY DEF Linked
<1>2. /\ Len(F[q]) \in Nat
      /\ F[q] = <<>> <=> Len(F[q]) = 0
      /\ \A i \in 1 .. Len(F[q]) : F[q][i] \in Proc
  BY <1>1
<1>3. \A i \in 1 .. Len(F[q]) : F[q][i] # NULL /\ F[q][i] \in Elements(F[q])
  BY <1>2, NullIsNoProc DEF Elements
<1> QED
  BY <1>1, <1>2, <1>3 DEF IsList

LEMMA EnqueueList ==
    ASSUME NEW Queue, NEW L, NEW F, Linked(Queue, L, F), NEW q \in Queue, NEW p \in Proc, Unlisted(Queue, F, p)
    PROVE  /\ Linked(Queue, proc_queue_enqueue(L, q, p), Put(F, q, Append(F[q], p)))
           /\ Elements(Append(F[q], p)) = Elements(F[q]) \cup {p}
<1> DEFINE M == proc_queue_enqueue(L, q, p)
           s == Append(F[q], p)
           G == Put(F, q, s)
           n == Len(F[q])
<1>1. F[q] \in Seq(Proc) /\ Once(F[q]) /\ p \notin Elements(F[q])
  BY DEF Linked, IsList, Unlisted
<1>2. /\ s \in Seq(Proc) /\ Once(s) /\ Elements(s) = Elements(F[q]) \cup {p} /\ s # <<>>
      /\ s[1] = IF F[q] = <<>> THEN p ELSE F[q][1]
  BY <1>1, AppendOnce
<1>3. n \in Nat /\ Len(s) = n + 1 /\ s[n + 1] = p /\ \A i \in 1 .. n : s[i] = F[q][i]
  BY <1>1
<1>4. L.head \in [Queue -> ProcOrNull] /\ L.tail \in [Queue -> ProcOrNull] /\ L.next \in [Proc -> ProcOrNull]
  BY DEF Linked, LinksType
<1>5. /\ F[q] = <<>> <=> n = 0
      /\ F[q] = <<>> <=> L.head[q] = NULL
      /\ n # 0 => L.tail[q] = F[q][n] /\ F[q][n] \in Proc /\ F[q][n] # p /\ n \in 1 .. n /\ L.head[q] = F[q][1]
      /\ \A i \in 1 .. n : F[q][i] \in Proc /\ F[q][i] # p
                           /\ L.next[F[q][i]] = IF i = n THEN NULL ELSE F[q][i + 1]
  <2>1. /\ F[q] = <<>> <=> n = 0
        /\ F[q] = <<>> <=> L.head[q] = NULL
        /\ F[q] # <<>> => /\ L.head[q] = F[q][1] /\ L.tail[q] = F[q][n]
                          /\ F[q][n] \in Proc /\ n \in 1 .. n
        /\ \A i \in 1 .. n :
              /\ F[q][i] \in Proc /\ F[q][i] \in Elements(F[q])
              /\ L.next[F[q][i]] = IF i = n THEN NULL ELSE F[q][i + 1]
    BY LinkedFacts
  <2> HIDE DEF n
  <2> QED
    BY <1>1, <2>1
<1>6. /\ M.head = IF n = 0 THEN [L.head EXCEPT ![q] = p] ELSE L.head
      /\ M.tail = [L.tail EXCEPT ![q] = p]
      /\ M.next = IF n = 0 THEN [L.next EXCEPT ![p] = NULL]
                  ELSE [L.next EXCEPT ![F[q][n]] = p, ![p] = NULL]
      /\ M = [head |-> M.head, tail |-> M.tail, next |-> M.next]
  BY <1>5 DEF proc_queue_enqueue, proc_queue_is_empty
<1>7. G \in [Queue -> Seq(Proc)] /\ G[q] = s /\ \A r \in Queue \ {q} : G[r] = F[r]
  BY <1>2 DEF Linked, Put
<1> HIDE DEF M, s, G, n
<1>8. /\ M.head \in [Queue -> ProcOrNull] /\ M.tail \in [Queue -> ProcOrNull]
      /\ M.next \in [Proc -> ProcOrNull]
  <2>1. p \in ProcOrNull /\ NULL \in ProcOrNull
    BY DEF ProcOrNull
  <2> QED
    BY <1>4, <1>6, <2>1
<1>9. M \in LinksType(Queue)
  BY <1>6, <1>8 DEF LinksType
<1>10. /\ M.head[q] = s[1] /\ M.tail[q] = p
       /\ \A r \in Queue \ {q} : M.head[r] = L.head[r] /\ M.tail[r] = L.tail[r]
       /\ \A r \in Proc : M.next[r] = IF r = p THEN NULL
                                      ELSE IF n # 0 /\ r = F[q][n] THEN p ELSE L.next[r]
  BY <1>2, <1>4, <1>5, <1>6
<1>11. IsList(M, q, s)
  <2>1. ASSUME NEW i \in 1 .. n + 1
        PROVE  M.next[s[i]] = IF i = n + 1 THEN NULL ELSE s[i + 1]
    <3>1. CASE i = n + 1
      BY <1>3, <1>10, <3>1
    <3>2. CASE i = n
      <4>1. i \in 1 .. n /\ s[i] = F[q][n] /\ n # 0
        BY <1>3, <3>2
      <4> QED
        BY <1>3, <1>5, <1>10, <3>2, <4>1
    <3>3. CASE i # n + 1 /\ i # n
      <4>1. i \in 1 .. n /\ n \in 1 .. n /\ i + 1 \in 1 .. n
        BY <1>3, <3>3
      <4>2. F[q][i] # F[q][n]
        BY <1>1, <3>3, <4>1 DEF Once, n
      <4> QED
        BY <1>3, <1>5, <1>10, <3>3, <4>1, <4>2
    <3> QED
      BY <3>1, <3>2, <3>3
  <2> QED
    BY <1>2, <1>3, <1>10, <2>1 DEF IsList
<1>12. ASSUME NEW r \in Queue \ {q} PROVE IsList(M, r, F[r])
  <2>1. IsList(L, r, F[r]) /\ Elements(F[r]) \cap Elements(F[q]) = {} /\ p \notin Elements(F[r])
    BY DEF Linked, Unlisted
  <2>2. \A i \in 1 .. Len(F[r]) : /\ F[r][i] \in Proc /\ F[r][i] # p
                                  /\ (n # 0 => F[r][i] # F[q][n])
    BY <1>5, <2>1, LinkedFacts DEF n
  <2> QED
    BY <1>10, <2>1, <2>2 DEF IsList
<1>13. \A r, t \in Queue : r # t => Elements(G[r]) \cap Elements(G[t]) = {}
  <2>1. \A r \in Queue \ {q} : Elements(G[r]) = Elements(F[r]) /\ p \notin Elements(F[r])
    BY <1>7 DEF Unlisted
  <2>2. Elements(G[q]) = Elements(F[q]) \cup {p}
    BY <1>2, <1>7
  <2>3. \A r, t \in Queue : r # t => Elements(F[r]) \cap Elements(F[t]) = {}
    BY DEF Linked
  <2> QED
    BY <2>1, <2>2, <2>3
<1>14. ASSUME NEW r \in Proc, \A t \in Queue : r \notin Elements(G[t])
       PROVE  M.next[r] = NULL
  <2>1. r # p /\ \A t \in Queue : r \notin Elements(F[t])
    BY <1>2, <1>7, <1>14
  <2>2. n # 0 => r # F[q][n]
    BY <1>5, <2>1, LinkedFacts DEF n
  <2> QED
    BY <1>10, <2>1, <2>2 DEF Linked
<1>15. \A r \in Queue : IsList(M, r, G[r])
  BY <1>7, <1>11, <1>12
<1>16. Linked(Queue, M, G)
  BY <1>7, <1>9, <1>13, <1>14, <1>15 DEF Linked
<1> QED
  BY <1>2, <1>16 DEF M, G, s

(* The pcb at position k of the list s of q is taken out of the links:     *)
(* what proc_queue_dequeue and proc_queue_remove have in common.           *)
Unlinked(L, q, s, k) ==
    [head |-> IF k = 1 THEN [L.head EXCEPT ![q] = L.next[s[1]]] ELSE L.head,
     tail |-> L.tail,
     next |-> IF k = 1 THEN [L.next EXCEPT ![s[1]] = NULL]
              ELSE [L.next EXCEPT ![s[k - 1]] = L.next[s[k]], ![s[k]] = NULL]]

(* It does not leave other pcbs behind without a tail.                     *)
NotTail(s, k) == k = 1 \/ k # Len(s)

LEMMA UnlinkList ==
    ASSUME NEW Queue, NEW L, NEW F, Linked(Queue, L, F), NEW q \in Queue, NEW k \in 1 .. Len(F[q]),
           NotTail(F[q], k)
    PROVE  /\ Linked(Queue, Unlinked(L, q, F[q], k), Put(F, q, Without(F[q], F[q][k])))
           /\ Elements(Without(F[q], F[q][k])) = Elements(F[q]) \ {F[q][k]}
<1> DEFINE s == F[q]
           n == Len(s)
           p == s[k]
           w == Without(s, p)
           G == Put(F, q, w)
           M == Unlinked(L, q, s, k)
<1>1. /\ s \in Seq(Proc) /\ Once(s) /\ n \in Nat
      /\ L.head[q] = s[1] /\ L.tail[q] = s[n] /\ 1 \in 1 .. n /\ n \in 1 .. n
      /\ \A i \in 1 .. n : /\ s[i] \in Proc /\ s[i] \in Elements(s) /\ s[i] # NULL
                           /\ L.next[s[i]] = IF i = n THEN NULL ELSE s[i + 1]
  BY LinkedFacts
<1>2. /\ w \in Seq(Proc) /\ Len(w) = n - 1 /\ Once(w) /\ Elements(w) = Elements(s) \ {p}
      /\ \A i \in 1 .. n - 1 : w[i] = IF i < k THEN s[i] ELSE s[i + 1]
      /\ w = <<>> <=> n - 1 = 0
  <2>1. /\ w = [i \in 1 .. n - 1 |-> IF i < k THEN s[i] ELSE s[i + 1]]
        /\ w \in Seq(Proc) /\ Len(w) = n - 1 /\ Once(w) /\ Elements(w) = Elements(s) \ {p}
    BY <1>1, WithoutOnce
  <2> HIDE DEF w, n
  <2>2. \A i \in 1 .. n - 1 : w[i] = IF i < k THEN s[i] ELSE s[i + 1]
    BY <2>1
  <2>3. w = <<>> <=> Len(w) = 0
    BY <2>1, SeqIsFunction
  <2> QED
    BY <2>1, <2>2, <2>3
<1>3. L.head \in [Queue -> ProcOrNull] /\ L.tail \in [Queue -> ProcOrNull] /\ L.next \in [Proc -> ProcOrNull]
  BY DEF Linked, LinksType
<1>4. G \in [Queue -> Seq(Proc)] /\ G[q] = w /\ \A r \in Queue \ {q} : G[r] = F[r]
  BY <1>2 DEF Linked, Put
<1>5. /\ \A i, j \in 1 .. n : s[i] = s[j] => i = j
      /\ p \in Proc /\ p \in Elements(s) /\ k \in 1 .. n /\ (k = 1 \/ k # n)
  BY <1>1 DEF Once, NotTail
<1>0. /\ M.head = IF k = 1 THEN [L.head EXCEPT ![q] = L.next[s[1]]] ELSE L.head
      /\ M.next = IF k = 1 THEN [L.next EXCEPT ![s[1]] = NULL]
                  ELSE [L.next EXCEPT ![s[k - 1]] = L.next[s[k]], ![s[k]] = NULL]
      /\ M.tail = L.tail
      /\ M = [head |-> M.head, tail |-> M.tail, next |-> M.next]
  BY DEF Unlinked
<1> HIDE DEF w, G, s, n, M
<1>6. /\ M.head[q] = IF k = 1 THEN (IF n = 1 THEN NULL ELSE s[2]) ELSE s[1]
      /\ \A r \in Queue \ {q} : M.head[r] = L.head[r]
      /\ M.tail = L.tail
      /\ \A r \in Proc : M.next[r] = IF r = p THEN NULL
                                     ELSE IF k # 1 /\ r = s[k - 1] THEN s[k + 1] ELSE L.next[r]
  <2>1. CASE k = 1
    <3>1. L.next[s[1]] = IF n = 1 THEN NULL ELSE s[2]
      BY <1>1
    <3> QED
      BY <1>0, <1>3, <1>5, <2>1, <3>1
  <2>2. CASE k # 1
    <3>1. k - 1 \in 1 .. n
      BY <1>1, <1>5, <2>2
    <3>2. s[k - 1] \in Proc /\ s[k - 1] # p /\ L.next[p] = s[k + 1]
      BY <1>1, <1>5, <2>2, <3>1
    <3> QED
      BY <1>0, <1>1, <1>3, <1>5, <2>2, <3>2
  <2> QED
    BY <2>1, <2>2
<1>7. M \in LinksType(Queue)
  <2>1. NULL \in ProcOrNull /\ \A r \in Proc : L.next[r] \in ProcOrNull
    BY <1>3 DEF ProcOrNull
  <2>2. 1 \in 1 .. n /\ s[1] \in Proc /\ p \in Proc
    BY <1>1, <1>5
  <2>3. /\ M.head \in [Queue -> ProcOrNull] /\ M.tail \in [Queue -> ProcOrNull]
        /\ M.next \in [Proc -> ProcOrNull]
    BY <1>0, <1>3, <2>1, <2>2
  <2> QED
    BY <1>0, <2>3 DEF LinksType
<1>8. IsList(M, q, w)
  <2>1. M.head[q] = IF w = <<>> THEN NULL ELSE w[1]
    <3>1. CASE n = 1
      BY <1>2, <1>5, <1>6, <3>1
    <3>2. CASE n # 1
      <4>1. 1 \in 1 .. n - 1
        BY <1>1, <3>2
      <4>2. w[1] = IF 1 < k THEN s[1] ELSE s[2]
        BY <1>2, <4>1
      <4> QED
        BY <1>1, <1>2, <1>5, <1>6, <3>2, <4>2
    <3> QED
      BY <3>1, <3>2
  <2>2. w # <<>> => M.tail[q] = w[n - 1]
    <3> SUFFICES ASSUME w # <<>> PROVE s[n] = w[n - 1]
      BY <1>1, <1>6
    <3>1. n - 1 \in 1 .. n - 1 /\ ~(n - 1 < k) /\ (n - 1) + 1 = n
      <4>1. n - 1 # 0 /\ n \in Nat /\ k \in 1 .. n /\ (k = 1 \/ k # n)
        BY <1>1, <1>2, <1>5
      <4> QED
        BY <4>1
    <3> QED
      BY <1>2, <3>1
  <2>3. ASSUME NEW i \in 1 .. n - 1
        PROVE  M.next[w[i]] = IF i = n - 1 THEN NULL ELSE w[i + 1]
    <3>00. n \in Nat /\ k \in 1 .. n
      BY <1>1, <1>5
    <3>0. i \in 1 .. n /\ i + 1 \in 1 .. n /\ (i # n - 1 => i + 1 \in 1 .. n - 1 /\ i + 2 \in 1 .. n)
      BY <3>00
    <3>1. CASE i < k - 1
      <4>1. w[i] = s[i] /\ s[i] # p /\ s[i] # s[k - 1] /\ i # n - 1 /\ w[i + 1] = s[i + 1] /\ i # n
        <5>1. k - 1 \in 1 .. n /\ i + 1 < k /\ i # n - 1 /\ i # k /\ i # n
          BY <3>00, <3>0, <3>1
        <5> QED
          BY <1>2, <1>5, <3>0, <3>1, <5>1
      <4>2. L.next[s[i]] = s[i + 1] /\ s[i] \in Proc
        BY <1>1, <3>0, <4>1
      <4> QED
        BY <1>6, <4>1, <4>2
    <3>2. CASE i = k - 1
      <4>1. k # 1 /\ i # n - 1 /\ w[i] = s[k - 1] /\ w[i + 1] = s[k + 1] /\ s[k - 1] # p /\ s[k - 1] \in Proc
        <5>1. k # 1 /\ i # n - 1 /\ i < k /\ ~(i + 1 < k) /\ k - 1 \in 1 .. n
          BY <1>5, <3>00, <3>0, <3>2
        <5> QED
          BY <1>1, <1>2, <1>5, <3>0, <3>2, <5>1
      <4> QED
        BY <1>6, <4>1
    <3>3. CASE i >= k
      <4>1. w[i] = s[i + 1] /\ s[i + 1] # p /\ (k # 1 => s[i + 1] # s[k - 1])
        <5>1. ~(i < k) /\ i + 1 # k /\ i + 1 # k - 1 /\ (k # 1 => k - 1 \in 1 .. n)
          BY <3>00, <3>0, <3>3
        <5> QED
          BY <1>2, <1>5, <3>0, <5>1
      <4>2. M.next[w[i]] = IF i + 1 = n THEN NULL ELSE s[i + 2]
        <5>1. (i + 1) + 1 = i + 2
          BY <3>0
        <5>2. L.next[s[i + 1]] = IF i + 1 = n THEN NULL ELSE s[i + 2]
          BY <1>1, <3>0, <5>1
        <5>3. w[i] \in Proc
          BY <1>1, <3>0, <4>1
        <5> QED
          BY <1>6, <4>1, <5>2, <5>3
      <4>3. i # n - 1 => w[i + 1] = s[i + 2]
        <5>1. ~(i + 1 < k) /\ (i + 1) + 1 = i + 2
          BY <3>00, <3>0, <3>3
        <5> QED
          BY <1>2, <3>0, <5>1
      <4> QED
        BY <1>1, <3>0, <4>2, <4>3
    <3>4. i < k - 1 \/ i = k - 1 \/ i >= k
      BY <3>00, <3>0
    <3> QED
      BY <3>1, <3>2, <3>3, <3>4
  <2> QED
    BY <1>2, <2>1, <2>2, <2>3 DEF IsList
<1>9. ASSUME NEW r \in Queue \ {q} PROVE IsList(M, r, F[r])
  <2>1. IsList(L, r, F[r]) /\ Elements(F[r]) \cap Elements(s) = {}
    BY DEF Linked, s
  <2>2. \A i \in 1 .. Len(F[r]) : /\ F[r][i] \in Proc /\ F[r][i] # p
                                  /\ (k # 1 => F[r][i] # s[k - 1])
    <3>1. k # 1 => k - 1 \in 1 .. n
      BY <1>1, <1>5
    <3> QED
      BY <1>1, <1>5, <2>1, <3>1, LinkedFacts
  <2> QED
    BY <1>6, <2>1, <2>2 DEF IsList
<1>10. \A r, t \in Queue : r # t => Elements(G[r]) \cap Elements(G[t]) = {}
  <2>1. \A r \in Queue : Elements(G[r]) \subseteq Elements(F[r])
    BY <1>2, <1>4 DEF s
  <2>2. \A r, t \in Queue : r # t => Elements(F[r]) \cap Elements(F[t]) = {}
    BY DEF Linked
  <2> QED
    BY <2>1, <2>2
<1>11. ASSUME NEW r \in Proc, \A t \in Queue : r \notin Elements(G[t])
       PROVE  M.next[r] = NULL
  <2>1. CASE r = p
    BY <1>6, <2>1
  <2>2. CASE r # p
    <3>1. \A t \in Queue : r \notin Elements(F[t])
      BY <1>2, <1>4, <1>11, <2>2 DEF s
    <3>2. k # 1 => r # s[k - 1]
      <4>1. k # 1 => k - 1 \in 1 .. n
        BY <1>1, <1>5
      <4> QED
        BY <1>1, <3>1, <4>1 DEF s
    <3> QED
      BY <1>6, <2>2, <3>1, <3>2 DEF Linked
  <2> QED
    BY <2>1, <2>2
<1>12. \A r \in Queue : IsList(M, r, G[r])
  BY <1>4, <1>8, <1>9
<1>13. Linked(Queue, M, G)
  BY <1>4, <1>7, <1>10, <1>11, <1>12 DEF Linked
<1> QED
  BY <1>2, <1>13 DEF G, w, s, M

LEMMA DequeueList ==
    ASSUME NEW Queue, NEW L, NEW F, Linked(Queue, L, F), NEW q \in Queue, F[q] # <<>>
    PROVE  /\ Linked(Queue, proc_queue_dequeue(L, q), Put(F, q, Tail(F[q])))
           /\ Elements(Tail(F[q])) = Elements(F[q]) \ {Head(F[q])}
           /\ L.head[q] = Head(F[q]) /\ Head(F[q]) \in Elements(F[q])
<1>1. F[q] \in Seq(Proc) /\ Once(F[q]) /\ L.head[q] = F[q][1] /\ F[q][1] \in Elements(F[q])
  BY LinkedFacts
<1>2. Head(F[q]) = F[q][1] /\ 1 \in 1 .. Len(F[q]) /\ Tail(F[q]) = Without(F[q], F[q][1])
  BY <1>1, TailIsWithout
<1>3. proc_queue_dequeue(L, q) = Unlinked(L, q, F[q], 1)
  BY <1>1 DEF proc_queue_dequeue, Unlinked
<1>4. /\ Linked(Queue, Unlinked(L, q, F[q], 1), Put(F, q, Without(F[q], F[q][1])))
      /\ Elements(Without(F[q], F[q][1])) = Elements(F[q]) \ {F[q][1]}
  <2> DEFINE k == 1
  <2>1. k \in 1 .. Len(F[q]) /\ NotTail(F[q], k)
    BY <1>2 DEF NotTail
  <2> HIDE DEF k
  <2>2. /\ Linked(Queue, Unlinked(L, q, F[q], k), Put(F, q, Without(F[q], F[q][k])))
        /\ Elements(Without(F[q], F[q][k])) = Elements(F[q]) \ {F[q][k]}
    BY <2>1, UnlinkList
  <2> QED
    BY <2>2 DEF k
<1> QED
  BY <1>1, <1>2, <1>3, <1>4

(* proc_queue_remove is right unless it unlinks the tail of a list that    *)
(* has other members.                                                      *)
MayRemove(L, q, p) == L.head[q] = p \/ L.next[p] # NULL

LEMMA RemoveList ==
    ASSUME NEW Queue, NEW L, NEW F, Linked(Queue, L, F), NEW q \in Queue, NEW p \in Elements(F[q]),
           MayRemove(L, q, p)
    PROVE  /\ Linked(Queue, proc_queue_remove(L, q, p), Put(F, q, Without(F[q], p)))
           /\ Elements(Without(F[q], p)) = Elements(F[q]) \ {p}
<1> DEFINE s == F[q]
           n == Len(s)
           M == proc_queue_remove(L, q, p)
<1>0. \A i \in 1 .. Len(F[q]) : NotTail(F[q], i) =>
         /\ Linked(Queue, Unlinked(L, q, F[q], i), Put(F, q, Without(F[q], F[q][i])))
         /\ Elements(Without(F[q], F[q][i])) = Elements(F[q]) \ {F[q][i]}
  BY UnlinkList
<1>1. /\ s \in Seq(Proc) /\ Once(s) /\ n \in Nat
      /\ \A i \in 1 .. n : /\ s[i] \in Proc /\ s[i] \in Elements(s) /\ s[i] # NULL
                           /\ L.next[s[i]] = IF i = n THEN NULL ELSE s[i + 1]
  BY LinkedFacts
<1>2. PICK k \in 1 .. n : p = s[k]
  BY DEF Elements
<1>3. \A i, j \in 1 .. n : s[i] = s[j] => i = j
  BY <1>1 DEF Once
<1>4. s # <<>> /\ L.head[q] = s[1] /\ 1 \in 1 .. n /\ Members(L, q) = Elements(s)
  <2>1. s # <<>>
    BY <1>1, <1>2
  <2>2. IsList(L, q, s)
    BY DEF Linked
  <2> QED
    BY <2>1, <2>2, LinkedFacts, ReadList
<1> HIDE DEF s, n
<1>5. CASE k = 1
  <2>1. M = proc_queue_dequeue(L, q)
    BY <1>2, <1>4, <1>5 DEF proc_queue_remove
  <2>2. /\ Linked(Queue, M, Put(F, q, Tail(F[q])))
        /\ Elements(Tail(s)) = Elements(s) \ {Head(s)}
    BY <1>4, <2>1, DequeueList DEF s
  <2>3. Head(s) = p /\ Tail(s) = Without(s, p)
    BY <1>1, <1>2, <1>4, <1>5, TailIsWithout
  <2> QED
    BY <2>2, <2>3 DEF s
<1>6. CASE k # 1
  <2>1. L.head[q] # p /\ k # n
    BY <1>1, <1>2, <1>3, <1>4, <1>6 DEF MayRemove
  <2>2. k - 1 \in 1 .. n /\ k - 1 # n
    BY <1>1, <1>2, <1>6
  <2>3. Predecessors(L, q, p) = {s[k - 1]}
    <3>1. s[k - 1] \in Predecessors(L, q, p)
      BY <1>1, <1>2, <1>4, <2>2 DEF Predecessors
    <3>2. ASSUME NEW r \in Predecessors(L, q, p) PROVE r = s[k - 1]
      <4>1. PICK i \in 1 .. n : r = s[i]
        BY <1>4 DEF Predecessors, Elements, s, n
      <4>2. L.next[s[i]] = s[k]
        BY <1>2, <4>1 DEF Predecessors
      <4>3. i # n
        BY <1>1, <1>2, <4>2
      <4>4. i + 1 \in 1 .. n /\ s[i + 1] = s[k]
        BY <1>1, <4>2, <4>3
      <4>5. i + 1 = k
        BY <1>3, <4>4
      <4> QED
        BY <4>1, <4>5
    <3> QED
      BY <3>1, <3>2
  <2>4. M = [head |-> L.head, tail |-> L.tail,
             next |-> [L.next EXCEPT ![s[k - 1]] = L.next[p], ![p] = NULL]]
    BY <2>1, <2>3 DEF proc_queue_remove
  <2>5. M = Unlinked(L, q, F[q], k)
    BY <1>2, <1>6, <2>4 DEF Unlinked, s
  <2>6. k \in 1 .. Len(F[q]) /\ NotTail(F[q], k)
    BY <2>1 DEF s, n, NotTail
  <2>7. /\ Linked(Queue, Unlinked(L, q, F[q], k), Put(F, q, Without(F[q], F[q][k])))
        /\ Elements(Without(F[q], F[q][k])) = Elements(F[q]) \ {F[q][k]}
    BY <1>0, <2>6
  <2> QED
    BY <1>2, <2>5, <2>7 DEF s
<1> QED
  BY <1>5, <1>6

(* What the processes of q wait for.                                       *)
StatusOf(q) == IF q[1] = "ready" THEN "P_READY" ELSE "P_BLOCKED_ON_ENV_REQUEST"

(* A status and a priority name one queue at most.                         *)
QueuesNamed(Queue) ==
    /\ \A q \in Queue : q[2] \in Nat
    /\ \A q, r \in Queue : StatusOf(q) = StatusOf(r) /\ q[2] = r[2] => q = r

(* q is the most urgent list of a proc_pq that is not empty, and            *)
(* proc_pq_dequeue takes its first element.                                *)
FirstOf(F, pq, q) ==
    /\ F[q] # <<>>
    /\ \A r \in pq : r[2] < q[2] => F[r] = <<>>

TakenFrom(Queue, L, F, pq, q) ==
    /\ FirstOf(F, pq, q)
    /\ proc_pq_front(L, pq) = Head(F[q])
    /\ Head(F[q]) \in Elements(F[q])
    /\ Linked(Queue, proc_pq_dequeue(L, pq), Put(F, q, Tail(F[q])))
    /\ Elements(Tail(F[q])) = Elements(F[q]) \ {Head(F[q])}

LEMMA FrontList ==
    ASSUME NEW Queue, NEW L, NEW F, Linked(Queue, L, F), QueuesNamed(Queue),
           NEW pq, pq \subseteq Queue
    PROVE  /\ proc_pq_front(L, pq) = NULL <=> \A q \in pq : F[q] = <<>>
           /\ proc_pq_front(L, pq) # NULL => \E q \in pq : TakenFrom(Queue, L, F, pq, q)
<1>1. \A q \in pq : F[q] = <<>> <=> q \notin NonEmpty(L, pq)
  <2> TAKE q \in pq
  <2>1. F[q] = <<>> <=> L.head[q] = NULL
    BY LinkedFacts
  <2> QED
    BY <2>1 DEF NonEmpty, proc_queue_is_empty
<1>2. CASE NonEmpty(L, pq) = {}
  BY <1>1, <1>2 DEF proc_pq_front
<1>3. CASE NonEmpty(L, pq) # {}
  <2> DEFINE levels == {q[2] : q \in NonEmpty(L, pq)}
             least(q) == \A r \in NonEmpty(L, pq) : q[2] <= r[2]
             q0 == proc_pq_first(L, pq)
  <2>1. levels \subseteq Nat /\ levels # {}
    BY <1>3 DEF NonEmpty, QueuesNamed
  <2>2. PICK x \in levels : \A y \in levels : x <= y
    BY <2>1, NatLeast
  <2>3. \E q \in NonEmpty(L, pq) : least(q)
    BY <2>2
  <2>4. q0 \in NonEmpty(L, pq) /\ least(q0)
    BY <2>3 DEF proc_pq_first
  <2>5. proc_pq_front(L, pq) = L.head[q0] /\ proc_pq_dequeue(L, pq) = proc_queue_dequeue(L, q0)
    BY <1>3 DEF proc_pq_front, proc_pq_dequeue
  <2> HIDE DEF q0
  <2>6. q0 \in pq /\ q0 \in Queue /\ F[q0] # <<>>
    BY <1>1, <2>4 DEF NonEmpty
  <2>7. \A r \in pq : r[2] < q0[2] => F[r] = <<>>
    <3> SUFFICES ASSUME NEW r \in pq, r[2] < q0[2], F[r] # <<>> PROVE FALSE
      OBVIOUS
    <3>1. q0[2] <= r[2]
      BY <1>1, <2>4
    <3>2. q0[2] \in Nat /\ r[2] \in Nat
      BY <2>6 DEF QueuesNamed
    <3> QED
      BY <3>1, <3>2
  <2>8. /\ Linked(Queue, proc_queue_dequeue(L, q0), Put(F, q0, Tail(F[q0])))
        /\ Elements(Tail(F[q0])) = Elements(F[q0]) \ {Head(F[q0])}
        /\ L.head[q0] = Head(F[q0]) /\ Head(F[q0]) \in Elements(F[q0])
    BY <2>6, DequeueList
  <2>9. TakenFrom(Queue, L, F, pq, q0) /\ L.head[q0] # NULL
    <3>1. L.head[q0] # NULL
      BY <2>6, LinkedFacts
    <3> QED
      BY <2>5, <2>6, <2>7, <2>8, <3>1 DEF TakenFrom, FirstOf
  <2> QED
    BY <2>5, <2>6, <2>9
<1> QED
  BY <1>2, <1>3

-----------------------------------------------------------------------------
(* The lists and the statuses.                                             *)

Queued(st) == st \in {"P_READY", "P_BLOCKED_ON_ENV_REQUEST"}

Waits(Threads, st, pr, q) == {p \in Threads : st[p] = StatusOf(q) /\ pr[p] = q[2]}

(* L links the lists F, and they hold the threads that the statuses st and *)
(* the priorities pr call for.                                             *)
Right(Queue, Threads, L, F, st, pr) ==
    /\ Threads \subseteq Proc /\ QueuesNamed(Queue)
    /\ Linked(Queue, L, F)
    /\ st = [p \in Proc |-> st[p]] /\ pr = [p \in Proc |-> pr[p]]
    /\ \A q \in Queue : Elements(F[q]) = Waits(Threads, st, pr, q)

Marked(f, p, x) == [f EXCEPT ![p] = x]

LEMMA RightNamed ==
    ASSUME NEW Queue, NEW Threads, NEW L, NEW F, NEW st, NEW pr,
           Right(Queue, Threads, L, F, st, pr)
    PROVE  /\ \A p \in Threads : p \in Proc
           /\ \A q \in Queue : Queued(StatusOf(q)) /\ q[2] \in Nat
           /\ \A q, r \in Queue : StatusOf(q) = StatusOf(r) /\ q[2] = r[2] => q = r
  BY DEF Right, QueuesNamed, Queued, StatusOf

(* A process whose status calls for no list is in none.                    *)
LEMMA NotQueued ==
    ASSUME NEW Queue, NEW Threads, NEW L, NEW F, NEW st, NEW pr,
           Right(Queue, Threads, L, F, st, pr), NEW p \in Threads, ~Queued(st[p])
    PROVE  Unlisted(Queue, F, p)
<1>1. \A q \in Queue : Queued(StatusOf(q))
  BY RightNamed
<1> QED
  BY <1>1 DEF Right, Unlisted, Waits

(* A process that was in no list is marked and joins the list it is marked *)
(* for.                                                                    *)
LEMMA Joins ==
    ASSUME NEW Queue, NEW Threads, NEW L, NEW F, NEW st, NEW pr,
           Right(Queue, Threads, L, F, st, pr), NEW p \in Threads, ~Queued(st[p]),
           NEW q \in Queue, q[2] = pr[p]
    PROVE  Right(Queue, Threads, proc_queue_enqueue(L, q, p), Put(F, q, Append(F[q], p)),
                 Marked(st, p, StatusOf(q)), pr)
<1> DEFINE G == Put(F, q, Append(F[q], p))
           M == proc_queue_enqueue(L, q, p)
           u == Marked(st, p, StatusOf(q))
<1>1. p \in Proc /\ Linked(Queue, L, F) /\ Unlisted(Queue, F, p)
  BY NotQueued, RightNamed DEF Right
<1>2. Linked(Queue, M, G) /\ Elements(Append(F[q], p)) = Elements(F[q]) \cup {p}
  BY <1>1, EnqueueList
<1>3. G[q] = Append(F[q], p) /\ \A r \in Queue \ {q} : G[r] = F[r]
  BY <1>1 DEF Put, Linked
<1>4. u = [r \in Proc |-> u[r]] /\ \A r \in Proc : u[r] = IF r = p THEN StatusOf(q) ELSE st[r]
  BY <1>1, RightNamed DEF Right, Marked
<1> HIDE DEF G, M, u
<1>5. Elements(G[q]) = Waits(Threads, u, pr, q)
  <2>1. Waits(Threads, u, pr, q) = Waits(Threads, st, pr, q) \cup {p}
    BY <1>1, <1>4, RightNamed DEF Waits
  <2> QED
    BY <1>2, <1>3, <2>1 DEF Right
<1>6. \A r \in Queue \ {q} : Elements(G[r]) = Waits(Threads, u, pr, r)
  <2> TAKE r \in Queue \ {q}
  <2>1. p \notin Waits(Threads, u, pr, r) /\ p \notin Waits(Threads, st, pr, r)
    BY <1>1, <1>4, RightNamed DEF Waits
  <2>2. Waits(Threads, u, pr, r) = Waits(Threads, st, pr, r)
    BY <1>4, <2>1, RightNamed DEF Waits
  <2> QED
    BY <1>3, <2>2 DEF Right
<1>7. Right(Queue, Threads, M, G, u, pr)
  BY <1>2, <1>4, <1>5, <1>6 DEF Right
<1> QED
  BY <1>7 DEF G, M, u

(* The tails of empty queues do not matter.                                *)
LEMMA TailsOfEmpty ==
    ASSUME NEW Queue, NEW Threads, NEW L, NEW F, NEW st, NEW pr,
           Right(Queue, Threads, L, F, st, pr),
           NEW M \in LinksType(Queue), M.head = L.head, M.next = L.next,
           \A q \in Queue : L.head[q] # NULL => M.tail[q] = L.tail[q]
    PROVE  Right(Queue, Threads, M, F, st, pr)
<1>1. Linked(Queue, L, F)
  BY DEF Right
<1>2. ASSUME NEW q \in Queue PROVE IsList(M, q, F[q])
  <2>1. IsList(L, q, F[q]) /\ (F[q] = <<>> <=> L.head[q] = NULL)
    BY <1>1, LinkedFacts DEF Linked
  <2> QED
    BY <2>1 DEF IsList
<1>3. Linked(Queue, M, F)
  BY <1>1, <1>2 DEF Linked
<1> QED
  BY <1>3 DEF Right

(* One more process is scheduled, and joins the list it is marked for.     *)
LEMMA Enters ==
    ASSUME NEW Queue, NEW Threads, NEW L, NEW F, NEW st, NEW pr,
           Right(Queue, Threads, L, F, st, pr),
           NEW p \in Proc \ Threads, NEW q \in Queue, st[p] = StatusOf(q), pr[p] = q[2]
    PROVE  Right(Queue, Threads \cup {p}, proc_queue_enqueue(L, q, p),
                 Put(F, q, Append(F[q], p)), st, pr)
<1> DEFINE G == Put(F, q, Append(F[q], p))
           M == proc_queue_enqueue(L, q, p)
           T == Threads \cup {p}
<1>1. /\ Linked(Queue, L, F) /\ F \in [Queue -> Seq(Proc)]
      /\ \A r \in Queue : Elements(F[r]) = Waits(Threads, st, pr, r)
  BY DEF Right, Linked
<1>2. Unlisted(Queue, F, p)
  BY <1>1 DEF Unlisted, Waits
<1>3. Linked(Queue, M, G) /\ Elements(Append(F[q], p)) = Elements(F[q]) \cup {p}
  <2>1. Linked(Queue, L, F)
    BY <1>1
  <2>2. p \in Proc
    OBVIOUS
  <2> QED
    BY <1>2, <2>1, <2>2, EnqueueList
<1>4. G[q] = Append(F[q], p) /\ \A r \in Queue \ {q} : G[r] = F[r]
  BY <1>1 DEF Put
<1> HIDE DEF G, M
<1>5. Elements(G[q]) = Waits(T, st, pr, q)
  <2>1. Waits(T, st, pr, q) = Waits(Threads, st, pr, q) \cup {p}
    BY DEF Waits
  <2> QED
    BY <1>1, <1>3, <1>4, <2>1
<1>6. ASSUME NEW r \in Queue \ {q} PROVE Elements(G[r]) = Waits(T, st, pr, r)
  <2>1. ~(st[p] = StatusOf(r) /\ pr[p] = r[2])
    BY RightNamed
  <2>2. Waits(T, st, pr, r) = Waits(Threads, st, pr, r)
    BY <2>1 DEF Waits
  <2> QED
    BY <1>1, <1>4, <2>2
<1>7. Right(Queue, T, M, G, st, pr)
  BY <1>3, <1>5, <1>6 DEF Right
<1> QED
  BY <1>7 DEF G, M

(* A process that is taken out of its list is marked for no other.         *)
LEMMA Leaves ==
    ASSUME NEW Queue, NEW Threads, NEW L, NEW F, NEW st, NEW pr,
           Right(Queue, Threads, L, F, st, pr), NEW q \in Queue,
           NEW p \in Elements(F[q]), NEW M, NEW t,
           Linked(Queue, M, Put(F, q, t)), Elements(t) = Elements(F[q]) \ {p},
           NEW x, ~Queued(x)
    PROVE  Right(Queue, Threads, M, Put(F, q, t), Marked(st, p, x), pr) /\ p \in Waits(Threads, st, pr, q)
<1> DEFINE G == Put(F, q, t)
           u == Marked(st, p, x)
<1>1. p \in Waits(Threads, st, pr, q) /\ p \in Threads /\ p \in Proc
  BY RightNamed DEF Right, Waits
<1>2. G[q] = t /\ \A r \in Queue \ {q} : G[r] = F[r]
  BY DEF Put, Right, Linked
<1>3. u = [r \in Proc |-> u[r]] /\ \A r \in Proc : u[r] = IF r = p THEN x ELSE st[r]
  BY <1>1 DEF Right, Marked
<1> HIDE DEF u
<1>4. \A r \in Queue : Waits(Threads, u, pr, r) = Waits(Threads, st, pr, r) \ {p}
  BY <1>1, <1>3, RightNamed DEF Waits
<1>5. \A r \in Queue : r # q => p \notin Waits(Threads, st, pr, r)
  BY <1>1, RightNamed DEF Waits
<1> HIDE DEF G
<1>6. \A r \in Queue : Elements(G[r]) = Waits(Threads, u, pr, r)
  <2>1. \A r \in Queue : Elements(F[r]) = Waits(Threads, st, pr, r)
    BY DEF Right
  <2>2. Elements(G[q]) = Waits(Threads, u, pr, q)
    BY <1>2, <1>4, <2>1
  <2>3. ASSUME NEW r \in Queue, r # q PROVE Elements(G[r]) = Waits(Threads, u, pr, r)
    <3>1. Waits(Threads, st, pr, r) = Waits(Threads, st, pr, r) \ {p}
      BY <1>5, <2>3
    <3> QED
      BY <1>2, <1>4, <2>1, <2>3, <3>1
  <2> QED
    BY <2>2, <2>3
<1> QED
  BY <1>1, <1>3, <1>6 DEF Right, G, u

(* The status of a process that is in no list, and enters none, changes.   *)
LEMMA StaysOut ==
    ASSUME NEW Queue, NEW Threads, NEW L, NEW F, NEW st, NEW pr,
           Right(Queue, Threads, L, F, st, pr), NEW p \in Proc, NEW x,
           p \in Threads => ~Queued(st[p]) /\ ~Queued(x)
    PROVE  Right(Queue, Threads, L, F, Marked(st, p, x), pr)
<1> DEFINE u == Marked(st, p, x)
<1>1. u = [r \in Proc |-> u[r]] /\ \A r \in Proc : u[r] = IF r = p THEN x ELSE st[r]
  BY DEF Right, Marked
<1> HIDE DEF u
<1>2. \A r \in Queue : Waits(Threads, u, pr, r) = Waits(Threads, st, pr, r)
  BY <1>1, RightNamed DEF Waits
<1> QED
  BY <1>1, <1>2 DEF Right, u

(* The priority of a process that is in no list changes.                   *)
LEMMA StaysOutReprioritised ==
    ASSUME NEW Queue, NEW Threads, NEW L, NEW F, NEW st, NEW pr,
           Right(Queue, Threads, L, F, st, pr), NEW p \in Threads, ~Queued(st[p]),
           NEW n
    PROVE  Right(Queue, Threads, L, F, st, Marked(pr, p, n))
<1> DEFINE u == Marked(pr, p, n)
<1>1. u = [r \in Proc |-> u[r]] /\ \A r \in Proc : u[r] = IF r = p THEN n ELSE pr[r]
  BY RightNamed DEF Right, Marked
<1> HIDE DEF u
<1>2. \A r \in Queue : Waits(Threads, st, u, r) = Waits(Threads, st, pr, r)
  BY <1>1, RightNamed DEF Waits
<1> QED
  BY <1>1, <1>2 DEF Right, u

(* A process moves to the list of another priority, of the same kind.      *)
LEMMA Moves ==
    ASSUME NEW Queue, NEW Threads, NEW L, NEW F, NEW st, NEW pr,
           Right(Queue, Threads, L, F, st, pr), NEW q \in Queue,
           NEW p \in Elements(F[q]), MayRemove(L, q, p),
           NEW r \in Queue, StatusOf(r) = StatusOf(q), r # q
    PROVE  Right(Queue, Threads, proc_queue_enqueue(proc_queue_remove(L, q, p), r, p),
                 Put(Put(F, q, Without(F[q], p)), r, Append(F[r], p)),
                 st, Marked(pr, p, r[2]))
<1> DEFINE w == Without(F[q], p)
           K == Put(F, q, w)
           M == proc_queue_remove(L, q, p)
           t == Append(F[r], p)
           G == Put(K, r, t)
           N == proc_queue_enqueue(M, r, p)
           u == Marked(pr, p, r[2])
<1>1. /\ Linked(Queue, L, F) /\ p \in Waits(Threads, st, pr, q) /\ p \in Threads /\ p \in Proc
      /\ F \in [Queue -> Seq(Proc)]
  BY DEF Right, Waits, Linked
<1>2. Linked(Queue, M, K) /\ Elements(w) = Elements(F[q]) \ {p}
  <2>1. /\ Linked(Queue, proc_queue_remove(L, q, p), Put(F, q, Without(F[q], p)))
        /\ Elements(Without(F[q], p)) = Elements(F[q]) \ {p}
    BY <1>1, RemoveList
  <2> QED
    BY <2>1
<1>3. K[q] = w /\ \A x \in Queue \ {q} : K[x] = F[x]
  BY <1>1 DEF Put
<1>4. Unlisted(Queue, K, p)
  <2>1. \A x \in Queue \ {q} : p \notin Elements(F[x])
    BY <1>1 DEF Linked
  <2> HIDE DEF K, w
  <2> QED
    BY <1>2, <1>3, <2>1 DEF Unlisted
<1>5. K[r] = F[r]
  BY <1>3
<1> HIDE DEF K, M, w
<1>6. Linked(Queue, N, Put(K, r, Append(K[r], p))) /\ Elements(Append(K[r], p)) = Elements(K[r]) \cup {p}
  <2>1. p \in Proc /\ Linked(Queue, M, K) /\ Unlisted(Queue, K, p)
    BY <1>1, <1>2, <1>4
  <2> HIDE DEF N
  <2>2. /\ Linked(Queue, proc_queue_enqueue(M, r, p), Put(K, r, Append(K[r], p)))
        /\ Elements(Append(K[r], p)) = Elements(K[r]) \cup {p}
    BY <2>1, EnqueueList
  <2> QED
    BY <2>2 DEF N
<1>7. Linked(Queue, N, G) /\ Elements(t) = Elements(F[r]) \cup {p}
  BY <1>5, <1>6
<1>8. K \in [Queue -> Seq(Proc)]
  BY <1>2 DEF Linked
<1>9. /\ G[r] = t /\ G[q] = w
      /\ \A x \in Queue \ {q, r} : G[x] = F[x]
  BY <1>3, <1>8 DEF Put
<1>10. u = [x \in Proc |-> u[x]] /\ \A x \in Proc : u[x] = IF x = p THEN r[2] ELSE pr[x]
  BY <1>1, RightNamed DEF Right, Marked
<1> HIDE DEF G, N, u, w, t
<1>11. \A x \in Queue : Elements(F[x]) = Waits(Threads, st, pr, x)
  BY DEF Right
<1>12. Waits(Threads, st, u, r) = Waits(Threads, st, pr, r) \cup {p}
  BY <1>1, <1>10, RightNamed DEF Waits
<1>13. Waits(Threads, st, u, q) = Waits(Threads, st, pr, q) \ {p}
  <2>1. r[2] # q[2]
    BY RightNamed
  <2> QED
    BY <1>1, <1>10, <2>1, RightNamed DEF Waits
<1>14. \A x \in Queue \ {q, r} : Waits(Threads, st, u, x) = Waits(Threads, st, pr, x)
  <2> TAKE x \in Queue \ {q, r}
  <2>1. p \notin Waits(Threads, st, pr, x)
    BY <1>1, RightNamed DEF Waits
  <2>2. p \notin Waits(Threads, st, u, x)
    <3>1. st[p] = StatusOf(r) /\ u[p] = r[2]
      BY <1>1, <1>10 DEF Waits
    <3> QED
      BY <3>1, RightNamed DEF Waits
  <2> QED
    BY <1>10, <2>1, <2>2, RightNamed DEF Waits
<1>15. \A x \in Queue : Elements(G[x]) = Waits(Threads, st, u, x)
  <2> TAKE x \in Queue
  <2>1. CASE x = q
    BY <1>2, <1>9, <1>11, <1>13, <2>1
  <2>2. CASE x = r
    BY <1>7, <1>9, <1>11, <1>12, <2>2
  <2>3. CASE x # q /\ x # r
    BY <1>9, <1>11, <1>14, <2>3
  <2> QED
    BY <2>1, <2>2, <2>3
<1>16. Right(Queue, Threads, N, G, st, u)
  BY <1>7, <1>10, <1>15 DEF Right
<1> QED
  BY <1>16 DEF G, N, u, w, t, K, M

(* The first of a proc_pq leaves it: nobody in it is more urgent.          *)
LEMMA FrontLeaves ==
    ASSUME NEW Queue, NEW Threads, NEW L, NEW F, NEW st, NEW pr,
           Right(Queue, Threads, L, F, st, pr),
           NEW pq, pq \subseteq Queue, proc_pq_front(L, pq) # NULL
    PROVE  \E q \in pq :
              /\ TakenFrom(Queue, L, F, pq, q)
              /\ proc_pq_front(L, pq) \in Waits(Threads, st, pr, q)
              /\ Right(Queue, Threads, proc_pq_dequeue(L, pq), Put(F, q, Tail(F[q])),
                       Marked(st, proc_pq_front(L, pq), "P_EXECUTING"), pr)
<1>1. Linked(Queue, L, F) /\ QueuesNamed(Queue)
  BY DEF Right
<1>2. PICK q \in pq : TakenFrom(Queue, L, F, pq, q)
  BY <1>1, FrontList
<1> DEFINE p == proc_pq_front(L, pq)
           M == proc_pq_dequeue(L, pq)
           t == Tail(F[q])
<1>3. ~Queued("P_EXECUTING")
  BY DEF Queued
<1>4. p \in Elements(F[q]) /\ Linked(Queue, M, Put(F, q, t)) /\ Elements(t) = Elements(F[q]) \ {p}
  BY <1>2 DEF TakenFrom
<1> HIDE DEF p, M, t
<1>5. Right(Queue, Threads, M, Put(F, q, t), Marked(st, p, "P_EXECUTING"), pr) /\ p \in Waits(Threads, st, pr, q)
  BY <1>3, <1>4, Leaves
<1> QED
  BY <1>2, <1>5 DEF p, M, t
=============================================================================
