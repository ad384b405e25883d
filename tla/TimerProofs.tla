------------------------------ MODULE TimerProofs ------------------------------
(***************************************************************************)
(* Theorems about Timer, for any number of envelopes, any delays and any   *)
(* bound on the clock.                                                     *)
(*                                                                         *)
(* The list stays sorted because timeout_queue_insert stops at the first   *)
(* envelope that is not due before the new one; that an envelope is in one *)
(* list only is what lets its timeout be written without disturbing the    *)
(* order of the others.  With the list sorted, its head is the earliest    *)
(* pending envelope, and a tick of the code is a tick of DelayService.     *)
(*                                                                         *)
(* How late an envelope comes back depends on the others: with every       *)
(* envelope that is due, the invariant LatenessInv counts those before it  *)
(* and the ticks it is late already.                                       *)
(***************************************************************************)
EXTENDS Timer, FiniteSetTheorems, SequenceTheorems, TLAPS

-----------------------------------------------------------------------------
(* The inductive invariant                                                 *)

Distinct(s) == \A i, j \in 1 .. Len(s) : s[i] = s[j] => i = j

OnceEach ==
    /\ Distinct(mailbox)
    /\ Distinct(timeout_queue)
    /\ \A env \in Elements(mailbox) : env \notin Elements(timeout_queue)

(* In the mailbox an envelope holds its delay, in the list its timeout.    *)
PromisesKept ==
    /\ \A env \in Elements(mailbox) :
          promised[env] <= msg[env] + (IF running = "user" THEN clock ELSE clock - 1)
    /\ \A env \in Elements(timeout_queue) : promised[env] < msg[env]

TimerInv == TypeOK /\ OnceEach /\ Sorted /\ PromisesKept

-----------------------------------------------------------------------------
(* Lists                                                                   *)

LEMMA AppendList ==
    ASSUME NEW s \in Seq(Env), NEW e \in Env
    PROVE  /\ Append(s, e) \in Seq(Env)
           /\ Elements(Append(s, e)) = Elements(s) \cup {e}
           /\ Distinct(s) /\ e \notin Elements(s) => Distinct(Append(s, e))
<1>1. /\ Append(s, e) \in Seq(Env) /\ Len(s) \in Nat /\ Len(Append(s, e)) = Len(s) + 1
      /\ \A i \in 1 .. Len(s) : Append(s, e)[i] = s[i]
      /\ Append(s, e)[Len(s) + 1] = e
  OBVIOUS
<1>2. /\ \A i \in 1 .. Len(s) + 1 : i \in 1 .. Len(s) \/ i = Len(s) + 1
      /\ \A i \in 1 .. Len(s) : i \in 1 .. Len(s) + 1
      /\ Len(s) + 1 \in 1 .. Len(s) + 1
  BY <1>1
<1>3. Elements(Append(s, e)) = Elements(s) \cup {e}
  BY <1>1, <1>2, Zenon DEF Elements
<1>4. ASSUME Distinct(s), e \notin Elements(s) PROVE Distinct(Append(s, e))
  <2>1. \A i \in 1 .. Len(s) : s[i] # e
    BY <1>4 DEF Elements
  <2> QED
    BY <1>1, <1>2, <1>4, <2>1 DEF Distinct
<1> QED
  BY <1>1, <1>3, <1>4

LEMMA TailList ==
    ASSUME NEW s \in Seq(Env), s # <<>>, Distinct(s)
    PROVE  /\ Tail(s) \in Seq(Env) /\ Distinct(Tail(s))
           /\ Head(s) \in Elements(s) /\ Head(s) \in Env
           /\ Elements(Tail(s)) = Elements(s) \ {Head(s)}
<1>1. /\ Len(s) \in Nat /\ Len(s) # 0 /\ Len(Tail(s)) = Len(s) - 1 /\ Head(s) = s[1]
      /\ Tail(s) \in Seq(Env)
      /\ \A i \in 1 .. Len(Tail(s)) : Tail(s)[i] = s[i + 1]
  OBVIOUS
<1>2. s[1] \in Env /\ 1 \in 1 .. Len(s)
  BY <1>1
<1>3. /\ \A i \in 1 .. Len(Tail(s)) : i + 1 \in 1 .. Len(s) /\ i + 1 # 1
      /\ \A i \in 1 .. Len(s) : i # 1 => i - 1 \in 1 .. Len(Tail(s)) /\ Tail(s)[i - 1] = s[i]
  BY <1>1
<1>4. Distinct(Tail(s))
  <2> SUFFICES ASSUME NEW i \in 1 .. Len(Tail(s)), NEW j \in 1 .. Len(Tail(s)), Tail(s)[i] = Tail(s)[j]
               PROVE  i = j
    BY DEF Distinct
  <2>1. i + 1 = j + 1
    BY <1>1, <1>3 DEF Distinct
  <2> QED
    BY <1>1, <2>1
<1>5. Elements(Tail(s)) = Elements(s) \ {Head(s)}
  <2>1. Elements(Tail(s)) \subseteq Elements(s) \ {Head(s)}
    <3> SUFFICES ASSUME NEW i \in 1 .. Len(Tail(s))
                 PROVE  Tail(s)[i] \in Elements(s) /\ Tail(s)[i] # s[1]
      BY <1>1 DEF Elements
    <3>1. Tail(s)[i] = s[i + 1] /\ i + 1 \in 1 .. Len(s) /\ i + 1 # 1
      BY <1>1, <1>3
    <3> QED
      BY <1>2, <3>1 DEF Elements, Distinct
  <2>2. Elements(s) \ {Head(s)} \subseteq Elements(Tail(s))
    BY <1>1, <1>3 DEF Elements
  <2> QED
    BY <2>1, <2>2
<1> QED
  BY <1>1, <1>2, <1>4, <1>5 DEF Elements

(* The i-th place of the list with e inserted behind its first n elements. *)
LEMMA InsertedList ==
    ASSUME NEW s \in Seq(Env), NEW e \in Env, NEW n \in 0 .. Len(s)
    PROVE  LET r == SubSeq(s, 1, n) \o <<e>> \o SubSeq(s, n + 1, Len(s))
           IN  /\ r \in Seq(Env)
               /\ Len(r) = Len(s) + 1
               /\ \A i \in 1 .. n : r[i] = s[i]
               /\ r[n + 1] = e
               /\ \A i \in n + 2 .. Len(s) + 1 : r[i] = s[i - 1]
<1> DEFINE a == SubSeq(s, 1, n)
           b == SubSeq(s, n + 1, Len(s))
           c == a \o <<e>>
<1>0. Len(s) \in Nat /\ n \in Nat /\ n <= Len(s) /\ \A i \in 1 .. Len(s) : s[i] \in Env
  OBVIOUS
<1>1. a \in Seq(Env) /\ Len(a) = n /\ \A i \in 1 .. n : a[i] = s[i]
  <2>1. \A i \in 1 .. n : s[i] \in Env
    BY <1>0
  <2>2. /\ a \in Seq(Env) /\ Len(a) = (IF 1 <= n THEN n - 1 + 1 ELSE 0)
        /\ \A i \in 1 .. n - 1 + 1 : a[i] = s[1 + i - 1]
    BY <1>0, <2>1, SubSeqProperties
  <2> HIDE DEF a
  <2>3. \A i \in 1 .. n : i \in 1 .. n - 1 + 1 /\ 1 + i - 1 = i
    BY <1>0
  <2> QED
    BY <1>0, <2>2, <2>3
<1>2. /\ b \in Seq(Env) /\ Len(b) = Len(s) - n
      /\ \A i \in 1 .. Len(s) - n : b[i] = s[n + i]
  <2>1. \A i \in n + 1 .. Len(s) : s[i] \in Env
    BY <1>0
  <2>2. /\ b \in Seq(Env) /\ Len(b) = (IF n + 1 <= Len(s) THEN Len(s) - (n + 1) + 1 ELSE 0)
        /\ \A i \in 1 .. Len(s) - (n + 1) + 1 : b[i] = s[(n + 1) + i - 1]
    BY <1>0, <2>1, SubSeqProperties
  <2> HIDE DEF b
  <2>3. \A i \in 1 .. Len(s) - n : i \in 1 .. Len(s) - (n + 1) + 1 /\ (n + 1) + i - 1 = n + i
    BY <1>0
  <2> QED
    BY <1>0, <2>2, <2>3
<1> HIDE DEF a, b
<1>3. /\ c \in Seq(Env) /\ Len(c) = n + 1 /\ c[n + 1] = e
      /\ \A i \in 1 .. n : c[i] = a[i]
  BY <1>0, <1>1
<1> HIDE DEF c
<1>4. /\ c \o b \in Seq(Env) /\ Len(c \o b) = Len(c) + Len(b)
      /\ \A i \in 1 .. Len(c) : (c \o b)[i] = c[i]
      /\ \A i \in Len(c) + 1 .. Len(c) + Len(b) : (c \o b)[i] = b[i - Len(c)]
  <2>1. /\ c \o b \in Seq(Env) /\ Len(c \o b) = Len(c) + Len(b)
        /\ \A i \in 1 .. Len(c) + Len(b) :
              (c \o b)[i] = IF i <= Len(c) THEN c[i] ELSE b[i - Len(c)]
    BY <1>2, <1>3, ConcatProperties
  <2>2. Len(c) \in Nat /\ Len(b) \in Nat
    BY <1>2, <1>3
  <2> QED
    BY <2>1, <2>2
<1>5. /\ c \o b \in Seq(Env) /\ Len(c \o b) = Len(s) + 1 /\ (c \o b)[n + 1] = e
      /\ \A i \in 1 .. n : (c \o b)[i] = s[i]
  BY <1>0, <1>1, <1>2, <1>3, <1>4
<1>6. \A i \in n + 2 .. Len(s) + 1 : (c \o b)[i] = s[i - 1]
  <2> SUFFICES ASSUME NEW i \in n + 2 .. Len(s) + 1 PROVE (c \o b)[i] = s[i - 1]
    OBVIOUS
  <2>1. /\ i \in Len(c) + 1 .. Len(c) + Len(b) /\ i - Len(c) \in 1 .. Len(s) - n
        /\ n + (i - Len(c)) = i - 1
    BY <1>0, <1>2, <1>3
  <2> QED
    BY <1>2, <1>4, <2>1
<1> QED
  BY <1>5, <1>6 DEF a, b, c

(* The places of the elements of a list with one inserted.                 *)
LEMMA InsertedElements ==
    ASSUME NEW s \in Seq(Env), NEW e \in Env, NEW n \in 0 .. Len(s), NEW r \in Seq(Env),
           Len(r) = Len(s) + 1, r[n + 1] = e,
           \A i \in 1 .. n : r[i] = s[i],
           \A i \in n + 2 .. Len(s) + 1 : r[i] = s[i - 1]
    PROVE  /\ Elements(r) = Elements(s) \cup {e}
           /\ Distinct(s) /\ e \notin Elements(s) => Distinct(r)
<1>1. Len(s) \in Nat /\ n \in Nat /\ n <= Len(s)
  OBVIOUS
<1>2. /\ \A i \in 1 .. Len(r) : i \in 1 .. n \/ i = n + 1 \/ i \in n + 2 .. Len(s) + 1
      /\ \A i \in 1 .. n : i \in 1 .. Len(s)
      /\ \A i \in n + 2 .. Len(s) + 1 : i - 1 \in 1 .. Len(s) /\ i - 1 \notin 1 .. n
      /\ \A i \in 1 .. Len(s) : i \in 1 .. n \/ i + 1 \in n + 2 .. Len(s) + 1
      /\ n + 1 \in 1 .. Len(r)
  BY <1>1
<1>3. Elements(r) \subseteq Elements(s) \cup {e}
  <2> SUFFICES ASSUME NEW i \in 1 .. Len(r) PROVE r[i] \in Elements(s) \cup {e}
    BY DEF Elements
  <2>1. CASE i \in 1 .. n
    <3>1. i \in 1 .. Len(s) /\ r[i] = s[i]
      BY <1>2, <2>1
    <3> QED
      BY <3>1 DEF Elements
  <2>2. CASE i = n + 1
    BY <2>2
  <2>3. CASE i \in n + 2 .. Len(s) + 1
    <3>1. i - 1 \in 1 .. Len(s) /\ r[i] = s[i - 1]
      BY <1>2, <2>3
    <3> QED
      BY <3>1 DEF Elements
  <2> QED
    BY <1>2, <2>1, <2>2, <2>3
<1>4. Elements(s) \cup {e} \subseteq Elements(r)
  <2>1. e \in Elements(r)
    BY <1>2 DEF Elements
  <2>2. ASSUME NEW i \in 1 .. Len(s) PROVE s[i] \in Elements(r)
    <3>1. CASE i \in 1 .. n
      <4>1. i \in 1 .. Len(r) /\ r[i] = s[i]
        BY <1>1, <3>1
      <4> QED
        BY <4>1 DEF Elements
    <3>2. CASE i + 1 \in n + 2 .. Len(s) + 1
      <4>1. i + 1 \in 1 .. Len(r) /\ r[i + 1] = s[i]
        BY <1>1, <3>2
      <4> QED
        BY <4>1 DEF Elements
    <3> QED
      BY <1>2, <3>1, <3>2
  <2> QED
    BY <2>1, <2>2 DEF Elements
<1>5. ASSUME Distinct(s), e \notin Elements(s) PROVE Distinct(r)
  <2>1. \A i \in 1 .. Len(s) : s[i] # e
    BY <1>5 DEF Elements
  <2> SUFFICES ASSUME NEW i \in 1 .. Len(r), NEW j \in 1 .. Len(r), r[i] = r[j] PROVE i = j
    BY DEF Distinct
  <2> DEFINE back(k) == IF k \in 1 .. n THEN k ELSE k - 1
  <2>2. \A k \in 1 .. Len(r) : k # n + 1 => back(k) \in 1 .. Len(s) /\ r[k] = s[back(k)]
    BY <1>2
  <2>3. i = n + 1 <=> j = n + 1
    <3> HIDE DEF back
    <3>1. \A k \in 1 .. Len(r) : k # n + 1 => r[k] # e
      BY <2>1, <2>2
    <3> QED
      BY <3>1
  <2>4. CASE i # n + 1
    <3>1. back(i) = back(j)
      <4> HIDE DEF back
      <4>1. /\ back(i) \in 1 .. Len(s) /\ back(j) \in 1 .. Len(s)
            /\ s[back(i)] = s[back(j)]
        BY <2>2, <2>3, <2>4
      <4> QED
        BY <1>5, <4>1 DEF Distinct
    <3> QED
      BY <1>1, <1>2, <2>3, <2>4, <3>1
  <2> QED
    BY <2>3, <2>4
<1> QED
  BY <1>3, <1>4, <1>5
-----------------------------------------------------------------------------
(* What an insertion does to the sorted list                               *)

(* The place timeout_queue_insert has found: what is before it is due      *)
(* before the new envelope, what follows is not.                           *)
LEMMA InsertionPlace ==
    ASSUME TypeOK, Sorted, NEW env \in Env, NEW timeout \in Int, ~SearchFallsOff(timeout),
           Inserted(env, timeout)
    PROVE  \E n \in 0 .. Len(timeout_queue) :
              /\ timeout_queue' = SubSeq(timeout_queue, 1, n) \o <<env>>
                                    \o SubSeq(timeout_queue, n + 1, Len(timeout_queue))
              /\ \A i \in 1 .. n : msg[timeout_queue[i]] <= timeout
              /\ \A i \in n + 1 .. Len(timeout_queue) : timeout <= msg[timeout_queue[i]]
<1> DEFINE s == timeout_queue
<1>1. /\ s \in Seq(Env) /\ Len(s) \in Nat
      /\ \A i \in 1 .. Len(s) : s[i] \in Env /\ msg[s[i]] \in Int
  BY DEF TypeOK
<1>2. CASE GoesFirst(timeout) /\ s' = <<env>> \o s
  <2>1. s' = SubSeq(s, 1, 0) \o <<env>> \o SubSeq(s, 0 + 1, Len(s))
    <3>1. SubSeq(s, 1, 0) = <<>> /\ SubSeq(s, 0 + 1, Len(s)) = s
      BY <1>1, SubSeqEmpty, SubSeqFull
    <3>2. <<>> \o <<env>> = <<env>>
      BY ConcatEmptySeq
    <3> QED
      BY <1>2, <3>1, <3>2
  <2>2. ASSUME NEW i \in 0 + 1 .. Len(s) PROVE timeout <= msg[s[i]]
    <3>1. /\ s # <<>> /\ Head(s) = s[1] /\ 1 \in 1 .. Len(s) /\ i \in 1 .. Len(s)
          /\ (i = 1 \/ 1 < i)
      BY <1>1
    <3>2. timeout <= msg[s[1]] /\ msg[s[1]] <= msg[s[i]]
      BY <1>1, <1>2, <3>1 DEF GoesFirst, Sorted
    <3> QED
      BY <1>1, <3>1, <3>2
  <2>3. 0 \in 0 .. Len(s) /\ \A i \in 1 .. 0 : msg[s[i]] <= timeout
    BY <1>1
  <2> QED
    BY <2>1, <2>2, <2>3
<1>3. CASE ~GoesFirst(timeout) /\ Len(s) = 1 /\ s' = InsertAfter(1, env)
  <2>1. s' = SubSeq(s, 1, 1) \o <<env>> \o SubSeq(s, 1 + 1, Len(s))
    BY <1>3 DEF InsertAfter
  <2>2. Head(s) = s[1] /\ 1 \in 1 .. Len(s)
    BY <1>1, <1>3
  <2>3. \A i \in 1 .. 1 : msg[s[i]] <= timeout
    BY <1>1, <1>3, <2>2 DEF GoesFirst
  <2>4. 1 \in 0 .. Len(s) /\ \A i \in 1 + 1 .. Len(s) : timeout <= msg[s[i]]
    BY <1>1, <1>3
  <2> QED
    BY <2>1, <2>3, <2>4
<1>4. ASSUME NEW k \in 2 .. Len(s), ~GoesFirst(timeout), SearchStops(timeout, k),
             s' = InsertAfter(k - 1, env)
      PROVE  \E n \in 0 .. Len(s) :
                /\ s' = SubSeq(s, 1, n) \o <<env>> \o SubSeq(s, n + 1, Len(s))
                /\ \A i \in 1 .. n : msg[s[i]] <= timeout
                /\ \A i \in n + 1 .. Len(s) : timeout <= msg[s[i]]
  <2>1. s' = SubSeq(s, 1, k - 1) \o <<env>> \o SubSeq(s, (k - 1) + 1, Len(s))
    BY <1>4 DEF InsertAfter
  <2>2. s # <<>> /\ Head(s) = s[1] /\ 1 \in 1 .. Len(s) /\ k \in 1 .. Len(s)
    BY <1>1
  <2>3. msg[s[1]] < timeout
    BY <1>1, <1>4, <2>2 DEF GoesFirst
  <2>4. ASSUME NEW i \in 1 .. k - 1 PROVE msg[s[i]] <= timeout
    <3>1. i = 1 \/ i \in 2 .. k - 1
      BY <1>1
    <3>2. i \in 1 .. Len(s)
      BY <1>1
    <3> QED
      BY <1>1, <1>4, <2>3, <3>1, <3>2 DEF SearchStops
  <2>5. ASSUME NEW i \in (k - 1) + 1 .. Len(s) PROVE timeout <= msg[s[i]]
    <3>1. i \in 1 .. Len(s) /\ (i = k \/ k < i)
      BY <1>1
    <3>2. timeout <= msg[s[k]] /\ msg[s[k]] <= msg[s[i]]
      BY <1>1, <1>4, <2>2, <3>1 DEF SearchStops, Sorted
    <3> QED
      BY <1>1, <2>2, <3>1, <3>2
  <2>6. k - 1 \in 0 .. Len(s)
    BY <1>1
  <2> QED
    BY <2>1, <2>4, <2>5, <2>6
<1> QED
  BY <1>2, <1>3, <1>4 DEF Inserted

(* The list afterwards, with the timeout written into the new envelope.    *)
LEMMA InsertedSorted ==
    ASSUME TypeOK, OnceEach, Sorted, NEW env \in Elements(mailbox), env \in Env,
           NEW timeout \in Int, ~SearchFallsOff(timeout), Inserted(env, timeout),
           msg' = [msg EXCEPT ![env] = timeout]
    PROVE  /\ timeout_queue' \in Seq(Env)
           /\ Elements(timeout_queue') = Elements(timeout_queue) \cup {env}
           /\ Distinct(timeout_queue')
           /\ Sorted'
<1> DEFINE s == timeout_queue
<1>1. PICK n \in 0 .. Len(s) :
         /\ s' = SubSeq(s, 1, n) \o <<env>> \o SubSeq(s, n + 1, Len(s))
         /\ \A i \in 1 .. n : msg[s[i]] <= timeout
         /\ \A i \in n + 1 .. Len(s) : timeout <= msg[s[i]]
  BY InsertionPlace
<1>2. /\ s \in Seq(Env) /\ Len(s) \in Nat /\ n \in Nat /\ n <= Len(s) /\ msg \in [Env -> Int]
      /\ \A i \in 1 .. Len(s) : s[i] \in Env /\ s[i] # env /\ msg[s[i]] \in Int
      /\ env \notin Elements(s) /\ Distinct(s)
  <2>1. /\ s \in Seq(Env) /\ Len(s) \in Nat /\ n \in Nat /\ n <= Len(s) /\ msg \in [Env -> Int]
        /\ \A i \in 1 .. Len(s) : s[i] \in Env
    BY DEF TypeOK
  <2>2. env \notin Elements(s) /\ Distinct(s)
    BY DEF OnceEach
  <2>3. \A i \in 1 .. Len(s) : s[i] # env
    BY <2>2 DEF Elements
  <2> QED
    BY <2>1, <2>2, <2>3
<1>3. /\ s' \in Seq(Env) /\ Len(s') = Len(s) + 1 /\ s'[n + 1] = env
      /\ \A i \in 1 .. n : s'[i] = s[i]
      /\ \A i \in n + 2 .. Len(s) + 1 : s'[i] = s[i - 1]
  <2> DEFINE r == SubSeq(s, 1, n) \o <<env>> \o SubSeq(s, n + 1, Len(s))
  <2>1. /\ r \in Seq(Env) /\ Len(r) = Len(s) + 1 /\ r[n + 1] = env
        /\ \A i \in 1 .. n : r[i] = s[i]
        /\ \A i \in n + 2 .. Len(s) + 1 : r[i] = s[i - 1]
    <3>1. s \in Seq(Env) /\ env \in Env /\ n \in 0 .. Len(s)
      BY <1>2
    <3> HIDE DEF s
    <3> QED
      BY <3>1, InsertedList, Zenon
  <2>2. s' = r
    BY <1>1
  <2> HIDE DEF r
  <2> QED
    BY <2>1, <2>2
<1>4. Elements(s') = Elements(s) \cup {env} /\ Distinct(s')
  <2> DEFINE r == s'
  <2>1. /\ r \in Seq(Env) /\ Len(r) = Len(s) + 1 /\ r[n + 1] = env
        /\ \A i \in 1 .. n : r[i] = s[i]
        /\ \A i \in n + 2 .. Len(s) + 1 : r[i] = s[i - 1]
    BY <1>3
  <2> HIDE DEF r
  <2>2. Elements(r) = Elements(s) \cup {env} /\ Distinct(r)
    <3> HIDE DEF s
    <3>1. Distinct(s) /\ env \notin Elements(s) /\ s \in Seq(Env)
      BY <1>2
    <3> QED
      BY <2>1, <3>1, InsertedElements, SMTT(30)
  <2> QED
    BY <2>2 DEF r
<1>5. Sorted'
  <2> SUFFICES ASSUME NEW i \in 1 .. Len(s'), NEW j \in 1 .. Len(s'), i < j
               PROVE  msg'[s'[i]] <= msg'[s'[j]]
    BY DEF Sorted
  <2>0. /\ Len(s) \in Nat /\ n \in Nat /\ n <= Len(s)
        /\ i \in 1 .. Len(s) + 1 /\ j \in 1 .. Len(s) + 1 /\ i < j
    BY <1>2, <1>3
  <2>1. msg'[env] = timeout /\ \A k \in 1 .. Len(s) : msg'[s[k]] = msg[s[k]]
    BY <1>2
  <2>2. CASE j <= n
    <3>1. i \in 1 .. n /\ j \in 1 .. n /\ i \in 1 .. Len(s) /\ j \in 1 .. Len(s)
      BY <2>0, <2>2
    <3>2. msg'[s'[i]] = msg[s[i]] /\ msg'[s'[j]] = msg[s[j]]
      BY <1>3, <2>1, <3>1
    <3> QED
      BY <3>1, <3>2 DEF Sorted
  <2>3. CASE j = n + 1
    <3>1. i \in 1 .. n /\ i \in 1 .. Len(s)
      BY <2>0, <2>3
    <3> QED
      BY <1>1, <1>3, <2>1, <2>3, <3>1
  <2>4. CASE n + 1 < j
    <3>1. /\ j \in n + 2 .. Len(s) + 1 /\ j - 1 \in n + 1 .. Len(s) /\ j - 1 \in 1 .. Len(s)
      BY <2>0, <2>4
    <3>2. msg'[s'[j]] = msg[s[j - 1]]
      BY <1>3, <2>1, <3>1
    <3>3. CASE i <= n
      <4>1. i \in 1 .. n /\ i \in 1 .. Len(s) /\ i < j - 1
        BY <2>0, <2>4, <3>3
      <4>2. msg'[s'[i]] = msg[s[i]]
        BY <1>3, <2>1, <4>1
      <4> QED
        BY <3>1, <3>2, <4>1, <4>2 DEF Sorted
    <3>4. CASE i = n + 1
      BY <1>1, <1>3, <2>1, <3>1, <3>2, <3>4
    <3>5. CASE n + 1 < i
      <4>1. i \in n + 2 .. Len(s) + 1 /\ i - 1 \in 1 .. Len(s) /\ i - 1 < j - 1
        BY <2>0, <3>5
      <4>2. msg'[s'[i]] = msg[s[i - 1]]
        BY <1>3, <2>1, <4>1
      <4> QED
        BY <3>1, <3>2, <4>1, <4>2 DEF Sorted
    <3> QED
      BY <2>0, <3>3, <3>4, <3>5
  <2> QED
    BY <2>0, <2>2, <2>3, <2>4
<1> QED
  BY <1>3, <1>4, <1>5
-----------------------------------------------------------------------------
(* The empty lists satisfy the invariant, and every action preserves it.   *)
LEMMA TimerInvInit == Init => TimerInv
<1> SUFFICES ASSUME Init PROVE TimerInv
  OBVIOUS
<1>1. Len(<<>>) = 0 /\ <<>> \in Seq(Env)
  BY EmptySeq
<1> QED
  BY <1>1, MaxTimeIsNat DEF Init, TimerInv, TypeOK, OnceEach, Distinct, Sorted, PromisesKept, Elements

LEMMA TimerInvNext == TimerInv /\ [Next]_vars => TimerInv'
<1> SUFFICES ASSUME TimerInv, [Next]_vars PROVE TimerInv'
  OBVIOUS
<1> USE DEF TimerInv
<1>t. /\ clock \in Int /\ MaxTime \in Nat
      /\ msg \in [Env -> Int] /\ promised \in [Env -> Int]
      /\ mailbox \in Seq(Env) /\ timeout_queue \in Seq(Env)
  BY MaxTimeIsNat DEF TypeOK
<1>e. /\ Elements(mailbox) \subseteq Env /\ Elements(timeout_queue) \subseteq Env
      /\ \A i \in 1 .. Len(timeout_queue) : timeout_queue[i] \in Elements(timeout_queue)
  BY <1>t DEF Elements
<1>1. CASE UNCHANGED vars
  BY <1>1 DEF vars, TypeOK, OnceEach, Distinct, Sorted, PromisesKept, Elements
<1>2. ASSUME NEW env \in Env, NEW time_delay \in Delay, k_request_delay(env, time_delay)
      PROVE  TimerInv'
  <2> USE DEF k_request_delay
  <2>1. /\ mailbox' \in Seq(Env) /\ Elements(mailbox') = Elements(mailbox) \cup {env}
        /\ Distinct(mailbox') /\ timeout_queue' = timeout_queue
    BY <1>2, <1>t, AppendList DEF OnceEach, Pending
  <2>2. env \notin Elements(mailbox) /\ env \notin Elements(timeout_queue)
    BY <1>2 DEF Pending
  <2>3. /\ time_delay \in Int /\ clock' = clock /\ running = "user" /\ running' = running
        /\ msg' \in [Env -> Int] /\ promised' \in [Env -> Int]
        /\ msg'[env] = time_delay /\ promised'[env] = clock + time_delay
        /\ \A e \in Env : e # env => msg'[e] = msg[e] /\ promised'[e] = promised[e]
    BY <1>2, <1>t, DelayIsInt
  <2>4. TypeOK'
    BY <1>2, <2>1, <2>3 DEF TypeOK
  <2>5. OnceEach'
    BY <2>1, <2>2 DEF OnceEach
  <2>6. Sorted'
    <3>1. \A i \in 1 .. Len(timeout_queue) :
             timeout_queue[i] \in Env /\ msg'[timeout_queue[i]] = msg[timeout_queue[i]]
      BY <1>e, <2>2, <2>3
    <3> QED
      BY <2>1, <3>1 DEF Sorted
  <2>7. PromisesKept'
    <3>1. ASSUME NEW e \in Elements(mailbox')
          PROVE  promised'[e] <= msg'[e] + (IF running' = "user" THEN clock' ELSE clock' - 1)
      <4>1. CASE e = env
        BY <1>t, <2>3, <4>1
      <4>2. CASE e # env
        BY <1>e, <2>1, <2>3, <4>2 DEF PromisesKept
      <4> QED
        BY <4>1, <4>2
    <3>2. ASSUME NEW e \in Elements(timeout_queue') PROVE promised'[e] < msg'[e]
      BY <1>e, <2>1, <2>2, <2>3 DEF PromisesKept
    <3> QED
      BY <3>1, <3>2 DEF PromisesKept
  <2> QED
    BY <2>4, <2>5, <2>6, <2>7
<1>3. CASE TickRecorded
  <2> USE DEF TickRecorded
  <2>1. TypeOK'
    BY <1>3, <1>t DEF TypeOK
  <2>2. OnceEach' /\ Sorted'
    BY <1>3 DEF OnceEach, Distinct, Sorted, Elements
  <2>3. PromisesKept'
    BY <1>3, <1>t DEF PromisesKept, Elements
  <2> QED
    BY <2>1, <2>2, <2>3
<1>4. CASE timeout_queue_insert
  <2> DEFINE env     == Head(mailbox)
             timeout == clock + msg[env]
  <2>1. /\ running = "timeout_i" /\ mailbox # <<>>
        /\ clock' = clock /\ promised' = promised
    BY <1>4 DEF timeout_queue_insert
  <2>2. /\ Tail(mailbox) \in Seq(Env) /\ Distinct(Tail(mailbox))
        /\ env \in Elements(mailbox) /\ env \in Env
        /\ Elements(Tail(mailbox)) = Elements(mailbox) \ {env}
    BY <1>t, <2>1, TailList DEF OnceEach
  <2>3. timeout \in Int
    BY <1>t, <2>2
  <2>4. CASE SearchFallsOff(timeout)
    <3>1. running' = "terminated" /\ UNCHANGED <<mailbox, msg, timeout_queue>>
      BY <1>4, <2>4 DEF timeout_queue_insert
    <3>2. TypeOK'
      BY <2>1, <3>1 DEF TypeOK
    <3>3. OnceEach' /\ Sorted'
      BY <3>1 DEF OnceEach, Distinct, Sorted, Elements
    <3>4. PromisesKept'
      BY <1>t, <2>1, <3>1 DEF PromisesKept, Elements
    <3> QED
      BY <3>2, <3>3, <3>4
  <2>5. CASE ~SearchFallsOff(timeout)
    <3>1. /\ mailbox' = Tail(mailbox)
          /\ msg' = [msg EXCEPT ![env] = timeout]
          /\ Inserted(env, timeout)
          /\ running' = running
      BY <1>4, <2>5 DEF timeout_queue_insert
    <3> HIDE DEF env, timeout
    <3>2. /\ timeout_queue' \in Seq(Env)
          /\ Elements(timeout_queue') = Elements(timeout_queue) \cup {env}
          /\ Distinct(timeout_queue')
          /\ Sorted'
      BY <2>2, <2>3, <2>5, <3>1, InsertedSorted
    <3>3. TypeOK'
      BY <1>t, <2>1, <2>2, <2>3, <3>1, <3>2 DEF TypeOK
    <3>4. Elements(mailbox') = Elements(mailbox) \ {env}
      BY <2>2, <3>1
    <3>5. OnceEach'
      BY <2>2, <3>1, <3>2, <3>4 DEF OnceEach, Distinct, Elements
    <3>6. PromisesKept'
      <4>1. ASSUME NEW e \in Elements(mailbox')
            PROVE  promised'[e] <= msg'[e] + (IF running' = "user" THEN clock' ELSE clock' - 1)
        <5>1. e \in Elements(mailbox) /\ e # env /\ e \in Env
          BY <1>e, <3>4
        <5>2. msg'[e] = msg[e]
          BY <1>t, <3>1, <5>1
        <5> QED
          BY <2>1, <3>1, <5>1, <5>2 DEF PromisesKept
      <4>2. ASSUME NEW e \in Elements(timeout_queue') PROVE promised'[e] < msg'[e]
        <5>1. CASE e = env
          <6>1. promised[env] <= msg[env] + (clock - 1)
            BY <2>1, <2>2 DEF PromisesKept
          <6>2. msg'[env] = clock + msg[env] /\ msg[env] \in Int /\ promised[env] \in Int
            BY <1>t, <2>2, <3>1 DEF timeout
          <6> QED
            BY <1>t, <2>1, <5>1, <6>1, <6>2
        <5>2. CASE e # env
          BY <1>e, <1>t, <2>1, <3>1, <3>2, <5>2 DEF PromisesKept
        <5> QED
          BY <5>1, <5>2
      <4> QED
        BY <4>1, <4>2 DEF PromisesKept
    <3> QED
      BY <3>2, <3>3, <3>5, <3>6
  <2> QED
    BY <2>4, <2>5
<1>5. CASE check_timeout_queue
  <2> USE DEF check_timeout_queue
  <2>1. CASE timeout_queue' = timeout_queue
    <3>1. TypeOK'
      BY <1>5, <2>1 DEF TypeOK
    <3>2. OnceEach' /\ Sorted'
      BY <1>5, <2>1 DEF OnceEach, Distinct, Sorted, Elements
    <3>3. PromisesKept'
      BY <1>5, <2>1, EmptySeq DEF PromisesKept, Elements
    <3> QED
      BY <3>1, <3>2, <3>3
  <2>2. CASE timeout_queue # <<>> /\ timeout_queue' = Tail(timeout_queue)
    <3>1. /\ timeout_queue' \in Seq(Env) /\ Distinct(timeout_queue')
          /\ Elements(timeout_queue') \subseteq Elements(timeout_queue)
      BY <1>t, <2>2, TailList DEF OnceEach
    <3>2. TypeOK'
      BY <1>5, <3>1 DEF TypeOK
    <3>3. OnceEach'
      BY <1>5, <3>1 DEF OnceEach, Distinct, Elements
    <3>4. Sorted'
      <4>1. /\ Len(timeout_queue) \in Nat /\ Len(timeout_queue') = Len(timeout_queue) - 1
            /\ \A i \in 1 .. Len(timeout_queue') : timeout_queue'[i] = timeout_queue[i + 1]
        BY <1>t, <2>2
      <4>2. \A i \in 1 .. Len(timeout_queue') : i + 1 \in 1 .. Len(timeout_queue)
        BY <4>1
      <4> SUFFICES ASSUME NEW i \in 1 .. Len(timeout_queue'), NEW j \in 1 .. Len(timeout_queue'), i < j
                   PROVE  msg'[timeout_queue'[i]] <= msg'[timeout_queue'[j]]
        BY DEF Sorted
      <4>3. msg[timeout_queue[i + 1]] <= msg[timeout_queue[j + 1]]
        BY <4>1, <4>2 DEF Sorted
      <4> QED
        BY <1>5, <4>1, <4>3
    <3>5. PromisesKept'
      <4>1. Elements(mailbox') = {}
        BY <1>5, EmptySeq DEF Elements
      <4> QED
        BY <1>5, <3>1, <4>1 DEF PromisesKept
    <3> QED
      BY <3>2, <3>3, <3>4, <3>5
  <2> QED
    BY <1>5, <2>1, <2>2
<1> QED
  BY <1>1, <1>2, <1>3, <1>4, <1>5 DEF Next

LEMMA TimerInvAlways == Spec => []TimerInv
  BY TimerInvInit, TimerInvNext, PTL DEF Spec

(* Every variable has its type, whatever the delays asked for.             *)
THEOREM TimerTypeCorrect == Spec => []TypeOK
  BY TimerInvAlways, PTL DEF TimerInv

(* timeout_queue_insert keeps the list sorted by timeout.                  *)
THEOREM QueueSorted == Spec => []Sorted
  BY TimerInvAlways, PTL DEF TimerInv

(* A list without repetitions has as many elements as places.              *)
LEMMA ElementsCounted ==
    ASSUME NEW s \in Seq(Env), Distinct(s)
    PROVE  IsFiniteSet(Elements(s)) /\ Cardinality(Elements(s)) = Len(s)
<1>1. Len(s) \in Nat /\ s \in [1 .. Len(s) -> Elements(s)]
  <2>1. Len(s) \in Nat /\ s \in [1 .. Len(s) -> Env]
    OBVIOUS
  <2>2. \A i \in 1 .. Len(s) : s[i] \in Elements(s)
    BY DEF Elements
  <2> QED
    BY <2>1, <2>2
<1>2. s \in Surjection(1 .. Len(s), Elements(s)) /\ s \in Injection(1 .. Len(s), Elements(s))
  BY <1>1 DEF Surjection, Injection, IsInjective, Elements, Distinct
<1>3. IsFiniteSet(1 .. Len(s)) /\ Cardinality(1 .. Len(s)) = Len(s)
  BY <1>1, FS_Interval
<1> QED
  BY <1>2, <1>3, FS_Surjection

(* No envelope is listed twice, so no list closes into a loop.             *)
THEOREM NoEnvelopeListedTwice == Spec => []ListedOnce
<1>1. TimerInv => ListedOnce
  <2> SUFFICES ASSUME TimerInv PROVE ListedOnce
    OBVIOUS
  <2> DEFINE M == Elements(mailbox)
             Q == Elements(timeout_queue)
  <2>1. /\ IsFiniteSet(M) /\ Cardinality(M) = Len(mailbox)
        /\ IsFiniteSet(Q) /\ Cardinality(Q) = Len(timeout_queue)
        /\ Len(mailbox) \in Nat /\ Len(timeout_queue) \in Nat
    BY ElementsCounted DEF TimerInv, TypeOK, OnceEach
  <2>2. M \cap Q = {}
    BY DEF TimerInv, OnceEach
  <2>3. Cardinality(M \cup Q) = Cardinality(M) + Cardinality(Q) - Cardinality(M \cap Q)
    BY <2>1, FS_Union
  <2>4. Cardinality(M \cap Q) = 0
    BY <2>2, FS_EmptySet
  <2> HIDE DEF M, Q
  <2>5. Cardinality(M \cup Q) = Len(mailbox) + Len(timeout_queue)
    BY <2>1, <2>3, <2>4
  <2> QED
    BY <2>5 DEF ListedOnce, Pending, M, Q
<1> QED
  BY <1>1, TimerInvAlways, PTL

(* An envelope is never returned before its delay has passed: what is in   *)
(* the list is due after the tick that was promised for it.                *)
THEOREM DelaysNeverShort == Spec => NeverEarly
<1>1. TimerInv /\ [Next]_vars
        => [\A env \in Env : env \in Pending /\ env \notin Pending' => clock > promised[env]]_vars
  <2> SUFFICES ASSUME TimerInv, Next, NEW env \in Env, env \in Pending, env \notin Pending'
               PROVE  clock > promised[env]
    OBVIOUS
  <2> USE DEF TimerInv
  <2>t. /\ clock \in Int /\ msg \in [Env -> Int] /\ promised \in [Env -> Int]
        /\ mailbox \in Seq(Env) /\ timeout_queue \in Seq(Env)
    BY MaxTimeIsNat DEF TypeOK
  <2>1. ASSUME NEW e \in Env, NEW time_delay \in Delay, k_request_delay(e, time_delay) PROVE FALSE
    <3>1. Elements(mailbox') = Elements(mailbox) \cup {e} /\ timeout_queue' = timeout_queue
      BY <2>1, <2>t, AppendList DEF k_request_delay
    <3> QED
      BY <3>1 DEF Pending
  <2>2. CASE TickRecorded
    BY <2>2 DEF TickRecorded, Pending, Elements
  <2>3. CASE timeout_queue_insert
    <3> DEFINE e == Head(mailbox)
               timeout == clock + msg[e]
    <3>1. e \in Elements(mailbox) /\ e \in Env /\ Elements(Tail(mailbox)) = Elements(mailbox) \ {e}
      BY <2>t, <2>3, TailList DEF OnceEach, timeout_queue_insert
    <3>2. timeout \in Int
      BY <2>t, <3>1
    <3>3. CASE SearchFallsOff(timeout)
      <4>1. UNCHANGED <<mailbox, timeout_queue>>
        BY <2>3, <3>3 DEF timeout_queue_insert
      <4> QED
        BY <4>1 DEF Pending, Elements
    <3>4. CASE ~SearchFallsOff(timeout)
      <4>1. /\ mailbox' = Tail(mailbox) /\ msg' = [msg EXCEPT ![e] = timeout]
            /\ Inserted(e, timeout)
        BY <2>3, <3>4 DEF timeout_queue_insert
      <4> HIDE DEF e, timeout
      <4>2. Elements(timeout_queue') = Elements(timeout_queue) \cup {e}
        BY <3>1, <3>2, <3>4, <4>1, InsertedSorted
      <4>3. Elements(mailbox') = Elements(mailbox) \ {e}
        BY <3>1, <4>1 DEF e
      <4> QED
        BY <4>2, <4>3 DEF Pending
    <3> QED
      BY <3>3, <3>4
  <2>4. CASE check_timeout_queue
    <3>1. /\ timeout_queue # <<>> /\ Expired(msg[Head(timeout_queue)])
          /\ timeout_queue' = Tail(timeout_queue) /\ mailbox' = mailbox
      BY <2>4 DEF check_timeout_queue, Pending, Elements
    <3>2. env = Head(timeout_queue) /\ env \in Elements(timeout_queue)
      <4>1. /\ Head(timeout_queue) \in Elements(timeout_queue)
            /\ Elements(timeout_queue') = Elements(timeout_queue) \ {Head(timeout_queue)}
        BY <2>t, <3>1, TailList DEF OnceEach
      <4>2. Elements(mailbox') = Elements(mailbox)
        BY <3>1 DEF Elements
      <4> QED
        BY <4>1, <4>2 DEF Pending
    <3>3. promised[env] < msg[env] /\ msg[env] <= clock
      BY <2>t, <3>1, <3>2 DEF PromisesKept, Expired
    <3> QED
      BY <2>t, <3>3
  <2> QED
    BY <2>1, <2>2, <2>3, <2>4 DEF Next
<1> QED
  BY <1>1, TimerInvAlways, PTL DEF Spec, NeverEarly

-----------------------------------------------------------------------------
(* Refinement of DelayService                                              *)

(* The head of a sorted list is due no later than any other envelope.      *)
LEMMA HeadIsEarliest ==
    ASSUME TimerInv, mailbox = <<>>, timeout_queue # <<>>
    PROVE  /\ Head(timeout_queue) \in Env /\ Head(timeout_queue) \in Elements(timeout_queue)
           /\ \A env \in Elements(timeout_queue) : msg[Head(timeout_queue)] <= msg[env]
<1> USE DEF TimerInv
<1>1. /\ timeout_queue \in Seq(Env) /\ msg \in [Env -> Int]
      /\ Head(timeout_queue) = timeout_queue[1] /\ 1 \in 1 .. Len(timeout_queue)
      /\ \A i \in 1 .. Len(timeout_queue) : i = 1 \/ 1 < i
  BY DEF TypeOK
<1>2. Head(timeout_queue) \in Env /\ Head(timeout_queue) \in Elements(timeout_queue)
  BY <1>1 DEF Elements
<1>3. ASSUME NEW i \in 1 .. Len(timeout_queue)
      PROVE  msg[timeout_queue[1]] <= msg[timeout_queue[i]]
  BY <1>1, <1>2 DEF Sorted
<1> QED
  BY <1>1, <1>2, <1>3 DEF Elements

(* A request of the code is one of the service.                            *)
LEMMA RequestAsks ==
    ASSUME TimerInv, NEW env \in Env, NEW time_delay \in Delay, k_request_delay(env, time_delay)
    PROVE  Service!Ask(env, time_delay)
<1>1. /\ clock \in Int /\ msg \in [Env -> Int] /\ mailbox \in Seq(Env) /\ time_delay \in Int
  BY MaxTimeIsNat, DelayIsInt DEF TimerInv, TypeOK
<1>2. /\ Elements(mailbox') = Elements(mailbox) \cup {env}
      /\ timeout_queue' = timeout_queue /\ env \notin Pending
      /\ clock' = clock /\ running = "user" /\ running' = "user"
      /\ msg' = [msg EXCEPT ![env] = time_delay]
  BY <1>1, AppendList DEF k_request_delay
<1>3. Pending' = Pending \cup {env}
  BY <1>2 DEF Pending
<1>4. Due' = [Due EXCEPT ![env] = Now + 1 + time_delay]
  <2>1. Due'[env] = Now + 1 + time_delay
    BY <1>1, <1>2 DEF Due, Now
  <2>2. \A e \in Env : e # env => Due'[e] = Due[e]
    BY <1>1, <1>2 DEF Due
  <2>3. DOMAIN Due = Env /\ DOMAIN Due' = Env
    BY DEF Due
  <2> QED
    BY <2>1, <2>2, <2>3 DEF Due
<1>5. Now' = Now
  BY <1>2 DEF Now
<1> QED
  BY <1>2, <1>3, <1>4, <1>5 DEF Service!Ask, Due, Now

(* Neither the record of a tick nor an insertion is visible.               *)
LEMMA InsertionInvisible ==
    ASSUME TimerInv, TickRecorded \/ timeout_queue_insert
    PROVE  UNCHANGED <<Now, Pending, Due>>
<1>1. /\ clock \in Int /\ msg \in [Env -> Int] /\ mailbox \in Seq(Env)
  BY MaxTimeIsNat DEF TimerInv, TypeOK
<1>2. CASE TickRecorded
  BY <1>1, <1>2 DEF TickRecorded, Now, Pending, Due, Elements
<1>3. CASE timeout_queue_insert
  <2> DEFINE e == Head(mailbox)
             timeout == clock + msg[e]
  <2>1. /\ running = "timeout_i" /\ clock' = clock
        /\ e \in Elements(mailbox) /\ e \in Env
        /\ Elements(Tail(mailbox)) = Elements(mailbox) \ {e}
    BY <1>1, <1>3, TailList DEF TimerInv, OnceEach, timeout_queue_insert
  <2>2. timeout \in Int
    BY <1>1, <2>1
  <2>3. CASE SearchFallsOff(timeout)
    <3>1. UNCHANGED <<mailbox, timeout_queue, msg>> /\ running' = "terminated"
      BY <1>3, <2>3 DEF timeout_queue_insert
    <3> QED
      BY <2>1, <3>1 DEF Now, Pending, Due, Elements
  <2>4. CASE ~SearchFallsOff(timeout)
    <3>1. /\ mailbox' = Tail(mailbox) /\ msg' = [msg EXCEPT ![e] = timeout]
          /\ Inserted(e, timeout) /\ running' = running
      BY <1>3, <2>4 DEF timeout_queue_insert
    <3> HIDE DEF e, timeout
    <3>2. Elements(timeout_queue') = Elements(timeout_queue) \cup {e}
      BY <2>1, <2>2, <2>4, <3>1, InsertedSorted DEF TimerInv
    <3>3. Elements(mailbox') = Elements(mailbox) \ {e}
      BY <2>1, <3>1 DEF e
    <3>4. Now' = Now /\ Pending' = Pending
      BY <2>1, <3>1, <3>2, <3>3 DEF Now, Pending
    <3>5. ASSUME NEW env \in Env PROVE Due'[env] = Due[env]
      <4>1. CASE env = e
        BY <1>1, <2>1, <3>1, <3>3, <4>1 DEF Due, timeout
      <4>2. CASE env # e
        BY <1>1, <2>1, <3>1, <3>3, <4>2 DEF Due
      <4> QED
        BY <4>1, <4>2
    <3>6. Due' = Due
      BY <3>5 DEF Due
    <3> QED
      BY <3>4, <3>6
  <2> QED
    BY <2>3, <2>4
<1> QED
  BY <1>2, <1>3

(* When the i-process exits, a tick of the service has passed.             *)
LEMMA ExitTicks ==
    ASSUME TimerInv, check_timeout_queue
    PROVE  Service!Tick
<1>1. /\ clock \in Int /\ msg \in [Env -> Int] /\ timeout_queue \in Seq(Env)
  BY MaxTimeIsNat DEF TimerInv, TypeOK
<1>2. /\ running = "timeout_i" /\ running' = "user" /\ clock' = clock
      /\ mailbox = <<>> /\ mailbox' = mailbox /\ msg' = msg
  BY DEF check_timeout_queue
<1>3. Elements(mailbox) = {} /\ Elements(mailbox') = {}
  BY <1>2, EmptySeq DEF Elements
<1>4. Now' = Now + 1 /\ Now + 1 = clock
  BY <1>1, <1>2 DEF Now
<1>5. \A env \in Env : Due[env] = msg[env]
  BY <1>3 DEF Due
<1>6. Due' = Due /\ Due \in [Env -> Int]
  BY <1>1, <1>2, <1>3, <1>5 DEF Due
<1>7. Pending = Elements(timeout_queue) /\ Pending' = Elements(timeout_queue')
  BY <1>3 DEF Pending
<1>8. Elements(timeout_queue) \subseteq Env
  BY <1>1 DEF Elements
<1>9. CASE timeout_queue = <<>>
  <2>1. timeout_queue' = timeout_queue
    BY <1>9 DEF check_timeout_queue
  <2>2. Pending = {} /\ Pending' = Pending
    BY <1>7, <1>9, <2>1, EmptySeq DEF Elements
  <2> QED
    BY <1>4, <1>6, <1>7, <1>8, <2>2 DEF Service!Tick, Service!Earliest
<1>10. CASE timeout_queue # <<>>
  <2> DEFINE h == Head(timeout_queue)
  <2>1. h \in Env /\ h \in Pending /\ \A env \in Pending : Due[h] <= Due[env]
    BY <1>2, <1>5, <1>7, <1>8, <1>10, HeadIsEarliest
  <2>2. Due[h] = msg[h]
    BY <1>5, <2>1
  <2>3. CASE Expired(msg[h])
    <3>1. timeout_queue' = Tail(timeout_queue)
      BY <1>10, <2>3 DEF check_timeout_queue
    <3>2. Pending' = Pending \ {h}
      BY <1>1, <1>7, <1>10, <3>1, TailList DEF TimerInv, OnceEach
    <3>3. Due[h] \in 0 .. Now + 1
      BY <1>4, <2>2, <2>3 DEF Expired
    <3> HIDE DEF h
    <3> QED
      BY <1>4, <1>6, <1>7, <1>8, <2>1, <3>2, <3>3 DEF Service!Tick, Service!Earliest
  <2>4. CASE ~Expired(msg[h])
    <3>1. timeout_queue' = timeout_queue
      BY <1>10, <2>4 DEF check_timeout_queue
    <3>2. Pending' = Pending
      BY <1>7, <3>1 DEF Elements
    <3>3. ASSUME NEW env \in Pending, \A e \in Pending : Due[env] <= Due[e]
          PROVE  Due[env] \notin 0 .. Now + 1
      <4>1. Due[env] \in Int /\ Due[h] \in Int
        BY <1>1, <1>5, <1>7, <1>8, <2>1
      <4>2. Due[env] = Due[h]
        BY <2>1, <3>3, <4>1
      <4> QED
        BY <1>4, <2>2, <2>4, <4>2 DEF Expired
    <3> QED
      BY <1>4, <1>6, <1>7, <1>8, <3>2, <3>3 DEF Service!Tick, Service!Earliest
  <2> QED
    BY <2>3, <2>4
<1> QED
  BY <1>9, <1>10

(* The i-process implements the delay service.                             *)
THEOREM TimerRefines == Spec => ImplementsDelayService
<1>1. Init => Service!DelayInit
  <2> SUFFICES ASSUME Init PROVE Service!DelayInit
    OBVIOUS
  <2>1. Elements(<<>>) = {}
    BY EmptySeq DEF Elements
  <2> QED
    BY <2>1 DEF Init, Now, Due, Pending, Service!DelayInit
<1>2. TimerInv /\ [Next]_vars => [Service!DelayNext]_(Service!delayVars)
  <2> SUFFICES ASSUME TimerInv, [Next]_vars
               PROVE  Service!DelayNext \/ UNCHANGED <<Now, Pending, Due>>
    BY DEF Service!delayVars, Now, Due
  <2>1. CASE UNCHANGED vars
    BY <2>1 DEF vars, Now, Pending, Due, Elements
  <2>2. ASSUME NEW env \in Env, NEW time_delay \in Delay, k_request_delay(env, time_delay)
        PROVE  Service!DelayNext
    BY <2>2, RequestAsks DEF Service!DelayNext
  <2>3. CASE TickRecorded \/ timeout_queue_insert
    BY <2>3, InsertionInvisible
  <2>4. CASE check_timeout_queue
    BY <2>4, ExitTicks DEF Service!DelayNext
  <2> QED
    BY <2>1, <2>2, <2>3, <2>4 DEF Next
<1> QED
  BY <1>1, <1>2, TimerInvAlways, PTL DEF Spec, ImplementsDelayService, Service!DelaySpec

-----------------------------------------------------------------------------
(* The search falls off the end only with three envelopes in the service:  *)
(* two in the list and a later one to be inserted.  As shipped, the wall   *)
(* clock and process C have one each.                                      *)
THEOREM TwoDelaysAreSafe ==
    ASSUME Cardinality(Env) <= 2
    PROVE  Spec => []InsertionPointFound
<1>1. Init => InsertionPointFound
  BY DEF Init, InsertionPointFound
<1>2. TimerInv /\ InsertionPointFound /\ [Next]_vars => InsertionPointFound'
  <2> SUFFICES ASSUME TimerInv, InsertionPointFound, timeout_queue_insert, running' = "terminated"
               PROVE  FALSE
    BY DEF Next, vars, k_request_delay, TickRecorded, check_timeout_queue, InsertionPointFound
  <2>1. mailbox \in Seq(Env) /\ mailbox # <<>> /\ timeout_queue \in Seq(Env)
    BY DEF TimerInv, TypeOK, timeout_queue_insert
  <2>2. Len(timeout_queue) >= 2
    BY DEF timeout_queue_insert, SearchFallsOff, InsertionPointFound
  <2>3. Head(mailbox) \in Elements(mailbox)
    BY <2>1, TailList DEF TimerInv, OnceEach
  <2>4. Cardinality(Elements(timeout_queue)) >= 2 /\ IsFiniteSet(Elements(timeout_queue))
    BY <2>1, <2>2, ElementsCounted DEF TimerInv, OnceEach
  <2>5. Head(mailbox) \notin Elements(timeout_queue)
    BY <2>3 DEF TimerInv, OnceEach
  <2>6. Elements(timeout_queue) \cup {Head(mailbox)} \subseteq Env
    BY <2>1 DEF Elements
  <2>7. Cardinality(Elements(timeout_queue) \cup {Head(mailbox)}) >= 3
    <3>1. Cardinality(Elements(timeout_queue)) \in Nat
      BY <2>4, FS_CardinalityType
    <3>2. Cardinality(Elements(timeout_queue) \cup {Head(mailbox)})
            = Cardinality(Elements(timeout_queue)) + 1
      BY <2>4, <2>5, FS_AddElement
    <3> QED
      BY <2>4, <3>1, <3>2
  <2>8. Cardinality(Elements(timeout_queue) \cup {Head(mailbox)}) <= Cardinality(Env)
    BY <2>6, EnvIsFinite, FS_Subset
  <2>9. /\ Cardinality(Env) \in Nat
        /\ Cardinality(Elements(timeout_queue) \cup {Head(mailbox)}) \in Nat
    BY <2>6, EnvIsFinite, FS_Subset, FS_CardinalityType
  <2> QED
    BY <2>7, <2>8, <2>9
<1> QED
  BY <1>1, <1>2, TimerInvAlways, PTL DEF Spec

-----------------------------------------------------------------------------
(* How late an envelope is returned.  Those due no later than it were all  *)
(* handed in before, for a request of now is due at the next tick at the   *)
(* earliest; every tick returns one of them, so that their number and the  *)
(* ticks it is late together do not grow.                                  *)

DueBy(t) == {env \in Elements(timeout_queue) : msg[env] <= t}

LateAtMost(n) ==
    \A env \in Elements(timeout_queue) :
       msg[env] <= clock => Cardinality(DueBy(msg[env])) + (clock - msg[env]) <= n

(* The tick under way has yet to return its envelope.                      *)
LatenessInv ==
    /\ \A env \in Pending : msg[env] \in Nat
    /\ LateAtMost(IF running = "user" THEN Cardinality(Env) - 1 ELSE Cardinality(Env))

LEMMA DueByBounded ==
    ASSUME timeout_queue \in Seq(Env), NEW t
    PROVE  /\ IsFiniteSet(DueBy(t)) /\ Cardinality(DueBy(t)) \in Nat
           /\ Cardinality(Env) \in Nat /\ Cardinality(DueBy(t)) <= Cardinality(Env)
<1>1. DueBy(t) \subseteq Env
  BY DEF DueBy, Elements
<1> QED
  BY <1>1, EnvIsFinite, FS_Subset, FS_CardinalityType

LEMMA LatenessInvNext ==
    ASSUME Delay \subseteq Nat
    PROVE  TimerInv /\ LatenessInv /\ [Next]_vars => LatenessInv'
<1> SUFFICES ASSUME TimerInv, LatenessInv, [Next]_vars PROVE LatenessInv'
  OBVIOUS
<1> DEFINE N == Cardinality(Env)
<1>t. /\ clock \in Nat /\ msg \in [Env -> Int]
      /\ mailbox \in Seq(Env) /\ timeout_queue \in Seq(Env)
      /\ Elements(mailbox) \subseteq Env /\ Elements(timeout_queue) \subseteq Env
      /\ N \in Nat
  <2>1. /\ clock \in Nat /\ msg \in [Env -> Int]
        /\ mailbox \in Seq(Env) /\ timeout_queue \in Seq(Env)
    BY MaxTimeIsNat DEF TimerInv, TypeOK
  <2>2. Elements(mailbox) \subseteq Env /\ Elements(timeout_queue) \subseteq Env
    BY <2>1 DEF Elements
  <2>3. N \in Nat
    BY EnvIsFinite, FS_CardinalityType
  <2> QED
    BY <2>1, <2>2, <2>3
<1>u. /\ \A env \in Elements(mailbox) : msg[env] \in Nat
      /\ \A env \in Elements(timeout_queue) : msg[env] \in Nat
      /\ LateAtMost(IF running = "user" THEN N - 1 ELSE N)
  BY DEF LatenessInv, Pending
<1>0. CASE UNCHANGED vars
  BY <1>0 DEF vars, LatenessInv, LateAtMost, DueBy, Pending, Elements
<1>1. ASSUME NEW env \in Env, NEW time_delay \in Delay, k_request_delay(env, time_delay)
      PROVE  LatenessInv'
  <2>1. /\ Elements(mailbox') = Elements(mailbox) \cup {env}
        /\ timeout_queue' = timeout_queue /\ running' = running /\ clock' = clock
        /\ msg' = [msg EXCEPT ![env] = time_delay]
        /\ env \notin Elements(timeout_queue)
    BY <1>1, <1>t, AppendList DEF k_request_delay, Pending
  <2>2. \A e \in Elements(timeout_queue) : msg'[e] = msg[e]
    BY <1>t, <2>1
  <2>3. \A t : DueBy(t)' = DueBy(t)
    BY <2>1, <2>2 DEF DueBy, Elements
  <2>4. LateAtMost(IF running = "user" THEN N - 1 ELSE N)'
    BY <1>u, <2>1, <2>2, <2>3 DEF LateAtMost, Elements
  <2>5. \A e \in Pending' : msg'[e] \in Nat
    <3> SUFFICES ASSUME NEW e \in Elements(mailbox) \cup {env} \cup Elements(timeout_queue)
                 PROVE  msg'[e] \in Nat
      BY <2>1 DEF Pending, Elements
    <3>1. CASE e = env
      BY <1>t, <2>1, <3>1
    <3>2. CASE e # env
      BY <1>t, <1>u, <2>1, <3>2
    <3> QED
      BY <3>1, <3>2
  <2> QED
    BY <2>1, <2>4, <2>5 DEF LatenessInv
<1>2. CASE TickRecorded
  <2>1. /\ running = "user" /\ running' = "timeout_i" /\ clock' = clock + 1
        /\ UNCHANGED <<mailbox, timeout_queue, msg>>
    BY <1>2 DEF TickRecorded
  <2>2. Pending' = Pending /\ \A t : DueBy(t)' = DueBy(t)
    BY <2>1 DEF Pending, Elements, DueBy
  <2>3. ASSUME NEW e \in Elements(timeout_queue), msg[e] <= clock + 1
        PROVE  Cardinality(DueBy(msg[e])) + ((clock + 1) - msg[e]) <= N
    <3> DEFINE d == Cardinality(DueBy(msg[e]))
               m == msg[e]
    <3>1. d \in Nat /\ d <= N
      BY <1>t, DueByBounded
    <3>2. m <= clock => d + (clock - m) <= N - 1
      BY <1>u, <2>1 DEF LateAtMost
    <3>3. m \in Nat /\ clock \in Nat /\ N \in Nat /\ m <= clock + 1
      BY <1>t, <1>u, <2>3
    <3> HIDE DEF d, m, N
    <3>4. m <= clock \/ m = clock + 1
      BY <3>3
    <3> QED
      BY <3>1, <3>2, <3>3, <3>4 DEF d, m
  <2>4. LateAtMost(N)'
    BY <2>1, <2>2, <2>3 DEF LateAtMost, Elements
  <2> QED
    BY <2>1, <2>2, <2>4 DEF LatenessInv
<1>3. CASE timeout_queue_insert
  <2> DEFINE e == Head(mailbox)
             timeout == clock + msg[e]
  <2>1. /\ running = "timeout_i" /\ clock' = clock
        /\ e \in Elements(mailbox) /\ e \in Env
        /\ Elements(Tail(mailbox)) = Elements(mailbox) \ {e}
        /\ e \notin Elements(timeout_queue)
    BY <1>t, <1>3, TailList DEF TimerInv, OnceEach, timeout_queue_insert
  <2>2. timeout \in Nat /\ timeout >= clock
    BY <1>t, <1>u, <2>1
  <2>3. CASE SearchFallsOff(timeout)
    <3>1. UNCHANGED <<mailbox, timeout_queue, msg>> /\ running' = "terminated"
      BY <1>3, <2>3 DEF timeout_queue_insert
    <3> QED
      BY <1>u, <2>1, <3>1 DEF LatenessInv, LateAtMost, DueBy, Pending, Elements
  <2>4. CASE ~SearchFallsOff(timeout)
    <3>1. /\ mailbox' = Tail(mailbox) /\ msg' = [msg EXCEPT ![e] = timeout]
          /\ Inserted(e, timeout) /\ running' = running
      BY <1>3, <2>4 DEF timeout_queue_insert
    <3> HIDE DEF e, timeout
    <3>2. /\ Elements(timeout_queue') = Elements(timeout_queue) \cup {e}
          /\ timeout_queue' \in Seq(Env)
      <4>1. /\ TypeOK /\ OnceEach /\ Sorted /\ timeout \in Int
            /\ e \in Elements(mailbox) /\ e \in Env
        BY <2>1, <2>2 DEF TimerInv
      <4> QED
        BY <2>4, <3>1, <4>1, InsertedSorted
    <3>3. Elements(mailbox') = Elements(mailbox) \ {e}
      BY <2>1, <3>1 DEF e
    <3>4. msg'[e] = timeout /\ \A x \in Env : x # e => msg'[x] = msg[x]
      BY <1>t, <2>1, <3>1
    <3>5. \A x \in Pending' : msg'[x] \in Nat
      BY <1>t, <1>u, <2>2, <3>2, <3>3, <3>4 DEF Pending, Elements
    <3>6. ASSUME NEW t \in Int, t < clock PROVE DueBy(t)' = DueBy(t)
      <4>1. ~(timeout <= t)
        BY <1>t, <2>2, <3>6
      <4>2. \A x \in Elements(timeout_queue) : msg'[x] = msg[x]
        BY <1>t, <2>1, <3>4
      <4> QED
        BY <3>2, <3>4, <4>1, <4>2 DEF DueBy, Elements
    <3>7. ASSUME NEW x \in Elements(timeout_queue'), msg'[x] <= clock
          PROVE  Cardinality(DueBy(msg[x])') + (clock - msg'[x]) <= N
      <4> DEFINE d == Cardinality(DueBy(msg[x])')
                 m == msg'[x]
      <4>1. d \in Nat /\ d <= N
        <5>1. DueBy(msg[x])' \subseteq Env
          BY <3>2 DEF DueBy, Elements
        <5> QED
          BY <5>1, EnvIsFinite, FS_Subset, FS_CardinalityType
      <4>2. m \in Nat /\ m <= clock
        BY <3>5, <3>7 DEF Pending, Elements
      <4>3. CASE m = clock
        <5> HIDE DEF d, m, N
        <5> QED
          BY <1>t, <4>1, <4>3 DEF d, m
      <4>4. CASE m < clock
        <5>1. x # e
          BY <1>t, <2>2, <3>4, <4>4
        <5>2. x \in Elements(timeout_queue) /\ m = msg[x]
          BY <1>t, <3>2, <3>4, <3>7, <5>1 DEF Elements
        <5>3. d = Cardinality(DueBy(msg[x]))
          <6>1. m \in Int /\ m < clock
            BY <4>2, <4>4
          <6>2. \A t : t = m => DueBy(t)' = DueBy(msg[x])'
            BY DEF DueBy
          <6>3. \A t \in Int : t < clock => DueBy(t)' = DueBy(t)
            BY <3>6
          <6> QED
            BY <5>2, <6>1, <6>2, <6>3
        <5>4. Cardinality(DueBy(msg[x])) + (clock - msg[x]) <= N
          BY <1>u, <2>1, <3>7, <5>2 DEF LateAtMost
        <5> QED
          BY <5>2, <5>3, <5>4
      <4>5. m = clock \/ m < clock
        <5> HIDE DEF m
        <5> QED
          BY <1>t, <4>2
      <4> QED
        BY <4>3, <4>4, <4>5
    <3>8. LateAtMost(N)'
      <4> SUFFICES ASSUME NEW x \in Elements(timeout_queue'), msg'[x] <= clock'
                   PROVE  Cardinality(DueBy(msg[x])') + (clock' - msg'[x]) <= N
        BY DEF LateAtMost, Elements
      <4> QED
        BY <2>1, <3>7
    <3> QED
      BY <2>1, <3>1, <3>5, <3>8 DEF LatenessInv
  <2> QED
    BY <2>3, <2>4
<1>4. CASE check_timeout_queue
  <2> DEFINE h == Head(timeout_queue)
  <2>1. /\ running = "timeout_i" /\ running' = "user"
        /\ clock' = clock /\ mailbox' = mailbox /\ msg' = msg /\ mailbox = <<>>
    BY <1>4 DEF check_timeout_queue
  <2>2. CASE timeout_queue # <<>> /\ Expired(msg[h])
    <3>1. /\ timeout_queue' = Tail(timeout_queue)
          /\ Elements(timeout_queue') = Elements(timeout_queue) \ {h}
          /\ h \in Elements(timeout_queue)
      BY <1>t, <1>4, <2>2, TailList DEF check_timeout_queue, TimerInv, OnceEach
    <3>2. \A x \in Elements(timeout_queue) : msg[h] <= msg[x]
      BY <2>1, <2>2, HeadIsEarliest
    <3>3. ASSUME NEW x \in Elements(timeout_queue'), msg[x] <= clock
          PROVE  Cardinality(DueBy(msg[x])') + (clock - msg[x]) <= N - 1
      <4> DEFINE d == Cardinality(DueBy(msg[x]))
                 m == msg[x]
      <4>1. x \in Elements(timeout_queue) /\ h \in DueBy(msg[x])
        BY <3>1, <3>2, <3>3 DEF DueBy
      <4>2. DueBy(msg[x])' = DueBy(msg[x]) \ {h}
        BY <2>1, <3>1 DEF DueBy, Elements
      <4>3. Cardinality(DueBy(msg[x])') = d - 1 /\ d \in Nat
        <5>1. IsFiniteSet(DueBy(msg[x])) /\ d \in Nat
          BY <1>t, DueByBounded
        <5>2. Cardinality(DueBy(msg[x]) \ {h}) = d - 1
          BY <4>1, <5>1, FS_RemoveElement
        <5> QED
          BY <4>2, <5>1, <5>2
      <4>4. d + (clock - m) <= N
        BY <1>u, <2>1, <3>3, <4>1 DEF LateAtMost
      <4>5. m \in Nat
        BY <1>u, <4>1
      <4> HIDE DEF d, m, N
      <4>6. (d - 1) + (clock - m) <= N - 1
        BY <1>t, <4>3, <4>4, <4>5
      <4> QED
        BY <4>3, <4>6 DEF m
    <3>4. LateAtMost(N - 1)'
      BY <2>1, <3>3 DEF LateAtMost, Elements
    <3>5. Pending' \subseteq Pending
      BY <2>1, <3>1 DEF Pending, Elements
    <3> QED
      BY <2>1, <3>4, <3>5 DEF LatenessInv
  <2>3. CASE timeout_queue = <<>> \/ ~Expired(msg[h])
    <3>1. timeout_queue' = timeout_queue
      BY <1>4, <2>3 DEF check_timeout_queue
    <3>2. \A x \in Elements(timeout_queue) : ~(msg[x] <= clock)
      <4>1. CASE timeout_queue = <<>>
        BY <4>1, EmptySeq DEF Elements
      <4>2. CASE timeout_queue # <<>> /\ ~Expired(msg[h])
        <5>1. h \in Elements(timeout_queue) /\ \A x \in Elements(timeout_queue) : msg[h] <= msg[x]
          BY <2>1, <4>2, HeadIsEarliest
        <5>2. msg[h] \in Nat /\ ~(msg[h] <= clock)
          BY <1>t, <1>u, <4>2, <5>1 DEF Expired
        <5> QED
          BY <1>t, <1>u, <5>1, <5>2
      <4> QED
        BY <2>3, <4>1, <4>2
    <3>3. LateAtMost(N - 1)' /\ Pending' = Pending
      BY <2>1, <3>1, <3>2 DEF LateAtMost, Pending, Elements
    <3> QED
      BY <2>1, <3>3 DEF LatenessInv
  <2> QED
    BY <2>2, <2>3
<1> QED
  BY <1>0, <1>1, <1>2, <1>3, <1>4 DEF Next

(* No delay being negative, an overdue envelope is never late by more      *)
(* ticks than there are other envelopes in the service, less one.          *)
THEOREM LatenessBounded ==
    ASSUME Delay \subseteq Nat
    PROVE  Spec => []BoundedLateness
<1>1. Init => LatenessInv
  <2> SUFFICES ASSUME Init PROVE LatenessInv
    OBVIOUS
  <2>1. Elements(<<>>) = {}
    BY EmptySeq DEF Elements
  <2> QED
    BY <2>1 DEF Init, LatenessInv, LateAtMost, Pending
<1>2. TimerInv /\ LatenessInv /\ [Next]_vars => LatenessInv'
  BY LatenessInvNext
<1>3. TimerInv /\ LatenessInv => BoundedLateness
  <2> SUFFICES ASSUME TimerInv, LatenessInv, running = "user",
                      NEW env \in Elements(timeout_queue)
               PROVE  clock - msg[env] <= Cardinality(Env) - 2
    BY DEF BoundedLateness
  <2> DEFINE d == Cardinality(DueBy(msg[env]))
             m == msg[env]
             N == Cardinality(Env)
  <2>1. /\ clock \in Nat /\ timeout_queue \in Seq(Env) /\ env \in Env /\ m \in Nat
        /\ N \in Nat
    BY MaxTimeIsNat, DueByBounded DEF TimerInv, TypeOK, Elements, LatenessInv, Pending
  <2>2. d # 0 /\ d \in Nat
    <3>1. m <= m
      BY <2>1
    <3>2. env \in DueBy(m)
      BY <3>1 DEF DueBy
    <3> QED
      BY <2>1, <3>2, DueByBounded, FS_EmptySet
  <2>3. N # 0
    BY <2>1, EnvIsFinite, FS_EmptySet
  <2>4. m <= clock => d + (clock - m) <= N - 1
    BY DEF LatenessInv, LateAtMost
  <2> HIDE DEF d, m, N
  <2>5. clock - m <= N - 2
    BY <2>1, <2>2, <2>3, <2>4
  <2> QED
    BY <2>5 DEF m, N
<1> QED
  BY <1>1, <1>2, <1>3, TimerInvAlways, PTL DEF Spec
=============================================================================
