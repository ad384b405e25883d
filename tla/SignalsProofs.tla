----------------------------- MODULE SignalsProofs -----------------------------
(***************************************************************************)
(* A primitive is not interrupted, in Signals with any number of processes *)
(* and of signals: what allows Kernel to take a primitive for one step.    *)
(*                                                                         *)
(* The counter of a process is the number of the calls of atomic(ON) on    *)
(* its stack that atomic(OFF) has not undone yet, its own and those of the *)
(* handlers interrupted on top of it.  Hence a primitive that no handler   *)
(* runs on top of finds a count of 1 and blocks the signals, and the mask  *)
(* does not change before it counts down again.                            *)
(*                                                                         *)
(* The mask a section saves goes into one variable of the kernel.  Nobody  *)
(* else's call overwrites it: whoever blocks the signals is not            *)
(* interrupted, and whoever leaves the processor inside a section does so  *)
(* with nothing on its stack and an empty mask saved, as the next one      *)
(* finds it.  Hence the second invariant, StackInv, which ties the mask to *)
(* the stack of the process that runs and holds until a handler runs into  *)
(* the assertion on flag.                                                  *)
(***************************************************************************)
EXTENDS Signals, FiniteSets, FiniteSetTheorems, SequenceTheorems, TLAPS

-----------------------------------------------------------------------------
(* The inductive invariant                                                 *)

CountedPlaces == {"counted", "enter", "away", "off"}

CountedFrames(f) == {i \in 1 .. Len(f) : f[i].at \in CountedPlaces}

(* The calls of atomic(ON) of p itself that are not undone.                *)
OwnCalls(p) == IF p \in User /\ at[p] \in {"counted", "kernel"} THEN 1 ELSE 0

CountsCalls ==
    \A p \in Process : atomic_count[p] = OwnCalls(p) + Cardinality(CountedFrames(frames[p]))

(* The user process that runs, or would but for an i-process.              *)
Runner == IF current_process \in Signal THEN interrupted_process ELSE current_process

(* Every other user process has left the processor inside a primitive.     *)
OthersInKernel ==
    \A p \in User \ {Runner} : at[p] = "kernel" /\ frames[p] = <<>>

IProcessesRunAlone ==
    /\ Runner \in User
    /\ flag = 1 <=> current_process \in Signal
    /\ current_process \in Signal => frames[Runner] # <<>> /\ Innermost(Runner).at = "away"
    /\ \A p \in Signal : p # current_process => frames[p] = <<>>

RunnerInKernel ==
    at[Runner] = "kernel" => /\ current_process = Runner
                             /\ frames[Runner] = <<>>
                             /\ blocked = Signal

Typed ==
    /\ current_process \in Process
    /\ interrupted_process \in Process \cup {NULL}
    /\ atomic_count \in [Process -> Int]
    /\ at \in [Process -> {"user", "counted", "kernel", "uncounted"}]
    /\ frames \in [Process -> Seq(Frame)]
    /\ blocked \subseteq Signal
    /\ oldmask \subseteq Signal
    /\ pending \subseteq Signal
    /\ flag \in {0, 1}
    /\ aborted \in BOOLEAN

MaskInv == Typed /\ CountsCalls /\ OthersInKernel /\ IProcessesRunAlone /\ RunnerInKernel

-----------------------------------------------------------------------------
(* Stacks of handlers                                                      *)

LEMMA CountIsNat ==
    ASSUME NEW f \in Seq(Frame)
    PROVE  IsFiniteSet(CountedFrames(f)) /\ Cardinality(CountedFrames(f)) \in Nat
<1>1. IsFiniteSet(1 .. Len(f)) /\ CountedFrames(f) \subseteq 1 .. Len(f)
  <2>1. Len(f) \in Nat
    OBVIOUS
  <2> QED
    BY <2>1, FS_Interval DEF CountedFrames
<1> QED
  BY <1>1, FS_Subset, FS_CardinalityType

(* A handler that has just started does not count.                         *)
LEMMA PushFrame ==
    ASSUME NEW f \in Seq(Frame), NEW g \in Frame, g.at = "on"
    PROVE  /\ Append(f, g) \in Seq(Frame)
           /\ CountedFrames(Append(f, g)) = CountedFrames(f)
<1>1. /\ Append(f, g) \in Seq(Frame) /\ Len(f) \in Nat /\ Len(Append(f, g)) = Len(f) + 1
      /\ \A i \in 1 .. Len(f) : Append(f, g)[i] = f[i]
      /\ Append(f, g)[Len(f) + 1] = g
  OBVIOUS
<1>2. \A i \in 1 .. Len(f) + 1 : i \in 1 .. Len(f) \/ i = Len(f) + 1
  BY <1>1
<1>3. \A i \in 1 .. Len(f) : i \in 1 .. Len(f) + 1
  BY <1>1
<1>4. g.at \notin CountedPlaces
  BY DEF CountedPlaces
<1> QED
  BY <1>1, <1>2, <1>3, <1>4, Zenon DEF CountedFrames

(* All but the innermost handler.                                          *)
LEMMA SubSeqFront ==
    ASSUME NEW f \in Seq(Frame), f # <<>>
    PROVE  LET g == SubSeq(f, 1, Len(f) - 1)
           IN  /\ g \in Seq(Frame) /\ Len(g) = Len(f) - 1
               /\ \A i \in 1 .. Len(f) - 1 : g[i] = f[i]
<1> DEFINE g == SubSeq(f, 1, Len(f) - 1)
<1>1. Len(f) \in Nat /\ Len(f) # 0 /\ \A i \in 1 .. Len(f) - 1 : f[i] \in Frame
  OBVIOUS
<1>2. Len(f) - 1 \in Int /\ 1 \in Int /\ Len(f) - 1 = (Len(f) - 1) - 1 + 1
  BY <1>1
<1>3. /\ g \in Seq(Frame)
      /\ Len(g) = IF 1 <= Len(f) - 1 THEN (Len(f) - 1) - 1 + 1 ELSE 0
      /\ \A i \in 1 .. (Len(f) - 1) - 1 + 1 : g[i] = f[1 + i - 1]
  BY <1>1, <1>2, SubSeqProperties
<1> HIDE DEF g
<1>4. Len(g) = Len(f) - 1
  <2>1. \A n \in Nat : n # 0 => (IF 1 <= n - 1 THEN (n - 1) - 1 + 1 ELSE 0) = n - 1
    OBVIOUS
  <2> QED
    BY <1>1, <1>3, <2>1, Zenon
<1>5. \A i \in 1 .. Len(g) : i \in 1 .. (Len(f) - 1) - 1 + 1 /\ 1 + i - 1 = i
  BY <1>1, <1>4
<1>6. \A i \in 1 .. Len(g) : g[i] = f[i]
  BY <1>3, <1>5
<1>7. \A i \in 1 .. Len(f) - 1 : g[i] = f[i]
  BY <1>4, <1>6
<1> QED
  BY <1>3, <1>4, <1>7 DEF g

(* Nor does one that is about to return.                                   *)
LEMMA PopFrame ==
    ASSUME NEW f \in Seq(Frame), f # <<>>, f[Len(f)].at = "return"
    PROVE  /\ SubSeq(f, 1, Len(f) - 1) \in Seq(Frame)
           /\ CountedFrames(SubSeq(f, 1, Len(f) - 1)) = CountedFrames(f)
<1> DEFINE g == SubSeq(f, 1, Len(f) - 1)
<1>1. /\ g \in Seq(Frame) /\ Len(f) \in Nat /\ Len(f) # 0 /\ Len(g) = Len(f) - 1
      /\ \A i \in 1 .. Len(g) : g[i] = f[i]
  <2>1. Len(f) \in Nat /\ Len(f) # 0
    OBVIOUS
  <2> QED
    BY <2>1, SubSeqFront
<1>2. \A i \in 1 .. Len(f) : i \in 1 .. Len(g) \/ i = Len(f)
  BY <1>1
<1>3. \A i \in 1 .. Len(g) : i \in 1 .. Len(f)
  BY <1>1
<1>4. f[Len(f)].at \notin CountedPlaces
  BY DEF CountedPlaces
<1> HIDE DEF g
<1>5. CountedFrames(g) = CountedFrames(f)
  BY <1>1, <1>2, <1>3, <1>4, Zenon DEF CountedFrames
<1> QED
  BY <1>1, <1>5 DEF g

(* The innermost handler goes on from one place to another.                *)
LEMMA MoveFrame ==
    ASSUME NEW f \in Seq(Frame), f # <<>>,
           NEW place \in {"on", "counted", "enter", "away", "off", "uncounted", "return"}
    PROVE  LET g == [f EXCEPT ![Len(f)].at = place]
           IN  /\ g \in Seq(Frame) /\ g # <<>> /\ Len(g) = Len(f) /\ g[Len(f)].at = place
               /\ CountedFrames(g) = IF place \in CountedPlaces
                                     THEN CountedFrames(f) \cup {Len(f)}
                                     ELSE CountedFrames(f) \ {Len(f)}
<1> DEFINE n == Len(f)
           g == [f EXCEPT ![n].at = place]
<1>1. n \in Nat /\ n # 0 /\ f \in [1 .. n -> Frame] /\ n \in 1 .. n
  OBVIOUS
<1>2. [f[n] EXCEPT !.at = place] \in Frame /\ [f[n] EXCEPT !.at = place].at = place
  <2>1. f[n] \in Frame
    BY <1>1
  <2> QED
    BY <2>1 DEF Frame
<1>3. /\ g \in [1 .. n -> Frame]
      /\ g[n].at = place
      /\ \A i \in 1 .. n : i # n => g[i] = f[i]
  BY <1>1, <1>2
<1>4. g \in Seq(Frame) /\ Len(g) = n /\ g # <<>>
  BY <1>1, <1>3
<1>5. CountedFrames(g) = IF place \in CountedPlaces
                         THEN CountedFrames(f) \cup {n} ELSE CountedFrames(f) \ {n}
  <2> HIDE DEF g
  <2>1. CountedFrames(g) = {i \in 1 .. n : g[i].at \in CountedPlaces}
    BY <1>4 DEF CountedFrames
  <2>2. CountedFrames(f) = {i \in 1 .. n : f[i].at \in CountedPlaces}
    BY DEF CountedFrames
  <2> HIDE DEF n
  <2> QED
    BY <1>1, <1>3, <2>1, <2>2, Zenon
<1> QED
  BY <1>3, <1>4, <1>5

(* What that does to the count.                                            *)
LEMMA MoveCounts ==
    ASSUME NEW f \in Seq(Frame), f # <<>>,
           NEW place \in {"on", "counted", "enter", "away", "off", "uncounted", "return"}
    PROVE  LET g == [f EXCEPT ![Len(f)].at = place]
               was == f[Len(f)].at
           IN  /\ g \in Seq(Frame) /\ g # <<>> /\ g[Len(g)].at = place
               /\ (was \in CountedPlaces <=> place \in CountedPlaces)
                    => Cardinality(CountedFrames(g)) = Cardinality(CountedFrames(f))
               /\ was \notin CountedPlaces /\ place \in CountedPlaces
                    => Cardinality(CountedFrames(g)) = Cardinality(CountedFrames(f)) + 1
               /\ was \in CountedPlaces /\ place \notin CountedPlaces
                    => Cardinality(CountedFrames(g)) = Cardinality(CountedFrames(f)) - 1
<1> DEFINE g == [f EXCEPT ![Len(f)].at = place]
           C == CountedFrames(f)
<1>1. /\ g \in Seq(Frame) /\ g # <<>> /\ g[Len(g)].at = place
      /\ CountedFrames(g) = IF place \in CountedPlaces THEN C \cup {Len(f)} ELSE C \ {Len(f)}
  <2>1. /\ g \in Seq(Frame) /\ g # <<>> /\ Len(g) = Len(f) /\ g[Len(f)].at = place
        /\ CountedFrames(g) = IF place \in CountedPlaces THEN C \cup {Len(f)} ELSE C \ {Len(f)}
    BY MoveFrame
  <2> HIDE DEF g, C
  <2> QED
    BY <2>1
<1>2. Len(f) \in 1 .. Len(f)
  OBVIOUS
<1>3. Len(f) \in C <=> f[Len(f)].at \in CountedPlaces
  BY <1>2 DEF CountedFrames
<1>4. IsFiniteSet(C) /\ Cardinality(C) \in Nat
  BY CountIsNat
<1>5. /\ Cardinality(C \cup {Len(f)}) =
            IF Len(f) \in C THEN Cardinality(C) ELSE Cardinality(C) + 1
      /\ Cardinality(C \ {Len(f)}) =
            IF Len(f) \in C THEN Cardinality(C) - 1 ELSE Cardinality(C)
  BY <1>4, FS_AddElement, FS_RemoveElement
<1> HIDE DEF g, C
<1>6. /\ g \in Seq(Frame) /\ g # <<>> /\ g[Len(g)].at = place
      /\ (f[Len(f)].at \in CountedPlaces <=> place \in CountedPlaces)
           => Cardinality(CountedFrames(g)) = Cardinality(C)
      /\ f[Len(f)].at \notin CountedPlaces /\ place \in CountedPlaces
           => Cardinality(CountedFrames(g)) = Cardinality(C) + 1
      /\ f[Len(f)].at \in CountedPlaces /\ place \notin CountedPlaces
           => Cardinality(CountedFrames(g)) = Cardinality(C) - 1
  BY <1>1, <1>3, <1>5
<1> QED
  BY <1>6 DEF g, C
(* A step of the handler on top of the stack of p.                         *)
LEMMA MovedKeeps ==
    ASSUME Typed, NEW p \in Process, frames[p] # <<>>,
           NEW place \in {"on", "counted", "enter", "away", "off", "uncounted", "return"}
    PROVE  /\ Moved(p, place) \in [Process -> Seq(Frame)]
           /\ Moved(p, place)[p] # <<>>
           /\ Moved(p, place)[p][Len(Moved(p, place)[p])].at = place
           /\ \A q \in Process : q # p => Moved(p, place)[q] = frames[q]
           /\ (Innermost(p).at \in CountedPlaces <=> place \in CountedPlaces)
                => Cardinality(CountedFrames(Moved(p, place)[p]))
                     = Cardinality(CountedFrames(frames[p]))
           /\ Innermost(p).at \notin CountedPlaces /\ place \in CountedPlaces
                => Cardinality(CountedFrames(Moved(p, place)[p]))
                     = Cardinality(CountedFrames(frames[p])) + 1
           /\ Innermost(p).at \in CountedPlaces /\ place \notin CountedPlaces
                => Cardinality(CountedFrames(Moved(p, place)[p]))
                     = Cardinality(CountedFrames(frames[p])) - 1
<1> DEFINE f == frames[p]
           g == [f EXCEPT ![Len(f)].at = place]
<1>1. f \in Seq(Frame) /\ frames \in [Process -> Seq(Frame)] /\ f # <<>>
  BY DEF Typed
<1>2. Moved(p, place) = [frames EXCEPT ![p] = g]
  BY DEF Moved
<1>3. Innermost(p) = f[Len(f)]
  BY DEF Innermost
<1>4. LET was == f[Len(f)].at
      IN  /\ g \in Seq(Frame) /\ g # <<>> /\ g[Len(g)].at = place
          /\ (was \in CountedPlaces <=> place \in CountedPlaces)
               => Cardinality(CountedFrames(g)) = Cardinality(CountedFrames(f))
          /\ was \notin CountedPlaces /\ place \in CountedPlaces
               => Cardinality(CountedFrames(g)) = Cardinality(CountedFrames(f)) + 1
          /\ was \in CountedPlaces /\ place \notin CountedPlaces
               => Cardinality(CountedFrames(g)) = Cardinality(CountedFrames(f)) - 1
  <2> HIDE DEF f
  <2> QED
    BY <1>1, MoveCounts
<1> HIDE DEF g
<1>5. /\ Moved(p, place) \in [Process -> Seq(Frame)]
      /\ Moved(p, place)[p] = g
      /\ \A q \in Process : q # p => Moved(p, place)[q] = frames[q]
  BY <1>1, <1>2, <1>4
<1> QED
  BY <1>3, <1>4, <1>5

-----------------------------------------------------------------------------
(* The invariant holds at boot, and every step preserves it: those of the *)
(* user processes first, the signals and then those of the handlers.       *)
LEMMA MaskInvInit == Init => MaskInv
<1> SUFFICES ASSUME Init PROVE MaskInv
  OBVIOUS
<1>1. CountedFrames(<<>>) = {}
  BY DEF CountedFrames
<1>2. Cardinality(CountedFrames(<<>>)) = 0
  BY <1>1, FS_EmptySet
<1>3. current_process \in User /\ current_process \notin Signal /\ Runner = current_process
  BY UserAssumption DEF Init, Runner
<1>4. Typed
  <2>1. <<>> \in Seq(Frame)
    BY EmptySeq
  <2>2. atomic_count \in [Process -> Int] /\ frames \in [Process -> Seq(Frame)]
    BY <2>1 DEF Init, InitialCount
  <2> QED
    BY <1>3, <2>2 DEF Init, Typed, Process
<1>5. CountsCalls
  BY <1>2, <1>3, UserAssumption DEF Init, CountsCalls, OwnCalls, InitialCount, Process
<1>6. OthersInKernel /\ IProcessesRunAlone /\ RunnerInKernel
  BY <1>3 DEF Init, OthersInKernel, IProcessesRunAlone, RunnerInKernel, Process
<1> QED
  BY <1>4, <1>5, <1>6 DEF MaskInv

LEMMA MaskInvNext == MaskInv /\ [Next]_vars => MaskInv'
<1> SUFFICES ASSUME MaskInv, [Next]_vars PROVE MaskInv'
  OBVIOUS
<1> USE DEF MaskInv
<1>a. /\ User \subseteq Process /\ Signal \subseteq Process /\ current_process \in Process
      /\ \A p \in User : p \notin Signal
      /\ \A p \in Process : p \in User \/ p \in Signal
  BY UserAssumption DEF Process, Typed
<1>b. /\ frames[current_process] \in Seq(Frame)
      /\ atomic_count[current_process] =
            OwnCalls(current_process) + Cardinality(CountedFrames(frames[current_process]))
      /\ Cardinality(CountedFrames(frames[current_process])) \in Nat
  BY <1>a, CountIsNat DEF Typed, CountsCalls
<1>0. CASE UNCHANGED vars
  BY <1>0 DEF vars, Typed, CountsCalls, OwnCalls, OthersInKernel, IProcessesRunAlone,
              RunnerInKernel, Runner, Innermost
<1>1. CASE EnterPrimitive
  <2> USE DEF EnterPrimitive, InProcess, CountUp, GoTo
  <2>1. Runner' = Runner /\ Runner = current_process /\ current_process \in User
    BY <1>1, <1>a DEF Runner
  <2>2. Typed'
    BY <1>1, <1>a DEF Typed
  <2>3. CountsCalls'
    BY <1>1, <1>a, <1>b, <2>1 DEF Typed, CountsCalls, OwnCalls
  <2>4. OthersInKernel' /\ IProcessesRunAlone' /\ RunnerInKernel'
    BY <1>1, <1>a, <2>1 DEF Typed, OthersInKernel, IProcessesRunAlone, RunnerInKernel
  <2> QED
    BY <2>2, <2>3, <2>4
<1>2. CASE MaskPrimitive
  <2> USE DEF MaskPrimitive, InProcess, GoTo
  <2>1. Runner' = Runner /\ Runner = current_process /\ current_process \in User
    BY <1>2, <1>a DEF Runner
  <2>2. Typed'
    BY <1>2, <1>a DEF Typed, BlockSignals
  <2>3. CountsCalls'
    BY <1>2, <1>a DEF Typed, CountsCalls, OwnCalls
  <2>4. OthersInKernel' /\ IProcessesRunAlone'
    BY <1>2, <1>a, <2>1 DEF Typed, OthersInKernel, IProcessesRunAlone
  <2>5. FirstOn
    <3>1. CountedFrames(<<>>) = {}
      BY DEF CountedFrames
    <3>2. Cardinality(CountedFrames(<<>>)) = 0
      BY <3>1, FS_EmptySet
    <3> QED
      BY <1>2, <1>b, <2>1, <3>2 DEF FirstOn, OwnCalls
  <2>6. RunnerInKernel'
    BY <1>2, <1>a, <2>1, <2>5 DEF Typed, RunnerInKernel, BlockSignals
  <2> QED
    BY <2>2, <2>3, <2>4, <2>6
<1>3. CASE LeavePrimitive
  <2> USE DEF LeavePrimitive, InProcess, CountDown, GoTo
  <2>1. Runner' = Runner /\ Runner = current_process /\ current_process \in User
    BY <1>3, <1>a DEF Runner
  <2>2. Typed'
    BY <1>3, <1>a DEF Typed
  <2>3. CountsCalls'
    BY <1>3, <1>a, <1>b DEF Typed, CountsCalls, OwnCalls
  <2>4. OthersInKernel' /\ IProcessesRunAlone' /\ RunnerInKernel'
    BY <1>3, <1>a, <2>1 DEF Typed, OthersInKernel, IProcessesRunAlone, RunnerInKernel
  <2> QED
    BY <2>2, <2>3, <2>4
<1>4. CASE UnmaskPrimitive
  <2> USE DEF UnmaskPrimitive, InProcess, GoTo
  <2>1. Runner' = Runner /\ Runner = current_process /\ current_process \in User
    BY <1>4, <1>a DEF Runner
  <2>2. Typed'
    BY <1>4, <1>a DEF Typed, RestoreMask
  <2>3. CountsCalls'
    BY <1>4, <1>a DEF Typed, CountsCalls, OwnCalls
  <2>4. OthersInKernel' /\ IProcessesRunAlone' /\ RunnerInKernel'
    BY <1>4, <1>a, <2>1 DEF Typed, OthersInKernel, IProcessesRunAlone, RunnerInKernel
  <2> QED
    BY <2>2, <2>3, <2>4
<1>5. ASSUME NEW p \in User, SwitchTo(p) PROVE MaskInv'
  <2> USE DEF SwitchTo, InProcess
  <2>1. /\ Runner' = p /\ Runner = current_process
        /\ p \notin Signal /\ current_process \notin Signal /\ p # current_process
    BY <1>5, <1>a DEF Runner
  <2>2. Typed' /\ CountsCalls'
    BY <1>5, <1>a DEF Typed, CountsCalls, OwnCalls
  <2>3. OthersInKernel'
    BY <1>5, <2>1 DEF OthersInKernel
  <2>4. IProcessesRunAlone' /\ RunnerInKernel'
    BY <1>5, <1>a, <2>1 DEF OthersInKernel, IProcessesRunAlone, RunnerInKernel
  <2> QED
    BY <2>2, <2>3, <2>4
<1>6. ASSUME NEW sig \in Signal, Raise(sig) PROVE MaskInv'
  BY <1>6 DEF Raise, Typed, CountsCalls, OwnCalls, OthersInKernel, IProcessesRunAlone,
              RunnerInKernel, Runner, Innermost
<1>7. ASSUME NEW sig \in Signal, Deliver(sig) PROVE MaskInv'
  <2> DEFINE f == frames[current_process]
             g == [sig |-> sig, mask |-> blocked, at |-> "on"]
  <2>1. g \in Frame /\ g.at = "on"
    BY DEF Frame, Typed
  <2>2. Append(f, g) \in Seq(Frame) /\ CountedFrames(Append(f, g)) = CountedFrames(f)
    BY <1>b, <2>1, PushFrame
  <2>3. Append(f, g) # <<>>
    <3>1. \A e : Append(f, e) # <<>>
      BY <1>b
    <3> QED
      BY <3>1
  <2> HIDE DEF g
  <2>4. frames' = [frames EXCEPT ![current_process] = Append(f, g)]
    BY <1>7 DEF Deliver, g
  <2>5. Runner' = Runner
    BY <1>7 DEF Deliver, Runner
  <2>6. Typed'
    BY <1>7, <1>a, <2>2, <2>4 DEF Typed, Deliver
  <2>7. CountsCalls'
    BY <1>7, <1>a, <2>2, <2>4 DEF Typed, CountsCalls, OwnCalls, Deliver
  <2>8. Runner = current_process => at[Runner] # "kernel"
    BY <1>7 DEF Deliver, RunnerInKernel
  <2>9. current_process = Runner \/ current_process \in Signal
    BY DEF Runner
  <2>10. OthersInKernel'
    BY <1>7, <1>a, <2>4, <2>5, <2>9 DEF OthersInKernel, Deliver, Typed
  <2>11. IProcessesRunAlone'
    BY <1>7, <1>a, <2>3, <2>4, <2>5 DEF IProcessesRunAlone, Innermost, Deliver, Typed
  <2>12. RunnerInKernel'
    BY <1>7, <2>5, <2>8 DEF RunnerInKernel, Deliver
  <2> QED
    BY <2>6, <2>7, <2>10, <2>11, <2>12
<1>8. CASE HandlerStep
  <2> DEFINE f == frames[current_process]
  <2>1. ASSUME NEW place \in {"counted", "enter", "uncounted", "return"},
               f # <<>>, frames' = Moved(current_process, place),
               UNCHANGED <<current_process, interrupted_process, at, pending, flag, aborted>>,
               blocked' \subseteq Signal, oldmask' \subseteq Signal,
               atomic_count' \in [Process -> Int],
               \A p \in Process : p # current_process => atomic_count'[p] = atomic_count[p],
               atomic_count'[current_process] - atomic_count[current_process]
                 = Cardinality(CountedFrames(frames'[current_process])) - Cardinality(CountedFrames(f))
        PROVE  MaskInv'
    <3>1. /\ frames' \in [Process -> Seq(Frame)]
          /\ frames'[current_process] # <<>>
          /\ \A q \in Process : q # current_process => frames'[q] = frames[q]
      BY <1>a, <2>1, MovedKeeps
    <3>2. Runner' = Runner
      BY <2>1 DEF Runner
    <3>3. current_process = Runner \/ current_process \in Signal
      BY DEF Runner
    <3>4. Typed'
      BY <2>1, <3>1 DEF Typed
    <3>5. CountsCalls'
      <4>1. Cardinality(CountedFrames(frames'[current_process])) \in Nat
        BY <1>a, <3>1, CountIsNat
      <4>2. \A p \in Process : OwnCalls(p)' = OwnCalls(p) /\ OwnCalls(p) \in Int
        BY <2>1 DEF OwnCalls
      <4>3. \A a, b, c, d, n \in Int : a = n + c /\ b - a = d - c => b = n + d
        OBVIOUS
      <4>4. /\ atomic_count[current_process] \in Int /\ atomic_count'[current_process] \in Int
            /\ OwnCalls(current_process) \in Int
        BY <1>a, <2>1, <4>2 DEF Typed
      <4>5. atomic_count'[current_process] =
              OwnCalls(current_process) + Cardinality(CountedFrames(frames'[current_process]))
        BY <1>b, <2>1, <4>1, <4>3, <4>4
      <4> QED
        BY <2>1, <3>1, <4>2, <4>5 DEF CountsCalls
    <3>6. OthersInKernel'
      BY <1>a, <2>1, <3>1, <3>2, <3>3 DEF OthersInKernel
    <3>7. IProcessesRunAlone'
      BY <1>a, <2>1, <3>1, <3>2 DEF IProcessesRunAlone, Innermost
    <3>8. RunnerInKernel'
      BY <2>1, <3>2, <3>3 DEF RunnerInKernel, IProcessesRunAlone
    <3> QED
      BY <3>4, <3>5, <3>6, <3>7, <3>8
  <2>2. CASE HandlerOn
    <3> USE DEF HandlerOn, InHandler, CountUp
    <3>1. Cardinality(CountedFrames(frames'[current_process])) = Cardinality(CountedFrames(f)) + 1
      BY <1>a, <2>2, MovedKeeps DEF CountedPlaces
    <3>2. /\ atomic_count' \in [Process -> Int]
          /\ atomic_count'[current_process] = atomic_count[current_process] + 1
          /\ \A p \in Process : p # current_process => atomic_count'[p] = atomic_count[p]
      BY <1>a, <2>2 DEF Typed
    <3>3. atomic_count'[current_process] - atomic_count[current_process]
            = Cardinality(CountedFrames(frames'[current_process])) - Cardinality(CountedFrames(f))
      BY <1>a, <1>b, <3>1, <3>2 DEF Typed
    <3> QED
      BY <2>1, <2>2, <3>2, <3>3 DEF Typed
  <2>3. CASE HandlerMask
    <3> USE DEF HandlerMask, InHandler
    <3>1. Cardinality(CountedFrames(frames'[current_process])) = Cardinality(CountedFrames(f))
      BY <1>a, <2>3, MovedKeeps DEF CountedPlaces
    <3>2. atomic_count'[current_process] - atomic_count[current_process]
            = Cardinality(CountedFrames(frames'[current_process])) - Cardinality(CountedFrames(f))
      BY <1>a, <1>b, <2>3, <3>1 DEF Typed
    <3>3. blocked' \subseteq Signal /\ oldmask' \subseteq Signal
      BY <2>3 DEF BlockSignals, Typed
    <3> QED
      BY <2>1, <2>3, <3>2, <3>3 DEF Typed
  <2>4. CASE k_i_process_enter
    <3> USE DEF k_i_process_enter, InHandler
    <3>1. CASE flag # 0
      BY <2>4, <3>1 DEF Typed, CountsCalls, OwnCalls, OthersInKernel, IProcessesRunAlone,
                        RunnerInKernel, Runner, Innermost
    <3>2. CASE flag = 0
      <4> DEFINE sig == Innermost(current_process).sig
      <4>1. sig \in Signal
        <5>1. f \in Seq(Frame) /\ f # <<>>
          BY <1>b, <2>4
        <5>2. f[Len(f)] \in Frame
          BY <5>1
        <5> QED
          BY <5>2 DEF Innermost, Frame
      <4>2. /\ current_process \in User /\ Runner = current_process
            /\ current_process' = sig /\ Runner' = current_process
        BY <1>a, <2>4, <3>2, <4>1 DEF IProcessesRunAlone, Runner
      <4>3. /\ frames' = Moved(current_process, "away") /\ f # <<>>
            /\ Innermost(current_process).at = "enter"
        BY <2>4, <3>2
      <4>4. /\ frames' \in [Process -> Seq(Frame)]
            /\ frames'[current_process] # <<>>
            /\ frames'[current_process][Len(frames'[current_process])].at = "away"
            /\ \A q \in Process : q # current_process => frames'[q] = frames[q]
            /\ Cardinality(CountedFrames(frames'[current_process])) = Cardinality(CountedFrames(f))
        BY <1>a, <4>3, MovedKeeps DEF CountedPlaces
      <4> HIDE DEF sig
      <4>5. Typed'
        BY <1>a, <2>4, <3>2, <4>1, <4>2, <4>4 DEF Typed
      <4>6. CountsCalls'
        BY <1>a, <1>b, <2>4, <4>4 DEF CountsCalls, OwnCalls
      <4>7. OthersInKernel'
        BY <1>a, <2>4, <4>2, <4>4 DEF OthersInKernel
      <4>8. IProcessesRunAlone'
        BY <1>a, <2>4, <3>2, <4>1, <4>2, <4>4 DEF IProcessesRunAlone, Innermost
      <4>9. RunnerInKernel'
        BY <2>4, <4>2, <4>3 DEF RunnerInKernel
      <4> QED
        BY <4>5, <4>6, <4>7, <4>8, <4>9
    <3> QED
      BY <3>1, <3>2
  <2>5. CASE k_i_process_exit
    <3> USE DEF k_i_process_exit
    <3>1. /\ Runner = interrupted_process /\ Runner \in User /\ Runner \in Process
          /\ current_process' = Runner /\ Runner' = Runner
          /\ frames[Runner] # <<>> /\ frames' = Moved(Runner, "off")
      BY <1>a, <2>5 DEF IProcessesRunAlone, Runner
    <3>2. Innermost(Runner).at \in CountedPlaces
      BY <2>5, <3>1 DEF IProcessesRunAlone, CountedPlaces
    <3>3. /\ frames' \in [Process -> Seq(Frame)]
          /\ frames'[Runner] # <<>>
          /\ \A q \in Process : q # Runner => frames'[q] = frames[q]
          /\ Cardinality(CountedFrames(frames'[Runner])) = Cardinality(CountedFrames(frames[Runner]))
      BY <3>1, <3>2, MovedKeeps DEF CountedPlaces
    <3>4. Typed'
      BY <2>5, <3>1, <3>3 DEF Typed
    <3>5. CountsCalls'
      BY <2>5, <3>1, <3>3 DEF CountsCalls, OwnCalls
    <3>6. OthersInKernel'
      BY <1>a, <2>5, <3>1, <3>3 DEF OthersInKernel
    <3>7. IProcessesRunAlone'
      BY <1>a, <2>5, <3>1, <3>3 DEF IProcessesRunAlone, Innermost
    <3>8. RunnerInKernel'
      BY <2>5, <3>1 DEF RunnerInKernel
    <3> QED
      BY <3>4, <3>5, <3>6, <3>7, <3>8
  <2>6. CASE HandlerOff
    <3> USE DEF HandlerOff, InHandler, CountDown
    <3>1. Cardinality(CountedFrames(frames'[current_process])) = Cardinality(CountedFrames(f)) - 1
      BY <1>a, <2>6, MovedKeeps DEF CountedPlaces
    <3>2. /\ atomic_count' \in [Process -> Int]
          /\ atomic_count'[current_process] = atomic_count[current_process] - 1
          /\ \A p \in Process : p # current_process => atomic_count'[p] = atomic_count[p]
      BY <1>a, <2>6 DEF Typed
    <3>3. atomic_count'[current_process] - atomic_count[current_process]
            = Cardinality(CountedFrames(frames'[current_process])) - Cardinality(CountedFrames(f))
      BY <1>a, <1>b, <3>1, <3>2 DEF Typed
    <3> QED
      BY <2>1, <2>6, <3>2, <3>3 DEF Typed
  <2>7. CASE HandlerUnmask
    <3> USE DEF HandlerUnmask, InHandler
    <3>1. Cardinality(CountedFrames(frames'[current_process])) = Cardinality(CountedFrames(f))
      BY <1>a, <2>7, MovedKeeps DEF CountedPlaces
    <3>2. atomic_count'[current_process] - atomic_count[current_process]
            = Cardinality(CountedFrames(frames'[current_process])) - Cardinality(CountedFrames(f))
      BY <1>a, <1>b, <2>7, <3>1 DEF Typed
    <3>3. blocked' \subseteq Signal /\ oldmask' \subseteq Signal
      BY <2>7 DEF RestoreMask, Typed
    <3> QED
      BY <2>1, <2>7, <3>2, <3>3 DEF Typed
  <2>8. CASE HandlerReturn
    <3> DEFINE g == SubSeq(f, 1, Len(f) - 1)
    <3> USE DEF HandlerReturn, InHandler
    <3>1. /\ f # <<>> /\ f[Len(f)].at = "return" /\ f \in Seq(Frame)
          /\ frames' = [frames EXCEPT ![current_process] = g]
          /\ blocked' = f[Len(f)].mask
      BY <1>b, <2>8 DEF Innermost
    <3>2. g \in Seq(Frame) /\ CountedFrames(g) = CountedFrames(f)
      BY <3>1, PopFrame
    <3>3. blocked' \subseteq Signal
      <4>1. f[Len(f)] \in Frame
        BY <3>1
      <4> QED
        BY <3>1, <4>1 DEF Frame
    <3>4. Runner' = Runner /\ (current_process = Runner \/ current_process \in Signal)
      BY <2>8 DEF Runner
    <3> HIDE DEF g
    <3>5. Typed'
      BY <1>a, <2>8, <3>1, <3>2, <3>3 DEF Typed
    <3>6. CountsCalls'
      BY <1>a, <2>8, <3>1, <3>2 DEF CountsCalls, OwnCalls, Typed
    <3>7. OthersInKernel'
      BY <1>a, <2>8, <3>1, <3>4 DEF OthersInKernel, Typed
    <3>8. IProcessesRunAlone'
      BY <1>a, <2>8, <3>1, <3>4 DEF IProcessesRunAlone, Innermost, Typed
    <3>9. RunnerInKernel'
      BY <2>8, <3>1, <3>4 DEF RunnerInKernel, IProcessesRunAlone
    <3> QED
      BY <3>5, <3>6, <3>7, <3>8, <3>9
  <2> QED
    BY <1>8, <2>2, <2>3, <2>4, <2>5, <2>6, <2>7, <2>8 DEF HandlerStep
<1> QED
  BY <1>0, <1>1, <1>2, <1>3, <1>4, <1>5, <1>6, <1>7, <1>8 DEF Next, UserStep
-----------------------------------------------------------------------------
LEMMA MaskInvAlways == Spec => []MaskInv
  BY MaskInvInit, MaskInvNext, PTL DEF Spec

(* Every variable has its type, and no counter ever becomes negative.      *)
THEOREM CountersNeverNegative == Spec => []TypeOK
<1>1. MaskInv => TypeOK
  <2> SUFFICES ASSUME MaskInv PROVE TypeOK
    OBVIOUS
  <2>1. \A p \in Process : atomic_count[p] \in Nat
    <3> SUFFICES ASSUME NEW p \in Process PROVE atomic_count[p] \in Nat
      OBVIOUS
    <3>1. OwnCalls(p) \in Nat /\ Cardinality(CountedFrames(frames[p])) \in Nat
      BY CountIsNat DEF OwnCalls, MaskInv, Typed
    <3> QED
      BY <3>1 DEF MaskInv, CountsCalls
  <2> QED
    BY <2>1 DEF MaskInv, Typed, TypeOK
<1> QED
  BY <1>1, MaskInvAlways, PTL

(* The work of a primitive, between atomic(ON) and atomic(OFF), is not     *)
(* interrupted, whatever the number of processes and signals.              *)
THEOREM PrimitivesAtomic == Spec => []PrimitivesNotInterrupted
<1>1. MaskInv => PrimitivesNotInterrupted
  BY UserAssumption DEF MaskInv, OthersInKernel, RunnerInKernel, Runner,
                        PrimitivesNotInterrupted
<1> QED
  BY <1>1, MaskInvAlways, PTL
-----------------------------------------------------------------------------
(* Where the mask is: on the stack of the user process that runs, or would *)
(* but for an i-process, every handler was entered with the mask of the    *)
(* one below it and its signal, since a handler that has blocked all the   *)
(* signals is never interrupted; only the first call of atomic(ON) on the  *)
(* stack blocks them, and oldmask then holds the mask it found.            *)

MaskOf(g) == g.mask \cup {g.sig}

MaskedPlaces == {"enter", "away", "off", "uncounted"}

FirstCall(f, i) == \A j \in 1 .. i - 1 : f[j].at \notin CountedPlaces

(* Handler i of stack f has blocked the signals; own: see OwnCalls.        *)
Masked(own, f, i) == own = 0 /\ f[i].at \in MaskedPlaces /\ FirstCall(f, i)

WellStacked(own, f) ==
    /\ f # <<>> => f[1].mask = {}
    /\ \A i \in 1 .. Len(f) - 1 : /\ f[i + 1].mask = MaskOf(f[i])
                                  /\ f[i].at # "away"
                                  /\ ~Masked(own, f, i)

TopMasked(own, f, b, o) ==
    IF Masked(own, f, Len(f)) THEN b = Signal /\ o = MaskOf(f[Len(f)])
                              ELSE b = MaskOf(f[Len(f)])

(* A handler interrupts an i-process: it will run into the assertion.      *)
Astray == current_process \in Signal /\ frames[current_process] # <<>>

NeverReturn ==
    \A p \in Signal : \A i \in 1 .. Len(frames[p]) :
        frames[p][i].at \in {"on", "counted", "enter"}

MaskInStep ==
    LET f == frames[Runner] IN
    /\ WellStacked(OwnCalls(Runner), f)
    /\ f # <<>> => /\ at[Runner] \in {"user", "counted"}
                   /\ f[Len(f)].at = "away" => current_process \in Signal
                   /\ TopMasked(OwnCalls(Runner), f, blocked, oldmask)
    /\ f = <<>> => IF at[Runner] \in {"user", "counted"}
                   THEN blocked = {} ELSE blocked = Signal /\ oldmask = {}

StackInv == NeverReturn /\ (Astray \/ MaskInStep)

-----------------------------------------------------------------------------
(* What a handler that starts, goes on or returns does to a stack          *)

(* The count tells atomic whether a handler's call is the first.           *)
LEMMA CountTellsFirst ==
    ASSUME NEW f \in Seq(Frame), f # <<>>
    PROVE  /\ f[Len(f)].at \in CountedPlaces
                => (Cardinality(CountedFrames(f)) = 1 <=> FirstCall(f, Len(f)))
           /\ f[Len(f)].at \in CountedPlaces => Cardinality(CountedFrames(f)) # 0
           /\ f[Len(f)].at \notin CountedPlaces
                => (Cardinality(CountedFrames(f)) = 0 <=> FirstCall(f, Len(f)))
<1> DEFINE n == Len(f)
           C == CountedFrames(f)
<1>1. n \in Nat /\ n # 0 /\ n \in 1 .. n
  OBVIOUS
<1>2. IsFiniteSet(C) /\ Cardinality(C) \in Nat
  BY CountIsNat
<1>3. /\ \A i : i \in C <=> i \in 1 .. n /\ f[i].at \in CountedPlaces
      /\ FirstCall(f, n) <=> \A j \in 1 .. n - 1 : f[j].at \notin CountedPlaces
  BY DEF CountedFrames, FirstCall
<1>4. \A i : i \in 1 .. n <=> i \in 1 .. n - 1 \/ i = n
  BY <1>1
<1>5. n \notin 1 .. n - 1
  BY <1>1
<1>6. FirstCall(f, n) <=> C \subseteq {n}
  <2> HIDE DEF C, n
  <2> QED
    BY <1>3, <1>4, <1>5
<1>7. n \in C <=> f[n].at \in CountedPlaces
  BY <1>1, <1>3
<1>8. Cardinality(C) = 0 <=> C = {}
  BY <1>2, FS_EmptySet
<1>9. Cardinality(C) = 1 <=> \E x : C = {x}
  BY <1>2, FS_Singleton
<1> HIDE DEF C, n
<1>10. n \in C => (C \subseteq {n} <=> \E x : C = {x})
  BY Zenon
<1>11. n \notin C => (C \subseteq {n} <=> C = {})
  BY Zenon
<1>12. n \in C => C # {}
  OBVIOUS
<1>13. /\ f[n].at \in CountedPlaces => (Cardinality(C) = 1 <=> FirstCall(f, n))
       /\ f[n].at \in CountedPlaces => Cardinality(C) # 0
       /\ f[n].at \notin CountedPlaces => (Cardinality(C) = 0 <=> FirstCall(f, n))
  BY <1>6, <1>7, <1>8, <1>9, <1>10, <1>11, <1>12, Zenon
<1> QED
  BY <1>13 DEF C, n

LEMMA StackPushed ==
    ASSUME NEW own, NEW f \in Seq(Frame), NEW g \in Frame, g.at = "on",
           WellStacked(own, f),
           f = <<>> => g.mask = {},
           f # <<>> => /\ g.mask = MaskOf(f[Len(f)])
                       /\ f[Len(f)].at # "away"
                       /\ ~Masked(own, f, Len(f))
    PROVE  LET h == Append(f, g)
           IN  /\ h \in Seq(Frame) /\ h # <<>> /\ h[Len(h)] = g
               /\ WellStacked(own, h) /\ ~Masked(own, h, Len(h))
<1> DEFINE n == Len(f)
           h == Append(f, g)
<1>1. /\ n \in Nat /\ h \in Seq(Frame) /\ Len(h) = n + 1 /\ h # <<>>
      /\ h[n + 1] = g
      /\ \A i \in 1 .. n : h[i] = f[i]
      /\ f = <<>> <=> n = 0
  <2>1. n \in Nat /\ h \in Seq(Frame) /\ Len(h) = n + 1
    OBVIOUS
  <2>2. h # <<>>
    <3> HIDE DEF n, h
    <3>1. Len(h) # 0
      BY <2>1
    <3> QED
      BY <3>1
  <2>3. h[n + 1] = g /\ \A i \in 1 .. n : h[i] = f[i]
    OBVIOUS
  <2>4. f = <<>> <=> n = 0
    OBVIOUS
  <2> QED
    BY <2>1, <2>2, <2>3, <2>4, Zenon
<1> HIDE DEF h
<1>2. \A i \in 1 .. n : \A j \in 1 .. i - 1 : j \in 1 .. n
  BY <1>1
<1>3. \A i \in 1 .. n : Masked(own, h, i) <=> Masked(own, f, i)
  <2> SUFFICES ASSUME NEW i \in 1 .. n PROVE Masked(own, h, i) <=> Masked(own, f, i)
    OBVIOUS
  <2>1. FirstCall(h, i) <=> FirstCall(f, i)
    BY <1>1, <1>2 DEF FirstCall
  <2> QED
    BY <1>1, <2>1, Zenon DEF Masked
<1>4. h[1].mask = {}
  <2>1. CASE n = 0
    BY <1>1, <2>1
  <2>2. CASE n # 0
    BY <1>1, <2>2 DEF WellStacked
  <2> QED
    BY <2>1, <2>2
<1>5. ASSUME NEW i \in 1 .. n
      PROVE  h[i + 1].mask = MaskOf(h[i]) /\ h[i].at # "away" /\ ~Masked(own, h, i)
  <2>1. CASE i = n
    BY <1>1, <1>3, <1>5, <2>1
  <2>2. CASE i # n
    <3>1. i \in 1 .. n - 1 /\ i + 1 \in 1 .. n
      BY <1>1, <2>2
    <3>2. f[i + 1].mask = MaskOf(f[i]) /\ f[i].at # "away" /\ ~Masked(own, f, i)
      BY <3>1 DEF WellStacked
    <3>3. h[i + 1] = f[i + 1] /\ h[i] = f[i]
      BY <1>1, <3>1
    <3> QED
      BY <1>3, <3>2, <3>3
  <2> QED
    BY <2>1, <2>2
<1>6. 1 .. Len(h) - 1 = 1 .. n
  BY <1>1
<1>7. WellStacked(own, h)
  BY <1>4, <1>5, <1>6, Zenon DEF WellStacked
<1>8. ~Masked(own, h, Len(h))
  BY <1>1 DEF Masked, MaskedPlaces
<1> QED
  BY <1>1, <1>7, <1>8 DEF h

InnermostAt(f, place) == [f EXCEPT ![Len(f)].at = place]

LEMMA StackMoved ==
    ASSUME NEW own \in {0, 1}, NEW f \in Seq(Frame), f # <<>>, WellStacked(own, f),
           NEW place \in {"on", "counted", "enter", "away", "off", "uncounted", "return"}
    PROVE  LET g == InnermostAt(f, place)
           IN  /\ g \in Seq(Frame) /\ g # <<>> /\ Len(g) = Len(f) /\ g[Len(f)].at = place
               /\ WellStacked(own, g)
               /\ MaskOf(g[Len(f)]) = MaskOf(f[Len(f)])
               /\ Masked(own, g, Len(f))
                    <=> own = 0 /\ place \in MaskedPlaces /\ FirstCall(f, Len(f))
<1> DEFINE n == Len(f)
           g == [f EXCEPT ![n].at = place]
<1>1. n \in Nat /\ n # 0 /\ f \in [1 .. n -> Frame] /\ n \in 1 .. n
  OBVIOUS
<1>2. f[n] \in Frame
  BY <1>1
<1>3. /\ [f[n] EXCEPT !.at = place] \in Frame
      /\ [f[n] EXCEPT !.at = place].at = place
      /\ [f[n] EXCEPT !.at = place].mask = f[n].mask
      /\ [f[n] EXCEPT !.at = place].sig = f[n].sig
  BY <1>2 DEF Frame
<1>4. /\ g \in [1 .. n -> Frame]
      /\ g[n].at = place /\ g[n].mask = f[n].mask /\ g[n].sig = f[n].sig
      /\ \A i \in 1 .. n : i # n => g[i] = f[i]
  BY <1>1, <1>3
<1>5. g \in Seq(Frame) /\ Len(g) = n /\ g # <<>>
  BY <1>1, <1>4
<1> HIDE DEF g
<1>6. /\ \A i \in 1 .. n - 1 : i \in 1 .. n /\ i # n /\ i + 1 \in 1 .. n
      /\ \A i \in 1 .. n : \A j \in 1 .. i - 1 : j \in 1 .. n - 1
      /\ 1 \in 1 .. n
  <2> HIDE DEF n
  <2> QED
    BY <1>1
<1>7. \A i \in 1 .. n : FirstCall(g, i) <=> FirstCall(f, i)
  BY <1>4, <1>6 DEF FirstCall
<1>8. \A i \in 1 .. n : g[i].mask = f[i].mask
  BY <1>4
<1>9. ASSUME NEW i \in 1 .. n - 1
      PROVE  g[i + 1].mask = MaskOf(g[i]) /\ g[i].at # "away" /\ ~Masked(own, g, i)
  <2>1. f[i + 1].mask = MaskOf(f[i]) /\ f[i].at # "away" /\ ~Masked(own, f, i)
    BY <1>9 DEF WellStacked
  <2>2. g[i] = f[i] /\ g[i + 1].mask = f[i + 1].mask /\ (FirstCall(g, i) <=> FirstCall(f, i))
    BY <1>4, <1>6, <1>7, <1>8, <1>9
  <2> QED
    BY <2>1, <2>2 DEF Masked
<1>10. WellStacked(own, g)
  <2>1. g[1].mask = {}
    BY <1>6, <1>8 DEF WellStacked
  <2> QED
    BY <1>5, <1>9, <2>1, Zenon DEF WellStacked
<1>11. MaskOf(g[n]) = MaskOf(f[n])
  BY <1>4 DEF MaskOf
<1>12. Masked(own, g, n) <=> own = 0 /\ place \in MaskedPlaces /\ FirstCall(f, n)
  BY <1>1, <1>4, <1>7 DEF Masked
<1> QED
  BY <1>4, <1>5, <1>10, <1>11, <1>12 DEF g, InnermostAt

LEMMA StackPopped ==
    ASSUME NEW own, NEW f \in Seq(Frame), f # <<>>, WellStacked(own, f)
    PROVE  LET g == SubSeq(f, 1, Len(f) - 1)
           IN  /\ g \in Seq(Frame) /\ WellStacked(own, g)
               /\ g = <<>> => f[Len(f)].mask = {}
               /\ g # <<>> => /\ f[Len(f)].mask = MaskOf(g[Len(g)])
                              /\ g[Len(g)].at # "away"
                              /\ ~Masked(own, g, Len(g))
<1> DEFINE n == Len(f)
           g == SubSeq(f, 1, n - 1)
<1>1. n \in Nat /\ n # 0
  OBVIOUS
<1>2. g \in Seq(Frame) /\ Len(g) = n - 1 /\ \A i \in 1 .. n - 1 : g[i] = f[i]
  BY <1>1, SubSeqFront
<1> HIDE DEF g
<1>3. /\ \A i \in 1 .. n - 1 : \A j \in 1 .. i - 1 : j \in 1 .. n - 1
      /\ \A i \in 1 .. n - 2 : i \in 1 .. n - 1 /\ i + 1 \in 1 .. n - 1
      /\ 1 .. (n - 1) - 1 = 1 .. n - 2
  BY <1>1
<1>4. \A i \in 1 .. n - 1 : Masked(own, g, i) <=> Masked(own, f, i)
  BY <1>2, <1>3 DEF Masked, FirstCall
<1>5. ASSUME NEW i \in 1 .. n - 1
      PROVE  f[i + 1].mask = MaskOf(g[i]) /\ g[i].at # "away" /\ ~Masked(own, g, i)
  <2>1. f[i + 1].mask = MaskOf(f[i]) /\ f[i].at # "away" /\ ~Masked(own, f, i)
    BY <1>5 DEF WellStacked
  <2> QED
    BY <1>2, <1>4, <1>5, <2>1
<1>6. g = <<>> <=> n = 1
  BY <1>1, <1>2
<1>7. f[1].mask = {}
  BY DEF WellStacked
<1>8. g # <<>> => g[1].mask = {}
  <2>1. n # 1 => 1 \in 1 .. n - 1
    <3> HIDE DEF n
    <3> QED
      BY <1>1
  <2> QED
    BY <1>2, <1>6, <1>7, <2>1
<1>9. WellStacked(own, g)
  <2>1. \A i \in 1 .. n - 2 : g[i + 1].mask = MaskOf(g[i]) /\ g[i].at # "away" /\ ~Masked(own, g, i)
    BY <1>2, <1>3, <1>5
  <2> QED
    BY <1>2, <1>3, <1>8, <2>1 DEF WellStacked
<1>10. n # 1 => n - 1 \in 1 .. n - 1 /\ (n - 1) + 1 = n
  <2> HIDE DEF n
  <2> QED
    BY <1>1
<1>11. g # <<>> => f[n].mask = MaskOf(g[Len(g)]) /\ g[Len(g)].at # "away" /\ ~Masked(own, g, Len(g))
  BY <1>2, <1>5, <1>6, <1>10
<1> QED
  BY <1>2, <1>6, <1>7, <1>9, <1>11 DEF g

LEMMA MovedStack ==
    ASSUME Typed, NEW p \in Process, frames[p] # <<>>, NEW own \in {0, 1}, WellStacked(own, frames[p]),
           NEW place \in {"on", "counted", "enter", "away", "off", "uncounted", "return"}
    PROVE  LET f == frames[p]
               g == Moved(p, place)[p]
           IN  /\ g \in Seq(Frame) /\ g # <<>> /\ Len(g) = Len(f) /\ g[Len(f)].at = place
               /\ WellStacked(own, g)
               /\ MaskOf(g[Len(f)]) = MaskOf(f[Len(f)])
               /\ Masked(own, g, Len(f))
                    <=> own = 0 /\ place \in MaskedPlaces /\ FirstCall(f, Len(f))
<1> DEFINE f == frames[p]
           g == InnermostAt(f, place)
<1>1. f \in Seq(Frame) /\ frames \in [Process -> Seq(Frame)] /\ f # <<>> /\ WellStacked(own, f)
  BY DEF Typed
<1>2. Moved(p, place)[p] = g
  BY <1>1 DEF Moved, InnermostAt
<1>3. /\ g \in Seq(Frame) /\ g # <<>> /\ Len(g) = Len(f) /\ g[Len(f)].at = place
      /\ WellStacked(own, g)
      /\ MaskOf(g[Len(f)]) = MaskOf(f[Len(f)])
      /\ Masked(own, g, Len(f)) <=> own = 0 /\ place \in MaskedPlaces /\ FirstCall(f, Len(f))
  <2>1. f \in Seq(Frame) /\ f # <<>> /\ WellStacked(own, f)
    BY <1>1
  <2> HIDE DEF f
  <2> QED
    BY <2>1, StackMoved
<1> HIDE DEF f, g
<1> QED
  BY <1>2, <1>3 DEF f

-----------------------------------------------------------------------------
(* The mask is in step with the stack at boot, and after every step.       *)
LEMMA StackInvInit == Init => StackInv
<1> SUFFICES ASSUME Init PROVE StackInv
  OBVIOUS
<1>1. current_process \in User /\ current_process \notin Signal /\ Runner = current_process
  BY UserAssumption DEF Init, Runner
<1>2. Len(<<>>) = 0 /\ 1 .. 0 = {} /\ 1 .. 0 - 1 = {}
  OBVIOUS
<1>3. \A p \in Process : frames[p] = <<>>
  BY DEF Init
<1>4. NeverReturn
  BY <1>2, <1>3 DEF NeverReturn, Process
<1>5. \A own : WellStacked(own, <<>>)
  BY <1>2 DEF WellStacked
<1>6. MaskInStep
  BY <1>1, <1>3, <1>5 DEF MaskInStep, Init, Process
<1> QED
  BY <1>4, <1>6 DEF StackInv

LEMMA NeverReturnNext == MaskInv /\ NeverReturn /\ [Next]_vars => NeverReturn'
<1> SUFFICES ASSUME MaskInv, NeverReturn, [Next]_vars PROVE NeverReturn'
  OBVIOUS
<1> DEFINE f == frames[current_process]
           Rising == {"on", "counted", "enter"}
<1>a. /\ current_process \in Process /\ Signal \subseteq Process
      /\ \A p \in User : p \notin Signal
      /\ frames \in [Process -> Seq(Frame)] /\ f \in Seq(Frame)
  BY UserAssumption DEF Process, MaskInv, Typed
<1>b. current_process \in Signal /\ f # <<>> => Innermost(current_process).at \in Rising
  <2>1. f # <<>> => Len(f) \in 1 .. Len(f)
    BY <1>a
  <2> QED
    BY <2>1 DEF NeverReturn, Innermost
<1>1. CASE frames' = frames
  BY <1>1 DEF NeverReturn
<1>2. ASSUME NEW g, g.at = "on", frames' = [frames EXCEPT ![current_process] = Append(@, g)]
      PROVE  NeverReturn'
  <2>1. \A p \in Process : p # current_process => frames'[p] = frames[p]
    BY <1>a, <1>2
  <2>2. /\ frames'[current_process] = Append(f, g)
        /\ \A i \in 1 .. Len(f) : Append(f, g)[i] = f[i]
        /\ Len(f) \in Nat /\ Append(f, g)[Len(f) + 1] = g /\ Len(Append(f, g)) = Len(f) + 1
    BY <1>a, <1>2
  <2>3. \A i \in 1 .. Len(f) + 1 : i \in 1 .. Len(f) \/ i = Len(f) + 1
    BY <2>2
  <2> QED
    BY <1>a, <1>2, <2>1, <2>2, <2>3 DEF NeverReturn
<1>3. ASSUME NEW p \in Process, f # <<>>, p = current_process,
             NEW place \in {"on", "counted", "enter", "away", "off", "uncounted", "return"},
             p \in User \/ place \in Rising,
             frames' = Moved(p, place)
      PROVE  NeverReturn'
  <2> SUFFICES ASSUME p \in Signal, place \in Rising PROVE NeverReturn'
    <3>1. \A q \in Process : q # p => frames'[q] = frames[q]
      BY <1>a, <1>3 DEF Moved
    <3> QED
      BY <1>a, <1>3, <3>1 DEF NeverReturn
  <2>1. \A q \in Process : q # p => frames'[q] = frames[q]
    BY <1>a, <1>3 DEF Moved
  <2>2. frames'[p] = [f EXCEPT ![Len(f)].at = place]
    BY <1>a, <1>3 DEF Moved
  <2>3. f \in [1 .. Len(f) -> Frame] /\ Len(f) \in 1 .. Len(f)
    BY <1>a, <1>3
  <2>4. /\ Len(frames'[p]) = Len(f)
        /\ \A i \in 1 .. Len(f) : i # Len(f) => frames'[p][i] = f[i]
        /\ frames'[p][Len(f)].at = place
    <3>1. LET g == [f EXCEPT ![Len(f)].at = place]
          IN  Len(g) = Len(f) /\ g[Len(f)].at = place
      BY <1>a, <1>3, MoveFrame
    <3>2. \A i \in 1 .. Len(f) : i # Len(f) => [f EXCEPT ![Len(f)].at = place][i] = f[i]
      BY <2>3
    <3> QED
      BY <2>2, <3>1, <3>2
  <2> QED
    BY <1>a, <1>3, <2>1, <2>4 DEF NeverReturn
<1>4. CASE UserStep
  BY <1>1, <1>4 DEF UserStep, EnterPrimitive, MaskPrimitive, LeavePrimitive, UnmaskPrimitive,
                    SwitchTo, GoTo
<1>5. ASSUME NEW sig \in Signal, Raise(sig) \/ Deliver(sig) PROVE NeverReturn'
  <2>1. CASE Raise(sig)
    BY <1>1, <2>1 DEF Raise
  <2>2. CASE Deliver(sig)
    <3> DEFINE g == [sig |-> sig, mask |-> blocked, at |-> "on"]
    <3>1. frames' = [frames EXCEPT ![current_process] = Append(@, g)]
      BY <2>2 DEF Deliver
    <3>2. g.at = "on"
      OBVIOUS
    <3> HIDE DEF g
    <3> QED
      BY <1>2, <3>1, <3>2
  <2> QED
    BY <1>5, <2>1, <2>2
<1>6. CASE HandlerStep
  <2>1. CASE HandlerOn
    BY <1>a, <1>3, <2>1 DEF HandlerOn, InHandler
  <2>2. CASE HandlerMask
    BY <1>a, <1>3, <2>2 DEF HandlerMask, InHandler
  <2>3. CASE k_i_process_enter
    <3>1. CASE flag = 0
      <4>1. current_process \in User
        BY <1>a, <3>1 DEF MaskInv, IProcessesRunAlone, Process
      <4> QED
        BY <1>a, <1>3, <2>3, <3>1, <4>1 DEF k_i_process_enter, InHandler
    <3>2. CASE flag # 0
      BY <1>1, <2>3, <3>2 DEF k_i_process_enter
    <3> QED
      BY <3>1, <3>2
  <2>4. CASE k_i_process_exit
    <3>1. interrupted_process \in User /\ frames' = Moved(interrupted_process, "off")
      BY <2>4 DEF k_i_process_exit, MaskInv, IProcessesRunAlone, Runner
    <3>2. \A q \in Signal : frames'[q] = frames[q]
      BY <1>a, <3>1 DEF Moved
    <3> QED
      BY <3>2 DEF NeverReturn
  <2>5. CASE HandlerOff
    BY <1>a, <1>b, <1>3, <2>5 DEF HandlerOff, InHandler, Process
  <2>6. CASE HandlerUnmask
    BY <1>a, <1>b, <1>3, <2>6 DEF HandlerUnmask, InHandler, Process
  <2>7. CASE HandlerReturn
    <3>1. current_process \notin Signal
      BY <1>b, <2>7 DEF HandlerReturn, InHandler
    <3>2. \A q \in Signal : frames'[q] = frames[q]
      BY <1>a, <2>7, <3>1 DEF HandlerReturn
    <3> QED
      BY <3>2 DEF NeverReturn
  <2> QED
    BY <1>6, <2>1, <2>2, <2>3, <2>4, <2>5, <2>6, <2>7 DEF HandlerStep
<1>7. CASE UNCHANGED vars
  BY <1>1, <1>7 DEF vars
<1> QED
  BY <1>4, <1>5, <1>6, <1>7 DEF Next

(* A handler on the stack of an i-process never lets it go on.             *)
LEMMA AstrayForEver == MaskInv /\ NeverReturn /\ Astray /\ [Next]_vars => Astray'
<1> SUFFICES ASSUME MaskInv, NeverReturn, Astray, [Next]_vars PROVE Astray'
  OBVIOUS
<1> DEFINE f == frames[current_process]
<1>a. /\ current_process \in Process /\ current_process \in Signal
      /\ current_process \notin User /\ f # <<>> /\ flag = 1
      /\ frames \in [Process -> Seq(Frame)] /\ f \in Seq(Frame)
  BY UserAssumption DEF Process, MaskInv, Typed, Astray, IProcessesRunAlone
<1>b. Innermost(current_process).at \in {"on", "counted", "enter"}
  <2>1. Len(f) \in 1 .. Len(f)
    BY <1>a
  <2> QED
    BY <1>a, <2>1 DEF NeverReturn, Innermost
<1>1. CASE UNCHANGED <<current_process, frames>>
  BY <1>1 DEF Astray
<1>2. ASSUME NEW sig \in Signal, Raise(sig) \/ Deliver(sig) PROVE Astray'
  <2>1. CASE Raise(sig)
    BY <1>1, <2>1 DEF Raise
  <2>2. CASE Deliver(sig)
    <3>1. \A e : Append(f, e) # <<>>
      BY <1>a
    <3> QED
      BY <1>a, <2>2, <3>1 DEF Deliver, Astray
  <2> QED
    BY <1>2, <2>1, <2>2
<1>3. ASSUME NEW place \in {"counted", "enter"},
             frames' = Moved(current_process, place), UNCHANGED current_process
      PROVE  Astray'
  BY <1>a, <1>3, MovedKeeps DEF Astray, MaskInv
<1>4. CASE HandlerStep
  <2>1. CASE HandlerOn
    BY <1>3, <2>1 DEF HandlerOn
  <2>2. CASE HandlerMask
    BY <1>3, <2>2 DEF HandlerMask
  <2>3. CASE k_i_process_enter
    BY <1>a, <1>1, <2>3 DEF k_i_process_enter
  <2> QED
    BY <1>a, <1>b, <1>4, <2>1, <2>2, <2>3
       DEF HandlerStep, k_i_process_exit, HandlerOff, HandlerUnmask, HandlerReturn, InHandler
<1>5. ~UserStep
  BY <1>a DEF UserStep, EnterPrimitive, MaskPrimitive, LeavePrimitive, UnmaskPrimitive,
              SwitchTo, InProcess
<1>6. CASE UNCHANGED vars
  BY <1>1, <1>6 DEF vars
<1> QED
  BY <1>2, <1>4, <1>5, <1>6 DEF Next

(* The next MaskInStep, part by part.                                      *)
LEMMA NextInStep ==
    ASSUME MaskInv, NEW own, own = OwnCalls(Runner)', NEW f, f = frames'[Runner'],
           WellStacked(own, f), f # <<>>,
           at'[Runner'] \in {"user", "counted"},
           f[Len(f)].at = "away" => current_process' \in Signal,
           TopMasked(own, f, blocked', oldmask')
    PROVE  MaskInStep'
  BY DEF MaskInStep

LEMMA MaskInStepNext ==
    MaskInv /\ ~Astray /\ MaskInStep /\ [Next]_vars => Astray' \/ MaskInStep'
<1> SUFFICES ASSUME MaskInv, ~Astray, MaskInStep, [Next]_vars PROVE Astray' \/ MaskInStep'
  OBVIOUS
<1> DEFINE f == frames[Runner]
           n == Len(f)
           own == OwnCalls(Runner)
<1>a. /\ current_process \in Process /\ User \subseteq Process /\ Signal \subseteq Process
      /\ \A p \in User : p \notin Signal
      /\ Runner \in User /\ Runner \in Process
      /\ frames \in [Process -> Seq(Frame)] /\ f \in Seq(Frame)
      /\ current_process \in User => Runner = current_process
      /\ current_process \in Signal => frames[current_process] = <<>> /\ flag # 0
      /\ current_process \in User \/ current_process \in Signal
      /\ at[Runner] \in {"user", "counted", "kernel", "uncounted"}
      /\ blocked \subseteq Signal
  BY UserAssumption DEF Process, MaskInv, Typed, Astray, IProcessesRunAlone, Runner
<1>b. /\ WellStacked(own, f)
      /\ f # <<>> => /\ at[Runner] \in {"user", "counted"}
                     /\ f[n].at = "away" => current_process \in Signal
                     /\ TopMasked(own, f, blocked, oldmask)
      /\ f = <<>> => IF at[Runner] \in {"user", "counted"}
                     THEN blocked = {} ELSE blocked = Signal /\ oldmask = {}
  BY DEF MaskInStep
<1>c. \A c : WellStacked(c, <<>>)
  <2>1. Len(<<>>) = 0 /\ 1 .. 0 - 1 = {}
    OBVIOUS
  <2> QED
    BY <2>1 DEF WellStacked
<1>d. /\ atomic_count[Runner] = own + Cardinality(CountedFrames(f))
      /\ Cardinality(CountedFrames(f)) \in Nat /\ own \in {0, 1}
  BY <1>a, CountIsNat DEF MaskInv, CountsCalls, OwnCalls
<1>0. CASE UNCHANGED vars
  BY <1>0 DEF vars, MaskInStep, Runner, OwnCalls
<1>1. CASE UserStep
  <2> SUFFICES ASSUME UserStep PROVE MaskInStep'
    BY <1>1
  <2>1. /\ current_process \in User /\ Runner = current_process /\ f = <<>>
        /\ frames' = frames
        /\ \A p \in User : current_process' = p => Runner' = p
    BY <1>a DEF UserStep, EnterPrimitive, MaskPrimitive, LeavePrimitive, UnmaskPrimitive,
                SwitchTo, InProcess, GoTo, Runner
  <2>2. CASE EnterPrimitive \/ MaskPrimitive \/ LeavePrimitive \/ UnmaskPrimitive
    <3>1. /\ Runner' = Runner /\ frames'[Runner] = <<>>
          /\ \A place : at' = [at EXCEPT ![current_process] = place] => at'[Runner] = place
      BY <1>a, <2>1, <2>2 DEF EnterPrimitive, MaskPrimitive, LeavePrimitive, UnmaskPrimitive,
                              GoTo, MaskInv, Typed
    <3>2. CountedFrames(<<>>) = {}
      BY DEF CountedFrames
    <3>3. atomic_count[current_process] = own
      <4>1. Cardinality(CountedFrames(f)) = 0
        BY <2>1, <3>2, FS_EmptySet
      <4> HIDE DEF f, own
      <4> QED
        BY <1>d, <2>1, <4>1
    <3>4. at[Runner] = "counted" => own = 1
      BY <1>a DEF OwnCalls
    <3>5. at[Runner] = "uncounted" => own = 0
      BY <1>a DEF OwnCalls
    <3>6. IF at'[Runner] \in {"user", "counted"}
          THEN blocked' = {} ELSE blocked' = Signal /\ oldmask' = {}
      <4>1. CASE EnterPrimitive
        BY <1>b, <2>1, <3>1, <4>1 DEF EnterPrimitive, InProcess, GoTo
      <4>2. CASE MaskPrimitive
        BY <1>b, <2>1, <3>1, <3>3, <3>4, <4>2
           DEF MaskPrimitive, InProcess, GoTo, BlockSignals, FirstOn
      <4>3. CASE LeavePrimitive
        BY <1>b, <2>1, <3>1, <4>3 DEF LeavePrimitive, InProcess, GoTo
      <4>4. CASE UnmaskPrimitive
        BY <1>b, <2>1, <3>1, <3>3, <3>5, <4>4
           DEF UnmaskPrimitive, InProcess, GoTo, RestoreMask, LastOff
      <4> QED
        BY <2>2, <4>1, <4>2, <4>3, <4>4
    <3> QED
      BY <1>c, <3>1, <3>6 DEF MaskInStep
  <2>3. ASSUME NEW p \in User, SwitchTo(p) PROVE MaskInStep'
    <3>1. /\ Runner' = p /\ p # Runner /\ at[Runner] = "kernel"
          /\ at' = at /\ blocked' = blocked /\ oldmask' = oldmask
      BY <2>1, <2>3 DEF SwitchTo, InProcess
    <3>2. at[p] = "kernel" /\ frames[p] = <<>>
      BY <3>1 DEF MaskInv, OthersInKernel
    <3> QED
      BY <1>b, <1>c, <2>1, <3>1, <3>2 DEF MaskInStep
  <2> QED
    BY <2>2, <2>3 DEF UserStep
<1>2. ASSUME NEW sig \in Signal, Raise(sig) PROVE MaskInStep'
  BY <1>2 DEF Raise, MaskInStep, Runner, OwnCalls
<1>3. ASSUME NEW sig \in Signal, Deliver(sig) PROVE Astray' \/ MaskInStep'
  <2> DEFINE g == [sig |-> sig, mask |-> blocked, at |-> "on"]
             h == Append(f, g)
  <2>1. g \in Frame /\ g.at = "on" /\ g.mask = blocked /\ MaskOf(g) = blocked \cup {sig}
    BY <1>a DEF Frame, MaskOf
  <2> HIDE DEF g
  <2>2. /\ frames' = [frames EXCEPT ![current_process] = Append(@, g)]
        /\ blocked' = blocked \cup {sig} /\ blocked # Signal
        /\ current_process' = current_process /\ Runner' = Runner
        /\ at' = at /\ OwnCalls(Runner)' = own
    BY <1>3 DEF Deliver, g, Runner, OwnCalls
  <2>3. CASE current_process \in Signal
    <3>1. \A e : Append(<<>>, e) # <<>>
      OBVIOUS
    <3> QED
      BY <1>a, <2>2, <2>3, <3>1 DEF Astray
  <2>4. CASE current_process \in User
    <3>1. frames'[Runner'] = h /\ current_process \notin Signal
      BY <1>a, <2>2, <2>4
    <3>2. f = <<>> => g.mask = {} /\ at[Runner] \in {"user", "counted"}
      BY <1>b, <2>1, <2>2
    <3>3. f # <<>> => g.mask = MaskOf(f[n]) /\ f[n].at # "away" /\ ~Masked(own, f, n)
      BY <1>b, <2>1, <2>2, <3>1 DEF TopMasked
    <3>4. /\ h \in Seq(Frame) /\ h # <<>> /\ h[Len(h)] = g
          /\ WellStacked(own, h) /\ ~Masked(own, h, Len(h))
      <4> HIDE DEF f, own
      <4> QED
        BY <1>a, <1>b, <2>1, <3>2, <3>3, StackPushed DEF n
    <3> HIDE DEF h
    <3>5. TopMasked(own, h, blocked', oldmask')
      BY <2>1, <2>2, <3>4 DEF TopMasked
    <3>6. at'[Runner'] \in {"user", "counted"}
      BY <1>b, <2>2, <3>2
    <3> HIDE DEF own
    <3> QED
      BY <2>1, <2>2, <3>1, <3>4, <3>5, <3>6, NextInStep
  <2> QED
    BY <1>a, <2>3, <2>4
<1>4. CASE HandlerStep
  <2>1. ASSUME NEW place \in {"on", "counted", "enter", "away", "off", "uncounted", "return"},
               f # <<>>, frames' = Moved(Runner, place), Runner' = Runner, at' = at,
               place = "away" => current_process' \in Signal,
               IF own = 0 /\ place \in MaskedPlaces /\ FirstCall(f, n)
               THEN blocked' = Signal /\ oldmask' = MaskOf(f[n])
               ELSE blocked' = MaskOf(f[n])
        PROVE  MaskInStep'
    <3> DEFINE g == Moved(Runner, place)[Runner]
    <3>1. /\ g \in Seq(Frame) /\ g # <<>> /\ Len(g) = n /\ g[n].at = place
          /\ WellStacked(own, g)
          /\ MaskOf(g[n]) = MaskOf(f[n])
          /\ Masked(own, g, n) <=> own = 0 /\ place \in MaskedPlaces /\ FirstCall(f, n)
      <4>1. Typed /\ own \in {0, 1} /\ WellStacked(own, f) /\ f # <<>> /\ Runner \in Process
        BY <1>a, <1>b, <1>d, <2>1 DEF MaskInv
      <4> HIDE DEF own
      <4> QED
        BY <4>1, MovedStack
    <3>2. frames'[Runner'] = g /\ OwnCalls(Runner)' = own
      BY <2>1 DEF OwnCalls
    <3> HIDE DEF g, own
    <3>3. TopMasked(own, g, blocked', oldmask')
      BY <2>1, <3>1 DEF TopMasked
    <3> QED
      BY <1>b, <2>1, <3>1, <3>2, <3>3, NextInStep
  <2>2. f # <<>> => IF Masked(own, f, n) THEN blocked = Signal /\ oldmask = MaskOf(f[n])
                                         ELSE blocked = MaskOf(f[n])
    BY <1>b DEF TopMasked
  <2>3. ASSUME NEW place, InHandler(place)
        PROVE  /\ current_process \in User /\ Runner = current_process /\ f # <<>>
               /\ f[n].at = place
               /\ current_process' = current_process => Runner' = Runner
    BY <1>a, <2>3 DEF InHandler, Innermost, Runner
  <2>4. f # <<>> =>
          /\ f[n].at \in CountedPlaces
               => (Cardinality(CountedFrames(f)) = 1 <=> FirstCall(f, n))
          /\ f[n].at \in CountedPlaces => Cardinality(CountedFrames(f)) # 0
          /\ f[n].at \notin CountedPlaces
               => (Cardinality(CountedFrames(f)) = 0 <=> FirstCall(f, n))
    <3> HIDE DEF f
    <3> QED
      BY <1>a, CountTellsFirst DEF n
  <2>5. CASE HandlerOn
    BY <2>1, <2>2, <2>3, <2>5 DEF HandlerOn, Masked, MaskedPlaces
  <2>6. CASE HandlerMask
    <3>1. /\ InHandler("counted") /\ BlockSignals /\ frames' = Moved(current_process, "enter")
          /\ at' = at /\ current_process' = current_process
      BY <2>6 DEF HandlerMask
    <3>2. /\ f # <<>> /\ f[n].at = "counted" /\ Runner = current_process /\ Runner' = Runner
      BY <2>3, <3>1
    <3>3. FirstOn <=> own = 0 /\ FirstCall(f, n)
      <4>1. Cardinality(CountedFrames(f)) # 0 /\ (Cardinality(CountedFrames(f)) = 1 <=> FirstCall(f, n))
        BY <2>4, <3>2 DEF CountedPlaces
      <4> HIDE DEF f, n, own
      <4> QED
        BY <1>d, <3>2, <4>1 DEF FirstOn
    <3>4. blocked = MaskOf(f[n])
      BY <2>2, <3>2 DEF Masked, MaskedPlaces
    <3>5. IF own = 0 /\ FirstCall(f, n)
          THEN blocked' = Signal /\ oldmask' = MaskOf(f[n]) ELSE blocked' = MaskOf(f[n])
      BY <1>a, <3>1, <3>3, <3>4 DEF BlockSignals
    <3> QED
      BY <2>1, <3>1, <3>2, <3>5 DEF MaskedPlaces
  <2>7. CASE k_i_process_enter
    <3>1. /\ InHandler("enter") /\ at' = at /\ blocked' = blocked /\ oldmask' = oldmask
      BY <2>7 DEF k_i_process_enter
    <3>2. /\ current_process \in User /\ Runner = current_process /\ f # <<>> /\ f[n].at = "enter"
      BY <2>3, <3>1
    <3>3. CASE flag = 0
      <4>1. f[n].sig \in Signal
        <5>1. f[n] \in Frame
          BY <1>a, <3>2
        <5> QED
          BY <5>1 DEF Frame
      <4>2. /\ current_process' \in Signal /\ Runner' = Runner
            /\ frames' = Moved(Runner, "away")
        BY <2>7, <3>2, <3>3, <4>1 DEF k_i_process_enter, Innermost, Runner
      <4> QED
        BY <2>1, <2>2, <3>1, <3>2, <4>2 DEF Masked, MaskedPlaces
    <3>4. CASE flag # 0
      BY <2>7, <3>4 DEF k_i_process_enter, MaskInStep, Runner, OwnCalls
    <3> QED
      BY <3>3, <3>4
  <2>8. CASE k_i_process_exit
    <3>1. /\ current_process \in Signal /\ Runner = interrupted_process
          /\ frames' = Moved(Runner, "off") /\ Runner' = Runner
          /\ at' = at /\ blocked' = blocked /\ oldmask' = oldmask
      BY <1>a, <2>8 DEF k_i_process_exit, Runner
    <3>2. f # <<>> /\ f[n].at = "away"
      BY <3>1 DEF MaskInv, IProcessesRunAlone, Innermost
    <3> QED
      BY <2>1, <2>2, <3>1, <3>2 DEF Masked, MaskedPlaces
  <2>9. CASE HandlerOff
    BY <2>1, <2>2, <2>3, <2>9 DEF HandlerOff, Masked, MaskedPlaces
  <2>10. CASE HandlerUnmask
    <3>1. /\ InHandler("uncounted") /\ RestoreMask /\ frames' = Moved(current_process, "return")
          /\ at' = at /\ current_process' = current_process
      BY <2>10 DEF HandlerUnmask
    <3>2. /\ f # <<>> /\ f[n].at = "uncounted" /\ Runner = current_process /\ Runner' = Runner
      BY <2>3, <3>1
    <3>3. LastOff <=> own = 0 /\ FirstCall(f, n)
      <4>1. Cardinality(CountedFrames(f)) = 0 <=> FirstCall(f, n)
        BY <2>4, <3>2 DEF CountedPlaces
      <4> HIDE DEF f, n, own
      <4> QED
        BY <1>d, <3>2, <4>1 DEF LastOff
    <3>4. blocked' = MaskOf(f[n])
      BY <2>2, <3>1, <3>2, <3>3 DEF RestoreMask, Masked, MaskedPlaces
    <3> QED
      BY <2>1, <3>1, <3>2, <3>4 DEF MaskedPlaces
  <2>11. CASE HandlerReturn
    <3> DEFINE g == SubSeq(f, 1, n - 1)
    <3>1. /\ InHandler("return") /\ current_process' = current_process
          /\ at' = at /\ OwnCalls(Runner)' = OwnCalls(Runner')
      BY <2>11 DEF HandlerReturn, OwnCalls
    <3>2. /\ f # <<>> /\ f[n].at = "return" /\ Runner = current_process /\ Runner' = Runner
          /\ current_process \notin Signal
      BY <1>a, <2>3, <3>1
    <3>3. blocked' = f[n].mask /\ frames'[Runner'] = g
      BY <1>a, <2>11, <3>2 DEF HandlerReturn, Innermost
    <3>4. /\ g \in Seq(Frame) /\ WellStacked(own, g)
          /\ g = <<>> => f[n].mask = {}
          /\ g # <<>> => /\ f[n].mask = MaskOf(g[Len(g)])
                         /\ g[Len(g)].at # "away"
                         /\ ~Masked(own, g, Len(g))
      <4> HIDE DEF f, own
      <4> QED
        BY <1>a, <1>b, <3>2, StackPopped DEF n
    <3>5. own = OwnCalls(Runner)'
      BY <3>1, <3>2 DEF OwnCalls
    <3>6. at'[Runner'] \in {"user", "counted"}
      BY <1>b, <3>1, <3>2
    <3> HIDE DEF g
    <3>7. CASE g # <<>>
      <4>1. TopMasked(own, g, blocked', oldmask')
        BY <3>3, <3>4, <3>7 DEF TopMasked
      <4> HIDE DEF own
      <4> QED
        BY <3>3, <3>4, <3>5, <3>6, <3>7, <4>1, NextInStep
    <3>8. CASE g = <<>>
      BY <1>c, <3>3, <3>4, <3>6, <3>8 DEF MaskInStep
    <3> QED
      BY <3>7, <3>8
  <2> QED
    BY <1>4, <2>5, <2>6, <2>7, <2>8, <2>9, <2>10, <2>11 DEF HandlerStep
<1> QED
  BY <1>0, <1>1, <1>2, <1>3, <1>4 DEF Next

(* Outside the primitives and the handlers every signal gets through: no   *)
(* nesting of handlers and primitives leaves a stale mask in oldmask.      *)
THEOREM SignalsReachUserCode == Spec => []UserCodeInterruptible
<1>1. Init => MaskInv /\ StackInv
  BY MaskInvInit, StackInvInit
<1>2. MaskInv /\ StackInv /\ [Next]_vars => (MaskInv /\ StackInv)'
  BY MaskInvNext, NeverReturnNext, AstrayForEver, MaskInStepNext DEF StackInv
<1>3. MaskInv /\ StackInv => UserCodeInterruptible
  BY UserAssumption DEF StackInv, Astray, MaskInStep, Runner, UserCodeInterruptible
<1> QED
  BY <1>1, <1>2, <1>3, PTL DEF Spec
=============================================================================
