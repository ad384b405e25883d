------------------------------ MODULE ToolsProofs ------------------------------
(***************************************************************************)
(* Theorems about SerialInput, Keyboard, MessageTrace and TimeOfDay, for   *)
(* buffers and rings of any size and any command.                          *)
(***************************************************************************)
EXTENDS SerialInput, MessageTrace, TimeOfDay, Keyboard, TLAPS, SequenceTheorems

(* A line as far as there is room for it.                                  *)
Cut(s, room) == IF Len(s) <= room THEN s ELSE SubSeq(s, 1, room)

LEMMA CutAppend ==
    ASSUME NEW S, NEW s \in Seq(S), NEW c \in S, NEW room \in Nat
    PROVE  Cut(Append(s, c), room) = IF Len(Cut(s, room)) < room THEN Append(Cut(s, room), c)
                                                                 ELSE Cut(s, room)
<1>1. CASE Len(s) < room
  BY <1>1 DEF Cut
<1>2. CASE Len(s) >= room
  <2>1. Len(SubSeq(s, 1, room)) = room
    BY <1>2
  <2>2. SubSeq(Append(s, c), 1, room) = SubSeq(s, 1, room)
    BY <1>2
  <2>3. Len(s) = room => SubSeq(s, 1, room) = s
    BY <1>2
  <2>4. Len(Append(s, c)) > room
    BY <1>2
  <2>5. Cut(Append(s, c), room) = SubSeq(s, 1, room)
    BY <2>2, <2>4 DEF Cut
  <2>6. Cut(s, room) = SubSeq(s, 1, room)
    BY <1>2, <2>3 DEF Cut
  <2> QED
    BY <2>1, <2>5, <2>6
<1> QED
  BY <1>1, <1>2

-----------------------------------------------------------------------------
(* The line on the board                                                   *)

Room == INPUT_BUFFER_SIZE - 2

(* The buffer holds the line as far as it is typed, the carriage return    *)
(* included, and as far as there is room.                                  *)
LineInv ==
    /\ typed.now \in Seq(Char) /\ typed.before \in Seq(Char)
    /\ typed = [now |-> typed.now, before |-> typed.before]
    /\ ended \in BOOLEAN
    /\ InBuffer = Cut(IF ended THEN Append(typed.now, CR) ELSE typed.now, Room)
    /\ msg = Cut(typed.before, Room - 1)

LEMMA RoomType == Room \in Nat /\ Room >= 1 /\ Room - 1 \in Nat /\ Room - 1 = INPUT_BUFFER_SIZE - 3
  BY SerialInputAssumption DEF Room

LEMMA LineInvInit == LineInit => LineInv
<1> SUFFICES ASSUME LineInit PROVE LineInv
  OBVIOUS
<1>1. Cut(<<>>, Room) = <<>> /\ Cut(<<>>, Room - 1) = <<>>
  BY RoomType DEF Cut
<1>2. typed.now = <<>> /\ typed.before = <<>> /\ typed = [now |-> typed.now, before |-> typed.before]
  BY DEF LineInit
<1>3. <<>> \in Seq(Char) /\ ended = FALSE /\ InBuffer = <<>> /\ msg = <<>>
  BY DEF LineInit
<1> QED
  BY <1>1, <1>2, <1>3 DEF LineInv

(* What Stored makes of a character that belongs to the line.              *)
LEMMA StoredCuts ==
    ASSUME NEW s \in Seq(Char \cup {CR}), InBuffer = Cut(s, Room), NEW c \in Char \cup {CR}
    PROVE  Stored(c) = Cut(Append(s, c), Room)
<1>1. ~hotkey(c)
  BY SerialInputAssumption DEF hotkey
<1>2. Stored(c) = IF Len(InBuffer) < Room THEN Append(InBuffer, c) ELSE InBuffer
  BY <1>1 DEF Stored, Room
<1> QED
  BY <1>2, RoomType, CutAppend

LEMMA LastCharacterDropped ==
    ASSUME NEW s \in Seq(Char)
    PROVE  LET cut == Cut(Append(s, CR), Room)
           IN  SubSeq(cut, 1, Len(cut) - 1) = Cut(s, Room - 1)
<1> DEFINE cut == Cut(Append(s, CR), Room)
           r == Room
<1>0. r \in Nat /\ r >= 1 /\ s \in Seq(Char \cup {CR})
  BY RoomType
<1>1. CASE Len(s) <= r - 1
  <2>1. cut = Append(s, CR)
    BY <1>0, <1>1 DEF Cut
  <2>2. SubSeq(Append(s, CR), 1, Len(Append(s, CR)) - 1) = s
    BY <1>0
  <2> QED
    BY <1>1, <2>1, <2>2 DEF Cut
<1>2. CASE ~(Len(s) <= r - 1)
  <2> HIDE DEF r
  <2>1. cut = SubSeq(Append(s, CR), 1, r) /\ Len(cut) = r
    BY <1>0, <1>2 DEF Cut, r
  <2>2. \A i \in 1 .. r - 1 : Append(s, CR)[i] = s[i]
    BY <1>0, <1>2
  <2>3. SubSeq(SubSeq(Append(s, CR), 1, r), 1, r - 1) = SubSeq(s, 1, r - 1)
    BY <1>0, <1>2, <2>2
  <2> QED
    BY <1>2, <2>1, <2>3 DEF Cut, r
<1> QED
  BY <1>1, <1>2

LEMMA LineInvNext == LineInv /\ [LineNext]_lineVars => LineInv'
<1> SUFFICES ASSUME LineInv, [LineNext]_lineVars PROVE LineInv'
  OBVIOUS
<1> USE DEF LineInv
<1>1. CASE CharIn
  <2>0. ~ended /\ UNCHANGED <<ended, msg>> /\ InBuffer = Cut(typed.now, Room)
    BY <1>1 DEF CharIn
  <2>1. PICK c \in Char \cup {HOTKEY} :
           /\ InBuffer' = Stored(c)
           /\ typed' = [typed EXCEPT !.now = IF hotkey(c) THEN @ ELSE Append(@, c)]
    BY <1>1 DEF CharIn
  <2>2. CASE c = HOTKEY
    <3>1. InBuffer' = InBuffer /\ typed' = typed
      BY <2>1, <2>2 DEF Stored, hotkey
    <3> QED
      BY <2>0, <3>1
  <2>3. CASE c # HOTKEY
    <3>1. c \in Char /\ ~hotkey(c)
      BY <2>3 DEF hotkey
    <3>2. typed' = [now |-> Append(typed.now, c), before |-> typed.before]
      BY <2>1, <3>1
    <3>3. InBuffer' = Cut(Append(typed.now, c), Room)
      BY <2>0, <2>1, <3>1, StoredCuts
    <3>4. typed'.now = Append(typed.now, c) /\ typed'.before = typed.before
      BY <3>2
    <3>5. typed'.now \in Seq(Char) /\ typed'.before \in Seq(Char)
      BY <3>1, <3>4
    <3> QED
      BY <2>0, <3>2, <3>3, <3>4, <3>5
  <2> QED
    BY <2>2, <2>3
<1>2. CASE CarriageReturn
  <2>1. ~ended /\ ended' /\ ended' \in BOOLEAN /\ InBuffer' = Stored(CR) /\ UNCHANGED <<typed, msg>>
    BY <1>2 DEF CarriageReturn
  <2>2. InBuffer' = Cut(Append(typed.now, CR), Room)
    BY <2>1, StoredCuts
  <2> QED
    BY <2>1, <2>2
<1>3. CASE LineEndIn
  <2>1. ended /\ ~ended' /\ ended' \in BOOLEAN /\ InBuffer' = <<>>
    BY <1>3 DEF LineEndIn
  <2>2. LineStored = Cut(typed.now, Room - 1)
    BY <2>1, LastCharacterDropped DEF LineStored
  <2>3. \/ msg' = LineStored /\ typed' = [now |-> <<>>, before |-> typed.now]
        \/ msg' = msg /\ typed' = [now |-> <<>>, before |-> typed.before]
    BY <1>3 DEF LineEndIn
  <2>4. Cut(<<>>, Room) = <<>>
    BY RoomType DEF Cut
  <2>5. /\ typed'.now = <<>> /\ typed' = [now |-> typed'.now, before |-> typed'.before]
        /\ \/ msg' = LineStored /\ typed'.before = typed.now
           \/ msg' = msg /\ typed'.before = typed.before
    BY <2>3
  <2>6. typed'.now \in Seq(Char) /\ typed'.before \in Seq(Char)
    BY <2>5
  <2>7. InBuffer' = Cut(IF ended' THEN Append(typed'.now, CR) ELSE typed'.now, Room)
    BY <2>1, <2>4, <2>5
  <2>8. msg' = Cut(typed'.before, Room - 1)
    BY <2>2, <2>5
  <2> QED
    BY <2>1, <2>5, <2>6, <2>7, <2>8
<1>4. CASE UNCHANGED lineVars
  BY <1>4 DEF lineVars
<1> QED
  BY <1>1, <1>2, <1>3, <1>4 DEF LineNext

(* CCI gets the line that was typed, without its hotkeys, cut off where    *)
(* the buffer ends, for a buffer of any size (uart_i_process.c).           *)
THEOREM WholeLineReachesCci == LineSpec => []LineReachesCci
<1>1. LineInv => LineReachesCci
  BY RoomType DEF LineInv, LineReachesCci, Cut
<1> QED
  BY <1>1, LineInvInit, LineInvNext, PTL DEF LineSpec

-----------------------------------------------------------------------------
(* The line on unix                                                        *)

(* What is right whoever interferes with whom.                             *)
KeyTyped ==
    /\ data \in [0 .. KEYBOARD_BUF_SIZE - 1 -> Key] /\ char \in Key
    /\ length \in 0 .. KEYBOARD_BUF_SIZE /\ at \in Nat
    /\ helper \in {"getchar", "store", "increment"}
    /\ helper # "getchar" => length < KEYBOARD_BUF_SIZE
    /\ helper = "increment" => at < KEYBOARD_BUF_SIZE
    /\ kb \in {"idle", "copy", "reset"} /\ text \in Seq(Key)
    /\ usr1 \in BOOLEAN /\ sent \in BOOLEAN /\ undisturbed \in BOOLEAN
    /\ newline.now \in Seq(Key) /\ newline.before \in Seq(Key)
    /\ newline = [now |-> newline.now, before |-> newline.before]

(* The first n characters of the buffer are those of the line.             *)
Agree(n, line) == \A i \in 0 .. n - 1 : data[i] = line[i + 1]

Holds(line) == length = Len(Cut(line, KEYBOARD_BUF_SIZE)) /\ Agree(length, line)

(* The line is being typed.                                                *)
Typing ==
    /\ helper = "getchar" => Holds(newline.now)
    /\ helper # "getchar" => /\ Len(newline.now) = length + 1 /\ newline.now[length + 1] = char
                             /\ Agree(length, newline.now)
    /\ helper = "increment" => at = length /\ data[length] = char

(* The line has been typed and is being taken in.                          *)
TakingIn ==
    /\ helper = "getchar" /\ newline.now = <<>> /\ Holds(newline.before)
    /\ kb = "copy" => /\ Len(text) <= length
                      /\ \A i \in 1 .. Len(text) : text[i] = newline.before[i]
    /\ kb = "reset" /\ sent => text = Cut(newline.before, KEYBOARD_BUF_SIZE)

KeyInv ==
    /\ KeyTyped
    /\ undisturbed => IF Quiet THEN Typing ELSE TakingIn

LEMMA EmptyLine == length = 0 => Holds(<<>>)
<1>1. Cut(<<>>, KEYBOARD_BUF_SIZE) = <<>>
  BY KeyboardAssumption DEF Cut
<1>2. \A i \in 0 .. 0 - 1 : FALSE
  OBVIOUS
<1> QED
  BY <1>1, <1>2 DEF Holds, Agree

LEMMA CutLength ==
    ASSUME NEW line \in Seq(Key)
    PROVE  Len(Cut(line, KEYBOARD_BUF_SIZE)) = IF Len(line) <= KEYBOARD_BUF_SIZE THEN Len(line)
                                               ELSE KEYBOARD_BUF_SIZE
  BY KeyboardAssumption DEF Cut

LEMMA KeyInvInit == KeyInit => KeyInv
<1> SUFFICES ASSUME KeyInit PROVE KeyInv
  OBVIOUS
<1>1. char \in Key
  BY KeyboardAssumption DEF KeyInit
<1>2. newline.now = <<>> /\ newline.before = <<>> /\ newline = [now |-> newline.now, before |-> newline.before]
  BY DEF KeyInit
<1>3. <<>> \in Seq(Key) /\ 0 \in 0 .. KEYBOARD_BUF_SIZE
  BY KeyboardAssumption
<1>4. data \in [0 .. KEYBOARD_BUF_SIZE - 1 -> Key]
  BY <1>1 DEF KeyInit
<1>5. KeyTyped
  BY <1>1, <1>2, <1>3, <1>4 DEF KeyInit, KeyTyped
<1>6. Quiet /\ Typing
  BY <1>2, EmptyLine DEF KeyInit, Quiet, Typing
<1> QED
  BY <1>5, <1>6 DEF KeyInv

(* The line goes on by a character.                                        *)
LEMMA GetcharKeeps == KeyInv /\ Getchar => KeyInv'
<1> SUFFICES ASSUME KeyInv, Getchar PROVE KeyInv'
  OBVIOUS
<1>0. KeyTyped /\ helper = "getchar" /\ UNCHANGED <<data, length, at, usr1, kb, requests, text, sent>>
  BY DEF KeyInv, Getchar, kbVars
<1>1. PICK k \in Key : char' = k /\ newline' = [newline EXCEPT !.now = Append(@, k)]
  BY DEF Getchar
<1>2. /\ newline' = [now |-> Append(newline.now, k), before |-> newline.before]
      /\ newline'.now = Append(newline.now, k) /\ newline'.before = newline.before
  BY <1>0, <1>1 DEF KeyTyped
<1>3. helper' = IF length < KEYBOARD_BUF_SIZE THEN "store" ELSE "getchar"
  BY DEF Getchar
<1>4. KeyTyped'
  <2>1. newline'.now \in Seq(Key) /\ newline'.before \in Seq(Key)
    BY <1>0, <1>1, <1>2 DEF KeyTyped
  <2>2. undisturbed' \in BOOLEAN
    BY <1>0 DEF Getchar, KeyTyped, Quiet
  <2> QED
    BY <1>0, <1>1, <1>2, <1>3, <2>1, <2>2 DEF KeyTyped
<1>5. ASSUME undisturbed' PROVE Quiet' /\ Typing'
  <2>1. undisturbed /\ Quiet /\ Quiet'
    <3>1. undisturbed' = (undisturbed /\ Quiet)
      BY DEF Getchar
    <3>2. undisturbed /\ Quiet
      BY <1>5, <3>1
    <3> QED
      BY <1>0, <3>2 DEF Quiet
  <2>2. Holds(newline.now)
    BY <1>0, <2>1 DEF KeyInv, Typing
  <2>3. length \in Nat /\ KEYBOARD_BUF_SIZE \in Nat /\ length <= KEYBOARD_BUF_SIZE /\ newline.now \in Seq(Key)
    BY <1>0, KeyboardAssumption DEF KeyTyped
  <2>4. length = IF Len(newline.now) <= KEYBOARD_BUF_SIZE THEN Len(newline.now) ELSE KEYBOARD_BUF_SIZE
    BY <2>2, <2>3, CutLength DEF Holds
  <2>5. /\ Len(newline'.now) = Len(newline.now) + 1 /\ newline'.now[Len(newline.now) + 1] = k
        /\ \A i \in 1 .. Len(newline.now) : newline'.now[i] = newline.now[i]
    BY <1>1, <1>2, <2>3
  <2>6. \A i \in 0 .. length - 1 : data[i] = newline'.now[i + 1]
    <3>1. \A i \in 0 .. length - 1 : i + 1 \in 1 .. Len(newline.now)
      BY <2>3, <2>4
    <3> QED
      BY <2>2, <2>5, <3>1 DEF Holds, Agree
  <2>7. CASE length < KEYBOARD_BUF_SIZE
    <3>1. length = Len(newline.now)
      BY <2>3, <2>4, <2>7
    <3> QED
      BY <1>0, <1>1, <1>3, <2>1, <2>5, <2>6, <2>7, <3>1 DEF Typing, Agree
  <2>8. CASE ~(length < KEYBOARD_BUF_SIZE)
    <3>1. length = KEYBOARD_BUF_SIZE /\ ~(Len(newline'.now) <= KEYBOARD_BUF_SIZE)
      BY <2>3, <2>4, <2>5, <2>8
    <3>2. newline'.now \in Seq(Key)
      BY <1>4 DEF KeyTyped
    <3>3. length = Len(Cut(newline'.now, KEYBOARD_BUF_SIZE))
      BY <3>1, <3>2, CutLength
    <3> QED
      BY <1>0, <1>3, <2>1, <2>6, <2>8, <3>3 DEF Typing, Holds, Agree
  <2> QED
    BY <2>1, <2>7, <2>8
<1> QED
  BY <1>4, <1>5 DEF KeyInv

LEMMA NewlineKeeps == KeyInv /\ Newline => KeyInv'
<1> SUFFICES ASSUME KeyInv, Newline PROVE KeyInv'
  OBVIOUS
<1>0. /\ KeyTyped /\ helper = "getchar" /\ usr1' = TRUE
      /\ UNCHANGED <<data, length, helper, char, at, kb, requests, text, sent>>
  BY DEF KeyInv, Newline, kbVars
<1>1. /\ newline' = [now |-> <<>>, before |-> newline.now]
      /\ newline'.now = <<>> /\ newline'.before = newline.now
  BY DEF Newline
<1>2. KeyTyped'
  <2>1. newline'.now \in Seq(Key) /\ newline'.before \in Seq(Key)
    BY <1>0, <1>1 DEF KeyTyped
  <2>2. undisturbed' \in BOOLEAN
    BY <1>0 DEF Newline, KeyTyped, Quiet
  <2> QED
    BY <1>0, <1>1, <2>1, <2>2 DEF KeyTyped
<1>3. ASSUME undisturbed' PROVE ~Quiet' /\ TakingIn'
  <2>1. undisturbed /\ Quiet /\ ~Quiet'
    BY <1>0, <1>3 DEF Newline, Quiet
  <2>2. Holds(newline.now)
    BY <1>0, <2>1 DEF KeyInv, Typing
  <2>3. kb' = "idle"
    BY <1>0, <2>1 DEF Quiet
  <2> QED
    BY <1>0, <1>1, <2>1, <2>2, <2>3 DEF TakingIn, Holds, Agree
<1> QED
  BY <1>2, <1>3 DEF KeyInv

LEMMA StoreKeeps == KeyInv /\ Store => KeyInv'
<1> SUFFICES ASSUME KeyInv, Store PROVE KeyInv'
  OBVIOUS
<1>0. /\ KeyTyped /\ helper = "store" /\ data' = [data EXCEPT ![length] = char] /\ at' = length
      /\ helper' = "increment"
      /\ UNCHANGED <<length, char, usr1, kb, requests, text, sent, newline, undisturbed>>
  BY DEF KeyInv, Store, kbVars
<1>1. length \in 0 .. KEYBOARD_BUF_SIZE - 1 /\ length \in Nat
  BY <1>0, KeyboardAssumption DEF KeyTyped
<1>2. KeyTyped'
  BY <1>0, <1>1, KeyboardAssumption DEF KeyTyped
<1>3. ASSUME undisturbed PROVE Quiet' /\ Typing'
  <2>1. Quiet /\ Quiet' /\ Typing
    BY <1>0, <1>3 DEF KeyInv, TakingIn, Quiet
  <2>2. data'[length] = char /\ \A i \in 0 .. length - 1 : data'[i] = data[i]
    BY <1>0, <1>1 DEF KeyTyped
  <2>3. Agree(length, newline.now)'
    BY <1>0, <2>1, <2>2 DEF Typing, Agree
  <2> QED
    BY <1>0, <2>1, <2>2, <2>3 DEF Typing
<1> QED
  BY <1>0, <1>2, <1>3 DEF KeyInv

LEMMA IncrementKeeps == KeyInv /\ Increment => KeyInv'
<1> SUFFICES ASSUME KeyInv, Increment PROVE KeyInv'
  OBVIOUS
<1>0. /\ KeyTyped /\ helper = "increment" /\ helper' = "getchar"
      /\ length' = at + 1 \/ length' = length + 1
      /\ UNCHANGED <<data, char, at, usr1, kb, requests, text, sent, newline, undisturbed>>
  BY DEF KeyInv, Increment, kbVars
<1>1. KeyTyped'
  <2>1. length' \in 0 .. KEYBOARD_BUF_SIZE
    BY <1>0, KeyboardAssumption DEF KeyTyped
  <2> QED
    BY <1>0, <2>1 DEF KeyTyped
<1>2. ASSUME undisturbed PROVE Quiet' /\ Typing'
  <2>1. Quiet /\ Quiet' /\ Typing
    BY <1>0, <1>2 DEF KeyInv, TakingIn, Quiet
  <2>2. /\ length' = length + 1 /\ length \in Nat /\ newline.now \in Seq(Key)
        /\ Len(newline.now) = length + 1 /\ length + 1 <= KEYBOARD_BUF_SIZE
    BY <1>0, <2>1, KeyboardAssumption DEF Typing, KeyTyped
  <2>3. length' = Len(Cut(newline.now, KEYBOARD_BUF_SIZE))
    BY <2>2, CutLength
  <2>4. \A i \in 0 .. length' - 1 : data[i] = newline.now[i + 1]
    <3>1. \A i \in 0 .. length' - 1 : i \in 0 .. length - 1 \/ i = length
      BY <2>2
    <3>2. data[length] = newline.now[length + 1] /\ Agree(length, newline.now)
      BY <1>0, <2>1 DEF Typing
    <3> QED
      BY <3>1, <3>2 DEF Agree
  <2>5. Holds(newline.now)'
    BY <1>0, <2>3, <2>4 DEF Holds, Agree
  <2> QED
    BY <1>0, <2>1, <2>5 DEF Typing
<1> QED
  BY <1>0, <1>1, <1>2 DEF KeyInv

LEMMA EnterKeeps == KeyInv /\ Enter => KeyInv'
<1> SUFFICES ASSUME KeyInv, Enter PROVE KeyInv'
  OBVIOUS
<1>0. /\ KeyTyped /\ usr1 /\ kb = "idle" /\ usr1' = FALSE /\ kb' \in {"copy", "reset"}
      /\ text' = <<>> /\ sent' = FALSE
      /\ UNCHANGED <<data, helper, char, at, newline, length, undisturbed>>
  BY DEF KeyInv, Enter, helperVars
<1>1. KeyTyped'
  <2>1. text' \in Seq(Key) /\ kb' \in {"idle", "copy", "reset"} /\ usr1' \in BOOLEAN /\ sent' \in BOOLEAN
    <3>1. text' \in Seq(Key)
      BY <1>0
    <3> QED
      BY <1>0, <3>1
  <2> QED
    BY <1>0, <2>1 DEF KeyTyped
<1>2. ASSUME undisturbed PROVE ~Quiet' /\ TakingIn'
  <2>1. TakingIn /\ ~Quiet'
    BY <1>0, <1>2 DEF KeyInv, Quiet
  <2>2. Holds(newline.before)'
    BY <1>0, <2>1 DEF TakingIn, Holds, Agree
  <2>3. Len(text') = 0 /\ length \in Nat /\ \A i \in 1 .. Len(text') : FALSE
    BY <1>0 DEF KeyTyped
  <2>4. Len(text') <= length' /\ \A i \in 1 .. Len(text') : text'[i] = newline'.before[i]
    BY <1>0, <2>3
  <2> QED
    BY <1>0, <2>1, <2>2, <2>4 DEF TakingIn
<1> QED
  BY <1>0, <1>1, <1>2 DEF KeyInv

LEMMA CopyKeeps == KeyInv /\ Copy => KeyInv'
<1> SUFFICES ASSUME KeyInv, Copy PROVE KeyInv'
  OBVIOUS
<1>0. /\ KeyTyped /\ kb = "copy" /\ Len(text) < length /\ text' = Append(text, data[Len(text)])
      /\ UNCHANGED <<data, helper, char, at, newline, length, usr1, kb, requests, sent, undisturbed>>
  BY DEF KeyInv, Copy, helperVars
<1>1. Len(text) \in 0 .. KEYBOARD_BUF_SIZE - 1 /\ Len(text) \in 0 .. length - 1 /\ length \in Nat
  BY <1>0, KeyboardAssumption DEF KeyTyped
<1>2. data[Len(text)] \in Key /\ text \in Seq(Key)
  BY <1>0, <1>1 DEF KeyTyped
<1>3. KeyTyped'
  <2>1. text' \in Seq(Key)
    BY <1>0, <1>2
  <2> QED
    BY <1>0, <2>1 DEF KeyTyped
<1>4. ASSUME undisturbed PROVE ~Quiet' /\ TakingIn'
  <2>1. TakingIn /\ ~Quiet'
    BY <1>0, <1>4 DEF KeyInv, Quiet
  <2>2. Holds(newline.before)' /\ Agree(length, newline.before)
    BY <1>0, <2>1 DEF TakingIn, Holds, Agree
  <2>3. data[Len(text)] = newline.before[Len(text) + 1]
    BY <1>1, <2>2 DEF Agree
  <2>4. /\ Len(text') = Len(text) + 1 /\ text'[Len(text) + 1] = data[Len(text)]
        /\ \A i \in 1 .. Len(text) : text'[i] = text[i]
    BY <1>0, <1>2
  <2>5. \A i \in 1 .. Len(text') : i \in 1 .. Len(text) \/ i = Len(text) + 1
    BY <1>2, <2>4
  <2>6. Len(text') <= length /\ \A i \in 1 .. Len(text') : text'[i] = newline.before[i]
    BY <1>0, <1>1, <2>1, <2>3, <2>4, <2>5 DEF TakingIn
  <2> QED
    BY <1>0, <2>1, <2>2, <2>6 DEF TakingIn
<1> QED
  BY <1>0, <1>3, <1>4 DEF KeyInv

LEMMA SendKeeps == KeyInv /\ Send => KeyInv'
<1> SUFFICES ASSUME KeyInv, Send PROVE KeyInv'
  OBVIOUS
<1>0. /\ KeyTyped /\ kb = "copy" /\ Len(text) >= length /\ kb' = "reset" /\ sent' = TRUE
      /\ UNCHANGED <<data, helper, char, at, newline, length, usr1, text, undisturbed>>
  BY DEF KeyInv, Send, helperVars
<1>1. KeyTyped'
  BY <1>0 DEF KeyTyped
<1>2. ASSUME undisturbed PROVE ~Quiet' /\ TakingIn'
  <2> DEFINE line == newline.before
             cut  == Cut(line, KEYBOARD_BUF_SIZE)
  <2>1. TakingIn /\ ~Quiet'
    BY <1>0, <1>2 DEF KeyInv, Quiet
  <2>2. Holds(newline.before)'
    BY <1>0, <2>1 DEF TakingIn, Holds, Agree
  <2>3. text \in Seq(Key) /\ line \in Seq(Key) /\ length \in Nat
    BY <1>0 DEF KeyTyped
  <2>4. Len(text) = length /\ length = Len(cut) /\ \A i \in 1 .. Len(text) : text[i] = line[i]
    BY <1>0, <2>1, <2>3 DEF TakingIn, Holds
  <2>5. cut \in Seq(Key) /\ \A i \in 1 .. Len(cut) : cut[i] = line[i]
    BY <2>3, KeyboardAssumption DEF Cut
  <2> HIDE DEF cut
  <2>6. text = cut
    BY <2>3, <2>4, <2>5
  <2> QED
    BY <1>0, <2>1, <2>2, <2>6 DEF TakingIn, cut
<1> QED
  BY <1>0, <1>1, <1>2 DEF KeyInv

LEMMA ResetKeeps == KeyInv /\ Reset => KeyInv'
<1> SUFFICES ASSUME KeyInv, Reset PROVE KeyInv'
  OBVIOUS
<1>0. /\ KeyTyped /\ length' = 0 /\ kb' = "idle"
      /\ undisturbed' = (helper = "getchar" /\ newline.now = <<>> /\ ~usr1)
      /\ UNCHANGED <<data, helper, char, at, newline, usr1, text, sent>>
  BY DEF KeyInv, Reset, helperVars, LengthAfterLine
<1>1. KeyTyped'
  <2>1. 0 \in 0 .. KEYBOARD_BUF_SIZE /\ 0 < KEYBOARD_BUF_SIZE
    BY KeyboardAssumption
  <2> QED
    BY <1>0, <2>1 DEF KeyTyped
<1>2. ASSUME undisturbed' PROVE Quiet' /\ Typing'
  <2>1. helper' = "getchar" /\ newline'.now = <<>> /\ Quiet'
    BY <1>0, <1>2 DEF Quiet
  <2>2. Cut(<<>>, KEYBOARD_BUF_SIZE) = <<>> /\ \A i \in 0 .. 0 - 1 : FALSE
    BY KeyboardAssumption DEF Cut
  <2>3. Holds(newline.now)'
    BY <1>0, <2>1, <2>2 DEF Holds, Agree
  <2> QED
    BY <2>1, <2>3 DEF Typing
<1> QED
  BY <1>1, <1>2 DEF KeyInv

LEMMA KeyInvNext == KeyInv /\ [KeyNext]_keyVars => KeyInv'
<1> SUFFICES ASSUME KeyInv, [KeyNext]_keyVars PROVE KeyInv'
  OBVIOUS
<1>1. CASE get_console_chars \/ UNCHANGED keyVars
  <2>1. UNCHANGED <<data, helper, char, at, newline, length, usr1, kb, text, sent, undisturbed>>
    BY <1>1 DEF get_console_chars, keyVars, helperVars
  <2> QED
    BY <2>1 DEF KeyInv, KeyTyped, Quiet, Typing, TakingIn, Holds, Agree
<1> QED
  BY <1>1, GetcharKeeps, NewlineKeeps, StoreKeeps, IncrementKeeps, EnterKeeps, CopyKeeps, SendKeeps,
     ResetKeeps DEF KeyNext

(* The line a process gets is the line that was typed, if nobody types on  *)
(* before it is taken in, in every order of the helper's and the           *)
(* i-process's accesses to the shared memory (keyboard/src/main.c,         *)
(* kb_i_process.c).                                                        *)
THEOREM LineArrivesAsTyped == KeySpec => []LineReadAsTyped
<1>1. KeyInv => LineReadAsTyped
  BY DEF KeyInv, Quiet, TakingIn, LineReadAsTyped, Cut
<1> QED
  BY <1>1, KeyInvInit, KeyInvNext, PTL DEF KeySpec

-----------------------------------------------------------------------------
(* The trace                                                               *)

LEMMA MinIs ==
    ASSUME NEW S, S \subseteq Int, NEW x \in S, \A y \in S : x <= y
    PROVE  Min(S) = x
<1>1. \A m \in S : (\A y \in S : m <= y) => m = x
  OBVIOUS
<1> QED
  BY <1>1 DEF Min

LEMMA MaxIs ==
    ASSUME NEW S, S \subseteq Int, NEW x \in S, \A y \in S : x >= y
    PROVE  Max(S) = x
<1>1. \A m \in S : (\A y \in S : m >= y) => m = x
  OBVIOUS
<1> QED
  BY <1>1 DEF Max

LEMMA RingSize == N \in Nat /\ N >= 1
  BY TraceAssumption

LEMMA CircleIs ==
    ASSUME NEW i \in Nat, i < 2 * N
    PROVE  circle_index(i) = IF i < N THEN i ELSE i - N
  BY RingSize DEF circle_index

(* From tail on, the N places of the ring are met once each.               *)
LEMMA CircleWalk ==
    ASSUME NEW t \in 0 .. N - 1
    PROVE  /\ circle_index(t + 1) \in 0 .. N - 1
           /\ \A i \in 0 .. N - 1 : circle_index(t + i) \in 0 .. N - 1
           /\ \A i \in 0 .. N - 2 : /\ circle_index(circle_index(t + 1) + i) = circle_index(t + (i + 1))
                                    /\ circle_index(t + (i + 1)) # t
           /\ circle_index(circle_index(t + 1) + (N - 1)) = t
           /\ \A i \in 0 .. N - 1 : circle_index(t + i) = circle_index(t + (N - 1)) => i = N - 1
<1> DEFINE n == N
<1>1. n \in Nat /\ n >= 1 /\ t \in 0 .. n - 1
  BY RingSize
<1>2. \A i \in 0 .. 2 * n - 1 : circle_index(i) = IF i < n THEN i ELSE i - n
  BY <1>1, CircleIs
<1> HIDE DEF n
<1>3. circle_index(t + 1) = IF t + 1 < n THEN t + 1 ELSE 0
  BY <1>1, <1>2
<1>4. \A i \in 0 .. n - 1 : circle_index(t + i) = IF t + i < n THEN t + i ELSE (t + i) - n
  BY <1>1, <1>2
<1>5. ASSUME NEW i \in 0 .. n - 2
      PROVE  /\ circle_index(circle_index(t + 1) + i) = circle_index(t + (i + 1))
             /\ circle_index(t + (i + 1)) # t
  <2>1. circle_index(t + (i + 1)) = IF t + (i + 1) < n THEN t + (i + 1) ELSE (t + (i + 1)) - n
    BY <1>1, <1>4
  <2>2. CASE t + 1 < n
    <3>1. circle_index(t + 1) = t + 1 /\ circle_index((t + 1) + i) = circle_index(t + (i + 1))
      BY <1>1, <1>3, <2>2
    <3> QED
      BY <1>1, <2>1, <3>1
  <2>3. CASE ~(t + 1 < n)
    <3>1. circle_index(t + 1) = 0 /\ circle_index(0 + i) = i
      BY <1>1, <1>2, <1>3, <2>3
    <3> QED
      BY <1>1, <2>1, <2>3, <3>1
  <2> QED
    BY <2>2, <2>3
<1>6. circle_index(circle_index(t + 1) + (n - 1)) = t
  <2>1. CASE t + 1 < n
    <3>1. circle_index(t + 1) = t + 1 /\ circle_index((t + 1) + (n - 1)) = ((t + 1) + (n - 1)) - n
      BY <1>1, <1>2, <1>3, <2>1
    <3> QED
      BY <1>1, <3>1
  <2>2. CASE ~(t + 1 < n)
    <3>1. circle_index(t + 1) = 0 /\ circle_index(0 + (n - 1)) = n - 1
      BY <1>1, <1>2, <1>3, <2>2
    <3> QED
      BY <1>1, <2>2, <3>1
  <2> QED
    BY <2>1, <2>2
<1>7. \A i \in 0 .. n - 1 : circle_index(t + i) = circle_index(t + (n - 1)) => i = n - 1
  BY <1>1, <1>4
<1>8. circle_index(t + 1) \in 0 .. n - 1 /\ \A i \in 0 .. n - 1 : circle_index(t + i) \in 0 .. n - 1
  BY <1>1, <1>3, <1>4
<1> QED
  BY <1>5, <1>6, <1>7, <1>8 DEF n

(* The ring has the last N events, r, from its oldest entry to tail.       *)
Ring(tbuf, r) ==
    /\ tbuf = [tail |-> tbuf.tail, buf |-> tbuf.buf]
    /\ tbuf.tail \in 0 .. N - 1 /\ tbuf.buf \in [0 .. N - 1 -> Event \cup {NONE}]
    /\ r \in Seq(Event) /\ Len(r) <= N
    /\ Len(r) < N => /\ tbuf.tail = Len(r)
                     /\ \A i \in 0 .. N - 1 : tbuf.buf[i] = IF i < Len(r) THEN r[i + 1] ELSE NONE
    /\ Len(r) = N => \A i \in 0 .. N - 1 : tbuf.buf[circle_index(tbuf.tail + i)] = r[i + 1]

LEMMA RingInit == Ring(k_ipc_init, <<>>)
<1>1. k_ipc_init.tail = 0 /\ k_ipc_init.buf = [i \in 0 .. N - 1 |-> NONE]
  BY DEF k_ipc_init
<1>2. k_ipc_init = [tail |-> k_ipc_init.tail, buf |-> k_ipc_init.buf]
  BY DEF k_ipc_init
<1>3. Len(<<>>) = 0 /\ <<>> \in Seq(Event)
  OBVIOUS
<1> QED
  BY <1>1, <1>2, <1>3, RingSize DEF Ring

LEMMA RingLogs ==
    ASSUME NEW tbuf, NEW r, Ring(tbuf, r), NEW event \in Event
    PROVE  Ring(_log_msg_event(tbuf, event), LastN(Append(r, event)))
<1> DEFINE t == tbuf.tail
           b == tbuf.buf
           after == _log_msg_event(tbuf, event)
           s == Append(r, event)
           n == N
<1>1. /\ n \in Nat /\ n >= 1 /\ t \in 0 .. n - 1 /\ b \in [0 .. n - 1 -> Event \cup {NONE}]
      /\ r \in Seq(Event) /\ Len(r) \in Nat /\ Len(r) <= n
  BY RingSize DEF Ring
<1>2. /\ after.tail = circle_index(t + 1) /\ after.buf = [b EXCEPT ![t] = event]
      /\ after = [tail |-> after.tail, buf |-> after.buf]
  BY DEF _log_msg_event
<1>3. /\ s \in Seq(Event) /\ Len(s) = Len(r) + 1 /\ s[Len(r) + 1] = event
      /\ \A i \in 1 .. Len(r) : s[i] = r[i]
  BY <1>1
<1>4. \A i \in 0 .. n - 1 : after.buf[i] = IF i = t THEN event ELSE b[i]
  BY <1>1, <1>2
<1>5. after.tail \in 0 .. n - 1 /\ after.buf \in [0 .. n - 1 -> Event \cup {NONE}]
  BY <1>1, <1>2, CircleWalk
<1>6. CASE Len(r) < n
  <2>1. t = Len(r) /\ \A i \in 0 .. n - 1 : b[i] = IF i < Len(r) THEN r[i + 1] ELSE NONE
    BY <1>6 DEF Ring
  <2>2. LastN(s) = s /\ Len(s) <= n
    BY <1>1, <1>3, <1>6 DEF LastN
  <2> HIDE DEF t, b, s, after, n
  <2>3. \A i \in 0 .. n - 1 : after.buf[i] = IF i < Len(s) THEN s[i + 1] ELSE NONE
    <3> SUFFICES ASSUME NEW i \in 0 .. n - 1
                 PROVE  after.buf[i] = IF i < Len(s) THEN s[i + 1] ELSE NONE
      OBVIOUS
    <3>1. CASE i < Len(r)
      <4>1. i # t /\ i + 1 \in 1 .. Len(r) /\ i < Len(s)
        BY <1>1, <1>3, <2>1, <3>1
      <4> QED
        BY <1>3, <1>4, <2>1, <3>1, <4>1
    <3>2. CASE i = Len(r)
      BY <1>1, <1>3, <1>4, <2>1, <3>2
    <3>3. CASE i > Len(r)
      BY <1>1, <1>3, <1>4, <2>1, <3>3
    <3> QED
      BY <1>1, <3>1, <3>2, <3>3
  <2>4. Len(s) < n => after.tail = Len(s)
    <3> SUFFICES ASSUME Len(s) < n PROVE after.tail = Len(s)
      OBVIOUS
    <3>1. t + 1 < n /\ t + 1 \in Nat /\ t + 1 < 2 * n
      BY <1>1, <1>3, <2>1
    <3>2. circle_index(t + 1) = t + 1
      BY <3>1, CircleIs DEF n
    <3> QED
      BY <1>2, <1>3, <2>1, <3>2
  <2>5. Len(s) = n => \A i \in 0 .. n - 1 : after.buf[circle_index(after.tail + i)] = s[i + 1]
    <3> SUFFICES ASSUME Len(s) = n, NEW i \in 0 .. n - 1
                 PROVE  after.buf[circle_index(after.tail + i)] = s[i + 1]
      OBVIOUS
    <3>1. t + 1 = n /\ t + 1 \in Nat /\ t + 1 < 2 * n /\ i < n /\ i < 2 * n /\ i \in Nat
      BY <1>1, <1>3, <2>1
    <3>2. circle_index(t + 1) = 0 /\ circle_index(0 + i) = i
      BY <3>1, CircleIs DEF n
    <3> QED
      BY <1>2, <2>3, <3>1, <3>2
  <2> QED
    BY <1>2, <1>3, <1>5, <2>2, <2>3, <2>4, <2>5 DEF Ring, n, s, after
<1>7. CASE Len(r) = n
  <2>1. \A i \in 0 .. n - 1 : b[circle_index(t + i)] = r[i + 1]
    BY <1>7 DEF Ring
  <2>2. LastN(s) = Tail(s)
    BY <1>1, <1>3, <1>7 DEF LastN
  <2>3. /\ Tail(s) \in Seq(Event) /\ Len(Tail(s)) = n
        /\ \A i \in 1 .. n : Tail(s)[i] = s[i + 1]
    BY <1>1, <1>3, <1>7
  <2>4. /\ \A i \in 0 .. n - 1 : circle_index(t + i) \in 0 .. n - 1
        /\ \A i \in 0 .. n - 2 : /\ circle_index(after.tail + i) = circle_index(t + (i + 1))
                                 /\ circle_index(t + (i + 1)) # t
        /\ circle_index(after.tail + (n - 1)) = t
    BY <1>1, <1>2, CircleWalk
  <2> HIDE DEF t, b, s, after, n
  <2>5. ASSUME NEW i \in 0 .. n - 1
        PROVE  after.buf[circle_index(after.tail + i)] = Tail(s)[i + 1]
    <3>1. CASE i = n - 1
      <4>1. after.buf[t] = event /\ Tail(s)[i + 1] = s[(i + 1) + 1] /\ (i + 1) + 1 = Len(r) + 1
        BY <1>1, <1>4, <1>7, <2>3, <3>1
      <4> QED
        BY <1>3, <2>4, <3>1, <4>1
    <3>2. CASE i # n - 1
      <4>1. i \in 0 .. n - 2 /\ i + 1 \in 0 .. n - 1 /\ i + 1 \in 1 .. n /\ (i + 1) + 1 \in 1 .. Len(r)
        BY <1>1, <1>7, <3>2
      <4>2. after.buf[circle_index(t + (i + 1))] = b[circle_index(t + (i + 1))]
        BY <1>4, <2>4, <4>1
      <4>3. b[circle_index(t + (i + 1))] = r[(i + 1) + 1] /\ Tail(s)[i + 1] = s[(i + 1) + 1]
        BY <2>1, <2>3, <4>1
      <4> QED
        BY <1>3, <2>4, <4>1, <4>2, <4>3
    <3> QED
      BY <3>1, <3>2
  <2>6. Ring(after, Tail(s))
    <3>1. Len(Tail(s)) <= N /\ ~(Len(Tail(s)) < N)
      BY <1>1, <2>3 DEF n
    <3>2. \A i \in 0 .. N - 1 : after.buf[circle_index(after.tail + i)] = Tail(s)[i + 1]
      BY <2>5 DEF n
    <3>3. after.tail \in 0 .. N - 1 /\ after.buf \in [0 .. N - 1 -> Event \cup {NONE}]
      BY <1>5 DEF n
    <3> QED
      BY <1>2, <2>3, <3>1, <3>2, <3>3 DEF Ring
  <2> QED
    BY <2>2, <2>6 DEF s, after
<1> QED
  BY <1>1, <1>6, <1>7

TraceInv ==
    /\ trace_buf = [kind \in Kind |-> trace_buf[kind]] /\ recent = [kind \in Kind |-> recent[kind]]
    /\ \A kind \in Kind : Ring(trace_buf[kind], recent[kind])

LEMMA TraceInvInit == TraceInit => TraceInv
  BY RingInit DEF TraceInit, TraceInv

LEMMA TraceInvNext == TraceInv /\ [TraceNext]_traceVars => TraceInv'
<1> SUFFICES ASSUME TraceInv, [TraceNext]_traceVars PROVE TraceInv'
  OBVIOUS
<1>1. CASE TraceNext
  <2>1. PICK kind \in Kind, event \in Event :
          /\ trace_buf' = [trace_buf EXCEPT ![kind] = _log_msg_event(@, event)]
          /\ recent' = [recent EXCEPT ![kind] = LastN(Append(@, event))]
    BY <1>1 DEF TraceNext, Sent, Received, Logged, Kind
  <2>2. Ring(_log_msg_event(trace_buf[kind], event), LastN(Append(recent[kind], event)))
    BY RingLogs DEF TraceInv
  <2>3. DOMAIN trace_buf = Kind /\ DOMAIN recent = Kind
    BY DEF TraceInv
  <2>4. /\ trace_buf' = [o \in Kind |-> IF o = kind THEN _log_msg_event(trace_buf[kind], event)
                                        ELSE trace_buf[o]]
        /\ recent' = [o \in Kind |-> IF o = kind THEN LastN(Append(recent[kind], event)) ELSE recent[o]]
    BY <2>1, <2>3
  <2> QED
    BY <2>2, <2>4 DEF TraceInv
<1>2. CASE UNCHANGED traceVars
  BY <1>2 DEF traceVars, TraceInv
<1> QED
  BY <1>1, <1>2

(* The events of r and what is empty behind them.                          *)
Listed(r) == [i \in 0 .. N - 1 |-> IF i < Len(r) THEN r[i + 1] ELSE NONE]

(* The search ends at the oldest entry: it stops at the first entry it     *)
(* finds, and at the last place of the ring at the latest, unless last is  *)
(* no place of the ring, as it is on the board when tail is 0.             *)
LEMMA HeadFound ==
    ASSUME NEW tbuf, NEW r, Ring(tbuf, r),
           NEW last, \/ last = circle_index(tbuf.tail + (N - 1))
                     \/ last = -1 /\ Len(r) = N
    PROVE  /\ HeadFrom(tbuf, last) # -1
           /\ Dump(tbuf, HeadFrom(tbuf, last)) = Listed(r)
<1> DEFINE t == tbuf.tail
           b == tbuf.buf
           n == N
           place(i) == circle_index(t + i)
           stops == {i \in 0 .. n - 1 : b[place(i)] # NONE \/ place(i) = last}
           head == HeadFrom(tbuf, last)
<1>1. /\ n \in Nat /\ n >= 1 /\ t \in 0 .. n - 1
      /\ r \in Seq(Event) /\ Len(r) \in Nat /\ Len(r) <= n
      /\ \A i \in 1 .. Len(r) : r[i] # NONE
  BY RingSize, TraceAssumption DEF Ring
<1>2. head = IF stops = {} THEN -1 ELSE place(Min(stops))
  BY DEF HeadFrom
<1>3. /\ \A i \in 0 .. n - 1 : place(i) \in 0 .. n - 1
      /\ \A i \in 0 .. n - 1 : place(i) = place(n - 1) => i = n - 1
  BY <1>1, CircleWalk
<1>4. Dump(tbuf, head) = [i \in 0 .. n - 1 |-> b[circle_index(head + i)]]
  BY DEF Dump
<1>5. stops \subseteq Int
  BY <1>1
<1>6. \A i \in 0 .. n - 1 : i + 1 \in 1 .. Len(r) \/ i >= Len(r)
  BY <1>1
<1> HIDE DEF head
<1>7. CASE Len(r) = n
  <2>1. \A i \in 0 .. n - 1 : b[place(i)] = r[i + 1]
    BY <1>7 DEF Ring
  <2> HIDE DEF b, place
  <2>2. 0 \in stops /\ \A i \in stops : 0 <= i
    BY <1>1, <1>7, <2>1
  <2>3. Min(stops) = 0
    BY <1>5, <2>2, MinIs
  <2>4. head = place(0) /\ t + 0 = t /\ t \in Nat /\ t < 2 * n /\ t < n
    BY <1>1, <1>2, <2>2, <2>3
  <2>5. head = t
    BY <2>4, CircleIs DEF place, n
  <2>6. Dump(tbuf, head) = Listed(r)
    BY <1>1, <1>4, <1>7, <2>1, <2>5 DEF Listed, place, n
  <2> QED
    BY <1>1, <2>5, <2>6 DEF head
<1>8. CASE Len(r) < n
  <2>1. /\ t = Len(r) /\ last = place(n - 1)
        /\ \A i \in 0 .. n - 1 : b[i] = IF i < Len(r) THEN r[i + 1] ELSE NONE
    BY <1>8 DEF Ring
  <2> HIDE DEF b
  <2>2. \A i \in 0 .. n - 1 : place(i) = IF t + i < n THEN t + i ELSE (t + i) - n
    <3> SUFFICES ASSUME NEW i \in 0 .. n - 1
                 PROVE  place(i) = IF t + i < n THEN t + i ELSE (t + i) - n
      OBVIOUS
    <3>1. t + i \in Nat /\ t + i < 2 * n
      BY <1>1
    <3> QED
      BY <3>1, CircleIs DEF n
  <2> HIDE DEF place, n, t
  <2>3. CASE Len(r) = 0
    <3>1. \A i \in 0 .. n - 1 : b[i] = NONE
      BY <1>1, <2>1, <2>3
    <3>2. n - 1 \in stops /\ \A i \in stops : i = n - 1
      <4>1. \A i \in 0 .. n - 1 : b[place(i)] = NONE
        BY <1>3, <3>1
      <4>2. n - 1 \in 0 .. n - 1
        BY <1>1
      <4> QED
        BY <1>3, <2>1, <4>1, <4>2
    <3> HIDE DEF stops
    <3>3. Min(stops) = n - 1
      <4>1. \A i \in stops : n - 1 <= i
        BY <1>1, <3>2
      <4> QED
        BY <1>5, <3>2, <4>1, MinIs
    <3>4. head = n - 1
      BY <1>1, <1>2, <2>1, <2>2, <2>3, <3>2, <3>3
    <3>5. \A i \in 0 .. n - 1 : circle_index(head + i) \in 0 .. n - 1
      <4>1. n - 1 \in 0 .. n - 1
        BY <1>1
      <4> QED
        BY <3>4, <4>1, CircleWalk DEF n
    <3>6. Dump(tbuf, head) = [i \in 0 .. n - 1 |-> NONE]
      BY <1>4, <3>1, <3>5
    <3>7. Listed(r) = [i \in 0 .. n - 1 |-> NONE]
      BY <1>1, <2>3 DEF Listed, n
    <3> QED
      BY <1>1, <3>4, <3>6, <3>7 DEF head
  <2>4. CASE Len(r) > 0
    <3>1. n - Len(r) \in 0 .. n - 1 /\ place(n - Len(r)) = 0 /\ 1 \in 1 .. Len(r)
      BY <1>1, <1>8, <2>1, <2>2, <2>4
    <3>2. b[0] # NONE
      <4>1. 0 \in 0 .. n - 1 /\ 0 < Len(r) /\ 0 + 1 = 1
        BY <1>1, <2>4
      <4> QED
        BY <1>1, <2>1, <3>1, <4>1
    <3>3. n - Len(r) \in stops
      BY <3>1, <3>2
    <3>4. ASSUME NEW i \in stops PROVE n - Len(r) <= i
      <4>1. i \in 0 .. n - 1 /\ (b[place(i)] # NONE \/ i = n - 1)
        BY <1>3, <2>1
      <4>2. CASE i < n - Len(r)
        <5>1. place(i) = Len(r) + i /\ Len(r) + i \in 0 .. n - 1 /\ ~(Len(r) + i < Len(r)) /\ i # n - 1
          BY <1>1, <2>1, <2>2, <2>4, <4>1, <4>2
        <5> QED
          BY <2>1, <4>1, <5>1
      <4> QED
        BY <1>1, <4>1, <4>2
    <3> HIDE DEF stops
    <3>5. Min(stops) = n - Len(r)
      BY <1>5, <3>3, <3>4, MinIs
    <3>6. head = 0
      BY <1>2, <3>1, <3>3, <3>5
    <3>7. \A i \in 0 .. n - 1 : circle_index(head + i) = i
      <4> SUFFICES ASSUME NEW i \in 0 .. n - 1 PROVE circle_index(0 + i) = i
        BY <3>6
      <4>1. 0 + i = i /\ i \in Nat /\ i < n /\ i < 2 * n
        BY <1>1
      <4> QED
        BY <4>1, CircleIs DEF n
    <3>8. Dump(tbuf, head) = Listed(r)
      BY <1>4, <2>1, <3>7 DEF Listed, n
    <3> QED
      BY <3>6, <3>8 DEF head
  <2> QED
    BY <1>1, <2>3, <2>4
<1> QED
  BY <1>1, <1>7, <1>8

LEMMA LastOfMultiple ==
    ASSUME NEW n \in Nat, n >= 1, NEW m \in Nat, m >= 1, m % n = 0
    PROVE  (m - 1) % n = n - 1
<1> DEFINE q == m \div n
<1>1. q \in Nat /\ m = q * n
  OBVIOUS
<1> HIDE DEF q
<1>2. q >= 1
  BY <1>1
<1>3. q - 1 \in Nat /\ m - 1 = ((q - 1) * n) + (n - 1)
  BY <1>1, <1>2
<1>4. \A k \in Nat : ((k * n) + (n - 1)) % n = n - 1
  OBVIOUS
<1> QED
  BY <1>3, <1>4

LEMMA DumpOnUnix ==
    ASSUME NEW tbuf, NEW r, Ring(tbuf, r)
    PROVE  /\ _find_trace_buf_head(tbuf) # -1
           /\ Dump(tbuf, _find_trace_buf_head(tbuf)) = Listed(r)
<1> DEFINE t == tbuf.tail
           n == N
<1>1. /\ n \in Nat /\ n >= 1 /\ t \in 0 .. n - 1
      /\ UINT32 \in Nat /\ UINT32 >= 1 /\ UINT32 % n = 0
  BY RingSize, TraceAssumption DEF Ring
<1>2. UINT32 >= n
  BY <1>1
<1>3. circle_index((t - 1) % UINT32) = circle_index(t + (n - 1))
  <2>1. CASE t = 0
    <3>1. (t - 1) % UINT32 = UINT32 - 1
      BY <1>1, <2>1
    <3>2. (UINT32 - 1) % n = n - 1
      BY <1>1, LastOfMultiple
    <3>3. circle_index(t + (n - 1)) = n - 1
      BY <1>1, <2>1, CircleIs DEF n
    <3> QED
      BY <3>1, <3>2, <3>3 DEF circle_index, n
  <2>2. CASE t # 0
    <3>1. (t - 1) % UINT32 = t - 1
      BY <1>1, <1>2, <2>2
    <3>2. t - 1 \in Nat /\ t - 1 < n /\ t - 1 < 2 * n /\ t + (n - 1) \in Nat /\ t + (n - 1) < 2 * n
      BY <1>1, <2>2
    <3>3. circle_index(t - 1) = t - 1 /\ circle_index(t + (n - 1)) = t - 1
      BY <1>1, <2>2, <3>2, CircleIs DEF n
    <3> QED
      BY <3>1, <3>3
  <2> QED
    BY <2>1, <2>2
<1> QED
  BY <1>3, HeadFound DEF _find_trace_buf_head

LEMMA DumpOnBoard ==
    ASSUME NEW tbuf, NEW r, Ring(tbuf, r), r # <<>>
    PROVE  /\ find_trace_buf_head(tbuf) # -1
           /\ Dump(tbuf, find_trace_buf_head(tbuf)) = Listed(r)
<1> DEFINE t == tbuf.tail
           n == N
<1>1. /\ n \in Nat /\ n >= 1 /\ t \in 0 .. n - 1
      /\ r \in Seq(Event) /\ Len(r) \in Nat /\ Len(r) # 0 /\ Len(r) <= n
      /\ Len(r) < n => t = Len(r)
  BY RingSize DEF Ring
<1>2. t = 0 => Len(r) = n
  BY <1>1
<1>3. t # 0 => circle_index(t - 1) = circle_index(t + (n - 1))
  <2> SUFFICES ASSUME t # 0 PROVE circle_index(t - 1) = circle_index(t + (n - 1))
    OBVIOUS
  <2>1. t - 1 \in Nat /\ t - 1 < n /\ t - 1 < 2 * n /\ t + (n - 1) \in Nat /\ t + (n - 1) < 2 * n
    BY <1>1
  <2>2. circle_index(t - 1) = t - 1 /\ circle_index(t + (n - 1)) = t - 1
    BY <1>1, <2>1, CircleIs DEF n
  <2> QED
    BY <2>2
<1> QED
  BY <1>2, <1>3, HeadFound DEF find_trace_buf_head

(* The table of a dump of both.                                            *)
Expected ==
    LET Entry(kind, i) == IF i <= Len(recent[kind]) THEN recent[kind][i] ELSE NONE
    IN  [i \in 1 .. Max({Len(recent[kind]) : kind \in Kind}) |->
           [kind \in Kind |-> Entry(kind, i)]]

LEMMA TableOfBoth ==
    ASSUME TraceInv
    PROVE  CCI_printTraceBuffers([kind \in Kind |-> Listed(recent[kind])]) = Expected
<1> DEFINE s == Len(recent["send"])
           r == Len(recent["recv"])
           n == N
           dump == [kind \in Kind |-> Listed(recent[kind])]
           lens == {Len(recent[kind]) : kind \in Kind}
           empty == {i \in 0 .. n - 1 : \A kind \in Kind : dump[kind][i] = NONE}
<1>1. n \in Nat /\ n >= 1 /\ s \in Nat /\ r \in Nat /\ s <= n /\ r <= n
  BY RingSize DEF TraceInv, Ring, Kind
<1>2. \A kind \in Kind : \A i \in 1 .. Len(recent[kind]) : recent[kind][i] # NONE
  BY TraceAssumption DEF TraceInv, Ring
<1>3. lens = {s, r}
  BY DEF Kind
<1>4. PICK m : m = IF s >= r THEN s ELSE r
  OBVIOUS
<1>5. Max(lens) = m /\ m \in Nat /\ m <= n
  <2> HIDE DEF s, r, lens
  <2>1. lens \subseteq Int /\ m \in lens /\ (\A y \in lens : m >= y) /\ m \in Nat /\ m <= n
    BY <1>1, <1>3, <1>4
  <2> QED
    BY <2>1, MaxIs
<1>6. ASSUME NEW kind \in Kind, NEW i \in 0 .. n - 1
      PROVE  /\ dump[kind][i] = IF i < Len(recent[kind]) THEN recent[kind][i + 1] ELSE NONE
             /\ dump[kind][i] = NONE <=> ~(i < Len(recent[kind]))
  <2>1. dump[kind][i] = IF i < Len(recent[kind]) THEN recent[kind][i + 1] ELSE NONE
    BY DEF Listed
  <2>2. Len(recent[kind]) \in Nat
    BY <1>1 DEF Kind
  <2>3. i < Len(recent[kind]) => i + 1 \in 1 .. Len(recent[kind])
    BY <1>1, <2>2
  <2> QED
    BY <1>2, <2>1, <2>3
<1>7. empty = {i \in 0 .. n - 1 : i >= m}
  <2>1. \A i \in 0 .. n - 1 : (\A kind \in Kind : dump[kind][i] = NONE) <=> ~(i < s) /\ ~(i < r)
    BY <1>6 DEF Kind
  <2> HIDE DEF dump, s, r
  <2>2. \A i \in 0 .. n - 1 : ~(i < s) /\ ~(i < r) <=> i >= m
    BY <1>1, <1>4
  <2> QED
    BY <2>1, <2>2
<1>8. (IF empty = {} THEN n ELSE Min(empty)) = m
  <2> HIDE DEF empty
  <2>1. CASE m = n
    <3>1. empty = {}
      BY <1>1, <1>7, <2>1
    <3> QED
      BY <2>1, <3>1
  <2>2. CASE m # n
    <3>1. m \in empty /\ (\A i \in empty : m <= i) /\ empty \subseteq Int
      BY <1>1, <1>5, <1>7, <2>2
    <3> QED
      BY <3>1, MinIs
  <2> QED
    BY <2>1, <2>2
<1>9. CCI_printTraceBuffers(dump) = [i \in 1 .. m |-> [kind \in Kind |-> dump[kind][i - 1]]]
  BY <1>8 DEF CCI_printTraceBuffers, Rows
<1>10. ASSUME NEW i \in 1 .. m, NEW kind \in Kind
       PROVE  dump[kind][i - 1] = IF i <= Len(recent[kind]) THEN recent[kind][i] ELSE NONE
  <2>1. i - 1 \in 0 .. n - 1 /\ (i - 1) + 1 = i
    BY <1>1, <1>5
  <2>2. Len(recent[kind]) \in Nat
    BY <1>1 DEF Kind
  <2>3. i - 1 < Len(recent[kind]) <=> i <= Len(recent[kind])
    BY <1>5, <2>2
  <2> HIDE DEF dump
  <2> QED
    BY <1>6, <2>1, <2>3
<1> HIDE DEF dump
<1>11. CCI_printTraceBuffers(dump)
         = [i \in 1 .. m |-> [kind \in Kind |->
              IF i <= Len(recent[kind]) THEN recent[kind][i] ELSE NONE]]
  BY <1>9, <1>10
<1> QED
  BY <1>5, <1>11 DEF Expected, dump

(* The dump of the trace on unix, and the table the CCI of the board       *)
(* prints of its own, are the last messages, in order, for rings of any    *)
(* size (k_ipc.c of unix; k_ipc.c, k_primitives.c and cci_utils.c of the   *)
(* board).                                                                 *)
THEOREM TraceShowsLastMessages == TraceSpec => []TraceInOrder
<1>1. TraceInv => TraceInOrder
  <2> SUFFICES ASSUME TraceInv PROVE TraceInOrder
    OBVIOUS
  <2>1. \A kind \in Kind : _find_trace_buf_head(trace_buf[kind]) # -1
    BY DumpOnUnix DEF TraceInv
  <2>2. k_get_trace_buffers = [kind \in Kind |-> Listed(recent[kind])]
    BY DumpOnUnix DEF TraceInv, k_get_trace_buffers
  <2>3. ASSUME \A kind \in Kind : recent[kind] # <<>>
        PROVE  /\ \A kind \in Kind : find_trace_buf_head(trace_buf[kind]) # -1
               /\ k_get_trace_buffers_cf = [kind \in Kind |-> Listed(recent[kind])]
    BY <2>3, DumpOnBoard DEF TraceInv, k_get_trace_buffers_cf
  <2>4. ASSUME NEW kind \in Kind
        PROVE  Listed(recent[kind])
                 = [i \in 0 .. N - 1 |-> IF i + 1 <= Len(recent[kind]) THEN recent[kind][i + 1] ELSE NONE]
    <3>1. N \in Nat /\ Len(recent[kind]) \in Nat
      BY RingSize, TraceAssumption DEF TraceInv, Ring
    <3>2. \A i \in 0 .. N - 1 : i < Len(recent[kind]) <=> i + 1 <= Len(recent[kind])
      BY <3>1
    <3> QED
      BY <3>2 DEF Listed
  <2> QED
    BY <2>1, <2>2, <2>3, <2>4, TableOfBoth DEF TraceInOrder, Expected
<1> QED
  BY <1>1, TraceInvInit, TraceInvNext, PTL DEF TraceSpec

-----------------------------------------------------------------------------
(* The clock                                                               *)

LEMMA Decimal == /\ 10 ^ 0 = 1 /\ 10 ^ 1 = 10 /\ 10 ^ 2 = 100 /\ 10 ^ 3 = 1000 /\ 10 ^ 4 = 10000
                 /\ 10 ^ 5 = 100000 /\ 10 ^ 6 = 1000000 /\ 10 ^ 7 = 10000000
                 /\ 10 ^ 8 = 100000000 /\ 10 ^ 9 = 1000000000 /\ 10 ^ 10 = 10000000000
  OBVIOUS

LEMMA NumDigitsIs ==
    ASSUME NEW num \in 0 .. 99
    PROVE  NumDigits(num) = IF num = 0 THEN 0 ELSE IF num < 10 THEN 1 ELSE 2
<1> DEFINE P(n) == num < 10 ^ n /\ (n > 0 => num >= 10 ^ (n - 1))
           m == IF num = 0 THEN 0 ELSE IF num < 10 THEN 1 ELSE 2
<1>1. m \in 0 .. 10 /\ P(m)
  <2>1. CASE num = 0
    BY <2>1, Decimal
  <2>2. CASE num \in 1 .. 9
    <3>1. m = 1 /\ 1 - 1 = 0
      BY <2>2
    <3> QED
      BY <2>2, <3>1, Decimal
  <2>3. CASE num \in 10 .. 99
    <3>1. m = 2 /\ 2 - 1 = 1
      BY <2>3
    <3> QED
      BY <2>3, <3>1, Decimal
  <2> QED
    BY <2>1, <2>2, <2>3
<1>2. ASSUME NEW n \in 0 .. 10, P(n) PROVE n = m
  <2>1. CASE n = 0
    BY <1>2, <2>1, Decimal
  <2>2. CASE n = 1
    <3>1. num < 10 ^ 1 /\ num >= 10 ^ (1 - 1) /\ 1 - 1 = 0
      BY <1>2, <2>2
    <3> QED
      BY <3>1, <2>2, Decimal
  <2>3. CASE n = 2
    <3>1. num >= 10 ^ (2 - 1) /\ 2 - 1 = 1
      BY <1>2, <2>3
    <3> QED
      BY <3>1, <2>3, Decimal
  <2>4. CASE n \in 3 .. 10
    <3>1. n - 1 \in {2, 3, 4, 5, 6, 7, 8, 9}
      BY <2>4
    <3>2. 10 ^ (n - 1) >= 100
      <4> DEFINE pow(k) == 10 ^ k
      <4>1. /\ pow(2) = 100 /\ pow(3) = 1000 /\ pow(4) = 10000 /\ pow(5) = 100000
            /\ pow(6) = 1000000 /\ pow(7) = 10000000 /\ pow(8) = 100000000 /\ pow(9) = 1000000000
        BY Decimal
      <4> HIDE DEF pow
      <4>2. pow(n - 1) >= 100
        BY <3>1, <4>1
      <4> QED
        BY <4>2 DEF pow
    <3>3. num >= 10 ^ (n - 1)
      BY <1>2, <2>4
    <3> HIDE DEF P, m
    <3>4. num >= 100
      BY <3>1, <3>2, <3>3, Decimal
    <3> QED
      BY <3>4
  <2> QED
    BY <2>1, <2>2, <2>3, <2>4
<1>3. NumDigits(num) = CHOOSE n \in 0 .. 10 : P(n)
  BY DEF NumDigits
<1> HIDE DEF P
<1>4. (CHOOSE n \in 0 .. 10 : P(n)) = m
  <2> HIDE DEF m
  <2> QED
    BY <1>1, <1>2
<1> QED
  BY <1>3, <1>4

LEMMA PaddingIs ==
    /\ Padding(2, TRUE) = <<0, 0>>
    /\ Padding(1, TRUE) = <<0>>
    /\ Padding(0, TRUE) = <<>>
<1>1. Padding(2, TRUE) = <<0, 0>>
  BY DEF Padding
<1>2. Padding(1, TRUE) = <<0>>
  BY DEF Padding
<1>3. Padding(0, TRUE) = <<>>
  BY DEF Padding
<1> QED
  BY <1>1, <1>2, <1>3

LEMMA DigitsAre ==
    ASSUME NEW num \in 0 .. 99
    PROVE  /\ DigitsOf(num, 0) = <<>>
           /\ num < 10 => DigitsOf(num, 1) = <<num>>
           /\ DigitsOf(num, 2) = <<num \div 10, num % 10>>
<1>1. DigitsOf(num, 0) = <<>>
  BY DEF DigitsOf
<1>2. ASSUME num < 10 PROVE DigitsOf(num, 1) = <<num>>
  <2> DEFINE f == [i \in 1 .. 1 |-> (num \div 10 ^ (1 - i)) % 10]
  <2>1. (num \div 10 ^ (1 - 1)) % 10 = num
    <3>1. 10 ^ (1 - 1) = 1
      BY Decimal
    <3>2. (num \div 1) % 10 = num
      BY <1>2
    <3> QED
      BY <3>1, <3>2
  <2>2. f[1] = num
    BY <2>1
  <2> HIDE DEF f
  <2>3. f = <<num>>
    <3>1. f = [i \in 1 .. 1 |-> f[i]]
      BY DEF f
    <3> QED
      BY <3>1, <2>2
  <2> QED
    BY <2>3 DEF f, DigitsOf
<1>3. DigitsOf(num, 2) = <<num \div 10, num % 10>>
  <2> DEFINE f == [i \in 1 .. 2 |-> (num \div 10 ^ (2 - i)) % 10]
  <2>1. (num \div 10 ^ (2 - 1)) % 10 = num \div 10
    <3>1. 10 ^ (2 - 1) = 10
      BY Decimal
    <3>2. (num \div 10) % 10 = num \div 10
      OBVIOUS
    <3> QED
      BY <3>1, <3>2
  <2>2. (num \div 10 ^ (2 - 2)) % 10 = num % 10
    <3>1. 10 ^ (2 - 2) = 1
      BY Decimal
    <3>2. (num \div 1) % 10 = num % 10
      OBVIOUS
    <3> QED
      BY <3>1, <3>2
  <2>3. f[1] = num \div 10 /\ f[2] = num % 10
    BY <2>1, <2>2
  <2> HIDE DEF f
  <2>4. f = <<num \div 10, num % 10>>
    <3>1. f = [i \in 1 .. 2 |-> f[i]]
      BY DEF f
    <3> DEFINE p == num \div 10
               q == num % 10
    <3> HIDE DEF p, q
    <3>2. f[1] = p /\ f[2] = q
      BY <2>3 DEF p, q
    <3>3. f = <<p, q>>
      BY <3>1, <3>2
    <3> QED
      BY <3>3 DEF p, q
  <2> QED
    BY <2>4 DEF f, DigitsOf
<1> QED
  BY <1>1, <1>2, <1>3

LEMMA OneByOne ==
    ASSUME NEW str \in Seq(Int), NEW a \in Int, NEW b \in Int
    PROVE  (str \o <<a>>) \o <<b>> = str \o <<a, b>>
<1> DEFINE x == <<a>>
           y == <<b>>
           both == <<a, b>>
<1>1. /\ x \in Seq(Int) /\ Len(x) = 1 /\ x[1] = a
      /\ y \in Seq(Int) /\ Len(y) = 1 /\ y[1] = b
      /\ both \in Seq(Int) /\ Len(both) = 2 /\ both[1] = a /\ both[2] = b
  OBVIOUS
<1> HIDE DEF x, y, both
<1>2. x \o y = both
  <2> DEFINE z == x \o y
  <2>1. z \in Seq(Int) /\ Len(z) = 2 /\ z[1] = a /\ z[2] = b
    <3>1. /\ z \in Seq(Int)
          /\ Len(z) = Len(x) + Len(y)
          /\ \A i \in 1 .. Len(x) + Len(y) : z[i] = IF i <= Len(x) THEN x[i] ELSE y[i - Len(x)]
      <4>1. x \in Seq(Int) /\ y \in Seq(Int)
        BY <1>1
      <4> QED
        BY <4>1, ConcatProperties, Zenon
    <3> HIDE DEF z
    <3>2. Len(z) = 2
      BY <1>1, <3>1
    <3>3. 1 \in 1 .. Len(x) + Len(y) /\ 2 \in 1 .. Len(x) + Len(y) /\ 2 - Len(x) = 1
      BY <1>1
    <3>4. z[1] = x[1] /\ z[2] = y[1]
      BY <1>1, <3>1, <3>3
    <3> QED
      BY <1>1, <3>1, <3>2, <3>4
  <2> HIDE DEF z
  <2>2. \A i \in 1 .. Len(z) : z[i] = both[i]
    BY <1>1, <2>1
  <2>3. z = both
    BY <1>1, <2>1, <2>2, SeqEqual
  <2> QED
    BY <2>3 DEF z
<1>3. (str \o x) \o y = str \o (x \o y)
  <2>1. x \in Seq(Int) /\ y \in Seq(Int)
    BY <1>1
  <2>2. str \in Seq(Int)
    OBVIOUS
  <2> QED
    BY <2>1, <2>2, ConcatAssociative, SMT
<1>4. (str \o x) \o y = str \o both
  BY <1>2, <1>3, Zenon
<1> QED
  BY <1>4 DEF x, y, both

(* A number of two digits at most, in two digits.                          *)
LEMMA TwoDigits ==
    ASSUME NEW str \in Seq(Int), NEW num \in 0 .. 99
    PROVE  AppendNumber(str, num, 2, TRUE) = str \o <<num \div 10, num % 10>>
<1> DEFINE size == NumDigits(num)
           padded == str \o Padding(2 - size, TRUE)
           zeroed == IF size = 0 THEN Front(padded) \o <<0>> ELSE padded
<1>1. AppendNumber(str, num, 2, TRUE) = (zeroed \o <<>>) \o DigitsOf(num, size)
  <2>1. ~(num < 0)
    OBVIOUS
  <2> QED
    BY <2>1 DEF AppendNumber
<1>2. size = IF num = 0 THEN 0 ELSE IF num < 10 THEN 1 ELSE 2
  BY NumDigitsIs
<1> HIDE DEF size
<1>3. CASE num = 0
  <2>1. size = 0 /\ 2 - size = 2
    BY <1>2, <1>3
  <2>2. padded = str \o <<0, 0>>
    BY <2>1, PaddingIs
  <2>3. Front(str \o <<0, 0>>) = str \o <<0>>
    BY DEF Front
  <2>4. DigitsOf(num, size) = <<>>
    BY <2>1, DigitsAre
  <2>5. zeroed = (str \o <<0>>) \o <<0>>
    BY <2>1, <2>2, <2>3
  <2>6. (((str \o <<0>>) \o <<0>>) \o <<>>) \o <<>> = str \o <<0, 0>>
    <3>1. (str \o <<0>>) \o <<0>> = str \o <<0, 0>>
      <4>1. 0 \in Int
        OBVIOUS
      <4> QED
        BY <4>1, OneByOne, Zenon
    <3>2. (str \o <<0, 0>>) \o <<>> = str \o <<0, 0>>
      OBVIOUS
    <3> QED
      BY <3>1, <3>2, Zenon
  <2>7. num \div 10 = 0 /\ num % 10 = 0
    BY <1>3
  <2> HIDE DEF zeroed
  <2> QED
    BY <1>1, <2>4, <2>5, <2>6, <2>7
<1>4. CASE num \in 1 .. 9
  <2>1. size = 1 /\ 2 - size = 1 /\ size # 0
    BY <1>2, <1>4
  <2>2. zeroed = str \o <<0>>
    BY <2>1, PaddingIs, Zenon
  <2>3. DigitsOf(num, size) = <<num>>
    <3>1. num < 10
      BY <1>4
    <3> QED
      BY <2>1, <3>1, DigitsAre, Zenon
  <2>4. num \div 10 = 0 /\ num % 10 = num
    BY <1>4
  <2>5. ((str \o <<0>>) \o <<>>) \o <<num>> = str \o <<0, num>>
    OBVIOUS
  <2> HIDE DEF zeroed
  <2> QED
    BY <1>1, <2>2, <2>3, <2>4, <2>5
<1>5. CASE num \in 10 .. 99
  <2>1. size = 2 /\ 2 - size = 0 /\ size # 0
    BY <1>2, <1>5
  <2>2. zeroed = str \o <<>>
    BY <2>1, PaddingIs, Zenon
  <2>3. DigitsOf(num, size) = <<num \div 10, num % 10>>
    BY <2>1, DigitsAre
  <2>4. (str \o <<>>) \o <<>> = str
    OBVIOUS
  <2> HIDE DEF zeroed
  <2> QED
    BY <1>1, <2>2, <2>3, <2>4
<1>6. num = 0 \/ num \in 1 .. 9 \/ num \in 10 .. 99
  OBVIOUS
<1> QED
  BY <1>3, <1>4, <1>5, <1>6, Zenon

LEMMA SpacesEndAt ==
    ASSUME NEW str \in Seq(Int), Len(str) = 2, str[1] # SPACE
    PROVE  Unspaced(str) = str
<1> DEFINE P(i) == /\ i <= Len(str) => str[i] # SPACE
                   /\ \A j \in 1 .. i - 1 : str[j] = SPACE
<1>1. 1 \in 1 .. Len(str) + 1 /\ P(1)
  OBVIOUS
<1>2. ASSUME NEW i \in 1 .. Len(str) + 1, P(i) PROVE i = 1
  <2>1. CASE i > 1
    <3>1. 1 \in 1 .. i - 1
      BY <2>1
    <3> QED
      BY <1>2, <3>1
  <2> QED
    BY <2>1
<1>3. SpacesEnd(str) = CHOOSE i \in 1 .. Len(str) + 1 : P(i)
  BY DEF SpacesEnd
<1> HIDE DEF P
<1>4. (CHOOSE i \in 1 .. Len(str) + 1 : P(i)) = 1
  BY <1>1, <1>2
<1>5. SubSeq(str, 1, Len(str)) = str
  OBVIOUS
<1> QED
  BY <1>3, <1>4, <1>5 DEF Unspaced

LEMMA ValueOfTwo ==
    ASSUME NEW str \in Seq(Int), Len(str) = 2
    PROVE  DecimalValue(str) = (10 * str[1]) + str[2]
<1> DEFINE Step(v) == [i \in 0 .. Len(str) |-> IF i = 0 THEN 0 ELSE 10 * v[i - 1] + str[i]]
           read == [i \in 0 .. 2 |-> IF i = 0 THEN 0 ELSE IF i = 1 THEN str[1] ELSE (10 * str[1]) + str[2]]
           value == CHOOSE v : v = Step(v)
<1>1. str[1] \in Int /\ str[2] \in Int
  OBVIOUS
<1>2. read = Step(read)
  <2> DEFINE f == Step(read)
  <2>1. 0 .. Len(str) = 0 .. 2
    OBVIOUS
  <2>2. read[0] = 0 /\ read[1] = str[1] /\ read[2] = (10 * str[1]) + str[2]
    OBVIOUS
  <2>3. f = [i \in 0 .. 2 |-> IF i = 0 THEN 0 ELSE 10 * read[i - 1] + str[i]]
    BY <2>1
  <2> HIDE DEF read
  <2>4. \A i \in 0 .. 2 : (IF i = 0 THEN 0 ELSE 10 * read[i - 1] + str[i]) = read[i]
    <3> TAKE i \in 0 .. 2
    <3>1. CASE i = 0
      BY <2>2, <3>1
    <3>2. CASE i = 1
      <4>1. i - 1 = 0
        BY <3>2
      <4> QED
        BY <1>1, <2>2, <3>2, <4>1
    <3>3. CASE i = 2
      <4>1. i - 1 = 1
        BY <3>3
      <4> QED
        BY <1>1, <2>2, <3>3, <4>1
    <3> QED
      BY <3>1, <3>2, <3>3
  <2> HIDE DEF f
  <2>5. f = [i \in 0 .. 2 |-> read[i]]
    BY <2>3, <2>4
  <2>6. read = [i \in 0 .. 2 |-> read[i]]
    BY DEF read
  <2> QED
    BY <2>5, <2>6 DEF f
<1>3. DecimalValue(str) = value[Len(str)]
  BY DEF DecimalValue
<1>4. value = Step(value)
  <2> HIDE DEF Step, read
  <2> QED
    BY <1>2
<1>5. /\ value[0] = 0
      /\ value[1] = 10 * value[0] + str[1]
      /\ value[2] = 10 * value[1] + str[2]
  <2> DEFINE v == value
  <2>1. v = Step(v)
    BY <1>4
  <2> HIDE DEF v
  <2> QED
    <3>1. v[0] = 0 /\ v[1] = 10 * v[0] + str[1] /\ v[2] = 10 * v[1] + str[2]
      BY <2>1
    <3> QED
      BY <3>1 DEF v
<1> HIDE DEF value
<1> QED
  BY <1>1, <1>3, <1>5

(* Two digits, read.                                                       *)
LEMMA TwoDigitsRead ==
    ASSUME NEW str \in Seq(Int), Len(str) = 2, str[1] \in 0 .. 9, str[2] \in 0 .. 9
    PROVE  /\ rtx_atoi(str).ret = 1
           /\ rtx_atoi(str).num = (10 * str[1]) + str[2]
<1>1. str[1] # SPACE /\ str[1] # PLUS /\ str[1] # MINUS
  BY DEF SPACE, PLUS, MINUS
<1>2. Unspaced(str) = str
  BY <1>1, SpacesEndAt
<1>3. Unsigned(str) = str
  BY <1>1 DEF Unsigned
<1>4. str # <<>> /\ \A i \in DOMAIN str : str[i] \in 0 .. 10
  <2>1. str # <<>>
    OBVIOUS
  <2>2. ASSUME NEW i \in DOMAIN str PROVE str[i] \in 0 .. 10
    <3>1. i = 1 \/ i = 2
      OBVIOUS
    <3> QED
      BY <3>1
  <2> QED
    BY <2>1, <2>2
<1>5. DecimalValue(str) = (10 * str[1]) + str[2]
  BY ValueOfTwo
<1>6. rtx_atoi(str) = [ret |-> IF str # <<>> /\ \A i \in DOMAIN str : str[i] \in 0 .. 10 THEN 1 ELSE 0,
                       num |-> IF str # <<>> /\ str[1] = MINUS THEN -DecimalValue(str) ELSE DecimalValue(str)]
  BY <1>2, <1>3, Zenon DEF rtx_atoi
<1> QED
  BY <1>1, <1>4, <1>5, <1>6

(* A proper text is read as what it means.                                 *)
LEMMA MeantIsParsed ==
    ASSUME NEW timeParam \in Seq(Int), Meant(timeParam) # <<>>
    PROVE  /\ Parsed(timeParam) = Meant(timeParam)
           /\ Meant(timeParam) = <<Meant(timeParam)[1], Meant(timeParam)[2], Meant(timeParam)[3]>>
           /\ Meant(timeParam)[1] \in 0 .. 23
           /\ Meant(timeParam)[2] \in 0 .. 59
           /\ Meant(timeParam)[3] \in 0 .. 59
<1> DEFINE Two(i) == 10 * timeParam[i] + timeParam[i + 1]
           Field(i) == rtx_atoi(SubSeq(timeParam, i, i + 1))
<1>1. /\ Len(timeParam) = 8 /\ timeParam[3] = COLON /\ timeParam[6] = COLON
      /\ \A i \in {1, 2, 4, 5, 7, 8} : timeParam[i] \in 0 .. 9
      /\ Two(1) < 24 /\ Two(4) < 60 /\ Two(7) < 60
      /\ Meant(timeParam) = <<Two(1), Two(4), Two(7)>>
  BY Zenon DEF Meant
<1>2. ASSUME NEW i \in {1, 4, 7}
      PROVE  Field(i).ret = 1 /\ Field(i).num = Two(i) /\ Two(i) \in Nat
  <2> DEFINE two == SubSeq(timeParam, i, i + 1)
  <2>1. two \in Seq(Int) /\ Len(two) = 2 /\ two[1] = timeParam[i] /\ two[2] = timeParam[i + 1]
    BY <1>1
  <2>2. timeParam[i] \in 0 .. 9 /\ timeParam[i + 1] \in 0 .. 9
    BY <1>1
  <2> HIDE DEF two
  <2>3. rtx_atoi(two).ret = 1 /\ rtx_atoi(two).num = (10 * two[1]) + two[2]
    BY <2>1, <2>2, TwoDigitsRead
  <2>4. Field(i) = rtx_atoi(two)
    BY DEF two
  <2>5. (10 * two[1]) + two[2] = Two(i)
    BY <2>1
  <2>6. Two(i) \in Nat
    <3> DEFINE p == two[1]
               q == two[2]
               value == (10 * p) + q
    <3>1. p \in Nat /\ q \in Nat
      <4>1. p \in 0 .. 9 /\ q \in 0 .. 9
        BY <2>1, <2>2, Zenon
      <4> HIDE DEF p, q
      <4> QED
        BY <4>1
    <3>2. value = Two(i)
      BY <2>5 DEF value, p, q
    <3> HIDE DEF p, q, Two
    <3>3. value \in Nat
      BY <3>1
    <3> HIDE DEF value
    <3> QED
      BY <3>2, <3>3, Zenon
  <2> HIDE DEF Two, Field
  <2> QED
    BY <2>3, <2>4, <2>5, <2>6, Zenon
<1>3. Parsed(timeParam) = IF /\ Len(timeParam) = 8 /\ timeParam[3] = COLON /\ timeParam[6] = COLON
                             /\ Field(1).num <= 23 /\ Field(4).num <= 59 /\ Field(7).num <= 59
                             /\ Field(1).ret + Field(4).ret + Field(7).ret = 3
                            THEN <<Field(1).num, Field(4).num, Field(7).num>>
                            ELSE <<>>
  BY DEF Parsed
<1> HIDE DEF Two, Field
<1>4. /\ Two(1) \in 0 .. 23 /\ Two(4) \in 0 .. 59 /\ Two(7) \in 0 .. 59
  <2> DEFINE p == Two(1)
             q == Two(4)
             r == Two(7)
  <2>1. p \in Nat /\ q \in Nat /\ r \in Nat
    BY <1>2
  <2>2. p < 24 /\ q < 60 /\ r < 60
    BY <1>1
  <2> HIDE DEF p, q, r
  <2>3. p \in 0 .. 23 /\ q \in 0 .. 59 /\ r \in 0 .. 59
    BY <2>1, <2>2
  <2> QED
    BY <2>3 DEF p, q, r
<1>5. Parsed(timeParam) = <<Two(1), Two(4), Two(7)>>
  <2>1. Field(1).num = Two(1) /\ Field(4).num = Two(4) /\ Field(7).num = Two(7)
    BY <1>2
  <2>2. Field(1).ret + Field(4).ret + Field(7).ret = 3
    BY <1>2
  <2>3. Field(1).num <= 23 /\ Field(4).num <= 59 /\ Field(7).num <= 59
    <3> DEFINE p == Two(1)
               q == Two(4)
               r == Two(7)
    <3>2. p \in 0 .. 23 /\ q \in 0 .. 59 /\ r \in 0 .. 59
      BY <1>4
    <3> HIDE DEF p, q, r
    <3>3. p <= 23 /\ q <= 59 /\ r <= 59
      BY <3>2
    <3>1. Two(1) <= 23 /\ Two(4) <= 59 /\ Two(7) <= 59
      BY <3>3 DEF p, q, r
    <3> QED
      BY <2>1, <3>1, Zenon
  <2> QED
    BY <1>1, <1>3, <2>1, <2>2, <2>3, Zenon
<1> QED
  BY <1>1, <1>4, <1>5

(* One more second on a count of seconds, and one more tick.               *)
LEMMA NextOfMany ==
    ASSUME NEW T \in Nat \ {0}, NEW d \in Nat
    PROVE  /\ d % T \in 0 .. T - 1 /\ d \div T \in Nat
           /\ (d % T) + 1 < T => (d + 1) % T = (d % T) + 1 /\ (d + 1) \div T = d \div T
           /\ (d % T) + 1 = T => (d + 1) % T = 0 /\ (d + 1) \div T = (d \div T) + 1
           /\ ((d % T) + 1) % T = (d + 1) % T
<1> DEFINE q == d \div T
           p == d % T
<1>1. q \in Nat /\ p \in 0 .. T - 1 /\ d = (T * q) + p
  OBVIOUS
<1> HIDE DEF q, p
<1>2. ASSUME p + 1 < T
      PROVE  (d + 1) % T = p + 1 /\ (d + 1) \div T = q /\ (p + 1) % T = p + 1
  <2>1. d + 1 = (T * q) + (p + 1)
    BY <1>1
  <2> QED
    BY <1>1, <1>2, <2>1
<1>3. ASSUME p + 1 = T
      PROVE  (d + 1) % T = 0 /\ (d + 1) \div T = q + 1 /\ (p + 1) % T = 0
  <2>1. d + 1 = T * (q + 1)
    BY <1>1, <1>3
  <2> QED
    BY <1>1, <1>3, <2>1
<1>4. p + 1 < T \/ p + 1 = T
  BY <1>1
<1> QED
  BY <1>1, <1>2, <1>3, <1>4 DEF p, q

LEMMA Quotient ==
    ASSUME NEW T \in Nat \ {0}, NEW q \in Nat, NEW k \in 0 .. T - 1, NEW n \in Nat, n = (q * T) + k
    PROVE  (n \div T) = q /\ (n % T) = k
<1>1. (n \div T) = q
  OBVIOUS
<1>2. (n % T) = k
  OBVIOUS
<1> QED
  BY <1>1, <1>2, Zenon

LEMMA Remains ==
    ASSUME NEW T \in Nat \ {0}, NEW k \in 0 .. T - 1
    PROVE  k % T = k
  OBVIOUS

Hour == 3600

Minute == 60

SecondsOf(h, m, s) == ((h * 3600) + (m * 60)) + s

(* Seconds of the day, as hours, minutes and seconds.                      *)
LEMMA OfTheDay ==
    ASSUME NEW h \in 0 .. 23, NEW m \in 0 .. 59, NEW s \in 0 .. 59
    PROVE  /\ SecondsOf(h, m, s) \in Nat
           /\ SecondsOf(h, m, s) \div Hour = h
           /\ SecondsOf(h, m, s) % Hour \in Nat
           /\ (SecondsOf(h, m, s) % Hour) \div Minute = m
           /\ SecondsOf(h, m, s) % Minute = s
<1> DEFINE r == (m * 60) + s
           p == (h * 60) + m
           t == ((h * 3600) + (m * 60)) + s
<1>1. Hour \in Nat \ {0} /\ Minute \in Nat \ {0}
  BY DEF Hour, Minute
<1>2. h \in Nat /\ m \in Nat /\ s \in 0 .. Minute - 1
  BY DEF Hour, Minute
<1>3. r \in 0 .. Hour - 1 /\ r \in Nat /\ r = (m * Minute) + s
  BY DEF Hour, Minute
<1>4. t \in Nat /\ p \in Nat /\ t = (p * Minute) + s
  BY DEF Hour, Minute
<1>5. t = (h * Hour) + r
  BY DEF Hour, Minute
<1> HIDE DEF r, p, t
<1>6. r \div Minute = m
  BY <1>1, <1>2, <1>3, Quotient
<1>7. (t \div Hour) = h /\ (t % Hour) = r
  <2>1. Hour \in Nat \ {0}
    BY <1>1
  <2>2. h \in Nat
    BY <1>2
  <2>3. r \in 0 .. Hour - 1
    BY <1>3
  <2>4. t \in Nat
    BY <1>4
  <2> QED
    BY <1>5, <2>1, <2>2, <2>3, <2>4, Quotient, Zenon
<1>8. (t % Minute) = s
  <2>1. Minute \in Nat \ {0}
    BY <1>1
  <2>2. p \in Nat
    BY <1>4
  <2>3. s \in 0 .. Minute - 1
    BY <1>2
  <2>4. t \in Nat
    BY <1>4
  <2>5. t = (p * Minute) + s
    BY <1>4
  <2> QED
    BY <2>1, <2>2, <2>3, <2>4, <2>5, Quotient, Zenon
<1>9. (t % Hour) \div Minute = m
  BY <1>6, <1>7, Zenon
<1>10. t = SecondsOf(h, m, s)
  BY DEF t, SecondsOf
<1>11. /\ SecondsOf(h, m, s) \in Nat
       /\ SecondsOf(h, m, s) \div Hour = h
       /\ SecondsOf(h, m, s) % Hour \in Nat
       /\ (SecondsOf(h, m, s) % Hour) \div Minute = m
       /\ SecondsOf(h, m, s) % Minute = s
  BY <1>3, <1>4, <1>7, <1>8, <1>9, <1>10, Zenon
<1> QED
  BY <1>11, Zenon

LEMMA InTheDay ==
    ASSUME NEW h \in 0 .. 23, NEW m \in 0 .. 59, NEW s \in 0 .. 59
    PROVE  SecondsOf(h, m, s) \in Nat /\ SecondsOf(h, m, s) % SEC_IN_HR = SecondsOf(h, m, s)
<1> DEFINE t == SecondsOf(h, m, s)
<1>1. t \in Nat
  BY DEF SecondsOf
<1>2. t <= 86399
  BY DEF SecondsOf
<1>3. SEC_IN_HR \in Nat \ {0} /\ t <= SEC_IN_HR - 1
  BY <1>2 DEF SEC_IN_HR
<1> HIDE DEF t
<1>4. t \in 0 .. SEC_IN_HR - 1
  BY <1>1, <1>3
<1>5. t % SEC_IN_HR = t
  BY <1>3, <1>4, Remains, Zenon
<1> QED
  BY <1>1, <1>5 DEF t

-----------------------------------------------------------------------------
(* The clock counts from when it was set; its face is what the offset and  *)
(* the ticks since then come to.                                           *)
Seconds(f) == SecondsOf(f[1], f[2], f[3])

FaceOk(f) ==
    /\ f = <<f[1], f[2], f[3]>>
    /\ f[1] \in 0 .. 23 /\ f[2] \in 0 .. 59 /\ f[3] \in 0 .. 59

ClockInv ==
    /\ now \in Nat /\ ref \in Nat /\ ref <= now
    /\ part = (now - ref) % TICKS
    /\ face # <<>> =>
          /\ FaceOk(face)
          /\ offset \in Nat
          /\ (((now - ref) \div TICKS) + offset) % SEC_IN_HR = Seconds(face)

LEMMA FaceOf ==
    ASSUME NEW a \in 0 .. 23, NEW b \in 0 .. 59, NEW c \in 0 .. 59
    PROVE  FaceOk(<<a, b, c>>) /\ Seconds(<<a, b, c>>) = SecondsOf(a, b, c)
  BY DEF FaceOk, Seconds

LEMMA NextOfDay ==
    ASSUME NEW e \in Nat
    PROVE  /\ (e % SEC_IN_HR) + 1 < 86400 => (e + 1) % SEC_IN_HR = (e % SEC_IN_HR) + 1
           /\ (e % SEC_IN_HR) + 1 = 86400 => (e + 1) % SEC_IN_HR = 0
<1>1. 86400 = SEC_IN_HR
  BY DEF SEC_IN_HR
<1> HIDE DEF SEC_IN_HR
<1>2. /\ (e % SEC_IN_HR) + 1 < SEC_IN_HR => (e + 1) % SEC_IN_HR = (e % SEC_IN_HR) + 1
      /\ (e % SEC_IN_HR) + 1 = SEC_IN_HR => (e + 1) % SEC_IN_HR = 0
  <2>1. SEC_IN_HR \in Nat \ {0}
    BY DEF SEC_IN_HR
  <2> QED
    BY <2>1, NextOfMany, Zenon
<1> DEFINE x == (e % SEC_IN_HR) + 1
           y == (e + 1) % SEC_IN_HR
           z == (e % SEC_IN_HR) + 1
<1> HIDE DEF x, y, z
<1>3. (x < SEC_IN_HR => y = z) /\ (x = SEC_IN_HR => y = 0)
  BY <1>2 DEF x, y, z
<1>4. (x < 86400 => y = z) /\ (x = 86400 => y = 0)
  BY <1>1, <1>3
<1> QED
  BY <1>4 DEF x, y, z

LEMMA FaceAfter ==
    ASSUME NEW f, FaceOk(f), NEW e \in Nat, e % SEC_IN_HR = Seconds(f)
    PROVE  /\ FaceOk(NextSecond(f))
           /\ (e + 1) % SEC_IN_HR = Seconds(NextSecond(f))
<1> DEFINE h == f[1]
           m == f[2]
           s == f[3]
           g == NextSecond(f)
<1>1. f # <<>> /\ h \in 0 .. 23 /\ m \in 0 .. 59 /\ s \in 0 .. 59
  BY DEF FaceOk
<1>2. e % SEC_IN_HR = ((h * 3600) + (m * 60)) + s
  BY DEF Seconds, SecondsOf
<1>3. /\ s < 59 => g = <<h, m, s + 1>>
      /\ s = 59 /\ m < 59 => g = <<h, m + 1, 0>>
      /\ s = 59 /\ ~(m < 59) => g = <<(h + 1) % 24, 0, 0>>
  <2>1. ASSUME s < 59 PROVE g = <<h, m, s + 1>>
    BY <1>1, <2>1 DEF NextSecond
  <2>2. ASSUME s = 59, m < 59 PROVE g = <<h, m + 1, 0>>
    BY <1>1, <2>2 DEF NextSecond
  <2>3. ASSUME s = 59, ~(m < 59) PROVE g = <<(h + 1) % 24, 0, 0>>
    BY <1>1, <2>3 DEF NextSecond
  <2> QED
    BY <2>1, <2>2, <2>3
<1> HIDE DEF h, m, s, g
<1> DEFINE x == e % SEC_IN_HR
           y == (e + 1) % SEC_IN_HR
<1>4. x + 1 < 86400 => y = x + 1
  BY NextOfDay
<1>5. x + 1 = 86400 => y = 0
  BY NextOfDay
<1>6. x = ((h * 3600) + (m * 60)) + s
  BY <1>2
<1> HIDE DEF x, y
<1>7. FaceOk(g) /\ y = Seconds(g)
  <2>1. CASE s < 59
    <3> DEFINE a == h
               b == m
               c == s + 1
    <3>1. y = SecondsOf(a, b, c)
      BY <1>1, <1>4, <1>5, <1>6, <2>1 DEF SecondsOf
    <3>2. a \in 0 .. 23 /\ b \in 0 .. 59 /\ c \in 0 .. 59
      BY <1>1, <2>1
    <3>3. g = <<a, b, c>>
      BY <1>1, <1>3, <2>1
    <3> HIDE DEF a, b, c
    <3>4. FaceOk(<<a, b, c>>) /\ Seconds(<<a, b, c>>) = SecondsOf(a, b, c)
      BY <3>2, FaceOf, Zenon
    <3> QED
      BY <3>1, <3>3, <3>4, Zenon
  <2>2. CASE s = 59 /\ m < 59
    <3> DEFINE a == h
               b == m + 1
               c == 0
    <3>1. y = SecondsOf(a, b, c)
      BY <1>1, <1>4, <1>5, <1>6, <2>2 DEF SecondsOf
    <3>2. a \in 0 .. 23 /\ b \in 0 .. 59 /\ c \in 0 .. 59
      BY <1>1, <2>2
    <3>3. g = <<a, b, c>>
      BY <1>1, <1>3, <2>2
    <3> HIDE DEF a, b, c
    <3>4. FaceOk(<<a, b, c>>) /\ Seconds(<<a, b, c>>) = SecondsOf(a, b, c)
      BY <3>2, FaceOf, Zenon
    <3> QED
      BY <3>1, <3>3, <3>4, Zenon
  <2>3. CASE s = 59 /\ m = 59 /\ h < 23
    <3> DEFINE a == h + 1
               b == 0
               c == 0
    <3>1. y = SecondsOf(a, b, c)
      BY <1>1, <1>4, <1>5, <1>6, <2>3 DEF SecondsOf
    <3>2. a \in 0 .. 23 /\ b \in 0 .. 59 /\ c \in 0 .. 59
      BY <1>1, <2>3
    <3>3. g = <<a, b, c>>
      <4>1. (h + 1) % 24 = h + 1
        BY <1>1, <2>3
      <4>2. s = 59 /\ ~(m < 59)
        BY <2>3
      <4> QED
        BY <1>3, <4>1, <4>2, Zenon
    <3> HIDE DEF a, b, c
    <3>4. FaceOk(<<a, b, c>>) /\ Seconds(<<a, b, c>>) = SecondsOf(a, b, c)
      BY <3>2, FaceOf, Zenon
    <3> QED
      BY <3>1, <3>3, <3>4, Zenon
  <2>4. CASE s = 59 /\ m = 59 /\ h = 23
    <3> DEFINE a == 0
               b == 0
               c == 0
    <3>1. y = SecondsOf(a, b, c)
      BY <1>1, <1>4, <1>5, <1>6, <2>4 DEF SecondsOf
    <3>2. a \in 0 .. 23 /\ b \in 0 .. 59 /\ c \in 0 .. 59
      BY <1>1, <2>4
    <3>3. g = <<a, b, c>>
      <4>1. (h + 1) % 24 = 0
        BY <1>1, <2>4
      <4>2. s = 59 /\ ~(m < 59)
        BY <2>4
      <4> QED
        BY <1>3, <4>1, <4>2, Zenon
    <3> HIDE DEF a, b, c
    <3>4. FaceOk(<<a, b, c>>) /\ Seconds(<<a, b, c>>) = SecondsOf(a, b, c)
      BY <3>2, FaceOf, Zenon
    <3> QED
      BY <3>1, <3>3, <3>4, Zenon
  <2>5. s < 59 \/ (s = 59 /\ m < 59) \/ (s = 59 /\ m = 59 /\ h < 23) \/ (s = 59 /\ m = 59 /\ h = 23)
    BY <1>1
  <2> QED
    BY <2>1, <2>2, <2>3, <2>4, <2>5, Zenon
<1> QED
  BY <1>7 DEF g, y

LEMMA ClockInvInit == ClockInit => ClockInv
<1> SUFFICES ASSUME ClockInit PROVE ClockInv
  OBVIOUS
<1>1. now = 1 /\ offset = 0 /\ ref = 0 /\ face = <<0, 0, 0>> /\ part = 1
  BY DEF ClockInit
<1>2. FaceOk(face) /\ Seconds(face) = 0
  <2>1. face[1] = 0 /\ face[2] = 0 /\ face[3] = 0
    BY <1>1
  <2> QED
    BY <1>1, <2>1 DEF FaceOk, Seconds, SecondsOf
<1>3. TICKS \in Nat /\ TICKS > 1
  BY TimeAssumption
<1>4. 1 % TICKS = 1 /\ 1 \div TICKS = 0
  BY <1>3
<1>5. 0 % SEC_IN_HR = 0
  BY DEF SEC_IN_HR
<1>6. now - ref = 1 /\ 0 + offset = 0
  BY <1>1
<1> QED
  BY <1>1, <1>2, <1>4, <1>5, <1>6 DEF ClockInv

LEMMA ClockInvTick ==
    ASSUME ClockInv, k_clock_incr_system_time
    PROVE  ClockInv'
<1> DEFINE d == now - ref
           q == d \div TICKS
           p == d % TICKS
           e == q + offset
<1>1. TICKS \in Nat \ {0}
  BY TimeAssumption
<1>2. d \in Nat /\ now' - ref' = d + 1 /\ now' \in Nat /\ ref' \in Nat /\ ref' <= now' /\ offset' = offset
  BY DEF ClockInv, k_clock_incr_system_time
<1>3. part = p /\ part' = (part + 1) % TICKS /\ face' = IF part' = 0 THEN NextSecond(face) ELSE face
  BY DEF ClockInv, k_clock_incr_system_time
<1>4. face # <<>> => FaceOk(face) /\ offset \in Nat /\ e % SEC_IN_HR = Seconds(face)
  BY DEF ClockInv
<1>5. /\ p \in 0 .. TICKS - 1 /\ q \in Nat
      /\ p + 1 < TICKS => (d + 1) % TICKS = p + 1 /\ (d + 1) \div TICKS = q
      /\ p + 1 = TICKS => (d + 1) % TICKS = 0 /\ (d + 1) \div TICKS = q + 1
      /\ (p + 1) % TICKS = (d + 1) % TICKS
  <2> HIDE DEF d
  <2> QED
    BY <1>1, <1>2, NextOfMany, Zenon
<1> HIDE DEF d, q, p, e
<1>6. part' = (now' - ref') % TICKS
  BY <1>2, <1>3, <1>5
<1>7. ASSUME face' # <<>>
      PROVE  /\ FaceOk(face')
             /\ offset' \in Nat
             /\ (((now' - ref') \div TICKS) + offset') % SEC_IN_HR = Seconds(face')
  <2>1. CASE p + 1 < TICKS
    <3>1. part' = p + 1 /\ p + 1 # 0
      BY <1>3, <1>5, <2>1
    <3>2. face' = face
      BY <1>3, <3>1, Zenon
    <3>3. ((now' - ref') \div TICKS) + offset' = e
      BY <1>2, <1>5, <2>1 DEF e
    <3> QED
      BY <1>2, <1>4, <1>7, <3>2, <3>3, Zenon
  <2>2. CASE p + 1 = TICKS
    <3>1. part' = 0
      BY <1>3, <1>5, <2>2
    <3>2. face' = NextSecond(face)
      BY <1>3, <3>1, Zenon
    <3>3. face # <<>>
      BY <1>7, <3>2 DEF NextSecond
    <3>4. ((now' - ref') \div TICKS) + offset' = e + 1 /\ e \in Nat
      <4>1. ((now' - ref') \div TICKS) = q + 1
        BY <1>2, <1>5, <2>2, Zenon
      <4>2. q \in Nat /\ offset \in Nat /\ offset' = offset
        BY <1>2, <1>4, <1>5, <3>3, Zenon
      <4>3. (q + 1) + offset = e + 1 /\ e \in Nat
        BY <4>2 DEF e
      <4> QED
        BY <4>1, <4>2, <4>3, Zenon
    <3>5. FaceOk(NextSecond(face)) /\ (e + 1) % SEC_IN_HR = Seconds(NextSecond(face))
      BY <1>4, <3>3, <3>4, FaceAfter, Zenon
    <3> QED
      BY <1>2, <1>4, <3>2, <3>3, <3>4, <3>5, Zenon
  <2>3. p + 1 < TICKS \/ p + 1 = TICKS
    BY <1>1, <1>5
  <2> QED
    BY <2>1, <2>2, <2>3, Zenon
<1> QED
  BY <1>2, <1>6, <1>7 DEF ClockInv

LEMMA ClockInvSet ==
    ASSUME ClockInv, NEW timeParam \in Command, _setWallClock(timeParam)
    PROVE  ClockInv'
<1> DEFINE P == Parsed(timeParam)
           M == Meant(timeParam)
<1>1. timeParam \in Seq(Int) /\ TICKS \in Nat \ {0}
  BY TimeAssumption
<1>2. M # <<>> => P = M /\ M = <<M[1], M[2], M[3]>> /\ M[1] \in 0 .. 23 /\ M[2] \in 0 .. 59 /\ M[3] \in 0 .. 59
  BY <1>1, MeantIsParsed, Zenon
<1>3. /\ IF P # <<>> THEN ClockSet(P) ELSE UNCHANGED <<offset, ref>>
      /\ IF P # <<>> \/ M # <<>> THEN face' = M /\ part' = 0 ELSE UNCHANGED <<face, part>>
      /\ UNCHANGED now
  BY Zenon DEF _setWallClock
<1> HIDE DEF P, M
<1>4. CASE P # <<>>
  <2>1. /\ offset' = P[1] * 3600 + P[2] * 60 + P[3] /\ ref' = now
        /\ face' = M /\ part' = 0 /\ now' = now
    BY <1>3, <1>4 DEF ClockSet
  <2>2. now' \in Nat /\ ref' \in Nat /\ ref' <= now' /\ now' - ref' = 0
    BY <2>1 DEF ClockInv
  <2>3. 0 % TICKS = 0 /\ 0 \div TICKS = 0
    BY <1>1
  <2>4. ASSUME face' # <<>>
        PROVE  /\ FaceOk(face')
               /\ offset' \in Nat
               /\ (((now' - ref') \div TICKS) + offset') % SEC_IN_HR = Seconds(face')
    <3> DEFINE h == M[1]
               m == M[2]
               s == M[3]
    <3>1. P = M /\ M = <<h, m, s>> /\ h \in 0 .. 23 /\ m \in 0 .. 59 /\ s \in 0 .. 59
      BY <1>2, <2>1, <2>4, Zenon
    <3>2. offset' = ((h * 3600) + (m * 60)) + s
      BY <2>1, <3>1
    <3> HIDE DEF h, m, s
    <3>3. offset' = SecondsOf(h, m, s)
      BY <3>2 DEF SecondsOf
    <3>4. FaceOk(<<h, m, s>>) /\ Seconds(<<h, m, s>>) = SecondsOf(h, m, s)
      BY <3>1, FaceOf, Zenon
    <3>5. SecondsOf(h, m, s) \in Nat /\ SecondsOf(h, m, s) % SEC_IN_HR = SecondsOf(h, m, s)
      BY <3>1, InTheDay, Zenon
    <3>6. 0 + SecondsOf(h, m, s) = SecondsOf(h, m, s)
      BY <3>5
    <3>7. ((now' - ref') \div TICKS) + offset' = SecondsOf(h, m, s)
      BY <2>2, <2>3, <3>3, <3>6, Zenon
    <3>8. face' = <<h, m, s>>
      BY <2>1, <3>1, Zenon
    <3>9. FaceOk(face') /\ Seconds(face') = SecondsOf(h, m, s)
      BY <3>4, <3>8, Zenon
    <3>10. offset' \in Nat
      BY <3>3, <3>5, Zenon
    <3>11. (((now' - ref') \div TICKS) + offset') % SEC_IN_HR = Seconds(face')
      BY <3>5, <3>7, <3>9, Zenon
    <3> QED
      BY <3>9, <3>10, <3>11, Zenon
  <2> QED
    BY <2>1, <2>2, <2>3, <2>4 DEF ClockInv
<1>5. CASE P = <<>>
  <2>1. M = <<>>
    BY <1>2, <1>5, Zenon
  <2> QED
    BY <1>3, <1>5, <2>1 DEF ClockInv
<1> QED
  BY <1>4, <1>5, Zenon

LEMMA ClockInvNext == ClockInv /\ [ClockNext]_clockVars => ClockInv'
<1>1. ASSUME ClockInv, UNCHANGED clockVars PROVE ClockInv'
  BY <1>1 DEF clockVars, ClockInv
<1> QED
  BY <1>1, ClockInvTick, ClockInvSet DEF ClockNext

(* Three numbers, printed as the clock prints them.                        *)
Printed(h, m, s) ==
    LET hr  == AppendNumber(<<>>, h, 2, TRUE)
        min == AppendNumber(Append(hr, COLON), m, 2, TRUE)
    IN  AppendNumber(Append(min, COLON), s, 2, TRUE)

(* The text is made of the digits of the time of the day.                  *)
LEMMA ThreeNumbers ==
    ASSUME NEW h \in 0 .. 99, NEW m \in 0 .. 99, NEW s \in 0 .. 99
    PROVE  Printed(h, m, s)
             = <<h \div 10, h % 10>> \o <<COLON>> \o <<m \div 10, m % 10>>
                 \o <<COLON>> \o <<s \div 10, s % 10>>
<1> DEFINE D(n) == <<n \div 10, n % 10>>
           hr == AppendNumber(<<>>, h, 2, TRUE)
           min == AppendNumber(Append(hr, COLON), m, 2, TRUE)
           sec == AppendNumber(Append(min, COLON), s, 2, TRUE)
           S == 0 .. 99
<1>1. COLON \in Int
  BY DEF COLON
<1>2. \A n \in S : D(n) \in Seq(Int)
  OBVIOUS
<1>3. \A str \in Seq(Int), n \in S : AppendNumber(str, n, 2, TRUE) = str \o D(n)
  BY TwoDigits
<1>4. h \in S /\ m \in S /\ s \in S
  OBVIOUS
<1> HIDE DEF D, S
<1>5. \A str \in Seq(Int) : Append(str, COLON) = str \o <<COLON>> /\ str \o <<COLON>> \in Seq(Int)
  BY <1>1
<1>6. \A str, t \in Seq(Int) : str \o t \in Seq(Int)
  OBVIOUS
<1>7. <<>> \in Seq(Int) /\ <<>> \o D(h) = D(h)
  BY <1>2, <1>4
<1>8. hr = D(h) /\ hr \in Seq(Int)
  BY <1>2, <1>3, <1>4, <1>7, Zenon
<1> HIDE DEF hr
<1>9. Append(hr, COLON) = D(h) \o <<COLON>> /\ Append(hr, COLON) \in Seq(Int)
  BY <1>5, <1>8, Zenon
<1>10. min = (D(h) \o <<COLON>>) \o D(m) /\ min \in Seq(Int)
  BY <1>2, <1>3, <1>4, <1>6, <1>9, Zenon
<1> HIDE DEF min
<1>11. Append(min, COLON) = ((D(h) \o <<COLON>>) \o D(m)) \o <<COLON>> /\ Append(min, COLON) \in Seq(Int)
  BY <1>5, <1>10, Zenon
<1>12. sec = (((D(h) \o <<COLON>>) \o D(m)) \o <<COLON>>) \o D(s)
  BY <1>2, <1>3, <1>4, <1>11, Zenon
<1> QED
  BY <1>12, Zenon DEF D, hr, min, Printed

LEMMA TextOfTheDay ==
    ASSUME NEW h \in 0 .. 23, NEW m \in 0 .. 59, NEW s \in 0 .. 59,
           clock_time = SecondsOf(h, m, s)
    PROVE  ClockText = <<h \div 10, h % 10>> \o <<COLON>> \o <<m \div 10, m % 10>>
                         \o <<COLON>> \o <<s \div 10, s % 10>>
<1> DEFINE c == SecondsOf(h, m, s)
<1>1. c \in Nat /\ c \div Hour = h /\ c % Hour \in Nat /\ (c % Hour) \div Minute = m /\ c % Minute = s
  <2>1. /\ SecondsOf(h, m, s) \in Nat
        /\ SecondsOf(h, m, s) \div Hour = h
        /\ SecondsOf(h, m, s) % Hour \in Nat
        /\ (SecondsOf(h, m, s) % Hour) \div Minute = m
        /\ SecondsOf(h, m, s) % Minute = s
    BY OfTheDay
  <2> QED
    BY <2>1, Zenon
<1> HIDE DEF c
<1>2. Quo(c, Hour) = h /\ Quo(Rem(c, Hour), Minute) = m /\ Rem(c, Minute) = s
  <2>1. c >= 0 /\ c % Hour >= 0
    BY <1>1
  <2>2. Quo(c, Hour) = h
    BY <1>1, <2>1 DEF Quo
  <2>3. Rem(c, Hour) = c % Hour
    BY <1>1, <2>1 DEF Rem
  <2>4. Rem(c, Minute) = s
    BY <1>1, <2>1 DEF Rem
  <2>5. Quo(c % Hour, Minute) = m
    BY <1>1, <2>1 DEF Quo
  <2> QED
    BY <2>2, <2>3, <2>4, <2>5, Zenon
<1>3. ClockText = Printed(Quo(c, Hour), Quo(Rem(c, Hour), Minute), Rem(c, Minute))
  BY DEF ClockText, Printed, c, Hour, Minute
<1>4. ClockText = Printed(h, m, s)
  BY <1>2, <1>3, Zenon
<1>5. h \in 0 .. 99 /\ m \in 0 .. 99 /\ s \in 0 .. 99
  OBVIOUS
<1>6. Printed(h, m, s) = <<h \div 10, h % 10>> \o <<COLON>> \o <<m \div 10, m % 10>>
                           \o <<COLON>> \o <<s \div 10, s % 10>>
  BY <1>5, ThreeNumbers
<1> QED
  BY <1>4, <1>6, Zenon

LEMMA ClockShows == ClockInv => ShowsTheTime
<1> SUFFICES ASSUME ClockInv, face # <<>>
             PROVE  ClockText = <<face[1] \div 10, face[1] % 10>> \o <<COLON>>
                                  \o <<face[2] \div 10, face[2] % 10>> \o <<COLON>>
                                  \o <<face[3] \div 10, face[3] % 10>>
  BY Zenon DEF ShowsTheTime
<1> DEFINE d == now - ref
           e == (d \div TICKS) + offset
<1>1. TICKS \in Nat \ {0}
  BY TimeAssumption
<1>2. d \in Nat /\ offset \in Nat /\ FaceOk(face) /\ e % SEC_IN_HR = Seconds(face)
  BY DEF ClockInv
<1>3. Quo(d, TICKS) = d \div TICKS /\ d \div TICKS \in Nat
  <2> HIDE DEF d
  <2>1. d >= 0
    BY <1>2
  <2>2. d \div TICKS \in Nat
    BY <1>1, <1>2
  <2> QED
    BY <2>1, <2>2, Zenon DEF Quo
<1>4. e \in Nat
  BY <1>2, <1>3
<1>5. clock_time = Rem(e, SEC_IN_HR)
  BY <1>3, Zenon DEF clock_time
<1> HIDE DEF d, e
<1>6. Rem(e, SEC_IN_HR) = e % SEC_IN_HR
  <2>1. e >= 0
    BY <1>4
  <2> QED
    BY <2>1, Zenon DEF Rem
<1>7. clock_time = SecondsOf(face[1], face[2], face[3])
  BY <1>2, <1>5, <1>6, Zenon DEF Seconds
<1>8. face[1] \in 0 .. 23 /\ face[2] \in 0 .. 59 /\ face[3] \in 0 .. 59
  BY <1>2, Zenon DEF FaceOk
<1> QED
  BY <1>7, <1>8, TextOfTheDay, Zenon

(* The wall clock of the board shows the time it was set to, or the time   *)
(* since boot, second by second, for any commands and ticks per second,    *)
(* until the 32-bit system time overflows (wallclock.c, k_clock.c,         *)
(* rtx_atoi and rtx_sprintf in utils.c).                                   *)
THEOREM ClockShowsTheTime == ClockSpec => []ShowsTheTime
BY ClockInvInit, ClockInvNext, ClockShows, PTL DEF ClockSpec
=============================================================================
