------------------------------ MODULE SerialInput ------------------------------
(***************************************************************************)
(* The characters that reach the Coldfire board and the line CCI gets of   *)
(* them: the receiving half of coldfire/kern/src/uart_i_process.c, with    *)
(* the hotkeys of k_hotkeys.c.  The build is the one for the cf-server     *)
(* (kern/Makefile), where a line ends with a carriage return, which goes   *)
(* into the buffer like any other character, and a NUL.                    *)
(*                                                                         *)
(* InBuffer is what it holds below inputIndex, which is its length.        *)
(***************************************************************************)
EXTENDS Naturals, Sequences

CONSTANTS
    INPUT_BUFFER_SIZE,
    CR,         \* '\r'
    HOTKEY,     \* '`', '!' or '@'
    Char,       \* other characters
    MaxLine     \* bound on the length of a line

ASSUME SerialInputAssumption ==
    /\ INPUT_BUFFER_SIZE \in Nat /\ INPUT_BUFFER_SIZE > 2 /\ MaxLine \in Nat
    /\ CR \notin Char /\ HOTKEY \notin Char /\ CR # HOTKEY

VARIABLES
    InBuffer,
    ended,   \* the terminal has sent the carriage return
    typed,   \* history: the line as far as it is typed, and the one before
    msg      \* the text in the last envelope that went to CCI

lineVars == <<InBuffer, ended, typed, msg>>

LineInit ==
    /\ InBuffer = <<>>
    /\ ended = FALSE
    /\ typed = [now |-> <<>>, before |-> <<>>]
    /\ msg = <<>>

hotkey(c) == c = HOTKEY

(* What InBuffer has no room for is not even looked at.                    *)
Stored(c) ==
    IF Len(InBuffer) < INPUT_BUFFER_SIZE - 2 /\ ~hotkey(c) THEN Append(InBuffer, c) ELSE InBuffer

CharIn ==
    /\ ~ended
    /\ Len(typed.now) < MaxLine
    /\ \E c \in Char \cup {HOTKEY} :
          /\ InBuffer' = Stored(c)
          /\ typed' = [typed EXCEPT !.now = IF hotkey(c) THEN @ ELSE Append(@, c)]
    /\ UNCHANGED <<ended, msg>>

CarriageReturn ==
    /\ ~ended
    /\ ended' = TRUE
    /\ InBuffer' = Stored(CR)
    /\ UNCHANGED <<typed, msg>>

(* Fault: the terminator is stored behind the last character.              *)
AllStored == InBuffer

(* inputIndex--; InBuffer[inputIndex] = '\0': the last character stored is *)
(* taken to be the carriage return.                                        *)
LineStored == SubSeq(InBuffer, 1, Len(InBuffer) - 1)

(* KB_LINE_END.  Without an envelope the line is dropped.                  *)
LineEndIn ==
    /\ ended
    /\ ended' = FALSE
    /\ InBuffer' = <<>>
    /\ \/ /\ msg' = LineStored
          /\ typed' = [now |-> <<>>, before |-> typed.now]
       \/ /\ typed' = [typed EXCEPT !.now = <<>>]
          /\ UNCHANGED msg

LineNext == CharIn \/ CarriageReturn \/ LineEndIn

LineSpec == LineInit /\ [][LineNext]_lineVars

-----------------------------------------------------------------------------
(* CCI gets the line that was typed, without the hotkeys in it, as far as  *)
(* the buffer allows: where the carriage return finds no room any more,    *)
(* the last character that did makes way for the terminator.               *)
LineReachesCci ==
    LET room == INPUT_BUFFER_SIZE - 3
        line == typed.before
    IN  msg = IF Len(line) <= room THEN line ELSE SubSeq(line, 1, room)
=============================================================================
