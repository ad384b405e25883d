-------------------------------- MODULE MCTools --------------------------------
(***************************************************************************)
(* SerialInput, MessageTrace, TimeOfDay and Keyboard for TLC.  They have   *)
(* no state in common and nothing to do with each other, so that a         *)
(* behaviour steps one of them only.                                       *)
(***************************************************************************)
EXTENDS SerialInput, MessageTrace, TimeOfDay, Keyboard

VARIABLE subject   \* the one that steps

TheCommands ==
    LET Text(a, b, c, d, e, f) == <<a, b, COLON, c, d, COLON, e, f>>
    IN  {Text(2, 3, 5, 9, 5, 8), Text(0, 9, 5, 9, 5, 9), Text(1, 2, 3, 4, 5, 6), Text(0, 0, 0, 0, 0, 0),
         Text(2, 4, 0, 0, 0, 0), Text(1, 9, 6, 0, 0, 0), Text(MINUS, 1, 0, 0, 0, 0),
         Text(1, COLON, 0, 0, 0, 0), Text(SPACE, 7, PLUS, 5, 0, 0), <<1, 2, COLON, 3, 4>>}

Init ==
    /\ LineInit /\ TraceInit /\ ClockInit /\ KeyInit
    /\ subject \in {"line", "trace", "clock", "keyboard"}

Next ==
    /\ \/ subject = "line" /\ LineNext /\ UNCHANGED <<traceVars, clockVars, keyVars>>
       \/ subject = "trace" /\ TraceNext /\ UNCHANGED <<lineVars, clockVars, keyVars>>
       \/ subject = "clock" /\ ClockNext /\ UNCHANGED <<lineVars, traceVars, keyVars>>
       \/ subject = "keyboard" /\ KeyNext /\ UNCHANGED <<lineVars, traceVars, clockVars>>
    /\ UNCHANGED subject
=============================================================================
