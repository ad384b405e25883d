-------------------------------- MODULE Keyboard --------------------------------
(***************************************************************************)
(* The line that the unix port reads from its console.  A helper process   *)
(* (unix/keyboard/src/main.c) puts characters into a buffer in shared      *)
(* memory and, at the end of a line, signals the RTX, where the keyboard   *)
(* i-process (unix/kern/src/kb_i_process.c) copies them into the envelope  *)
(* of a process that has asked for input.  Nothing keeps the two from      *)
(* running at the same time: kb_wait_flag is written and never read, and   *)
(* is left out.                                                            *)
(*                                                                         *)
(* In shared memory are data and length.  An access to either is a step.   *)
(***************************************************************************)
EXTENDS Naturals, Sequences

CONSTANTS
    KEYBOARD_BUF_SIZE,
    Key,            \* the characters but for the newline
    MaxTyped,       \* bound on the length of a line
    MaxRequests     \* bound on the requests for input that wait

ASSUME KeyboardAssumption ==
    /\ KEYBOARD_BUF_SIZE \in Nat \ {0}
    /\ MaxTyped \in Nat /\ MaxRequests \in Nat
    /\ Key # {}

VARIABLES
    data, length,   \* kb_buf, kb_buffer
    helper,         \* the helper's next step: "getchar", "store" or "increment"
    char,           \* c, its character
    at,             \* where it has stored that
    usr1,           \* SIGUSR1 is pending; signals do not queue
    kb,             \* the i-process: "idle", "copy" or "reset"
    requests,       \* envelopes that wait in its mailbox
    text,           \* what it has copied; i is the length of it
    sent,           \* it has sent the envelope
    newline,        \* history: the line as far as it is typed, and the one before
    undisturbed     \* history: nobody typed on while a line was taken in

keyVars == <<data, length, helper, char, at, usr1, kb, requests, text, sent, newline, undisturbed>>
helperVars == <<data, helper, char, at, newline>>
kbVars == <<kb, requests, text, sent>>

(* Nobody reads what char and data hold at first.                          *)
KeyInit ==
    /\ char = CHOOSE k \in Key : TRUE
    /\ data = [i \in 0 .. KEYBOARD_BUF_SIZE - 1 |-> char]
    /\ length = 0
    /\ helper = "getchar" /\ at = 0
    /\ usr1 = FALSE
    /\ kb = "idle" /\ requests = 0 /\ text = <<>> /\ sent = FALSE
    /\ newline = [now |-> <<>>, before |-> <<>>]
    /\ undisturbed = TRUE

Quiet == kb = "idle" /\ ~usr1

(* The helper reads a character.  What the buffer has no room for is lost. *)
Getchar ==
    /\ helper = "getchar"
    /\ Len(newline.now) < MaxTyped
    /\ \E k \in Key :
          /\ char' = k
          /\ newline' = [newline EXCEPT !.now = Append(@, k)]
    /\ helper' = IF length < KEYBOARD_BUF_SIZE THEN "store" ELSE "getchar"
    /\ undisturbed' = (undisturbed /\ Quiet)
    /\ UNCHANGED <<data, length, at, usr1, kbVars>>

Newline ==
    /\ helper = "getchar"
    /\ usr1' = TRUE
    /\ newline' = [now |-> <<>>, before |-> newline.now]
    /\ undisturbed' = (undisturbed /\ Quiet)
    /\ UNCHANGED <<data, length, helper, char, at, kbVars>>

Store ==
    /\ helper = "store"
    /\ data' = [data EXCEPT ![length] = char]
    /\ at' = length
    /\ helper' = "increment"
    /\ UNCHANGED <<length, char, usr1, kbVars, newline, undisturbed>>

(* length++ is a load and a store: the i-process may have reset the length *)
(* before both, or between them.                                           *)
Increment ==
    /\ helper = "increment"
    /\ \E loaded \in {at, length} : length' = loaded + 1
    /\ helper' = "getchar"
    /\ UNCHANGED <<data, char, at, usr1, kbVars, newline, undisturbed>>

(* get_console_chars, by a process: while the i-process runs none does.    *)
get_console_chars ==
    /\ kb = "idle"
    /\ requests < MaxRequests
    /\ requests' = requests + 1
    /\ UNCHANGED <<helperVars, length, usr1, kb, text, sent, undisturbed>>

(* The signal enters the i-process, which looks for a request.             *)
Enter ==
    /\ usr1 /\ kb = "idle"
    /\ usr1' = FALSE
    /\ kb' = IF requests > 0 THEN "copy" ELSE "reset"
    /\ text' = <<>>
    /\ sent' = FALSE
    /\ UNCHANGED <<helperVars, length, requests, undisturbed>>

Copy ==
    /\ kb = "copy"
    /\ Len(text) < length
    /\ text' = Append(text, data[Len(text)])
    /\ UNCHANGED <<helperVars, length, usr1, kb, requests, sent, undisturbed>>

(* The terminator goes behind the text, which for one that fills the       *)
(* buffer is behind the envelope's MSG_ENV_MSG_SIZE characters as well.    *)
Send ==
    /\ kb = "copy"
    /\ Len(text) >= length
    /\ requests' = requests - 1
    /\ sent' = TRUE
    /\ kb' = "reset"
    /\ UNCHANGED <<helperVars, length, usr1, text, undisturbed>>

(* Fault: the buffer is emptied only if a process got the line.            *)
LengthIfSent == IF sent THEN 0 ELSE length

LengthAfterLine == 0

Reset ==
    /\ kb = "reset"
    /\ length' = LengthAfterLine
    /\ kb' = "idle"
    /\ undisturbed' = (helper = "getchar" /\ newline.now = <<>> /\ ~usr1)
    /\ UNCHANGED <<helperVars, usr1, requests, text, sent>>

KeyNext ==
    \/ Getchar \/ Newline \/ Store \/ Increment
    \/ get_console_chars
    \/ Enter \/ Copy \/ Send \/ Reset

KeySpec == KeyInit /\ [][KeyNext]_keyVars

-----------------------------------------------------------------------------
(* The line a process gets is the line that was typed, cut off at the size *)
(* of the buffer, provided that nobody typed on before it was taken in     *)
(* (kb_i_process.c:18-27).  That holds again for the first line after one  *)
(* that was disturbed, or dropped because nobody had asked for it: neither *)
(* leaves anything behind.                                                 *)
LineReadAsTyped ==
    kb = "reset" /\ sent /\ undisturbed =>
        LET line == newline.before
        IN  text = IF Len(line) <= KEYBOARD_BUF_SIZE THEN line ELSE SubSeq(line, 1, KEYBOARD_BUF_SIZE)
=============================================================================
