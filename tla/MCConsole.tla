------------------------------ MODULE MCConsole ------------------------------
(***************************************************************************)
(* Console is instantiated by its .cfg files alone: three senders, so that *)
(* one text can be on the screen, one queued and one arriving, for safety; *)
(* two for the acknowledgement, which one other text is enough to delay.   *)
(***************************************************************************)
EXTENDS Console
=============================================================================
