------------------------------- MODULE MCTimer -------------------------------
(***************************************************************************)
(* Timer is instantiated by its .cfg files: three processes, so that one   *)
(* request can be inserted before, between and behind two others.          *)
(***************************************************************************)
EXTENDS Timer
=============================================================================
