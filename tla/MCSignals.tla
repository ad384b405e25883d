------------------------------ MODULE MCSignals ------------------------------
(***************************************************************************)
(* Instances of Signals for TLC.                                           *)
(***************************************************************************)
EXTENDS Signals, TLC

SignalSymmetry == Permutations(Signal) \cup Permutations(User)
=============================================================================
