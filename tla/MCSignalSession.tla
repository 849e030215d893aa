-------------------------- MODULE MCSignalSession --------------------------
(***************************************************************************)
(* Small instances of SignalSession for TLC.                               *)
(***************************************************************************)
EXTENDS SignalSession, TLC

\* Sessions of one role are interchangeable; used for safety runs only.
Symmetry == Permutations(Senders) \cup Permutations(Receivers)
=============================================================================
