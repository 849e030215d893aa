---------------------------- MODULE MCRoomStore ----------------------------
(***************************************************************************)
(* Small instances of RoomStore for TLC.                                   *)
(***************************************************************************)
EXTENDS RoomStore, TLC

\* Requests of a kind, and users, are interchangeable; for safety runs only.
Symmetry == Permutations(Creates) \cup Permutations(Joins) \cup Permutations(User)
=============================================================================
