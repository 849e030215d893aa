------------------------------ MODULE RoomBook ------------------------------
(***************************************************************************)
(* What the store of rooms promises to those who look rooms up             *)
(* (server/src/domain/room.rs): a room appears with its host, in one step, *)
(* keeps that host for ever, and admits guests that are not its host.      *)
(*                                                                         *)
(* That it admits one guest at most is not promised: RoomStore cannot keep *)
(* it, see OneGuest there.                                                 *)
(***************************************************************************)
CONSTANTS Room, User

VARIABLES
    host,   \* <<room, user>>: the rooms there are, each with its host
    guest   \* <<room, user>>: who has joined which room

bookVars == <<host, guest>>

Init == host = {} /\ guest = {}

Open(r, u) ==
    /\ \A h \in User : <<r, h>> \notin host
    /\ host' = host \cup {<<r, u>>}
    /\ UNCHANGED guest

Admit(r, u) ==
    /\ \E h \in User \ {u} : <<r, h>> \in host
    /\ guest' = guest \cup {<<r, u>>}
    /\ UNCHANGED host

Next == \E r \in Room, u \in User : Open(r, u) \/ Admit(r, u)

Spec == Init /\ [][Next]_bookVars
=============================================================================
