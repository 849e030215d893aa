---------------------------- MODULE Rendezvous ----------------------------
(***************************************************************************)
(* What the signal server promises to those who connect to it              *)
(* (server/src/application/signal_server.rs): two seats, one per role.     *)
(* Whoever asks gets the seat of its role if nobody has it, keeps it until *)
(* it has gone, and is the only one who speaks to the other seat; each     *)
(* hears when the other seat is taken and when it is given up.             *)
(*                                                                         *)
(* All this is up to a visitor that falls silent.  Its role has lapsed     *)
(* then: who sits there may lose the seat, and who lost it may speak.      *)
(***************************************************************************)
EXTENDS Sequences

CONSTANTS Senders, Receivers, Nobody,
          Text,     \* what a visitor can say to the other
          Arrived, Departed   \* what it is told about the other

Visitor == Senders \cup Receivers

VARIABLES
    stage,   \* of a visitor: away, here, leaving or gone
    asking,  \* the visitors that have asked for a seat and have no answer
    seat,    \* who has the seat of a role
    post,    \* what a visitor has been sent and has not taken
    lapsed   \* the roles in which a visitor has fallen silent

seatVars == <<stage, asking, seat, post, lapsed>>

Side == {"SENDER", "RECEIVER"}
Opposite(r) == IF r = "SENDER" THEN "RECEIVER" ELSE "SENDER"
SideOf(v) == IF v \in Senders THEN "SENDER" ELSE "RECEIVER"

Init ==
    /\ stage = [v \in Visitor |-> "away"]
    /\ asking = {}
    /\ seat = [r \in Side |-> Nobody]
    /\ post = [v \in Visitor |-> <<>>]
    /\ lapsed = {}

\* The post after the visitor on side r, if there is one, was sent x.
Hand(r, x) ==
    IF seat[r] # Nobody /\ stage[seat[r]] # "gone"
    THEN [post EXCEPT ![seat[r]] = Append(@, x)]
    ELSE post

Come(v) ==
    /\ stage[v] = "away"
    /\ stage' = [stage EXCEPT ![v] = "here"]
    /\ asking' = asking \cup {v}
    /\ UNCHANGED <<seat, post, lapsed>>

Sit(v) ==
    /\ v \in asking
    /\ seat[SideOf(v)] = Nobody
    /\ asking' = asking \ {v}
    /\ seat' = [seat EXCEPT ![SideOf(v)] = v]
    /\ post' = Hand(Opposite(SideOf(v)), Arrived)
    /\ UNCHANGED <<stage, lapsed>>

TurnAway(v) ==
    /\ v \in asking
    /\ seat[SideOf(v)] # Nobody
    /\ asking' = asking \ {v}
    /\ UNCHANGED <<stage, seat, post, lapsed>>

Speak(v, x) ==
    /\ stage[v] # "away" /\ v \notin asking
    /\ seat[SideOf(v)] = v \/ SideOf(v) \in lapsed
    /\ seat[Opposite(SideOf(v))] # Nobody
    /\ post' = Hand(Opposite(SideOf(v)), x)
    /\ UNCHANGED <<stage, asking, seat, lapsed>>

Hear(v) ==
    /\ stage[v] = "here"
    /\ post[v] # <<>>
    /\ post' = [post EXCEPT ![v] = Tail(@)]
    /\ UNCHANGED <<stage, asking, seat, lapsed>>

Leave(v) ==
    /\ stage[v] = "here"
    /\ stage' = [stage EXCEPT ![v] = "leaving"]
    /\ lapsed' \in {lapsed, lapsed \cup {SideOf(v)}}
    /\ UNCHANGED <<asking, seat, post>>

Go(v) ==
    /\ stage[v] = "leaving"
    /\ stage' = [stage EXCEPT ![v] = "gone"]
    /\ post' = [post EXCEPT ![v] = <<>>]
    /\ UNCHANGED <<asking, seat, lapsed>>

GiveUp(r) ==
    /\ seat[r] # Nobody
    /\ stage[seat[r]] = "gone" \/ r \in lapsed
    /\ seat' = [seat EXCEPT ![r] = Nobody]
    /\ post' = Hand(Opposite(r), Departed)
    /\ UNCHANGED <<stage, asking, lapsed>>

Next ==
    \/ \E v \in Visitor :
        \/ Come(v) \/ Sit(v) \/ TurnAway(v) \/ Hear(v) \/ Leave(v) \/ Go(v)
        \/ \E x \in Text : Speak(v, x)
    \/ \E r \in Side : GiveUp(r)

Spec == Init /\ [][Next]_seatVars
=============================================================================
