---------------------------- MODULE SignalServer ----------------------------
(***************************************************************************)
(* The SignalServer actor (server/src/application/signal_server.rs).       *)
(*                                                                         *)
(* One actor serves the whole process.  It keeps one slot per role and     *)
(* handles, one at a time and in the order they were queued, the messages  *)
(* of the websocket sessions: Connect, Disconnect and SignalReq.  It       *)
(* answers Connect and SignalReq on a one-shot reply channel, and sends    *)
(* signals to the registered peers with do_send, which queues without      *)
(* bound and drops the message silently when the addressee is gone.        *)
(*                                                                         *)
(* The sessions themselves are in SignalSession; the two share phase,      *)
(* mailbox, inbox and reply.                                               *)
(***************************************************************************)
EXTENDS Naturals, Sequences

CONSTANTS
    Senders,    \* websocket connections opened on the route .../sender
    Receivers,  \* websocket connections opened on the route .../receiver
    Data,       \* the texts a client sends: Offer, Answer, IceCandidate, ...
    NoPeer,     \* an empty slot (None)
    NoData      \* the payload of a message that carries none

Session == Senders \cup Receivers

ASSUME SignalAssumption ==
    /\ Senders \cap Receivers = {}
    /\ NoPeer \notin Session
    /\ NoData \notin Data

VARIABLES
    peers,    \* SignalServer.sender and SignalServer.receiver, by role
    mailbox,  \* the queue of the SignalServer actor
    inbox,    \* the queue of every session actor: signals sent to its address
    reply,    \* the one-shot channel of the request a session waits on
    phase     \* life cycle of every session actor, driven by SignalSession

serverVars == <<peers, mailbox, inbox, reply, phase>>

Role == {"SENDER", "RECEIVER"}
Other(r) == IF r = "SENDER" THEN "RECEIVER" ELSE "SENDER"
RoleOf(s) == IF s \in Senders THEN "SENDER" ELSE "RECEIVER"

Phase == {"new", "connecting", "running", "waiting", "stopping", "stopped"}
Reply == {"none", "Ok", "AlreadyConnected", "PeerNotConnected"}

Signal == [type : {"Data", "PeerConnected", "PeerDisconnected"},
           data : Data \cup {NoData}]
Notice(type) == [type |-> type, data |-> NoData]

(***************************************************************************)
(* addr is the session that queued the message.  In Connect it is the      *)
(* recipient to register and in SignalReq the reply channel; Disconnect    *)
(* carries a role and nothing else, so its handler never reads addr: there *)
(* it only records, for the properties, who asked.                         *)
(***************************************************************************)
Message == [kind : {"Connect", "Disconnect", "SignalReq"},
            role : Role, addr : Session, data : Data \cup {NoData}]
Connect(s)      == [kind |-> "Connect",    role |-> RoleOf(s), addr |-> s, data |-> NoData]
Disconnect(s)   == [kind |-> "Disconnect", role |-> RoleOf(s), addr |-> s, data |-> NoData]
SignalReq(s, d) == [kind |-> "SignalReq",  role |-> RoleOf(s), addr |-> s, data |-> d]

\* Faulty: the payload is forwarded without being wrapped into a Signal.
BareSignal(d) == d
\* to_signal: the payload a peer submitted, as the signal its peer receives.
ToSignal(d) == [type |-> "Data", data |-> d]

\* An address accepts messages from the start of its actor until it stopped.
AddrOpen(s) == phase[s] \notin {"new", "stopped"}

\* The session inboxes after peers[r].addr.do_send(sig), if there is one.
Tell(r, sig) ==
    IF peers[r] # NoPeer /\ AddrOpen(peers[r])
    THEN [inbox EXCEPT ![peers[r]] = Append(@, sig)]
    ELSE inbox

\* The actor takes the next message of its mailbox; it must be of this kind.
Take(kind) ==
    /\ mailbox # <<>>
    /\ Head(mailbox).kind = kind
    /\ mailbox' = Tail(mailbox)
    /\ UNCHANGED phase

\* Complete the one-shot reply of the request at the head of the mailbox; the
\* answer is lost when the session no longer waits for it.
Answer(r) ==
    LET s == Head(mailbox).addr IN
    IF phase[s] \in {"connecting", "waiting"}
    THEN reply' = [reply EXCEPT ![s] = r]
    ELSE UNCHANGED reply

-----------------------------------------------------------------------------
(* Handler<Connect> *)

\* Faulty: a newcomer may take a slot that is occupied.
AnySlot(r) == TRUE
SlotFree(r) == peers[r] = NoPeer

AcceptConnect ==
    /\ Take("Connect")
    /\ LET m == Head(mailbox) IN
        /\ SlotFree(m.role)
        /\ peers' = [peers EXCEPT ![m.role] = m.addr]
        /\ inbox' = Tell(Other(m.role), Notice("PeerConnected"))
    /\ Answer("Ok")

RefuseConnect ==
    /\ Take("Connect")
    /\ ~SlotFree(Head(mailbox).role)
    /\ Answer("AlreadyConnected")
    /\ UNCHANGED <<peers, inbox>>

(* Handler<Disconnect> *)

\* Faulty: the other peer is not told that its peer has left.
LeaveSilently(r) == inbox
\* What the other peer is sent when the slot of role r is emptied.
AnnounceLeave(r) == Tell(Other(r), Notice("PeerDisconnected"))

HandleDisconnect ==
    /\ Take("Disconnect")
    /\ LET r == Head(mailbox).role IN
        \/ /\ peers[r] # NoPeer
           /\ peers' = [peers EXCEPT ![r] = NoPeer]
           /\ inbox' = AnnounceLeave(r)
        \/ /\ peers[r] = NoPeer
           /\ UNCHANGED <<peers, inbox>>
    /\ UNCHANGED reply

(* Handler<SignalReq> *)

Relay ==
    /\ Take("SignalReq")
    /\ LET m == Head(mailbox) IN
        /\ peers[Other(m.role)] # NoPeer
        /\ inbox' = Tell(Other(m.role), ToSignal(m.data))
    /\ Answer("Ok")
    /\ UNCHANGED peers

\* Faulty: a request without a target is dropped instead of being refused.
DropRequest ==
    /\ Take("SignalReq")
    /\ peers[Other(Head(mailbox).role)] = NoPeer
    /\ UNCHANGED <<peers, inbox, reply>>

RefuseRelay ==
    /\ Take("SignalReq")
    /\ peers[Other(Head(mailbox).role)] = NoPeer
    /\ Answer("PeerNotConnected")
    /\ UNCHANGED <<peers, inbox>>

-----------------------------------------------------------------------------

ServerInit ==
    /\ peers = [r \in Role |-> NoPeer]
    /\ mailbox = <<>>
    /\ inbox = [s \in Session |-> <<>>]
    /\ reply = [s \in Session |-> "none"]
    /\ phase = [s \in Session |-> "new"]

ServerStep == AcceptConnect \/ RefuseConnect \/ HandleDisconnect \/ Relay \/ RefuseRelay

ServerTypeOK ==
    /\ peers \in [Role -> Session \cup {NoPeer}]
    /\ mailbox \in Seq(Message)
    /\ inbox \in [Session -> Seq(Signal)]
    /\ reply \in [Session -> Reply]
    /\ phase \in [Session -> Phase]
=============================================================================
