--------------------------- MODULE SignalSession ---------------------------
(***************************************************************************)
(* The websocket session actors (server/src/infra/routes/webrtc.rs) and    *)
(* their composition with the SignalServer actor.                          *)
(*                                                                         *)
(* There is one SignalSession actor per websocket.  Sessions run on two    *)
(* worker threads and the SignalServer on a third, so a step here is what  *)
(* one actor does without yielding, and steps of different actors          *)
(* interleave.  While a session waits for a reply (ctx.wait) it handles    *)
(* nothing else; a session whose connection is lost is dropped at once,    *)
(* even while it waits.                                                    *)
(***************************************************************************)
EXTENDS SignalServer

CONSTANT MaxTexts   \* bound: texts the clients send, over all connections

ASSUME MaxTextsAssumption == MaxTexts \in Nat

VARIABLES
    is_active,  \* SignalSession.is_active
    out,        \* messages written to the websocket, oldest first
    sent,       \* number of texts received from the clients (bound only)
    hbFailed    \* history: the sessions whose heartbeat check has failed

sessionVars == <<is_active, out, sent, hbFailed>>
vars == <<peers, mailbox, inbox, reply, phase, is_active, out, sent, hbFailed>>

\* WsOutMessage, an Error by its code.  Close frames are left out.
Frame == [type : {"Data", "PeerConnected", "PeerDisconnected", "ALREADY_CONNECTED",
                  "PEER_NOT_CONNECTED"},
          data : Data \cup {NoData}]

Send(s, f) == out' = [out EXCEPT ![s] = Append(@, f)]
Goto(s, p) == phase' = [phase EXCEPT ![s] = p]
TakeReply(s) == reply' = [reply EXCEPT ![s] = "none"]

-----------------------------------------------------------------------------
(* The routes and Actor::started *)

Start(s) ==
    /\ phase[s] = "new"
    /\ Goto(s, "connecting")
    /\ mailbox' = Append(mailbox, Connect(s))
    /\ UNCHANGED <<peers, inbox, reply, sessionVars>>

ConnectAccepted(s) ==
    /\ phase[s] = "connecting"
    /\ reply[s] = "Ok"
    /\ is_active' = [is_active EXCEPT ![s] = TRUE]
    /\ Goto(s, "running")
    /\ TakeReply(s)
    /\ UNCHANGED <<peers, mailbox, inbox, out, sent, hbFailed>>

ConnectRefused(s) ==
    /\ phase[s] = "connecting"
    /\ reply[s] = "AlreadyConnected"
    /\ Send(s, Notice("ALREADY_CONNECTED"))
    /\ Goto(s, "stopping")
    /\ TakeReply(s)
    /\ UNCHANGED <<peers, mailbox, inbox, is_active, sent, hbFailed>>

-----------------------------------------------------------------------------
(* Messages of the SignalServer and of the client *)

\* Handler<Signal>: From<Signal> keeps the tag and the payload of a signal.
HandleSignal(s) ==
    /\ phase[s] = "running"
    /\ inbox[s] # <<>>
    /\ Send(s, [type |-> Head(inbox[s]).type, data |-> Head(inbox[s]).data])
    /\ inbox' = [inbox EXCEPT ![s] = Tail(@)]
    /\ UNCHANGED <<peers, mailbox, reply, phase, is_active, sent, hbFailed>>

ReceiveText(s, d) ==
    /\ phase[s] = "running"
    /\ sent < MaxTexts
    /\ sent' = sent + 1
    /\ mailbox' = Append(mailbox, SignalReq(s, d))
    /\ Goto(s, "waiting")
    /\ UNCHANGED <<peers, inbox, reply, is_active, out, hbFailed>>

RequestDone(s) ==
    /\ phase[s] = "waiting"
    /\ reply[s] # "none"
    /\ IF reply[s] = "PeerNotConnected" THEN Send(s, Notice("PEER_NOT_CONNECTED")) ELSE UNCHANGED out
    /\ Goto(s, "running")
    /\ TakeReply(s)
    /\ UNCHANGED <<peers, mailbox, inbox, is_active, sent, hbFailed>>

-----------------------------------------------------------------------------
(* Ways to stop *)

\* A close frame, a protocol error, a continuation frame, the end of the
\* stream, or a connection that breaks: the actor stops.
StreamEnds(s) ==
    /\ phase[s] = "running"
    /\ Goto(s, "stopping")
    /\ UNCHANGED <<peers, mailbox, inbox, reply, sessionVars>>

\* start_periodic_hb: the client has been silent for longer than
\* CLIENT_TIMEOUT.  The callback sends a Disconnect of its own before
\* ctx.stop(), and stopping() will send another.
HeartbeatFails(s) ==
    /\ phase[s] = "running"
    /\ mailbox' = Append(mailbox, Disconnect(s))
    /\ hbFailed' = hbFailed \cup {s}
    /\ Goto(s, "stopping")
    /\ UNCHANGED <<peers, inbox, reply, is_active, out, sent>>

\* The connection breaks and the actor is dropped while it waits for a reply,
\* which is then never seen.
ConnectionLost(s) ==
    /\ phase[s] \in {"connecting", "waiting"}
    /\ Goto(s, "stopping")
    /\ TakeReply(s)
    /\ UNCHANGED <<peers, mailbox, inbox, sessionVars>>

\* Faulty: a session that was never accepted disconnects its role as well.
AlwaysDisconnect(s) == <<Disconnect(s)>>
\* What stopping() sends to the SignalServer.
Farewell(s) == IF is_active[s] THEN <<Disconnect(s)>> ELSE <<>>

\* Actor::stopping; what is still in the inbox is dropped with the actor.
Stopping(s) ==
    /\ phase[s] = "stopping"
    /\ mailbox' = mailbox \o Farewell(s)
    /\ inbox' = [inbox EXCEPT ![s] = <<>>]
    /\ Goto(s, "stopped")
    /\ UNCHANGED <<peers, reply, sessionVars>>

-----------------------------------------------------------------------------

Init ==
    /\ ServerInit
    /\ is_active = [s \in Session |-> FALSE]
    /\ out = [s \in Session |-> <<>>]
    /\ sent = 0
    /\ hbFailed = {}

Server == ServerStep /\ UNCHANGED sessionVars

\* What a session does on its own account.
Internal(s) ==
    \/ ConnectAccepted(s)
    \/ ConnectRefused(s)
    \/ HandleSignal(s)
    \/ RequestDone(s)
    \/ Stopping(s)

\* What the client, the network or the clock make it do.
External(s) ==
    \/ Start(s)
    \/ \E d \in Data : ReceiveText(s, d)
    \/ StreamEnds(s)
    \/ HeartbeatFails(s)
    \/ ConnectionLost(s)

Next == Server \/ \E s \in Session : Internal(s) \/ External(s)

Spec == Init /\ [][Next]_vars

\* Actors with work are scheduled; clients, network and clock owe nothing.
Fairness ==
    /\ WF_vars(Server)
    /\ \A s \in Session : WF_vars(Internal(s))

FairSpec == Spec /\ Fairness

-----------------------------------------------------------------------------
(* Type invariant: every variable of the composed system has its type. *)
TypeOK ==
    /\ ServerTypeOK
    /\ is_active \in [Session -> BOOLEAN]
    /\ out \in [Session -> Seq(Frame)]
    /\ sent \in 0..MaxTexts
    /\ hbFailed \subseteq Session

-----------------------------------------------------------------------------
(* Safety *)

Live(s) == phase[s] \in {"running", "waiting"}

\* A heartbeat check has failed in some session of role r.  The two
\* Disconnects it causes name a role only, so a session that took the slot
\* between them is evicted by the second, and its own Disconnect can evict
\* the next one: from then on the slot and the sessions may disagree.
HeartbeatFailedIn(r) == \E s \in hbFailed : RoleOf(s) = r

\* A session that was told it is connected, and still runs, holds the slot of
\* its role: no reply, refusal or departure of another session evicts it.
\* Only a failed heartbeat in the same role can (HandleDisconnect reads a
\* role, not an identity).
ActiveIsRegistered ==
    \A s \in Session :
        is_active[s] /\ Live(s) /\ ~HeartbeatFailedIn(RoleOf(s)) => peers[RoleOf(s)] = s

\* Every relay request still queued comes from the session registered in its
\* role, even if that session has stopped meanwhile: Handler<SignalReq> reads
\* only the role and trusts that nobody else sends in its name.
RequestIsFromRegistered ==
    \A i \in 1..Len(mailbox) :
        mailbox[i].kind = "SignalReq" /\ ~HeartbeatFailedIn(mailbox[i].role)
            => peers[mailbox[i].role] = mailbox[i].addr

\* The messages a session has for its client, in order: those written to its
\* websocket, then the signals still in its inbox.
Stream(s)   == out[s] \o inbox[s]
IsSignal(f) == f.type \in {"Data", "PeerConnected", "PeerDisconnected"}
IsNotice(f) == f.type \in {"PeerConnected", "PeerDisconnected"}

\* Between two notices of one kind there is one of the other.
Alternate(q) ==
    \A i, j \in 1..Len(q) :
        i < j /\ IsNotice(q[i]) /\ q[j].type = q[i].type =>
            \E k \in i + 1..j - 1 : IsNotice(q[k]) /\ q[k].type # q[i].type

IsLastNotice(q, i) == IsNotice(q[i]) /\ \A j \in i + 1..Len(q) : ~IsNotice(q[j])

\* After a notice of departure there is no signal before one of arrival.
Quiet(q) ==
    \A i, j \in 1..Len(q) :
        i < j /\ q[i].type = "PeerDisconnected" /\ IsSignal(q[j]) =>
            \E k \in i + 1..j : q[k].type = "PeerConnected"

\* What a session is told about its peer is never wrong twice over: notices of
\* arrival and departure alternate, and the last one agrees with the slot of
\* the peer for as long as the session itself is registered.
NoticesTrackPeer ==
    \A s \in Session : LET q == Stream(s) IN
        /\ Alternate(q)
        /\ peers[RoleOf(s)] = s /\ AddrOpen(s) =>
             \A i \in 1..Len(q) : IsLastNotice(q, i) =>
                (q[i].type = "PeerConnected" <=> peers[Other(RoleOf(s))] # NoPeer)

\* After the notice that its peer has left, a session receives nothing until
\* the notice that a peer has arrived: no late signal of the old peer.  (A
\* peer evicted after a failed heartbeat goes on sending, see above.)
QuietWhenPeerGone ==
    \A s \in Session : ~HeartbeatFailedIn(Other(RoleOf(s))) => Quiet(Stream(s))

\* "Room already has peer with your role" (webrtc.rs:253): there are never two
\* connected peers in one role.  Not true of the code, see HeartbeatFailedIn.
OnePeerPerRole ==
    \A s, t \in Session :
        is_active[s] /\ Live(s) /\ is_active[t] /\ Live(t) /\ RoleOf(s) = RoleOf(t) => s = t

-----------------------------------------------------------------------------
(* The abstract specification *)

Stage(p) ==
    IF p = "new" THEN "away"
    ELSE IF p = "stopped" THEN "gone"
    ELSE IF p = "stopping" THEN "leaving"
    ELSE "here"

\* A session the server has yet to answer is asking for the slot of its role.
Asks(s) == \E i \in 1..Len(mailbox) : mailbox[i].kind = "Connect" /\ mailbox[i].addr = s

Seats == INSTANCE Rendezvous WITH
    Nobody <- NoPeer,
    Text <- {ToSignal(d) : d \in Data},
    Arrived <- Notice("PeerConnected"),
    Departed <- Notice("PeerDisconnected"),
    stage <- [s \in Session |-> Stage(phase[s])],
    asking <- {s \in Session : Asks(s)},
    seat <- peers,
    post <- inbox,
    lapsed <- {RoleOf(s) : s \in hbFailed}

\* Though every message waits in the mailbox of the server while sessions come
\* and go, and a goodbye names a role and not a session, the slots behave as
\* the two seats of Rendezvous: each handler acts for the one who has the slot.
RendezvousSpec == Seats!Spec

-----------------------------------------------------------------------------
(* The inductive invariant behind ActiveIsRegistered and                   *)
(* RequestIsFromRegistered; SignalSessionProofs proves it inductive.       *)

\* The phases a session can be in while a message of each kind is queued, and
\* what it has been told by then.
QueueMatchesPhase ==
    \A i \in 1..Len(mailbox) : LET m == mailbox[i] IN
        /\ m.role = RoleOf(m.addr)
        /\ phase[m.addr] # "new"
        /\ m.kind = "Connect" =>
             /\ ~is_active[m.addr]
             /\ reply[m.addr] = "none"
        /\ m.kind # "Connect" => is_active[m.addr]
        /\ m.kind = "Disconnect" =>
             phase[m.addr] \in (IF m.addr \in hbFailed THEN {"stopping", "stopped"} ELSE {"stopped"})

\* A session asks to be registered once, and says goodbye last.
QueueOrder ==
    \A i, j \in 1..Len(mailbox) :
        i < j /\ mailbox[i].addr = mailbox[j].addr =>
            /\ mailbox[j].kind # "Connect"
            /\ mailbox[i].kind = "Disconnect" => mailbox[i].addr \in hbFailed

\* What a session knows agrees with the phase it is in.
KnowledgeMatchesPhase ==
    \A s \in Session :
        /\ phase[s] = "new" => reply[s] = "none"
        /\ phase[s] \in {"new", "connecting"} => ~is_active[s]
        /\ phase[s] \in {"running", "waiting"} => is_active[s]
        /\ reply[s] = "Ok" => phase[s] \in {"connecting", "waiting"}

\* What entitles a session to the slot of its role: it was told so and has not
\* stopped, the answer that tells it is on its way, or a message of a
\* registered session is still queued in its name.
Claims(s) ==
    \/ is_active[s] /\ phase[s] # "stopped"
    \/ phase[s] = "connecting" /\ reply[s] = "Ok"
    \/ \E i \in 1..Len(mailbox) : mailbox[i].addr = s /\ mailbox[i].kind # "Connect"

ClaimantsAreRegistered ==
    \A s \in Session : Claims(s) /\ ~HeartbeatFailedIn(RoleOf(s)) => peers[RoleOf(s)] = s

RegistrationInv ==
    /\ TypeOK
    /\ QueueMatchesPhase
    /\ QueueOrder
    /\ KnowledgeMatchesPhase
    /\ ClaimantsAreRegistered

-----------------------------------------------------------------------------
(* Liveness, under FairSpec *)

\* A session waits for no reply, and holds no slot once it has stopped unless
\* it never learned that it was connected.
Settled(s) ==
    \/ phase[s] \in {"new", "running"}
    \/ phase[s] = "stopped" /\ (is_active[s] => peers[RoleOf(s)] # s)

\* Every request is answered (ctx.wait handles nothing else meanwhile), and a
\* session that knew it was connected gives its slot back once it has stopped,
\* whichever way it stopped.
SessionsSettle == \A s \in Session : ~Settled(s) ~> Settled(s)

\* "leaving a room page by participant should not finish a room" (task.md:33):
\* whoever has gone no longer occupies its role.  Not true of the code: a
\* connection lost before the reply to Connect arrives leaves is_active unset,
\* stopping() then sends no Disconnect, and the role is taken for ever.
GoneParticipantLeaves ==
    \A s \in Session : phase[s] = "stopped" ~> peers[RoleOf(s)] # s
=============================================================================
