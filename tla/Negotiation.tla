------------------------------ MODULE Negotiation ------------------------------
(***************************************************************************)
(* The negotiation of a video stream (frontend/src/core/webrtc): the hooks *)
(* of the sender and of the receiver, the exchange of candidates both use, *)
(* their RTCPeerConnection and the local media, as VideoStreaming puts     *)
(* them together, over a relay that does what the signal server does.      *)
(*                                                                         *)
(* A hook is a set of effects.  After a render React runs those whose      *)
(* dependencies have changed, and what they read is the state of that      *)
(* render.  The objects server and conn are made anew whenever Room        *)
(* renders, and Room renders for ever: its useLoggingOf stores the new     *)
(* server in a context that Room reads.  So the effects that depend on     *)
(* them run again and again.                                               *)
(*                                                                         *)
(* useWebSocket renders at once what comes from its socket (flushSync, in  *)
(* react-use-websocket 4.0.0, the version of package-lock.json), without   *)
(* the updates that still wait for a render.                               *)
(*                                                                         *)
(* A render and its effects are one step.  What happens between the two is *)
(* seen by neither.                                                        *)
(***************************************************************************)
EXTENDS Naturals, Sequences, FiniteSets

CONSTANTS
    Gatherers,  \* bound: the peers whose connection finds candidates
    MaxOps,     \* bound: no render starts more with this many operations under way
    MaxWire     \* bound: and none says more with this many signals in the queue

Peer == {"sender", "receiver"}
Other(p) == IF p = "sender" THEN "receiver" ELSE "sender"

ASSUME BoundAssumption ==
    Gatherers \subseteq Peer /\ MaxOps \in Nat \ {0} /\ MaxWire \in Nat \ {0}

VARIABLES
    up,       \* the peers whose page is open
    opened,   \* the peers whose socket has opened
    joined,   \* the peers the signal server knows
    st,       \* the state of the hooks of a peer, with all updates
    view,     \* the state as of the last render, which the effects read
    conn,     \* RTCPeerConnection
    ops,      \* its operations chain: every await of a method of RTCConn
    unsent,   \* signals kept until the session of the page is registered
    inbox,    \* signals of the server on the way to a page
    prompts   \* history: the user was asked for the screen not at all, once, or more often

vars == <<up, opened, joined, st, view, conn, ops, unsent, inbox, prompts>>

Signal   == {"Offer", "Answer", "IceCandidate", "IceGatheringComplete"}
\* Notice: Error, PeerConnected and PeerDisconnected, on which no effect acts
\* (an Error is shown).
InSignal == Signal \cup {"Notice"}

\* The useState of useLocalMedia, the hooks and useRtcPeerConnection.
\* stream is the local one at the sender and the remote one at the receiver,
\* offered is offerSent there and offerReceived here; iceCandidate tells that
\* there is one.  What is only shown (errors) is left out.
HookState == [stream : BOOLEAN, asked : BOOLEAN, mediaAttached : BOOLEAN,
              offered : BOOLEAN, ready : BOOLEAN, iceCandidate : BOOLEAN,
              localGatheringComplete : BOOLEAN, remoteGatheringComplete : BOOLEAN,
              lastSignal : InSignal \cup {"null"}]

Conn == [signalingState : {"stable", "have-local-offer", "have-remote-offer"},
         tracks : BOOLEAN, localDescription : BOOLEAN, remoteDescription : BOOLEAN]

OpOf(p) == {"addIceCandidate"} \cup
           IF p = "sender" THEN {"createOffer", "setLocalOffer", "setRemoteAnswer"}
                           ELSE {"setRemoteOffer", "createAnswer", "setLocalAnswer"}

-----------------------------------------------------------------------------
(* The effects: when an effect that runs does not return early *)

AskMedia(v)    == ~v.stream /\ ~v.asked
AttachMedia(v) == v.stream /\ ~v.mediaAttached

\* Faulty: offers do not wait for the media.
OfferAtOnce(v) == ~v.ready
\* Faulty: one offer is enough.
OfferOnce(v)   == v.mediaAttached /\ ~v.ready /\ ~v.offered
SendOffer(v)   == v.mediaAttached /\ ~v.ready

\* Faulty: any signal counts as the answer.
AnyAnswer(v)    == v.offered /\ ~v.ready /\ v.lastSignal # "null"
HandleAnswer(v) == v.offered /\ ~v.ready /\ v.lastSignal = "Answer"

\* Faulty: an offer is taken as long as no answer was sent.
OfferWhileBusy(v) == ~v.ready /\ v.lastSignal = "Offer"
HandleOffer(v)    == ~v.offered /\ ~v.ready /\ v.lastSignal = "Offer"

\* Faulty: candidates are sent as soon as they are found.
CandidateAtOnce(v) == ~v.localGatheringComplete /\ v.iceCandidate
LocalCandidate(v)  == v.ready /\ CandidateAtOnce(v)

\* Faulty: candidates are added before the descriptions are exchanged.
AnyTimeCandidate(v) == ~v.remoteGatheringComplete /\ v.lastSignal = "IceCandidate"
RemoteCandidate(v)  == v.ready /\ AnyTimeCandidate(v)

\* notifyOnGatheringComplete, whose guard is the wrong way round.
NotifyComplete(v) == v.ready /\ ~v.localGatheringComplete
RemoteComplete(v) == v.ready /\ ~v.remoteGatheringComplete /\ v.lastSignal = "IceGatheringComplete"

Effect == {"askMedia", "attachMedia", "sendOffer", "handleAnswer", "handleOffer",
           "localCandidate", "remoteCandidate", "notifyComplete", "remoteComplete"}

\* Faulty: a page uses both hooks.
BothHooks(p) == Effect

EffectsOf(p) == Effect \ IF p = "sender" THEN {"handleOffer"}
                         ELSE {"askMedia", "attachMedia", "sendOffer", "handleAnswer"}

Acts(e, v) == CASE e = "askMedia"        -> AskMedia(v)
                [] e = "attachMedia"     -> AttachMedia(v)
                [] e = "sendOffer"       -> SendOffer(v)
                [] e = "handleAnswer"    -> HandleAnswer(v)
                [] e = "handleOffer"     -> HandleOffer(v)
                [] e = "localCandidate"  -> LocalCandidate(v)
                [] e = "remoteCandidate" -> RemoteCandidate(v)
                [] e = "notifyComplete"  -> NotifyComplete(v)
                [] e = "remoteComplete"  -> RemoteComplete(v)

\* The dependency lists of the hooks, but for server and conn.
MediaDeps(v) == <<v.stream, v.asked>>
SenderDeps(e, v) ==
    CASE e = "attachMedia"  -> <<v.stream, v.mediaAttached>>
      [] e = "sendOffer"    -> <<v.stream, v.ready, v.mediaAttached>>
      [] e = "handleAnswer" -> <<v.lastSignal, v.offered, v.ready>>
ReceiverDeps(v) == <<v.ready, v.offered>>
CandidateDeps(e, v) ==
    IF e \in {"localCandidate", "notifyComplete"} THEN <<v.localGatheringComplete, v.ready>>
    ELSE <<v.lastSignal, v.remoteGatheringComplete, v.ready>>

Deps(e, v) == CASE e = "askMedia"    -> MediaDeps(v)
                [] e = "handleOffer" -> ReceiverDeps(v)
                [] e \in {"attachMedia", "sendOffer", "handleAnswer"} -> SenderDeps(e, v)
                [] OTHER -> CandidateDeps(e, v)

\* askMedia depends on props, which are new in every render; notifyComplete on
\* server.sendSignal, which stays the same; remoteComplete on neither server
\* nor conn; every other effect on conn, which is new when anew is TRUE.
RunsAgain(e, anew) ==
    \/ e = "askMedia"
    \/ anew /\ e \notin {"notifyComplete", "remoteComplete"}

\* The effects that do something after a render of v.
Due(p, v, anew) ==
    {e \in EffectsOf(p) : /\ RunsAgain(e, anew) \/ Deps(e, v) # Deps(e, view[p])
                          /\ Acts(e, v)}

-----------------------------------------------------------------------------
(* The websockets and the signal server *)

\* Who hears what p says: its peer, or p itself that there is none.
Hearer(p) == IF Other(p) \in joined THEN Other(p) ELSE p

\* sendSignal: the server relays what was said, or says that nobody is there.
\* (That it handles it later is the same as that the receiver gets it later.)
Send(p, said, box) ==
    /\ unsent' = [unsent EXCEPT ![p] = IF p \in joined THEN @ ELSE @ \o said]
    /\ inbox' = IF p \notin joined THEN box
                ELSE [box EXCEPT ![Hearer(p)] =
                        @ \o IF Hearer(p) = p THEN [i \in DOMAIN said |-> "Notice"] ELSE said]

\* The session is registered, and what was said before is relayed.
Connect(p) ==
    /\ p \in (up \cap opened) \ joined
    /\ joined' = joined \cup {p}
    /\ unsent' = [unsent EXCEPT ![p] = <<>>]
    /\ inbox' = IF Other(p) \in joined
                THEN [inbox EXCEPT ![Other(p)] = Append(@, "Notice") \o unsent[p]]
                ELSE [inbox EXCEPT ![p] = [i \in DOMAIN unsent[p] |-> "Notice"]]
    /\ UNCHANGED <<up, opened, st, view, conn, ops, prompts>>

\* The socket of a page that went down is closed, and the other one is told.
Disconnect(p) ==
    /\ p \in joined \ up
    /\ joined' = joined \ {p}
    /\ inbox' = [q \in Peer |-> IF q = p THEN <<>>
                                ELSE IF q \in joined THEN Append(inbox[q], "Notice")
                                ELSE inbox[q]]
    /\ UNCHANGED <<up, opened, st, view, conn, ops, unsent, prompts>>

-----------------------------------------------------------------------------
(* A render and its effects *)

\* What the effects set, all of it for a later render.
SetAsked(s, due)          == s.asked \/ "askMedia" \in due
SetMediaAttached(s, due)  == s.mediaAttached \/ "attachMedia" \in due
SetOfferReceived(s, due)  == s.offered \/ "handleOffer" \in due
SetRemoteComplete(s, due) == s.remoteGatheringComplete \/ "remoteComplete" \in due

Updated(s, due) ==
    [s EXCEPT !.asked = SetAsked(s, due),
              !.mediaAttached = SetMediaAttached(s, due),
              !.offered = SetOfferReceived(s, due),
              !.remoteGatheringComplete = SetRemoteComplete(s, due)]

\* The methods of RTCConn they call, by their first await.
Calls(due) ==
    (IF "sendOffer" \in due THEN <<"createOffer">> ELSE <<>>) \o
    (IF "handleAnswer" \in due THEN <<"setRemoteAnswer">> ELSE <<>>) \o
    (IF "handleOffer" \in due THEN <<"setRemoteOffer">> ELSE <<>>) \o
    (IF "remoteCandidate" \in due THEN <<"addIceCandidate">> ELSE <<>>)

Sends(due) ==
    (IF "localCandidate" \in due THEN <<"IceCandidate">> ELSE <<>>) \o
    (IF "notifyComplete" \in due THEN <<"IceGatheringComplete">> ELSE <<>>)

\* The candidate that is there may be an error, which is not sent.
CandidateIsError == SUBSET {"localCandidate"}

\* v is rendered and its effects run, base has the updates, box the messages
\* to come.  To add a track twice throws, and an effect that throws takes the
\* page down.
RunEffects(p, v, base, box, due) ==
    /\ view' = [view EXCEPT ![p] = v]
    /\ st' = [st EXCEPT ![p] = Updated(base, due)]
    /\ ops' = [ops EXCEPT ![p] = @ \o Calls(due)]
    /\ Send(p, Sends(due), box)
    /\ conn' = [conn EXCEPT ![p].tracks = @ \/ "attachMedia" \in due]
    /\ up' = IF "attachMedia" \in due /\ conn[p].tracks THEN up \ {p} ELSE up
    /\ prompts' = IF "askMedia" \in due /\ prompts < 2 THEN prompts + 1 ELSE prompts

\* The part of the state that is kept outside SendVideo and RecvVideo: a
\* change of it renders VideoStreaming, which makes conn anew.
Outer(p, s) == <<s.lastSignal, s.iceCandidate, s.localGatheringComplete,
                 p = "receiver" /\ s.stream>>

Within(s) == {s[i] : i \in DOMAIN s}

\* The bounds: so much is started and said at a time.
Bounded(p, due) ==
    /\ Calls(due) # <<>> => Len(ops[p]) < MaxOps
    /\ due \cap {"sendOffer", "localCandidate"} # {}
           => Len(unsent[p]) < MaxWire /\ Len(inbox[Hearer(p)]) < MaxWire
    /\ "handleOffer" \in due => "Answer" \notin Within(inbox[Other(p)])

\* Room or VideoStreaming renders, or (anew is FALSE) SendVideo or RecvVideo
\* alone, after an update of its own state.
Refresh(p, anew) ==
    \E silent \in CandidateIsError :
        LET due == Due(p, st[p], anew) \ silent IN
        /\ p \in up
        /\ Bounded(p, due)
        /\ RunEffects(p, st[p], st[p], inbox, due)
        /\ UNCHANGED <<opened, joined>>

Render(p) == Refresh(p, TRUE)

RenderInner(p) ==
    /\ st[p] # view[p]
    /\ Outer(p, st[p]) = Outer(p, view[p])
    /\ Refresh(p, FALSE)

\* The socket opens: readyState is rendered at once, without the updates.
\* (It happens once, so it needs no bound.)
Open(p) ==
    \E silent \in CandidateIsError :
        /\ p \in up \ opened
        /\ opened' = opened \cup {p}
        /\ RunEffects(p, view[p], st[p], inbox, Due(p, view[p], TRUE) \ silent)
        /\ UNCHANGED joined

\* A message: lastJsonMessage, which is only the last one, is rendered at once,
\* without the updates.
Receive(p) ==
    \E silent \in CandidateIsError :
        LET m    == Head(inbox[p])
            seen == [view[p] EXCEPT !.lastSignal = m]
            due  == Due(p, seen, TRUE) \ silent
        IN
        /\ p \in up
        /\ inbox[p] # <<>>
        /\ Bounded(p, due)
        /\ RunEffects(p, seen, [st[p] EXCEPT !.lastSignal = m],
                      [inbox EXCEPT ![p] = Tail(@)], due)
        /\ UNCHANGED <<opened, joined>>

-----------------------------------------------------------------------------
(* Local media *)

\* getDisplayMedia resolves.  If it is refused only the page shows it.
GrantMedia ==
    /\ "sender" \in up
    /\ prompts > 0
    /\ ~st["sender"].stream
    /\ st' = [st EXCEPT !["sender"].stream = TRUE]
    /\ UNCHANGED <<up, opened, joined, view, conn, ops, unsent, inbox, prompts>>

-----------------------------------------------------------------------------
(* The operations of RTCPeerConnection, one after the other *)

Awaits(p, op) == p \in up /\ ops[p] # <<>> /\ Head(ops[p]) = op

\* The operation succeeds; what follows its await is queued behind the others.
Resolve(p, next, c, s, said) ==
    /\ ops' = [ops EXCEPT ![p] = Tail(@) \o next]
    /\ conn' = [conn EXCEPT ![p] = c]
    /\ st' = [st EXCEPT ![p] = s]
    /\ Send(p, said, inbox)
    /\ UNCHANGED <<up, opened, joined, view, prompts>>

\* prepareOffer, and sendOffer when it is done
OfferCreated(p) ==
    /\ Awaits(p, "createOffer")
    /\ Resolve(p, <<"setLocalOffer">>, conn[p], st[p], <<>>)

OfferSet(p) ==
    /\ Awaits(p, "setLocalOffer")
    /\ conn[p].signalingState # "have-remote-offer"
    /\ Resolve(p, <<>>,
               [conn[p] EXCEPT !.signalingState = "have-local-offer", !.localDescription = TRUE],
               [st[p] EXCEPT !.offered = TRUE],
               <<"Offer">>)

\* prepareAnswer, and handleOffer when it is done; the tracks of the offer are
\* the remote stream (onTrack)
RemoteOfferSet(p) ==
    /\ Awaits(p, "setRemoteOffer")
    /\ conn[p].signalingState # "have-local-offer"
    /\ Resolve(p, <<"createAnswer">>,
               [conn[p] EXCEPT !.signalingState = "have-remote-offer", !.remoteDescription = TRUE],
               [st[p] EXCEPT !.stream = TRUE],
               <<>>)

AnswerCreated(p) ==
    /\ Awaits(p, "createAnswer")
    /\ conn[p].signalingState = "have-remote-offer"
    /\ Resolve(p, <<"setLocalAnswer">>, conn[p], st[p], <<>>)

AnswerSet(p) ==
    /\ Awaits(p, "setLocalAnswer")
    /\ conn[p].signalingState = "have-remote-offer"
    /\ Resolve(p, <<>>,
               [conn[p] EXCEPT !.signalingState = "stable", !.localDescription = TRUE],
               [st[p] EXCEPT !.ready = TRUE],
               <<"Answer">>)

\* attachAnswer, and handleAnswer when it is done
AnswerAttached(p) ==
    /\ Awaits(p, "setRemoteAnswer")
    /\ conn[p].signalingState = "have-local-offer"
    /\ Resolve(p, <<>>,
               [conn[p] EXCEPT !.signalingState = "stable", !.remoteDescription = TRUE],
               [st[p] EXCEPT !.ready = TRUE],
               <<>>)

\* addIceCandidate, and handleRemoteIceCandidate when it is done
CandidateAdded(p) ==
    /\ Awaits(p, "addIceCandidate")
    /\ conn[p].remoteDescription
    /\ Resolve(p, <<>>, conn[p], [st[p] EXCEPT !.remoteGatheringComplete = TRUE], <<>>)

\* An operation is refused, in a wrong state or for any other reason, and with
\* it the method that awaits it.
OpRejected(p) ==
    /\ p \in up
    /\ ops[p] # <<>>
    /\ Resolve(p, <<>>, conn[p], st[p], <<>>)

\* onIceCandidate, onIceCandidateError, onIceGatheringStateChange.  Gathering
\* ends once: nothing in the code asks for an ICE restart.
Gather(p) ==
    /\ p \in up \cap Gatherers
    /\ conn[p].localDescription
    /\ ~st[p].localGatheringComplete
    /\ \/ st' = [st EXCEPT ![p].iceCandidate = TRUE]
       \/ st' = [st EXCEPT ![p].localGatheringComplete = TRUE]
    /\ UNCHANGED <<up, opened, joined, view, conn, ops, unsent, inbox, prompts>>

-----------------------------------------------------------------------------

Init ==
    /\ up = Peer
    /\ opened = {}
    /\ joined = {}
    /\ st = [p \in Peer |->
                [stream |-> FALSE, asked |-> FALSE, mediaAttached |-> FALSE,
                 offered |-> FALSE, ready |-> FALSE, iceCandidate |-> FALSE,
                 localGatheringComplete |-> FALSE, remoteGatheringComplete |-> FALSE,
                 lastSignal |-> "null"]]
    /\ view = st
    /\ conn = [p \in Peer |->
                 [signalingState |-> "stable", tracks |-> FALSE,
                  localDescription |-> FALSE, remoteDescription |-> FALSE]]
    /\ ops = [p \in Peer |-> <<>>]
    /\ unsent = [p \in Peer |-> <<>>]
    /\ inbox = [p \in Peer |-> <<>>]
    /\ prompts = 0

Succeeds(p) ==
    \/ OfferCreated(p)
    \/ OfferSet(p)
    \/ RemoteOfferSet(p)
    \/ AnswerCreated(p)
    \/ AnswerSet(p)
    \/ AnswerAttached(p)
    \/ CandidateAdded(p)

Next ==
    \/ GrantMedia
    \/ \E p \in Peer :
        \/ Render(p)
        \/ RenderInner(p)
        \/ Succeeds(p)
        \/ OpRejected(p)
        \/ Gather(p)
        \/ Open(p)
        \/ Connect(p)
        \/ Receive(p)
        \/ Disconnect(p)

Spec == Init /\ [][Next]_vars

\* Pages render, sockets open and messages arrive; operations end, and offers
\* are not refused for ever.
FairSpec ==
    /\ Spec
    /\ \A p \in Peer : /\ WF_vars(Render(p))
                        /\ WF_vars(Open(p))
                        /\ WF_vars(Connect(p))
                        /\ WF_vars(Receive(p))
                        /\ WF_vars(Succeeds(p) \/ OpRejected(p))
                        /\ SF_vars(OfferCreated(p))
                        /\ SF_vars(OfferSet(p))

-----------------------------------------------------------------------------
(* Type invariant: every variable has its type, and a peer does only what  *)
(* its role does.                                                          *)
TypeOK ==
    /\ up \subseteq Peer
    /\ opened \subseteq Peer
    /\ joined \subseteq Peer
    /\ st \in [Peer -> HookState]
    /\ view \in [Peer -> HookState]
    /\ conn \in [Peer -> Conn]
    /\ DOMAIN ops = Peer /\ \A p \in Peer : ops[p] \in Seq(OpOf(p))
    /\ unsent \in [Peer -> Seq(Signal)]
    /\ inbox \in [Peer -> Seq(InSignal)]
    /\ prompts \in 0..2

\* No candidate reaches a connection before its remote description: the
\* connection would refuse it.
NoEarlyCandidate ==
    \A p \in Peer : "addIceCandidate" \in Within(ops[p]) => conn[p].remoteDescription

\* Offers carry the media: none is created before the tracks were added.
OfferHasMedia ==
    \A p \in Peer : "createOffer" \in Within(ops[p]) => conn[p].tracks

\* The sender is never ready ahead of the receiver.
ReadyInOrder == st["sender"].ready => st["receiver"].ready

\* A candidate of the sender, or the end of them, never comes too early: the
\* receiver is ready to use it.
SenderCandidatesInTime ==
    Within(inbox["receiver"]) \cap {"IceCandidate", "IceGatheringComplete"} # {}
        => st["receiver"].ready

Answering == {"setRemoteOffer", "createAnswer", "setLocalAnswer"}

Answers == Cardinality({i \in DOMAIN ops["receiver"] : ops["receiver"][i] \in Answering})

\* An answer has been begun before; one is begun in this step.
HasAnswered  == st["receiver"].ready \/ Within(ops["receiver"]) \cap Answering # {}
BeginsAnswer == \E i \in DOMAIN ops'["receiver"] :
                    i > Len(ops["receiver"]) /\ ops'["receiver"][i] = "setRemoteOffer"

\* Effects run again and again while what they have begun is under way.  One
\* begins the same again (asks the user twice, adds tracks twice, which takes
\* the page down, answers twice) only in a render made at once for its socket,
\* ahead of the update by which it has noted what it began.
RepeatIsAhead ==
    /\ prompts > 0 /\ prompts' # prompts
           => st["sender"].asked /\ ~view'["sender"].asked
    /\ up' # up
           => st["sender"].mediaAttached /\ ~view'["sender"].mediaAttached
    /\ HasAnswered /\ BeginsAnswer
           => st["receiver"].offered /\ ~view'["receiver"].offered

\* No step begins again what is noted in the state its effects have read.
RepeatsOnlyAhead == [][RepeatIsAhead]_vars

\* The receiver has begun to answer and cannot any more.
AnswerFailed ==
    st["receiver"].offered /\ ~st["receiver"].ready /\ Answers = 0

\* As long as both pages are open, a sender with media gets its offer answered,
\* whenever the receiver comes.
OfferIsAnswered ==
    st["sender"].mediaAttached ~> st["receiver"].ready \/ AnswerFailed \/ up # Peer
=============================================================================
