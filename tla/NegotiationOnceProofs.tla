------------------------ MODULE NegotiationOnceProofs ------------------------
(***************************************************************************)
(* Proof about Negotiation, for any bounds and any peers that find         *)
(* candidates, of what keeps effects that run again from beginning again   *)
(* what they have begun: they have noted it in the state of the hook, and  *)
(* only a render ahead of that update does not know.                       *)
(***************************************************************************)
EXTENDS NegotiationProofs

\* A page that has asked for the screen has noted it.
AskedIsNoted == prompts > 0 => st["sender"].asked

\* So has one that has added its tracks.
TracksAreNoted == conn["sender"].tracks => st["sender"].mediaAttached

\* And a receiver that answers or has answered.
AnswerIsNoted == HasAnswered => st["receiver"].offered

Noted == AskedIsNoted /\ TracksAreNoted /\ AnswerIsNoted

-----------------------------------------------------------------------------
(* The steps *)

\* What the effects note.
LEMMA UpdatedFlags ==
    ASSUME NEW s \in HookState, NEW due
    PROVE  /\ Updated(s, due).asked <=> s.asked \/ "askMedia" \in due
           /\ Updated(s, due).mediaAttached <=> s.mediaAttached \/ "attachMedia" \in due
           /\ Updated(s, due).offered <=> s.offered \/ "handleOffer" \in due
           /\ Updated(s, due).ready = s.ready
<1>. DEFINE asked == s.asked \/ "askMedia" \in due
            mediaAttached == s.mediaAttached \/ "attachMedia" \in due
            offered == s.offered \/ "handleOffer" \in due
            complete == s.remoteGatheringComplete \/ "remoteComplete" \in due
<1>1. Updated(s, due) = [s EXCEPT !.asked = asked, !.mediaAttached = mediaAttached,
                                  !.offered = offered, !.remoteGatheringComplete = complete]
  BY Zenon DEF Updated, SetAsked, SetMediaAttached, SetOfferReceived, SetRemoteComplete
<1>. HIDE DEF asked, mediaAttached, offered, complete
<1>2. /\ Updated(s, due).asked = asked /\ Updated(s, due).mediaAttached = mediaAttached
      /\ Updated(s, due).offered = offered /\ Updated(s, due).ready = s.ready
  BY <1>1 DEF HookState
<1>. QED
  BY <1>2, Zenon DEF asked, mediaAttached, offered

\* What the effects that note what they begin have read.
LEMMA OnceFacts ==
    ASSUME NEW p \in Peer, NEW v, NEW due, due \subseteq EffectsOf(p), \A e \in due : Acts(e, v)
    PROVE  /\ "askMedia" \in due => p = "sender" /\ ~v.asked
           /\ "attachMedia" \in due => p = "sender" /\ ~v.mediaAttached
           /\ "handleOffer" \in due => p = "receiver" /\ ~v.offered /\ ~v.ready
<1>1. /\ "askMedia" \in due => p = "sender"
      /\ "attachMedia" \in due => p = "sender"
      /\ "handleOffer" \in due => p = "receiver"
  BY DEF EffectsOf, Peer
<1>2. /\ Acts("askMedia", v) => ~v.asked
      /\ Acts("attachMedia", v) => ~v.mediaAttached
      /\ Acts("handleOffer", v) => ~v.offered /\ ~v.ready
  BY DEF Acts, AskMedia, AttachMedia, HandleOffer
<1>. QED
  BY <1>1, <1>2

\* A render with its effects, of the page as it is or ahead of its updates.
LEMMA RunOnce ==
    ASSUME TypeOK, Noted, NEW p \in Peer, NEW v \in HookState, NEW base \in HookState, NEW box,
           NEW due, due \subseteq EffectsOf(p), \A e \in due : Acts(e, v),
           RunEffects(p, v, base, box, due),
           base.asked = st[p].asked, base.mediaAttached = st[p].mediaAttached,
           base.offered = st[p].offered, base.ready = st[p].ready
    PROVE  Noted' /\ RepeatIsAhead
<1>0. "sender" \in Peer /\ "receiver" \in Peer /\ (p = "sender" \/ p = "receiver")
  BY DEF Peer
<1>. DEFINE s == Updated(base, due)
            calls == Calls(due)
            chain == ops[p] \o calls
<1>1. /\ "askMedia" \in due => p = "sender" /\ ~v.asked
      /\ "attachMedia" \in due => p = "sender" /\ ~v.mediaAttached
      /\ "handleOffer" \in due => p = "receiver" /\ ~v.offered
  BY OnceFacts
<1>2. /\ s.asked <=> base.asked \/ "askMedia" \in due
      /\ s.mediaAttached <=> base.mediaAttached \/ "attachMedia" \in due
      /\ s.offered <=> base.offered \/ "handleOffer" \in due
      /\ s.ready = base.ready
  BY UpdatedFlags
<1>3. ops[p] \in Seq(OpOf(p)) /\ calls \in Seq(OpOf(p))
  BY CallsAndSends, Types
<1>4. Within(calls) \cap Answering # {} => "handleOffer" \in due
  BY CallsAndSends DEF Answering
<1>. HIDE DEF s, calls
<1>5. /\ Within(chain) = Within(ops[p]) \cup Within(calls)
      /\ \A i \in DOMAIN chain : i > Len(ops[p]) => chain[i] \in Within(calls)
  <2>1. Within(chain) = Within(ops[p]) \cup Within(calls)
    BY <1>3, WithinConcat
  <2>2. /\ DOMAIN chain = 1..(Len(ops[p]) + Len(calls)) /\ DOMAIN calls = 1..Len(calls)
        /\ \A i \in 1..(Len(ops[p]) + Len(calls)) :
              chain[i] = IF i <= Len(ops[p]) THEN ops[p][i] ELSE calls[i - Len(ops[p])]
        /\ Len(ops[p]) \in Nat /\ Len(calls) \in Nat
    BY <1>3, ConcatProperties, LenProperties
  <2>. HIDE DEF chain
  <2>3. ASSUME NEW i \in DOMAIN chain, i > Len(ops[p])
        PROVE  chain[i] \in Within(calls)
    <3>1. i - Len(ops[p]) \in DOMAIN calls /\ chain[i] = calls[i - Len(ops[p])]
      BY <2>2, <2>3
    <3>. QED
      BY <3>1 DEF Within
  <2>. QED
    BY <2>1, <2>3
<1>6. /\ st'[p] = s /\ view'[p] = v /\ ops'[p] = chain
      /\ \A q \in Peer \ {p} : st'[q] = st[q] /\ ops'[q] = ops[q] /\ conn'[q] = conn[q]
      /\ conn'[p].tracks => conn[p].tracks \/ "attachMedia" \in due
      /\ up' # up => "attachMedia" \in due /\ conn[p].tracks
      /\ prompts' # prompts => "askMedia" \in due
  <2>1. /\ st' = [st EXCEPT ![p] = s] /\ view' = [view EXCEPT ![p] = v]
        /\ ops' = [ops EXCEPT ![p] = @ \o calls]
        /\ conn' = [conn EXCEPT ![p].tracks = @ \/ "attachMedia" \in due]
        /\ up' = IF "attachMedia" \in due /\ conn[p].tracks THEN up \ {p} ELSE up
        /\ prompts' = IF "askMedia" \in due /\ prompts < 2 THEN prompts + 1 ELSE prompts
    BY DEF RunEffects, s, calls
  <2>2. conn'[p].tracks => conn[p].tracks \/ "attachMedia" \in due
    BY <2>1, Types DEF Conn
  <2>. QED
    BY <2>1, <2>2, Types
<1>. HIDE DEF chain
<1>7. AskedIsNoted'
  BY <1>0, <1>1, <1>2, <1>6 DEF Noted, AskedIsNoted
<1>8. TracksAreNoted'
  BY <1>0, <1>1, <1>2, <1>6 DEF Noted, TracksAreNoted
<1>9. AnswerIsNoted'
  <2>1. HasAnswered' <=> st'["receiver"].ready \/ Within(ops'["receiver"]) \cap Answering # {}
    BY DEF HasAnswered, Within
  <2>2. CASE p = "sender"
    BY <1>0, <1>6, <2>1, <2>2 DEF Noted, AnswerIsNoted, HasAnswered
  <2>3. CASE p = "receiver"
    BY <1>2, <1>4, <1>5, <1>6, <2>1, <2>3 DEF Noted, AnswerIsNoted, HasAnswered
  <2>. QED
    BY <1>0, <2>2, <2>3
<1>10. prompts > 0 /\ prompts' # prompts => st["sender"].asked /\ ~view'["sender"].asked
  BY <1>1, <1>6 DEF Noted, AskedIsNoted
<1>11. up' # up => st["sender"].mediaAttached /\ ~view'["sender"].mediaAttached
  BY <1>1, <1>6 DEF Noted, TracksAreNoted
<1>12. HasAnswered /\ BeginsAnswer => st["receiver"].offered /\ ~view'["receiver"].offered
  <2>. SUFFICES ASSUME HasAnswered, BeginsAnswer
                PROVE  st["receiver"].offered /\ ~view'["receiver"].offered
    OBVIOUS
  <2>1. PICK i \in DOMAIN ops'["receiver"] :
            i > Len(ops["receiver"]) /\ ops'["receiver"][i] = "setRemoteOffer"
    BY DEF BeginsAnswer
  <2>2. p = "receiver"
    <3>1. ops["receiver"] \in Seq(OpOf("receiver"))
      BY <1>0, Types
    <3>2. DOMAIN ops["receiver"] = 1..Len(ops["receiver"]) /\ Len(ops["receiver"]) \in Nat
      BY <3>1, LenProperties
    <3>. QED
      BY <1>0, <1>6, <2>1, <3>2
  <2>3. "setRemoteOffer" \in Within(calls)
    BY <1>5, <1>6, <2>1, <2>2
  <2>. QED
    BY <1>1, <1>4, <1>6, <2>2, <2>3 DEF Answering, Noted, AnswerIsNoted
<1>. QED
  BY <1>7, <1>8, <1>9, <1>10, <1>11, <1>12 DEF Noted, RepeatIsAhead

\* A page renders: as it is, for its socket that opens, or for a message.
LEMMA RenderOnce ==
    ASSUME TypeOK, Noted, NEW p \in Peer, Render(p) \/ RenderInner(p) \/ Open(p) \/ Receive(p)
    PROVE  Noted' /\ RepeatIsAhead
<1>1. ASSUME NEW anew, Refresh(p, anew)
      PROVE  Noted' /\ RepeatIsAhead
  <2>1. PICK silent \in CandidateIsError :
            RunEffects(p, st[p], st[p], inbox, Due(p, st[p], anew) \ silent)
    BY <1>1, Zenon DEF Refresh
  <2>. DEFINE due == Due(p, st[p], anew) \ silent
  <2>2. due \subseteq EffectsOf(p) /\ \A e \in due : Acts(e, st[p])
    BY DueFacts
  <2>3. RunEffects(p, st[p], st[p], inbox, due) /\ st[p] \in HookState
    BY <2>1, Types
  <2>. HIDE DEF due
  <2>. QED
    BY <2>2, <2>3, RunOnce
<1>2. CASE Open(p)
  <2>1. PICK silent \in CandidateIsError :
            RunEffects(p, view[p], st[p], inbox, Due(p, view[p], TRUE) \ silent)
    BY <1>2, Zenon DEF Open
  <2>. DEFINE due == Due(p, view[p], TRUE) \ silent
  <2>2. due \subseteq EffectsOf(p) /\ \A e \in due : Acts(e, view[p])
    BY DueFacts
  <2>3. RunEffects(p, view[p], st[p], inbox, due) /\ st[p] \in HookState /\ view[p] \in HookState
    BY <2>1, Types
  <2>. HIDE DEF due
  <2>. QED
    BY <2>2, <2>3, RunOnce
<1>3. CASE Receive(p)
  <2>. DEFINE m    == Head(inbox[p])
              seen == [view[p] EXCEPT !.lastSignal = m]
              base == [st[p] EXCEPT !.lastSignal = m]
              rest == [inbox EXCEPT ![p] = Tail(@)]
              due(silent) == Due(p, seen, TRUE) \ silent
  <2>1. PICK silent \in CandidateIsError :
            inbox[p] # <<>> /\ RunEffects(p, seen, base, rest, due(silent))
    BY <1>3, Zenon DEF Receive
  <2>2. due(silent) \subseteq EffectsOf(p) /\ \A e \in due(silent) : Acts(e, seen)
    BY DueFacts
  <2>3. m \in InSignal
    BY <2>1, WithinTail, Types
  <2>. HIDE DEF m
  <2>4. /\ seen \in HookState /\ base \in HookState
        /\ base.asked = st[p].asked /\ base.mediaAttached = st[p].mediaAttached
        /\ base.offered = st[p].offered /\ base.ready = st[p].ready
    BY <2>3, Types DEF HookState
  <2>. HIDE DEF seen, base, rest, due
  <2>. QED
    BY <2>1, <2>2, <2>4, RunOnce
<1>. QED
  BY <1>1, <1>2, <1>3 DEF Render, RenderInner

\* A step that begins nothing and touches none of the notes.
LEMMA OtherOnce ==
    ASSUME TypeOK, Noted, UNCHANGED <<up, conn, ops, prompts>>,
           st'["sender"].asked = st["sender"].asked,
           st'["sender"].mediaAttached = st["sender"].mediaAttached,
           st'["receiver"].offered = st["receiver"].offered,
           st'["receiver"].ready = st["receiver"].ready
    PROVE  Noted' /\ RepeatIsAhead
<1>1. Noted'
  BY DEF Noted, AskedIsNoted, TracksAreNoted, AnswerIsNoted, HasAnswered, Within
<1>2. ~BeginsAnswer
  <2>1. ops["receiver"] \in Seq(OpOf("receiver"))
    BY Types, "receiver" \in Peer DEF Peer
  <2>2. DOMAIN ops["receiver"] = 1..Len(ops["receiver"]) /\ Len(ops["receiver"]) \in Nat
    BY <2>1, LenProperties
  <2>. QED
    BY <2>2 DEF BeginsAnswer
<1>. QED
  BY <1>1, <1>2 DEF RepeatIsAhead

\* The end of an operation: one that is queued behind an answer continues it,
\* and none makes the chain longer.
LEMMA ResolveOnce ==
    ASSUME TypeOK, Noted, NEW p \in Peer, NEW next \in Seq(OpOf(p)), Len(next) <= 1,
           NEW c \in Conn, NEW s \in HookState, NEW said, ops[p] # <<>>,
           Resolve(p, next, c, s, said),
           s.asked = st[p].asked, s.mediaAttached = st[p].mediaAttached, c.tracks = conn[p].tracks,
           p = "receiver" =>
               /\ s.offered = st[p].offered
               /\ \/ s.ready = st[p].ready /\ Within(next) \cap Answering = {}
                  \/ Head(ops[p]) \in Answering
    PROVE  Noted' /\ RepeatIsAhead
<1>0. "sender" \in Peer /\ "receiver" \in Peer /\ (p = "sender" \/ p = "receiver")
  BY DEF Peer
<1>. DEFINE rest == Tail(ops[p])
            chain == rest \o next
<1>1. /\ UNCHANGED <<up, prompts>>
      /\ ops'[p] = chain /\ st'[p] = s /\ conn'[p] = c
      /\ \A q \in Peer \ {p} : ops'[q] = ops[q] /\ st'[q] = st[q] /\ conn'[q] = conn[q]
  BY Types DEF Resolve
<1>2. /\ rest \in Seq(OpOf(p)) /\ Head(ops[p]) \in Within(ops[p])
      /\ Within(rest) \subseteq Within(ops[p])
  BY WithinTail, Types
<1>3. Len(ops[p]) \in Nat /\ Len(rest) = Len(ops[p]) - 1
  <2>1. ops[p] \in Seq(OpOf(p))
    BY Types
  <2>. QED
    BY <2>1, HeadTailProperties, LenProperties
<1>. HIDE DEF rest
<1>4. Within(chain) = Within(rest) \cup Within(next) /\ DOMAIN chain = 1..(Len(rest) + Len(next))
  BY <1>2, WithinConcat, ConcatProperties, LenProperties
<1>. HIDE DEF chain
<1>5. AskedIsNoted' /\ TracksAreNoted'
  BY <1>0, <1>1 DEF Noted, AskedIsNoted, TracksAreNoted
<1>6. AnswerIsNoted'
  <2>1. HasAnswered' <=> st'["receiver"].ready \/ Within(ops'["receiver"]) \cap Answering # {}
    BY DEF HasAnswered, Within
  <2>2. CASE p = "sender"
    BY <1>0, <1>1, <2>1, <2>2 DEF Noted, AnswerIsNoted, HasAnswered
  <2>3. CASE p = "receiver"
    BY <1>1, <1>2, <1>4, <2>1, <2>3 DEF Noted, AnswerIsNoted, HasAnswered
  <2>. QED
    BY <1>0, <2>2, <2>3
<1>7. ~BeginsAnswer
  <2>. SUFFICES ASSUME NEW i \in DOMAIN ops'["receiver"], i > Len(ops["receiver"])
                PROVE  FALSE
    BY DEF BeginsAnswer
  <2>1. CASE p = "sender"
    <3>1. ops["receiver"] \in Seq(OpOf("receiver"))
      BY <1>0, Types
    <3>2. DOMAIN ops["receiver"] = 1..Len(ops["receiver"]) /\ Len(ops["receiver"]) \in Nat
      BY <3>1, LenProperties
    <3>. QED
      BY <1>0, <1>1, <2>1, <3>2
  <2>2. CASE p = "receiver"
    <3>1. Len(next) \in Nat
      BY LenProperties
    <3>. QED
      BY <1>1, <1>3, <1>4, <2>2, <3>1
  <2>. QED
    BY <1>0, <2>1, <2>2
<1>. QED
  BY <1>1, <1>5, <1>6, <1>7 DEF Noted, RepeatIsAhead

\* The operations end, one way or the other.
LEMMA OperationOnce ==
    ASSUME TypeOK, Noted, NEW p \in Peer, Succeeds(p) \/ OpRejected(p)
    PROVE  Noted' /\ RepeatIsAhead
<1>. DEFINE c == conn[p]
            s == st[p]
<1>1. c \in Conn /\ s \in HookState /\ (p = "sender" \/ p = "receiver")
  BY Types DEF Peer
<1>2. ASSUME NEW op, Awaits(p, op)
      PROVE  ops[p] # <<>> /\ op \in OpOf(p) /\ Head(ops[p]) = op
  BY <1>2, WithinTail, Types DEF Awaits
<1>3. /\ <<>> \in Seq(OpOf(p)) /\ Within(<<>>) = {} /\ Len(<<>>) <= 1
      /\ \A op \in OpOf(p) : <<op>> \in Seq(OpOf(p)) /\ Within(<<op>>) = {op} /\ Len(<<op>>) <= 1
  BY WithinFew
<1>4. CASE OfferCreated(p)
  <2>1. Awaits(p, "createOffer") /\ Resolve(p, <<"setLocalOffer">>, c, s, <<>>)
    BY <1>4 DEF OfferCreated
  <2>2. "setLocalOffer" \in OpOf(p) /\ p = "sender"
    BY <1>1, <1>2, <2>1 DEF OpOf
  <2>. HIDE DEF c, s
  <2>. QED
    BY <1>1, <1>2, <1>3, <2>1, <2>2, ResolveOnce DEF c, s
<1>5. CASE OfferSet(p)
  <2>. DEFINE cc == [c EXCEPT !.signalingState = "have-local-offer", !.localDescription = TRUE]
              ss == [s EXCEPT !.offered = TRUE]
  <2>1. Awaits(p, "setLocalOffer") /\ Resolve(p, <<>>, cc, ss, <<"Offer">>)
    BY <1>5 DEF OfferSet
  <2>2. /\ cc \in Conn /\ cc.tracks = c.tracks
        /\ ss \in HookState /\ ss.asked = s.asked /\ ss.mediaAttached = s.mediaAttached
    BY <1>1 DEF Conn, HookState
  <2>3. p = "sender"
    BY <1>1, <1>2, <2>1 DEF OpOf
  <2>. HIDE DEF cc, ss
  <2>. QED
    BY <1>2, <1>3, <2>1, <2>2, <2>3, ResolveOnce
<1>6. CASE RemoteOfferSet(p)
  <2>. DEFINE cc == [c EXCEPT !.signalingState = "have-remote-offer", !.remoteDescription = TRUE]
              ss == [s EXCEPT !.stream = TRUE]
  <2>1. Awaits(p, "setRemoteOffer") /\ Resolve(p, <<"createAnswer">>, cc, ss, <<>>)
    BY <1>6 DEF RemoteOfferSet
  <2>2. /\ cc \in Conn /\ cc.tracks = c.tracks
        /\ ss \in HookState /\ ss.asked = s.asked /\ ss.mediaAttached = s.mediaAttached
        /\ ss.offered = s.offered /\ ss.ready = s.ready
    BY <1>1 DEF Conn, HookState
  <2>3. "createAnswer" \in OpOf(p)
    BY <1>1, <1>2, <2>1 DEF OpOf
  <2>4. Head(ops[p]) \in Answering
    BY <1>2, <2>1 DEF Answering
  <2>. HIDE DEF cc, ss
  <2>. QED
    BY <1>2, <1>3, <2>1, <2>2, <2>3, <2>4, ResolveOnce
<1>7. CASE AnswerCreated(p)
  <2>1. Awaits(p, "createAnswer") /\ Resolve(p, <<"setLocalAnswer">>, c, s, <<>>)
    BY <1>7 DEF AnswerCreated
  <2>2. "setLocalAnswer" \in OpOf(p)
    BY <1>1, <1>2, <2>1 DEF OpOf
  <2>3. Head(ops[p]) \in Answering
    BY <1>2, <2>1 DEF Answering
  <2>. HIDE DEF c, s
  <2>. QED
    BY <1>1, <1>2, <1>3, <2>1, <2>2, <2>3, ResolveOnce DEF c, s
<1>8. CASE AnswerSet(p)
  <2>. DEFINE cc == [c EXCEPT !.signalingState = "stable", !.localDescription = TRUE]
              ss == [s EXCEPT !.ready = TRUE]
  <2>1. Awaits(p, "setLocalAnswer") /\ Resolve(p, <<>>, cc, ss, <<"Answer">>)
    BY <1>8 DEF AnswerSet
  <2>2. /\ cc \in Conn /\ cc.tracks = c.tracks
        /\ ss \in HookState /\ ss.asked = s.asked /\ ss.mediaAttached = s.mediaAttached
        /\ ss.offered = s.offered
    BY <1>1 DEF Conn, HookState
  <2>3. Head(ops[p]) \in Answering
    BY <1>2, <2>1 DEF Answering
  <2>. HIDE DEF cc, ss
  <2>. QED
    BY <1>2, <1>3, <2>1, <2>2, <2>3, ResolveOnce
<1>9. CASE AnswerAttached(p)
  <2>. DEFINE cc == [c EXCEPT !.signalingState = "stable", !.remoteDescription = TRUE]
              ss == [s EXCEPT !.ready = TRUE]
  <2>1. Awaits(p, "setRemoteAnswer") /\ Resolve(p, <<>>, cc, ss, <<>>)
    BY <1>9 DEF AnswerAttached
  <2>2. /\ cc \in Conn /\ cc.tracks = c.tracks
        /\ ss \in HookState /\ ss.asked = s.asked /\ ss.mediaAttached = s.mediaAttached
    BY <1>1 DEF Conn, HookState
  <2>3. p = "sender"
    BY <1>1, <1>2, <2>1 DEF OpOf
  <2>. HIDE DEF cc, ss
  <2>. QED
    BY <1>2, <1>3, <2>1, <2>2, <2>3, ResolveOnce
<1>10. CASE CandidateAdded(p)
  <2>. DEFINE ss == [s EXCEPT !.remoteGatheringComplete = TRUE]
  <2>1. Awaits(p, "addIceCandidate") /\ Resolve(p, <<>>, c, ss, <<>>)
    BY <1>10 DEF CandidateAdded
  <2>2. /\ ss \in HookState /\ ss.asked = s.asked /\ ss.mediaAttached = s.mediaAttached
        /\ ss.offered = s.offered /\ ss.ready = s.ready
    BY <1>1 DEF HookState
  <2>. HIDE DEF ss
  <2>. QED
    BY <1>1, <1>2, <1>3, <2>1, <2>2, ResolveOnce
<1>11. CASE OpRejected(p)
  <2>1. ops[p] # <<>> /\ Resolve(p, <<>>, c, s, <<>>)
    BY <1>11 DEF OpRejected
  <2>. HIDE DEF c, s
  <2>. QED
    BY <1>1, <1>3, <2>1, ResolveOnce DEF c, s
<1>. QED
  BY <1>4, <1>5, <1>6, <1>7, <1>8, <1>9, <1>10, <1>11 DEF Succeeds

\* The user grants the screen, or a connection finds a candidate.
LEMMA MediaOnce ==
    ASSUME TypeOK, Noted, GrantMedia \/ \E p \in Peer : Gather(p)
    PROVE  Noted' /\ RepeatIsAhead
<1>1. /\ UNCHANGED <<up, conn, ops, prompts>>
      /\ \E p \in Peer : \/ st' = [st EXCEPT ![p].stream = TRUE]
                         \/ st' = [st EXCEPT ![p].iceCandidate = TRUE]
                         \/ st' = [st EXCEPT ![p].localGatheringComplete = TRUE]
  BY "sender" \in Peer DEF GrantMedia, Gather, Peer
<1>2. PICK p \in Peer : \/ st' = [st EXCEPT ![p].stream = TRUE]
                        \/ st' = [st EXCEPT ![p].iceCandidate = TRUE]
                        \/ st' = [st EXCEPT ![p].localGatheringComplete = TRUE]
  BY <1>1
<1>3. \A q \in Peer : /\ st'[q].asked = st[q].asked /\ st'[q].mediaAttached = st[q].mediaAttached
                      /\ st'[q].offered = st[q].offered /\ st'[q].ready = st[q].ready
  <2>. DEFINE media == [st[p] EXCEPT !.stream = TRUE]
              candidate == [st[p] EXCEPT !.iceCandidate = TRUE]
              complete == [st[p] EXCEPT !.localGatheringComplete = TRUE]
              Same(s) == /\ s.asked = st[p].asked /\ s.mediaAttached = st[p].mediaAttached
                         /\ s.offered = st[p].offered /\ s.ready = st[p].ready
  <2>1. Same(media) /\ Same(candidate) /\ Same(complete)
    BY Types DEF HookState
  <2>2. PICK s \in {media, candidate, complete} : st' = [st EXCEPT ![p] = s]
    BY <1>2
  <2>. HIDE DEF media, candidate, complete
  <2>. QED
    BY <2>1, <2>2, Types
<1>4. "sender" \in Peer /\ "receiver" \in Peer
  BY DEF Peer
<1>. QED
  BY <1>1, <1>3, <1>4, OtherOnce

LEMMA NextOnce ==
    ASSUME TypeOK, Noted, [Next]_vars
    PROVE  Noted' /\ RepeatIsAhead
<1>1. CASE GrantMedia
  BY <1>1, MediaOnce
<1>2. ASSUME NEW p \in Peer,
             \/ Render(p) \/ RenderInner(p) \/ Succeeds(p) \/ OpRejected(p)
             \/ Gather(p) \/ Open(p) \/ Connect(p) \/ Receive(p) \/ Disconnect(p)
      PROVE  Noted' /\ RepeatIsAhead
  <2>1. CASE Render(p) \/ RenderInner(p) \/ Open(p) \/ Receive(p)
    BY <2>1, RenderOnce
  <2>2. CASE Succeeds(p) \/ OpRejected(p)
    BY <2>2, OperationOnce
  <2>3. CASE Gather(p)
    BY <2>3, MediaOnce
  <2>4. CASE Connect(p) \/ Disconnect(p)
    BY <2>4, OtherOnce DEF Connect, Disconnect
  <2>. QED
    BY <1>2, <2>1, <2>2, <2>3, <2>4
<1>3. CASE UNCHANGED vars
  BY <1>3, OtherOnce DEF vars
<1>. QED
  BY <1>1, <1>2, <1>3 DEF Next

-----------------------------------------------------------------------------

\* What an effect has begun is noted in the state of its hook, whatever render
\* it ran in.
THEOREM StartedIsNoted == Spec => []Noted
<1>1. Init => Noted
  <2>. SUFFICES ASSUME Init PROVE Noted
    OBVIOUS
  <2>1. /\ prompts = 0 /\ ~conn["sender"].tracks
        /\ ops["receiver"] = <<>> /\ ~st["receiver"].ready
    BY DEF Init, Peer
  <2>. QED
    BY <2>1, WithinFew DEF Noted, AskedIsNoted, TracksAreNoted, AnswerIsNoted, HasAnswered
<1>2. TypeOK /\ Noted /\ [Next]_vars => Noted'
  BY NextOnce
<1>. QED
  BY <1>1, <1>2, OrderInvariant, PTL DEF Spec

\* The user is asked again, a page goes down for tracks added twice, or an
\* offer is answered again only by effects that were run ahead of the update
\* that notes it: a render that has all updates repeats nothing.
THEOREM EffectsRepeatOnlyAhead == Spec => RepeatsOnlyAhead
<1>1. TypeOK /\ Noted /\ [Next]_vars => [RepeatIsAhead]_vars
  BY NextOnce
<1>. QED
  BY <1>1, StartedIsNoted, OrderInvariant, PTL DEF Spec, RepeatsOnlyAhead
=============================================================================
