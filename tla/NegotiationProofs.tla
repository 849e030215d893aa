--------------------------- MODULE NegotiationProofs ---------------------------
(***************************************************************************)
(* Proofs about Negotiation, for any bounds and any peers that find        *)
(* candidates: types, and the order in which media, descriptions, answers  *)
(* and candidates become known to the two pages.                           *)
(***************************************************************************)
EXTENDS Negotiation, SequenceTheorems, TLAPS

-----------------------------------------------------------------------------
(* What is within a sequence *)

LEMMA WithinConcat ==
    ASSUME NEW S, NEW s \in Seq(S), NEW t \in Seq(S)
    PROVE  /\ s \o t \in Seq(S)
           /\ Within(s \o t) = Within(s) \cup Within(t)
<1>1. /\ s \o t \in Seq(S) /\ Len(s \o t) = Len(s) + Len(t)
      /\ DOMAIN (s \o t) = 1..Len(s \o t) /\ DOMAIN s = 1..Len(s) /\ DOMAIN t = 1..Len(t)
      /\ \A i \in 1..(Len(s) + Len(t)) : (s \o t)[i] = IF i <= Len(s) THEN s[i] ELSE t[i - Len(s)]
      /\ Len(s) \in Nat /\ Len(t) \in Nat
  BY ConcatProperties, LenProperties
<1>2. ASSUME NEW x \in Within(s \o t)
      PROVE  x \in Within(s) \cup Within(t)
  <2>1. PICK i \in 1..(Len(s) + Len(t)) : x = (s \o t)[i]
    BY <1>1 DEF Within
  <2>2. CASE i <= Len(s)
    BY <1>1, <2>1, <2>2 DEF Within
  <2>3. CASE i > Len(s)
    <3>1. i - Len(s) \in 1..Len(t) /\ x = t[i - Len(s)]
      BY <1>1, <2>1, <2>3
    <3>. QED
      BY <1>1, <3>1 DEF Within
  <2>. QED
    BY <1>1, <2>1, <2>2, <2>3
<1>3. ASSUME NEW x \in Within(s)
      PROVE  x \in Within(s \o t)
  <2>1. PICK i \in 1..Len(s) : x = s[i]
    BY <1>1 DEF Within
  <2>2. i \in 1..(Len(s) + Len(t)) /\ x = (s \o t)[i]
    BY <1>1, <2>1
  <2>. QED
    BY <1>1, <2>2 DEF Within
<1>4. ASSUME NEW x \in Within(t)
      PROVE  x \in Within(s \o t)
  <2>1. PICK i \in 1..Len(t) : x = t[i]
    BY <1>1 DEF Within
  <2>2. i + Len(s) \in 1..(Len(s) + Len(t)) /\ ~(i + Len(s) <= Len(s)) /\ (i + Len(s)) - Len(s) = i
    BY <1>1
  <2>3. x = (s \o t)[i + Len(s)]
    BY <1>1, <2>1, <2>2
  <2>. QED
    BY <1>1, <2>2, <2>3 DEF Within
<1>. QED
  BY <1>1, <1>2, <1>3, <1>4

LEMMA WithinTail ==
    ASSUME NEW S, NEW s \in Seq(S), s # <<>>
    PROVE  /\ Tail(s) \in Seq(S) /\ Head(s) \in S
           /\ Head(s) \in Within(s)
           /\ Within(Tail(s)) \subseteq Within(s)
<1>1. /\ Tail(s) \in Seq(S) /\ Head(s) \in S /\ Head(s) = s[1]
      /\ Len(s) \in Nat /\ Len(s) >= 1 /\ Len(Tail(s)) = Len(s) - 1
      /\ DOMAIN s = 1..Len(s) /\ DOMAIN Tail(s) = 1..(Len(s) - 1)
      /\ \A i \in 1..(Len(s) - 1) : Tail(s)[i] = s[i + 1]
  BY HeadTailProperties, LenProperties, EmptySeq
<1>2. ASSUME NEW x \in Within(Tail(s))
      PROVE  x \in Within(s)
  <2>1. PICK i \in 1..(Len(s) - 1) : x = s[i + 1]
    BY <1>1 DEF Within
  <2>. QED
    BY <1>1, <2>1 DEF Within
<1>. QED
  BY <1>1, <1>2 DEF Within

LEMMA WithinFew ==
    /\ Within(<<>>) = {}
    /\ \A x : Within(<<x>>) = {x}
    /\ \A S, x : x \in S => <<x>> \in Seq(S)
    /\ \A S : <<>> \in Seq(S)
BY DEF Within

\* A sequence of notices, as many as there were signals.
LEMMA WithinNotices ==
    ASSUME NEW said \in Seq(InSignal)
    PROVE  /\ [i \in DOMAIN said |-> "Notice"] \in Seq(InSignal)
           /\ Within([i \in DOMAIN said |-> "Notice"]) \subseteq {"Notice"}
<1>1. DOMAIN said = 1..Len(said) /\ Len(said) \in Nat
  BY LenProperties
<1>. QED
  BY <1>1 DEF Within, InSignal

\* A notice after the messages of a queue.
LEMMA WithinNotified ==
    ASSUME NEW box \in Seq(InSignal)
    PROVE  /\ Append(box, "Notice") \in Seq(InSignal)
           /\ Within(Append(box, "Notice")) = Within(box) \cup {"Notice"}
<1>. DEFINE one == <<"Notice">>
<1>1. one \in Seq(InSignal) /\ Within(one) = {"Notice"}
  BY WithinFew DEF InSignal
<1>2. Append(box, "Notice") = box \o one
  BY AppendIsConcat, "Notice" \in InSignal DEF InSignal
<1>. HIDE DEF one
<1>3. box \o one \in Seq(InSignal) /\ Within(box \o one) = Within(box) \cup Within(one)
  BY <1>1, WithinConcat
<1>. QED
  BY <1>1, <1>2, <1>3

-----------------------------------------------------------------------------
(* Effects *)

\* What the effects that act after a render of v tell of v and of the peer.
LEMMA EffectFacts ==
    ASSUME NEW p \in Peer, NEW v, NEW due, due \subseteq EffectsOf(p), \A e \in due : Acts(e, v)
    PROVE  /\ "sendOffer" \in due => v.mediaAttached /\ p = "sender"
           /\ "attachMedia" \in due => p = "sender"
           /\ "handleAnswer" \in due => v.lastSignal = "Answer" /\ p = "sender"
           /\ "handleOffer" \in due => p = "receiver"
           /\ "remoteCandidate" \in due => v.ready
           /\ "localCandidate" \in due => v.ready
           /\ "notifyComplete" \in due => v.ready
<1>1. p = "sender" \/ p = "receiver"
  BY DEF Peer
<1>2. /\ "attachMedia" \in due => p = "sender"
      /\ "sendOffer" \in due => p = "sender"
      /\ "handleAnswer" \in due => p = "sender"
      /\ "handleOffer" \in due => p = "receiver"
  BY <1>1 DEF EffectsOf
<1>3. /\ Acts("sendOffer", v) => v.mediaAttached
      /\ Acts("handleAnswer", v) => v.lastSignal = "Answer"
      /\ Acts("remoteCandidate", v) => v.ready
      /\ Acts("localCandidate", v) => v.ready
      /\ Acts("notifyComplete", v) => v.ready
  BY DEF Acts, SendOffer, HandleAnswer, RemoteCandidate, LocalCandidate, NotifyComplete
<1>. QED
  BY <1>2, <1>3

\* The operations that are called and the signals that are said.
LEMMA CallsAndSends ==
    ASSUME NEW p \in Peer, NEW due, due \subseteq EffectsOf(p)
    PROVE  /\ Calls(due) \in Seq(OpOf(p))
           /\ "createOffer" \in Within(Calls(due)) => "sendOffer" \in due
           /\ "setRemoteAnswer" \in Within(Calls(due)) => "handleAnswer" \in due
           /\ "setRemoteOffer" \in Within(Calls(due)) => "handleOffer" \in due
           /\ "addIceCandidate" \in Within(Calls(due)) => "remoteCandidate" \in due
           /\ "createAnswer" \notin Within(Calls(due))
           /\ "setLocalAnswer" \notin Within(Calls(due))
           /\ Sends(due) \in Seq(Signal)
           /\ "Answer" \notin Within(Sends(due))
           /\ "IceCandidate" \in Within(Sends(due)) => "localCandidate" \in due
           /\ "IceGatheringComplete" \in Within(Sends(due)) => "notifyComplete" \in due
<1>. DEFINE c1 == IF "sendOffer" \in due THEN <<"createOffer">> ELSE <<>>
            c2 == IF "handleAnswer" \in due THEN <<"setRemoteAnswer">> ELSE <<>>
            c3 == IF "handleOffer" \in due THEN <<"setRemoteOffer">> ELSE <<>>
            c4 == IF "remoteCandidate" \in due THEN <<"addIceCandidate">> ELSE <<>>
            s1 == IF "localCandidate" \in due THEN <<"IceCandidate">> ELSE <<>>
            s2 == IF "notifyComplete" \in due THEN <<"IceGatheringComplete">> ELSE <<>>
<1>1. c1 \in Seq(OpOf(p)) /\ Within(c1) = IF "sendOffer" \in due THEN {"createOffer"} ELSE {}
  BY WithinFew DEF EffectsOf, OpOf, Peer
<1>2. c2 \in Seq(OpOf(p)) /\ Within(c2) = IF "handleAnswer" \in due THEN {"setRemoteAnswer"} ELSE {}
  BY WithinFew DEF EffectsOf, OpOf, Peer
<1>3. c3 \in Seq(OpOf(p)) /\ Within(c3) = IF "handleOffer" \in due THEN {"setRemoteOffer"} ELSE {}
  BY WithinFew DEF EffectsOf, OpOf, Peer
<1>4. c4 \in Seq(OpOf(p)) /\ Within(c4) = IF "remoteCandidate" \in due THEN {"addIceCandidate"} ELSE {}
  BY WithinFew DEF OpOf
<1>5. s1 \in Seq(Signal) /\ Within(s1) = IF "localCandidate" \in due THEN {"IceCandidate"} ELSE {}
  BY WithinFew DEF Signal
<1>6. s2 \in Seq(Signal) /\ Within(s2) = IF "notifyComplete" \in due THEN {"IceGatheringComplete"} ELSE {}
  BY WithinFew DEF Signal
<1>. DEFINE c12 == c1 \o c2
            c123 == c12 \o c3
<1>7. Calls(due) = c123 \o c4 /\ Sends(due) = s1 \o s2
  BY DEF Calls, Sends
<1>. HIDE DEF c1, c2, c3, c4, s1, s2
<1>8. c12 \in Seq(OpOf(p)) /\ Within(c12) = Within(c1) \cup Within(c2)
  BY <1>1, <1>2, WithinConcat
<1>. HIDE DEF c12
<1>9. c123 \in Seq(OpOf(p)) /\ Within(c123) = Within(c12) \cup Within(c3)
  BY <1>3, <1>8, WithinConcat DEF c123
<1>. HIDE DEF c123
<1>10. /\ Calls(due) \in Seq(OpOf(p))
       /\ Within(Calls(due)) = Within(c1) \cup Within(c2) \cup Within(c3) \cup Within(c4)
  BY <1>4, <1>7, <1>8, <1>9, WithinConcat
<1>11. Sends(due) \in Seq(Signal) /\ Within(Sends(due)) = Within(s1) \cup Within(s2)
  BY <1>5, <1>6, <1>7, WithinConcat
<1>. QED
  BY <1>1, <1>2, <1>3, <1>4, <1>5, <1>6, <1>10, <1>11

-----------------------------------------------------------------------------
(* Types *)

\* The variables that hold one value for each peer, and their types.
LEMMA Types ==
    ASSUME TypeOK, NEW p \in Peer
    PROVE  /\ st[p] \in HookState /\ view[p] \in HookState /\ conn[p] \in Conn
           /\ ops[p] \in Seq(OpOf(p)) /\ unsent[p] \in Seq(Signal) /\ inbox[p] \in Seq(InSignal)
           /\ DOMAIN st = Peer /\ DOMAIN view = Peer /\ DOMAIN conn = Peer
           /\ DOMAIN unsent = Peer /\ DOMAIN inbox = Peer /\ DOMAIN ops = Peer
           /\ Other(p) \in Peer /\ Other(p) # p /\ Hearer(p) \in Peer
BY DEF TypeOK, Other, Hearer, Peer

\* Where what is said goes: to the socket that is not open, to the peer, or
\* nowhere, and then there are notices.
LEMMA SendStep ==
    ASSUME TypeOK, NEW p \in Peer, NEW said \in Seq(Signal), NEW box \in [Peer -> Seq(InSignal)],
           Send(p, said, box)
    PROVE  /\ unsent' \in [Peer -> Seq(Signal)]
           /\ inbox' \in [Peer -> Seq(InSignal)]
           /\ \A q \in Peer : Within(unsent'[q]) \subseteq
                  Within(unsent[q]) \cup IF q = p THEN Within(said) ELSE {}
           /\ \A q \in Peer : Within(inbox'[q]) \subseteq
                  Within(box[q]) \cup {"Notice"} \cup IF q = Other(p) THEN Within(said) ELSE {}
<1>. USE Types
<1>1. said \in Seq(InSignal)
  BY SeqMonotonic, Signal \subseteq InSignal DEF InSignal
<1>2. /\ unsent[p] \o said \in Seq(Signal)
      /\ Within(unsent[p] \o said) = Within(unsent[p]) \cup Within(said)
  <2>1. unsent[p] \in Seq(Signal)
    BY DEF TypeOK
  <2>. QED
    BY <2>1, WithinConcat
<1>3. /\ unsent' \in [Peer -> Seq(Signal)]
      /\ \A q \in Peer : Within(unsent'[q]) \subseteq
            Within(unsent[q]) \cup IF q = p THEN Within(said) ELSE {}
  <2>1. unsent' = [unsent EXCEPT ![p] = IF p \in joined THEN @ ELSE @ \o said]
    BY DEF Send
  <2>. QED
    BY <1>2, <2>1 DEF TypeOK
<1>4. CASE p \notin joined
  BY <1>3, <1>4 DEF Send
<1>5. CASE p \in joined
  <2>. DEFINE h == Hearer(p)
              heard == IF h = p THEN [i \in DOMAIN said |-> "Notice"] ELSE said
  <2>1. h \in Peer /\ (h = p \/ h = Other(p))
    BY DEF Hearer
  <2>2. /\ heard \in Seq(InSignal)
        /\ Within(heard) \subseteq {"Notice"} \cup IF h = Other(p) THEN Within(said) ELSE {}
    <3>1. CASE h = p
      BY <1>1, <3>1, WithinNotices
    <3>2. CASE h # p
      BY <1>1, <2>1, <3>2
    <3>. QED
      BY <3>1, <3>2
  <2>3. inbox' = [box EXCEPT ![h] = @ \o heard]
    BY <1>5 DEF Send
  <2>. HIDE DEF h, heard
  <2>4. /\ box[h] \o heard \in Seq(InSignal)
        /\ Within(box[h] \o heard) = Within(box[h]) \cup Within(heard)
    BY <2>1, <2>2, WithinConcat
  <2>5. inbox' \in [Peer -> Seq(InSignal)]
    BY <2>1, <2>3, <2>4
  <2>6. ASSUME NEW q \in Peer
        PROVE  Within(inbox'[q]) \subseteq
                  Within(box[q]) \cup {"Notice"} \cup IF q = Other(p) THEN Within(said) ELSE {}
    BY <2>1, <2>2, <2>3, <2>4
  <2>. QED
    BY <1>3, <2>5, <2>6
<1>. QED
  BY <1>4, <1>5

\* What effects set are Booleans, and nothing but those four.
LEMMA UpdatedTypes ==
    ASSUME NEW s \in HookState, NEW due
    PROVE  /\ Updated(s, due) \in HookState
           /\ Updated(s, due).ready = s.ready
           /\ Updated(s, due).lastSignal = s.lastSignal
           /\ Updated(s, due).mediaAttached => s.mediaAttached \/ "attachMedia" \in due
<1>. DEFINE asked == s.asked \/ "askMedia" \in due
            mediaAttached == s.mediaAttached \/ "attachMedia" \in due
            offered == s.offered \/ "handleOffer" \in due
            complete == s.remoteGatheringComplete \/ "remoteComplete" \in due
<1>1. asked \in BOOLEAN /\ mediaAttached \in BOOLEAN /\ offered \in BOOLEAN /\ complete \in BOOLEAN
  BY Zenon
<1>2. mediaAttached => s.mediaAttached \/ "attachMedia" \in due
  OBVIOUS
<1>3. Updated(s, due) = [s EXCEPT !.asked = asked, !.mediaAttached = mediaAttached,
                                  !.offered = offered, !.remoteGatheringComplete = complete]
  BY Zenon DEF Updated, SetAsked, SetMediaAttached, SetOfferReceived, SetRemoteComplete
<1>. HIDE DEF asked, mediaAttached, offered, complete
<1>. QED
  BY <1>1, <1>2, <1>3 DEF HookState

\* The types of what a render with its effects leaves.
LEMMA RunTypes ==
    ASSUME TypeOK, NEW p \in Peer, NEW v \in HookState, NEW base \in HookState,
           NEW box \in [Peer -> Seq(InSignal)], NEW due, due \subseteq EffectsOf(p),
           RunEffects(p, v, base, box, due), opened' \subseteq Peer, joined' = joined
    PROVE  /\ TypeOK'
           /\ Within(ops'[p]) = Within(ops[p]) \cup Within(Calls(due))
           /\ \A q \in Peer \ {p} : ops'[q] = ops[q]
<1>. USE Types
<1>1. Calls(due) \in Seq(OpOf(p)) /\ Sends(due) \in Seq(Signal)
  BY CallsAndSends
<1>2. Send(p, Sends(due), box)
  BY DEF RunEffects
<1>3. unsent' \in [Peer -> Seq(Signal)] /\ inbox' \in [Peer -> Seq(InSignal)]
  BY <1>1, <1>2, SendStep
<1>4. /\ ops[p] \o Calls(due) \in Seq(OpOf(p))
      /\ Within(ops[p] \o Calls(due)) = Within(ops[p]) \cup Within(Calls(due))
  <2>1. ops[p] \in Seq(OpOf(p))
    BY DEF TypeOK
  <2>. QED
    BY <1>1, <2>1, WithinConcat
<1>5. ops' = [ops EXCEPT ![p] = @ \o Calls(due)]
  BY DEF RunEffects
<1>6. /\ DOMAIN ops' = Peer
      /\ ops'[p] = ops[p] \o Calls(due)
      /\ \A q \in Peer \ {p} : ops'[q] = ops[q]
  BY <1>5
<1>7. \A q \in Peer : ops'[q] \in Seq(OpOf(q))
  BY <1>4, <1>6
<1>8. view' \in [Peer -> HookState]
  BY DEF RunEffects, TypeOK
<1>9. st' \in [Peer -> HookState]
  <2>1. Updated(base, due) \in HookState
    BY UpdatedTypes
  <2>. QED
    BY <2>1 DEF RunEffects, TypeOK
<1>10. conn' \in [Peer -> Conn]
  <2>. DEFINE tracks == conn[p].tracks \/ "attachMedia" \in due
  <2>1. tracks \in BOOLEAN
    BY Zenon
  <2>2. conn' = [conn EXCEPT ![p].tracks = tracks]
    BY DEF RunEffects
  <2>. HIDE DEF tracks
  <2>3. conn \in [Peer -> Conn]
    BY DEF TypeOK
  <2>. QED
    BY <2>1, <2>2, <2>3 DEF Conn
<1>11. up' \subseteq Peer
  BY DEF RunEffects, TypeOK
<1>12. prompts' \in 0..2
  <2>1. prompts' = IF "askMedia" \in due /\ prompts < 2 THEN prompts + 1 ELSE prompts
    BY DEF RunEffects
  <2>2. prompts \in 0..2
    BY DEF TypeOK
  <2>. QED
    BY <2>1, <2>2
<1>13. opened' \subseteq Peer /\ joined' \subseteq Peer
  BY DEF TypeOK
<1>. QED
  BY <1>3, <1>4, <1>6, <1>7, <1>8, <1>9, <1>10, <1>11, <1>12, <1>13 DEF TypeOK

\* The types of what the end of an operation leaves.
LEMMA ResolveTypes ==
    ASSUME TypeOK, NEW p \in Peer, NEW next \in Seq(OpOf(p)), NEW c \in Conn, NEW s \in HookState,
           NEW said \in Seq(Signal), ops[p] # <<>>, Resolve(p, next, c, s, said)
    PROVE  /\ TypeOK'
           /\ Within(ops'[p]) \subseteq Within(ops[p]) \cup Within(next)
           /\ \A q \in Peer \ {p} : ops'[q] = ops[q]
<1>. USE Types
<1>. DEFINE rest == Tail(ops[p])
<1>1. rest \in Seq(OpOf(p)) /\ Within(rest) \subseteq Within(ops[p])
  BY WithinTail
<1>3. /\ DOMAIN ops' = Peer
      /\ ops'[p] = rest \o next
      /\ \A q \in Peer \ {p} : ops'[q] = ops[q]
  BY DEF Resolve
<1>. HIDE DEF rest
<1>2. rest \o next \in Seq(OpOf(p)) /\ Within(rest \o next) = Within(rest) \cup Within(next)
  BY <1>1, WithinConcat
<1>4. \A q \in Peer : ops'[q] \in Seq(OpOf(q))
  BY <1>2, <1>3
<1>5. Send(p, said, inbox) /\ inbox \in [Peer -> Seq(InSignal)]
  BY DEF Resolve, TypeOK
<1>6. unsent' \in [Peer -> Seq(Signal)] /\ inbox' \in [Peer -> Seq(InSignal)]
  BY <1>5, SendStep
<1>7. conn' \in [Peer -> Conn] /\ st' \in [Peer -> HookState]
  BY DEF Resolve, TypeOK
<1>8. UNCHANGED <<up, opened, joined, view, prompts>>
  BY DEF Resolve
<1>. QED
  BY <1>1, <1>2, <1>3, <1>4, <1>6, <1>7, <1>8 DEF TypeOK

-----------------------------------------------------------------------------
(* The order of events *)

\* What p has said and nobody has read.
Said(p) == Within(unsent[p]) \cup Within(inbox[Other(p)])

\* Tracks are added before an offer is created: they are there when the hook
\* has noted it, and when it has seen that.
MediaFirst ==
    \A p \in Peer :
        st[p].mediaAttached \/ view[p].mediaAttached \/ "createOffer" \in Within(ops[p])
            => conn[p].tracks

\* A peer is ready, answers and adds candidates only with a remote description.
DescribedFirst ==
    \A p \in Peer :
        \/ st[p].ready
        \/ conn[p].signalingState = "have-remote-offer"
        \/ {"createAnswer", "setLocalAnswer", "addIceCandidate"} \cap Within(ops[p]) # {}
        => conn[p].remoteDescription

\* Wherever an answer is, the receiver that has given it is ready.
AnsweredFirst ==
    \/ "Answer" \in Said("receiver")
    \/ "Answer" \in {st["sender"].lastSignal, view["sender"].lastSignal}
    \/ "setRemoteAnswer" \in Within(ops["sender"])
    \/ st["sender"].ready
    => st["receiver"].ready

\* And so is the receiver of a candidate of the sender.
CandidatesLast ==
    {"IceCandidate", "IceGatheringComplete"} \cap Said("sender") # {} => st["receiver"].ready

\* A peer that has seen itself ready is.
ViewIsOld == \A p \in Peer : view[p].ready => st[p].ready

Order == MediaFirst /\ DescribedFirst /\ AnsweredFirst /\ CandidatesLast /\ ViewIsOld

\* What is said, after a step in which p says something.
LEMMA SaidStep ==
    ASSUME TypeOK, NEW p \in Peer, NEW said \in Seq(Signal), NEW box \in [Peer -> Seq(InSignal)],
           \A q \in Peer : Within(box[q]) \subseteq Within(inbox[q]) \cup {"Notice"},
           Send(p, said, box), NEW q \in Peer
    PROVE  Said(q)' \subseteq Said(q) \cup {"Notice"} \cup IF q = p THEN Within(said) ELSE {}
<1>1. /\ Within(unsent'[q]) \subseteq Within(unsent[q]) \cup IF q = p THEN Within(said) ELSE {}
      /\ Within(inbox'[Other(q)]) \subseteq Within(box[Other(q)]) \cup {"Notice"}
            \cup IF Other(q) = Other(p) THEN Within(said) ELSE {}
  BY SendStep, Types
<1>2. Other(q) = Other(p) => q = p
  BY DEF Other, Peer
<1>3. Within(box[Other(q)]) \subseteq Within(inbox[Other(q)]) \cup {"Notice"}
  BY Types
<1>4. Said(q)' = Within(unsent'[q]) \cup Within(inbox'[Other(q)])
  BY DEF Said, Within
<1>. QED
  BY <1>1, <1>2, <1>3, <1>4 DEF Said

\* A step of a peer that is not said to lose anything keeps the order when what
\* is new in it has what it needs.
LEMMA OrderStep ==
    ASSUME TypeOK, Order, TypeOK', NEW p \in Peer, NEW new,
           \A q \in Peer : Said(q)' \subseteq Said(q) \cup {"Notice"} \cup IF q = p THEN new ELSE {},
           \A q \in Peer \ {p} :
               /\ st'[q] = st[q] /\ view'[q] = view[q]
               /\ conn'[q] = conn[q] /\ Within(ops'[q]) \subseteq Within(ops[q]),
           st[p].ready => st'[p].ready,
           conn[p].tracks => conn'[p].tracks,
           conn[p].remoteDescription => conn'[p].remoteDescription,
           st'[p].mediaAttached \/ view'[p].mediaAttached \/ "createOffer" \in Within(ops'[p])
               => conn'[p].tracks,
           \/ st'[p].ready
           \/ conn'[p].signalingState = "have-remote-offer"
           \/ {"createAnswer", "setLocalAnswer", "addIceCandidate"} \cap Within(ops'[p]) # {}
           => conn'[p].remoteDescription,
           "Answer" \in new => p = "receiver" /\ st'[p].ready,
           {"IceCandidate", "IceGatheringComplete"} \cap new # {} => st[p].ready,
           /\ p = "sender"
           /\ \/ "Answer" \in {st'[p].lastSignal, view'[p].lastSignal}
              \/ "setRemoteAnswer" \in Within(ops'[p])
              \/ st'[p].ready
           => st["receiver"].ready,
           view'[p].ready => st'[p].ready
    PROVE  Order'
<1>. USE DEF Order
<1>0. "sender" \in Peer /\ "receiver" \in Peer /\ "sender" # "receiver"
      /\ (p = "sender" \/ p = "receiver")
  BY DEF Peer
<1>1. MediaFirst'
  BY DEF MediaFirst
<1>2. DescribedFirst'
  BY DEF DescribedFirst
<1>3. ViewIsOld'
  BY DEF ViewIsOld
<1>4. st["receiver"].ready => st'["receiver"].ready
  BY <1>0
<1>5. AnsweredFirst'
  <2>1. "Answer" \in Said("receiver")' => st'["receiver"].ready
    BY <1>0, <1>4 DEF AnsweredFirst
  <2>2. \/ "Answer" \in {st'["sender"].lastSignal, view'["sender"].lastSignal}
        \/ "setRemoteAnswer" \in Within(ops'["sender"])
        \/ st'["sender"].ready
        => st["receiver"].ready
    BY <1>0 DEF AnsweredFirst
  <2>. QED
    BY <1>4, <2>1, <2>2 DEF AnsweredFirst
<1>6. CandidatesLast'
  BY <1>0, <1>4 DEF CandidatesLast, AnsweredFirst
<1>. QED
  BY <1>1, <1>2, <1>3, <1>5, <1>6

\* A render with its effects keeps types and order, if what it reads (v) and
\* what it updates (base) are of this page.
LEMMA RunOrder ==
    ASSUME TypeOK, Order, NEW p \in Peer, NEW v \in HookState, NEW base \in HookState,
           NEW box \in [Peer -> Seq(InSignal)],
           \A q \in Peer : Within(box[q]) \subseteq Within(inbox[q]) \cup {"Notice"},
           NEW due, due \subseteq EffectsOf(p), \A e \in due : Acts(e, v),
           RunEffects(p, v, base, box, due), opened' \subseteq Peer, joined' = joined,
           base.ready = st[p].ready, base.mediaAttached => conn[p].tracks,
           v.ready => st[p].ready, v.mediaAttached => conn[p].tracks,
           p = "sender" /\ "Answer" \in {base.lastSignal, v.lastSignal} => st["receiver"].ready
    PROVE  TypeOK' /\ Order'
<1>. DEFINE new == Within(Sends(due))
<1>1. /\ TypeOK'
      /\ Within(ops'[p]) = Within(ops[p]) \cup Within(Calls(due))
      /\ \A q \in Peer \ {p} : ops'[q] = ops[q]
  BY RunTypes
<1>2. /\ st' = [st EXCEPT ![p] = Updated(base, due)]
      /\ view' = [view EXCEPT ![p] = v]
      /\ conn' = [conn EXCEPT ![p].tracks = @ \/ "attachMedia" \in due]
      /\ Send(p, Sends(due), box)
  BY DEF RunEffects
<1>3. /\ "createOffer" \in Within(Calls(due)) => v.mediaAttached
      /\ "setRemoteAnswer" \in Within(Calls(due)) => p = "sender" /\ v.lastSignal = "Answer"
      /\ "addIceCandidate" \in Within(Calls(due)) => v.ready
      /\ "createAnswer" \notin Within(Calls(due))
      /\ "setLocalAnswer" \notin Within(Calls(due))
      /\ Sends(due) \in Seq(Signal)
      /\ "Answer" \notin new
      /\ {"IceCandidate", "IceGatheringComplete"} \cap new # {} => v.ready
  <2>1. /\ "sendOffer" \in due => v.mediaAttached
        /\ "handleAnswer" \in due => v.lastSignal = "Answer" /\ p = "sender"
        /\ "remoteCandidate" \in due => v.ready
        /\ "localCandidate" \in due => v.ready
        /\ "notifyComplete" \in due => v.ready
    BY EffectFacts
  <2>2. /\ "createOffer" \in Within(Calls(due)) => "sendOffer" \in due
        /\ "setRemoteAnswer" \in Within(Calls(due)) => "handleAnswer" \in due
        /\ "addIceCandidate" \in Within(Calls(due)) => "remoteCandidate" \in due
        /\ "createAnswer" \notin Within(Calls(due))
        /\ "setLocalAnswer" \notin Within(Calls(due))
    BY CallsAndSends
  <2>3. /\ Sends(due) \in Seq(Signal)
        /\ "Answer" \notin new
        /\ "IceCandidate" \in new => "localCandidate" \in due
        /\ "IceGatheringComplete" \in new => "notifyComplete" \in due
    BY CallsAndSends
  <2>. QED
    BY <2>1, <2>2, <2>3
<1>4. /\ Updated(base, due).ready = base.ready
      /\ Updated(base, due).lastSignal = base.lastSignal
      /\ Updated(base, due).mediaAttached => base.mediaAttached \/ "attachMedia" \in due
  BY UpdatedTypes
<1>5. \A q \in Peer : Said(q)' \subseteq Said(q) \cup {"Notice"} \cup IF q = p THEN new ELSE {}
  BY <1>2, <1>3, SaidStep
<1>6. /\ st'[p] = Updated(base, due) /\ view'[p] = v
      /\ \A q \in Peer \ {p} : st'[q] = st[q] /\ view'[q] = view[q] /\ conn'[q] = conn[q]
  BY <1>2, Types
<1>7. /\ conn[p].tracks \/ "attachMedia" \in due => conn'[p].tracks
      /\ conn'[p].remoteDescription = conn[p].remoteDescription
      /\ conn'[p].signalingState = conn[p].signalingState
  BY <1>2, Types DEF Conn
<1>. HIDE DEF new
<1>8. st'[p].mediaAttached \/ view'[p].mediaAttached \/ "createOffer" \in Within(ops'[p])
        => conn'[p].tracks
  BY <1>1, <1>3, <1>4, <1>6, <1>7 DEF Order, MediaFirst
<1>9. \/ st'[p].ready
      \/ conn'[p].signalingState = "have-remote-offer"
      \/ {"createAnswer", "setLocalAnswer", "addIceCandidate"} \cap Within(ops'[p]) # {}
      => conn'[p].remoteDescription
  BY <1>1, <1>3, <1>4, <1>6, <1>7 DEF Order, DescribedFirst
<1>10. /\ p = "sender"
       /\ \/ "Answer" \in {st'[p].lastSignal, view'[p].lastSignal}
          \/ "setRemoteAnswer" \in Within(ops'[p])
          \/ st'[p].ready
       => st["receiver"].ready
  BY <1>1, <1>3, <1>4, <1>6 DEF Order, AnsweredFirst
<1>11. view'[p].ready => st'[p].ready
  BY <1>4, <1>6
<1>12. st[p].ready => st'[p].ready
  BY <1>4, <1>6
<1>13. /\ conn[p].tracks => conn'[p].tracks
       /\ conn[p].remoteDescription => conn'[p].remoteDescription
       /\ {"IceCandidate", "IceGatheringComplete"} \cap new # {} => st[p].ready
       /\ "Answer" \notin new
  BY <1>3, <1>7
<1>14. \A q \in Peer \ {p} :
           /\ st'[q] = st[q] /\ view'[q] = view[q]
           /\ conn'[q] = conn[q] /\ Within(ops'[q]) \subseteq Within(ops[q])
  BY <1>1, <1>6
<1>15. Order'
  BY <1>1, <1>5, <1>8, <1>9, <1>10, <1>11, <1>12, <1>13, <1>14, OrderStep
<1>. QED
  BY <1>1, <1>15

\* The end of an operation keeps them, if what it leaves has what it needs.
LEMMA ResolveOrder ==
    ASSUME TypeOK, Order, NEW p \in Peer, NEW next \in Seq(OpOf(p)), NEW c \in Conn,
           NEW s \in HookState, NEW said \in Seq(Signal), ops[p] # <<>>,
           Resolve(p, next, c, s, said),
           s.mediaAttached = st[p].mediaAttached, s.lastSignal = st[p].lastSignal,
           c.tracks = conn[p].tracks, conn[p].remoteDescription => c.remoteDescription,
           st[p].ready => s.ready,
           {"createOffer", "setRemoteAnswer", "addIceCandidate"} \cap Within(next) = {},
           \/ s.ready
           \/ c.signalingState = "have-remote-offer"
           \/ {"createAnswer", "setLocalAnswer"} \cap Within(next) # {}
           => c.remoteDescription,
           "Answer" \in Within(said) => p = "receiver" /\ s.ready,
           {"IceCandidate", "IceGatheringComplete"} \cap Within(said) = {},
           p = "sender" /\ s.ready => st["receiver"].ready
    PROVE  TypeOK' /\ Order'
<1>. DEFINE new == Within(said)
<1>1. /\ TypeOK'
      /\ Within(ops'[p]) \subseteq Within(ops[p]) \cup Within(next)
      /\ \A q \in Peer \ {p} : ops'[q] = ops[q]
  BY ResolveTypes
<1>2. /\ st'[p] = s /\ conn'[p] = c /\ view' = view
      /\ \A q \in Peer \ {p} : st'[q] = st[q] /\ conn'[q] = conn[q]
  BY Types DEF Resolve
<1>3. \A q \in Peer : Said(q)' \subseteq Said(q) \cup {"Notice"} \cup IF q = p THEN new ELSE {}
  <2>1. Send(p, said, inbox) /\ inbox \in [Peer -> Seq(InSignal)]
    BY DEF Resolve, TypeOK
  <2>. QED
    BY <2>1, SaidStep
<1>. HIDE DEF new
<1>4. st'[p].mediaAttached \/ view'[p].mediaAttached \/ "createOffer" \in Within(ops'[p])
        => conn'[p].tracks
  BY <1>1, <1>2 DEF Order, MediaFirst
<1>5. \/ st'[p].ready
      \/ conn'[p].signalingState = "have-remote-offer"
      \/ {"createAnswer", "setLocalAnswer", "addIceCandidate"} \cap Within(ops'[p]) # {}
      => conn'[p].remoteDescription
  BY <1>1, <1>2 DEF Order, DescribedFirst
<1>6. /\ p = "sender"
      /\ \/ "Answer" \in {st'[p].lastSignal, view'[p].lastSignal}
         \/ "setRemoteAnswer" \in Within(ops'[p])
         \/ st'[p].ready
      => st["receiver"].ready
  BY <1>1, <1>2 DEF Order, AnsweredFirst
<1>7. view'[p].ready => st'[p].ready
  BY <1>2 DEF Order, ViewIsOld
<1>8. \A q \in Peer \ {p} :
           /\ st'[q] = st[q] /\ view'[q] = view[q]
           /\ conn'[q] = conn[q] /\ Within(ops'[q]) \subseteq Within(ops[q])
  BY <1>1, <1>2
<1>9. Order'
  BY <1>1, <1>2, <1>3, <1>4, <1>5, <1>6, <1>7, <1>8, OrderStep DEF new
<1>. QED
  BY <1>1, <1>9

-----------------------------------------------------------------------------
(* The steps *)

LEMMA DueFacts ==
    ASSUME NEW p \in Peer, NEW v, NEW anew, NEW silent, NEW due, due = Due(p, v, anew) \ silent
    PROVE  due \subseteq EffectsOf(p) /\ \A e \in due : Acts(e, v)
BY DEF Due

\* A page renders.
LEMMA RefreshStep ==
    ASSUME TypeOK, Order, NEW p \in Peer, NEW anew, Refresh(p, anew)
    PROVE  TypeOK' /\ Order'
<1>1. PICK silent \in CandidateIsError :
          /\ RunEffects(p, st[p], st[p], inbox, Due(p, st[p], anew) \ silent)
          /\ UNCHANGED <<opened, joined>>
  BY Zenon DEF Refresh
<1>. DEFINE due == Due(p, st[p], anew) \ silent
<1>2. due \subseteq EffectsOf(p) /\ \A e \in due : Acts(e, st[p])
  BY DueFacts
<1>3. st[p] \in HookState /\ inbox \in [Peer -> Seq(InSignal)]
  BY DEF TypeOK
<1>4. st[p].mediaAttached => conn[p].tracks
  BY DEF Order, MediaFirst
<1>5. p = "sender" /\ st[p].lastSignal = "Answer" => st["receiver"].ready
  BY DEF Order, AnsweredFirst
<1>. HIDE DEF due
<1>6. RunEffects(p, st[p], st[p], inbox, due) /\ opened' \subseteq Peer
  BY <1>1 DEF due, TypeOK
<1>. QED
  BY <1>1, <1>2, <1>3, <1>4, <1>5, <1>6, RunOrder

\* A socket opens, and what the page has rendered before is rendered again.
LEMMA OpenStep ==
    ASSUME TypeOK, Order, NEW p \in Peer, Open(p)
    PROVE  TypeOK' /\ Order'
<1>1. PICK silent \in CandidateIsError :
          /\ opened' = opened \cup {p} /\ joined' = joined
          /\ RunEffects(p, view[p], st[p], inbox, Due(p, view[p], TRUE) \ silent)
  BY Zenon DEF Open
<1>. DEFINE due == Due(p, view[p], TRUE) \ silent
<1>2. due \subseteq EffectsOf(p) /\ \A e \in due : Acts(e, view[p])
  BY DueFacts
<1>3. view[p] \in HookState /\ st[p] \in HookState /\ inbox \in [Peer -> Seq(InSignal)]
  BY DEF TypeOK
<1>4. /\ st[p].mediaAttached => conn[p].tracks
      /\ view[p].mediaAttached => conn[p].tracks
      /\ view[p].ready => st[p].ready
  BY DEF Order, MediaFirst, ViewIsOld
<1>5. p = "sender" /\ "Answer" \in {st[p].lastSignal, view[p].lastSignal} => st["receiver"].ready
  BY DEF Order, AnsweredFirst
<1>. HIDE DEF due
<1>6. RunEffects(p, view[p], st[p], inbox, due) /\ opened' \subseteq Peer
  BY <1>1 DEF due, TypeOK
<1>. QED
  BY <1>1, <1>2, <1>3, <1>4, <1>5, <1>6, RunOrder

\* A page receives a message and renders it.
LEMMA ReceiveStep ==
    ASSUME TypeOK, Order, NEW p \in Peer, Receive(p)
    PROVE  TypeOK' /\ Order'
<1>. DEFINE m    == Head(inbox[p])
            seen == [view[p] EXCEPT !.lastSignal = m]
            base == [st[p] EXCEPT !.lastSignal = m]
            rest == [inbox EXCEPT ![p] = Tail(@)]
<1>1. PICK silent \in CandidateIsError :
          /\ inbox[p] # <<>> /\ UNCHANGED <<opened, joined>>
          /\ RunEffects(p, seen, base, rest, Due(p, seen, TRUE) \ silent)
  BY Zenon DEF Receive
<1>2. /\ Tail(inbox[p]) \in Seq(InSignal) /\ m \in InSignal /\ m \in Within(inbox[p])
      /\ Within(Tail(inbox[p])) \subseteq Within(inbox[p])
  BY <1>1, WithinTail, Types
<1>3. /\ rest \in [Peer -> Seq(InSignal)]
      /\ \A q \in Peer : Within(rest[q]) \subseteq Within(inbox[q]) \cup {"Notice"}
  BY <1>2 DEF TypeOK
<1>4. p = "sender" /\ m = "Answer" => st["receiver"].ready
  <2>1. p = "sender" => Other("receiver") = p
    BY DEF Other
  <2>. QED
    BY <1>2, <2>1 DEF Order, AnsweredFirst, Said
<1>. HIDE DEF m
<1>5. /\ seen \in HookState /\ base \in HookState
      /\ seen.ready = view[p].ready /\ seen.mediaAttached = view[p].mediaAttached /\ seen.lastSignal = m
      /\ base.ready = st[p].ready /\ base.mediaAttached = st[p].mediaAttached /\ base.lastSignal = m
  BY <1>2, Types DEF HookState
<1>. HIDE DEF seen, base, rest
<1>6. (seen.ready => st[p].ready) /\ (seen.mediaAttached => conn[p].tracks)
      /\ (base.mediaAttached => conn[p].tracks)
  BY <1>5 DEF Order, ViewIsOld, MediaFirst
<1>. DEFINE due == Due(p, seen, TRUE) \ silent
<1>7. due \subseteq EffectsOf(p) /\ \A e \in due : Acts(e, seen)
  BY DueFacts
<1>8. RunEffects(p, seen, base, rest, due) /\ opened' \subseteq Peer
  BY <1>1 DEF TypeOK
<1>. HIDE DEF due
<1>. QED
  BY <1>1, <1>3, <1>4, <1>5, <1>6, <1>7, <1>8, RunOrder

\* An operation ends, well or not.
LEMMA OperationStep ==
    ASSUME TypeOK, Order, NEW p \in Peer, Succeeds(p) \/ OpRejected(p)
    PROVE  TypeOK' /\ Order'
<1>. DEFINE c == conn[p]
            s == st[p]
<1>1. c \in Conn /\ s \in HookState /\ (p = "sender" \/ p = "receiver")
  BY Types DEF Peer
<1>2. /\ s.ready \/ c.signalingState = "have-remote-offer" => c.remoteDescription
      /\ p = "sender" /\ s.ready => st["receiver"].ready
  BY DEF Order, DescribedFirst, AnsweredFirst
<1>3. ASSUME NEW op, Awaits(p, op)
      PROVE  ops[p] # <<>> /\ op \in OpOf(p) /\ op \in Within(ops[p])
  BY <1>3, WithinTail, Types DEF Awaits
<1>4. /\ <<>> \in Seq(OpOf(p)) /\ <<>> \in Seq(Signal) /\ Within(<<>>) = {}
      /\ <<"Offer">> \in Seq(Signal) /\ Within(<<"Offer">>) = {"Offer"}
      /\ <<"Answer">> \in Seq(Signal) /\ Within(<<"Answer">>) = {"Answer"}
  BY WithinFew DEF Signal
<1>5. CASE OfferCreated(p)
  <2>1. Awaits(p, "createOffer") /\ Resolve(p, <<"setLocalOffer">>, c, s, <<>>)
    BY <1>5 DEF OfferCreated
  <2>2. <<"setLocalOffer">> \in Seq(OpOf(p)) /\ Within(<<"setLocalOffer">>) = {"setLocalOffer"}
    BY <1>1, <1>3, <2>1, WithinFew DEF OpOf
  <2>. HIDE DEF c, s
  <2>. QED
    BY <1>1, <1>2, <1>3, <1>4, <2>1, <2>2, ResolveOrder DEF c, s
<1>6. CASE OfferSet(p)
  <2>. DEFINE cc == [c EXCEPT !.signalingState = "have-local-offer", !.localDescription = TRUE]
              ss == [s EXCEPT !.offered = TRUE]
  <2>1. Awaits(p, "setLocalOffer") /\ Resolve(p, <<>>, cc, ss, <<"Offer">>)
    BY <1>6 DEF OfferSet
  <2>2. /\ cc \in Conn /\ cc.tracks = c.tracks /\ cc.remoteDescription = c.remoteDescription
        /\ cc.signalingState = "have-local-offer"
        /\ ss \in HookState /\ ss.ready = s.ready /\ ss.mediaAttached = s.mediaAttached
        /\ ss.lastSignal = s.lastSignal
    BY <1>1 DEF Conn, HookState
  <2>. HIDE DEF cc, ss
  <2>. QED
    BY <1>1, <1>2, <1>3, <1>4, <2>1, <2>2, ResolveOrder
<1>7. CASE RemoteOfferSet(p)
  <2>. DEFINE cc == [c EXCEPT !.signalingState = "have-remote-offer", !.remoteDescription = TRUE]
              ss == [s EXCEPT !.stream = TRUE]
  <2>1. Awaits(p, "setRemoteOffer") /\ Resolve(p, <<"createAnswer">>, cc, ss, <<>>)
    BY <1>7 DEF RemoteOfferSet
  <2>2. /\ cc \in Conn /\ cc.tracks = c.tracks /\ cc.remoteDescription
        /\ ss \in HookState /\ ss.ready = s.ready /\ ss.mediaAttached = s.mediaAttached
        /\ ss.lastSignal = s.lastSignal
    BY <1>1 DEF Conn, HookState
  <2>3. <<"createAnswer">> \in Seq(OpOf(p)) /\ Within(<<"createAnswer">>) = {"createAnswer"}
    BY <1>1, <1>3, <2>1, WithinFew DEF OpOf
  <2>. HIDE DEF cc, ss
  <2>. QED
    BY <1>1, <1>2, <1>3, <1>4, <2>1, <2>2, <2>3, ResolveOrder
<1>8. CASE AnswerCreated(p)
  <2>1. /\ Awaits(p, "createAnswer") /\ Resolve(p, <<"setLocalAnswer">>, c, s, <<>>)
        /\ c.signalingState = "have-remote-offer"
    BY <1>8 DEF AnswerCreated
  <2>2. <<"setLocalAnswer">> \in Seq(OpOf(p)) /\ Within(<<"setLocalAnswer">>) = {"setLocalAnswer"}
    BY <1>1, <1>3, <2>1, WithinFew DEF OpOf
  <2>. HIDE DEF c, s
  <2>. QED
    BY <1>1, <1>2, <1>3, <1>4, <2>1, <2>2, ResolveOrder DEF c, s
<1>9. CASE AnswerSet(p)
  <2>. DEFINE cc == [c EXCEPT !.signalingState = "stable", !.localDescription = TRUE]
              ss == [s EXCEPT !.ready = TRUE]
  <2>1. /\ Awaits(p, "setLocalAnswer") /\ Resolve(p, <<>>, cc, ss, <<"Answer">>)
        /\ c.signalingState = "have-remote-offer"
    BY <1>9 DEF AnswerSet
  <2>2. /\ cc \in Conn /\ cc.tracks = c.tracks /\ cc.remoteDescription = c.remoteDescription
        /\ ss \in HookState /\ ss.ready /\ ss.mediaAttached = s.mediaAttached
        /\ ss.lastSignal = s.lastSignal
    BY <1>1 DEF Conn, HookState
  <2>3. p = "receiver"
    BY <1>1, <1>3, <2>1 DEF OpOf
  <2>. HIDE DEF cc, ss
  <2>. QED
    BY <1>1, <1>2, <1>3, <1>4, <2>1, <2>2, <2>3, ResolveOrder
<1>10. CASE AnswerAttached(p)
  <2>. DEFINE cc == [c EXCEPT !.signalingState = "stable", !.remoteDescription = TRUE]
              ss == [s EXCEPT !.ready = TRUE]
  <2>1. Awaits(p, "setRemoteAnswer") /\ Resolve(p, <<>>, cc, ss, <<>>)
    BY <1>10 DEF AnswerAttached
  <2>2. /\ cc \in Conn /\ cc.tracks = c.tracks /\ cc.remoteDescription
        /\ ss \in HookState /\ ss.ready /\ ss.mediaAttached = s.mediaAttached
        /\ ss.lastSignal = s.lastSignal
    BY <1>1 DEF Conn, HookState
  <2>3. p = "sender" => st["receiver"].ready
    BY <1>3, <2>1 DEF Order, AnsweredFirst
  <2>. HIDE DEF cc, ss
  <2>. QED
    BY <1>1, <1>2, <1>3, <1>4, <2>1, <2>2, <2>3, ResolveOrder
<1>11. CASE CandidateAdded(p)
  <2>. DEFINE ss == [s EXCEPT !.remoteGatheringComplete = TRUE]
  <2>1. Awaits(p, "addIceCandidate") /\ Resolve(p, <<>>, c, ss, <<>>)
    BY <1>11 DEF CandidateAdded
  <2>2. /\ ss \in HookState /\ ss.ready = s.ready /\ ss.mediaAttached = s.mediaAttached
        /\ ss.lastSignal = s.lastSignal
    BY <1>1 DEF HookState
  <2>. HIDE DEF ss
  <2>. QED
    BY <1>1, <1>2, <1>3, <1>4, <2>1, <2>2, ResolveOrder
<1>12. CASE OpRejected(p)
  <2>1. ops[p] # <<>> /\ Resolve(p, <<>>, c, s, <<>>)
    BY <1>12 DEF OpRejected
  <2>. HIDE DEF c, s
  <2>. QED
    BY <1>1, <1>2, <1>4, <2>1, ResolveOrder DEF c, s
<1>. QED
  BY <1>5, <1>6, <1>7, <1>8, <1>9, <1>10, <1>11, <1>12 DEF Succeeds

\* A step that says nothing new and touches none of what the order is about.
LEMMA OtherStep ==
    ASSUME TypeOK, Order, \A q \in Peer : Said(q)' \subseteq Said(q) \cup {"Notice"},
           UNCHANGED <<view, conn, ops>>,
           \A q \in Peer : /\ st'[q].ready = st[q].ready
                           /\ st'[q].mediaAttached = st[q].mediaAttached
                           /\ st'[q].lastSignal = st[q].lastSignal
    PROVE  Order'
<1>. USE DEF Order
<1>0. "sender" \in Peer /\ "receiver" \in Peer
  BY DEF Peer
<1>1. MediaFirst'
  BY DEF MediaFirst
<1>2. DescribedFirst'
  BY DEF DescribedFirst, Within
<1>3. AnsweredFirst'
  BY <1>0 DEF AnsweredFirst
<1>4. CandidatesLast'
  BY <1>0 DEF CandidatesLast
<1>5. ViewIsOld'
  BY DEF ViewIsOld
<1>. QED
  BY <1>1, <1>2, <1>3, <1>4, <1>5

\* A session is registered: what was said before is on its way.
LEMMA ConnectStep ==
    ASSUME TypeOK, Order, NEW p \in Peer, Connect(p)
    PROVE  TypeOK' /\ Order'
<1>. DEFINE o == Other(p)
            notices == [i \in DOMAIN unsent[p] |-> "Notice"]
            mail == Append(inbox[o], "Notice")
<1>1. o \in Peer /\ o # p /\ Other(o) = p /\ \A q \in Peer : q = p \/ q = o
  BY DEF Other, Peer
<1>2. unsent[p] \in Seq(Signal) /\ unsent[p] \in Seq(InSignal) /\ inbox[o] \in Seq(InSignal)
  <2>1. unsent[p] \in Seq(Signal) /\ inbox[o] \in Seq(InSignal)
    BY <1>1, Types
  <2>. QED
    BY <2>1, SeqMonotonic, Signal \subseteq InSignal DEF InSignal
<1>3. /\ joined' = joined \cup {p} /\ UNCHANGED <<up, opened, st, view, conn, ops, prompts>>
      /\ unsent' = [unsent EXCEPT ![p] = <<>>]
      /\ inbox' = IF o \in joined THEN [inbox EXCEPT ![o] = mail \o unsent[p]]
                  ELSE [inbox EXCEPT ![p] = notices]
  BY DEF Connect
<1>4. notices \in Seq(InSignal) /\ Within(notices) \subseteq {"Notice"}
  BY <1>2, WithinNotices
<1>5. mail \in Seq(InSignal) /\ Within(mail) = Within(inbox[o]) \cup {"Notice"}
  BY <1>2, WithinNotified
<1>. HIDE DEF notices, mail
<1>6. /\ mail \o unsent[p] \in Seq(InSignal)
      /\ Within(mail \o unsent[p]) = Within(mail) \cup Within(unsent[p])
  BY <1>2, <1>5, WithinConcat
<1>7. /\ unsent' \in [Peer -> Seq(Signal)] /\ unsent'[p] = <<>> /\ unsent'[o] = unsent[o]
      /\ inbox' \in [Peer -> Seq(InSignal)]
  BY <1>1, <1>3, <1>4, <1>6, WithinFew DEF TypeOK
<1>8. TypeOK'
  BY <1>3, <1>7 DEF TypeOK
<1>9. /\ Within(inbox'[o]) \subseteq Within(inbox[o]) \cup {"Notice"} \cup Within(unsent[p])
      /\ Within(inbox'[p]) \subseteq Within(inbox[p]) \cup {"Notice"}
  BY <1>1, <1>3, <1>4, <1>5, <1>6, Types
<1>10. \A q \in Peer : Said(q)' \subseteq Said(q) \cup {"Notice"}
  <2>1. Said(p)' = Within(unsent'[p]) \cup Within(inbox'[o])
    BY DEF Said, Within
  <2>2. Said(o)' = Within(unsent'[o]) \cup Within(inbox'[p])
    BY <1>1 DEF Said, Within
  <2>3. Said(p) = Within(unsent[p]) \cup Within(inbox[o]) /\ Said(o) = Within(unsent[o]) \cup Within(inbox[p])
    BY <1>1 DEF Said
  <2>. HIDE DEF o
  <2>. QED
    BY <1>1, <1>7, <1>9, <2>1, <2>2, <2>3, WithinFew
<1>11. Order'
  BY <1>3, <1>10, OtherStep
<1>. QED
  BY <1>8, <1>11

\* A socket closes: what was on its way to it is lost, the other is told.
LEMMA DisconnectStep ==
    ASSUME TypeOK, Order, NEW p \in Peer, Disconnect(p)
    PROVE  TypeOK' /\ Order'
<1>1. /\ joined' = joined \ {p} /\ UNCHANGED <<up, opened, st, view, conn, ops, unsent, prompts>>
      /\ inbox' = [q \in Peer |-> IF q = p THEN <<>>
                                  ELSE IF q \in joined THEN Append(inbox[q], "Notice")
                                  ELSE inbox[q]]
  BY DEF Disconnect
<1>2. ASSUME NEW q \in Peer
      PROVE  /\ inbox'[q] \in Seq(InSignal)
             /\ Within(inbox'[q]) \subseteq Within(inbox[q]) \cup {"Notice"}
  <2>. DEFINE mail == Append(inbox[q], "Notice")
  <2>1. inbox'[q] \in {<<>>, mail, inbox[q]}
    BY <1>1
  <2>2. inbox[q] \in Seq(InSignal)
    BY Types
  <2>3. mail \in Seq(InSignal) /\ Within(mail) = Within(inbox[q]) \cup {"Notice"}
    BY <2>2, WithinNotified
  <2>. HIDE DEF mail
  <2>. QED
    BY <2>1, <2>2, <2>3, WithinFew
<1>3. inbox' \in [Peer -> Seq(InSignal)]
  BY <1>1, <1>2
<1>4. TypeOK'
  BY <1>1, <1>3 DEF TypeOK
<1>5. \A q \in Peer : Said(q)' \subseteq Said(q) \cup {"Notice"}
  <2>. TAKE q \in Peer
  <2>1. Said(q)' = Within(unsent[q]) \cup Within(inbox'[Other(q)])
    BY <1>1 DEF Said, Within
  <2>. QED
    BY <1>2, <2>1, Types DEF Said
<1>6. Order'
  BY <1>1, <1>5, OtherStep
<1>. QED
  BY <1>4, <1>6

\* The user grants the screen, or a connection finds a candidate.
LEMMA MediaStep ==
    ASSUME TypeOK, Order, GrantMedia \/ \E p \in Peer : Gather(p)
    PROVE  TypeOK' /\ Order'
<1>1. /\ UNCHANGED <<up, opened, joined, view, conn, ops, unsent, inbox, prompts>>
      /\ \E p \in Peer : \/ st' = [st EXCEPT ![p].stream = TRUE]
                         \/ st' = [st EXCEPT ![p].iceCandidate = TRUE]
                         \/ st' = [st EXCEPT ![p].localGatheringComplete = TRUE]
  BY "sender" \in Peer DEF GrantMedia, Gather, Peer
<1>2. /\ st' \in [Peer -> HookState]
      /\ \A q \in Peer : /\ st'[q].ready = st[q].ready
                         /\ st'[q].mediaAttached = st[q].mediaAttached
                         /\ st'[q].lastSignal = st[q].lastSignal
  <2>1. PICK p \in Peer : \/ st' = [st EXCEPT ![p].stream = TRUE]
                          \/ st' = [st EXCEPT ![p].iceCandidate = TRUE]
                          \/ st' = [st EXCEPT ![p].localGatheringComplete = TRUE]
    BY <1>1
  <2>. DEFINE media == [st[p] EXCEPT !.stream = TRUE]
              candidate == [st[p] EXCEPT !.iceCandidate = TRUE]
              complete == [st[p] EXCEPT !.localGatheringComplete = TRUE]
  <2>2. \A s \in {media, candidate, complete} :
            /\ s \in HookState /\ s.ready = st[p].ready
            /\ s.mediaAttached = st[p].mediaAttached /\ s.lastSignal = st[p].lastSignal
    <3>. DEFINE Same(s) == /\ s \in HookState /\ s.ready = st[p].ready
                           /\ s.mediaAttached = st[p].mediaAttached /\ s.lastSignal = st[p].lastSignal
    <3>1. st[p] \in HookState
      BY Types
    <3>2. Same(media)
      BY <3>1 DEF HookState
    <3>3. Same(candidate)
      BY <3>1 DEF HookState
    <3>4. Same(complete)
      BY <3>1 DEF HookState
    <3>. HIDE DEF media, candidate, complete
    <3>. QED
      BY <3>2, <3>3, <3>4
  <2>3. PICK s \in {media, candidate, complete} : st' = [st EXCEPT ![p] = s]
    BY <2>1
  <2>. HIDE DEF media, candidate, complete
  <2>4. st \in [Peer -> HookState]
    BY DEF TypeOK
  <2>. QED
    BY <2>2, <2>3, <2>4
<1>3. TypeOK'
  BY <1>1, <1>2 DEF TypeOK
<1>4. \A q \in Peer : Said(q)' \subseteq Said(q) \cup {"Notice"}
  BY <1>1 DEF Said, Within
<1>5. Order'
  BY <1>1, <1>2, <1>4, OtherStep
<1>. QED
  BY <1>3, <1>5

LEMMA InitOrder == Init => TypeOK /\ Order
<1>. SUFFICES ASSUME Init
              PROVE  TypeOK /\ Order
  OBVIOUS
<1>1. TypeOK
  BY WithinFew DEF Init, TypeOK, HookState, Conn, InSignal, Signal
<1>2. \A p \in Peer : /\ ~st[p].ready /\ ~st[p].mediaAttached /\ st[p].lastSignal = "null"
                      /\ view[p] = st[p] /\ conn[p].signalingState = "stable"
                      /\ ops[p] = <<>> /\ unsent[p] = <<>> /\ inbox[p] = <<>>
  BY DEF Init
<1>3. \A p \in Peer : Other(p) \in Peer
  BY DEF Other, Peer
<1>4. \A p \in Peer : Said(p) = {} /\ Within(ops[p]) = {}
  BY <1>2, <1>3, WithinFew DEF Said
<1>5. "sender" \in Peer /\ "receiver" \in Peer
  BY DEF Peer
<1>. QED
  BY <1>1, <1>2, <1>4, <1>5
  DEF Order, MediaFirst, DescribedFirst, AnsweredFirst, CandidatesLast, ViewIsOld

LEMMA NextOrder ==
    ASSUME TypeOK, Order, [Next]_vars
    PROVE  TypeOK' /\ Order'
<1>1. CASE GrantMedia
  BY <1>1, MediaStep
<1>2. ASSUME NEW p \in Peer,
             \/ Render(p) \/ RenderInner(p) \/ Succeeds(p) \/ OpRejected(p)
             \/ Gather(p) \/ Open(p) \/ Connect(p) \/ Receive(p) \/ Disconnect(p)
      PROVE  TypeOK' /\ Order'
  <2>1. CASE Render(p) \/ RenderInner(p)
    BY <2>1, RefreshStep DEF Render, RenderInner
  <2>2. CASE Succeeds(p) \/ OpRejected(p)
    BY <2>2, OperationStep
  <2>3. CASE Gather(p)
    BY <2>3, MediaStep
  <2>4. CASE Connect(p)
    BY <2>4, ConnectStep
  <2>5. CASE Receive(p)
    BY <2>5, ReceiveStep
  <2>6. CASE Disconnect(p)
    BY <2>6, DisconnectStep
  <2>7. CASE Open(p)
    BY <2>7, OpenStep
  <2>. QED
    BY <1>2, <2>1, <2>2, <2>3, <2>4, <2>5, <2>6, <2>7
<1>3. CASE UNCHANGED vars
  <2>1. TypeOK'
    BY <1>3 DEF vars, TypeOK
  <2>2. \A q \in Peer : Said(q)' \subseteq Said(q) \cup {"Notice"}
    BY <1>3 DEF vars, Said, Within
  <2>3. Order'
    BY <1>3, <2>2, OtherStep DEF vars
  <2>. QED
    BY <2>1, <2>3
<1>. QED
  BY <1>1, <1>2, <1>3 DEF Next

-----------------------------------------------------------------------------

\* Types, and the order of events, hold in every state.
THEOREM OrderInvariant == Spec => [](TypeOK /\ Order)
BY InitOrder, NextOrder, PTL DEF Spec

\* A connection is never given a candidate before its remote description.
THEOREM CandidatesAreDescribed == Spec => []NoEarlyCandidate
<1>1. Order => NoEarlyCandidate
  BY DEF Order, DescribedFirst, NoEarlyCandidate
<1>. QED
  BY <1>1, OrderInvariant, PTL

\* No offer is created before the tracks of the screen were added.
THEOREM OffersHaveMedia == Spec => []OfferHasMedia
<1>1. Order => OfferHasMedia
  BY DEF Order, MediaFirst, OfferHasMedia
<1>. QED
  BY <1>1, OrderInvariant, PTL

\* The receiver is ready first.
THEOREM ReceiverIsReadyFirst == Spec => []ReadyInOrder
<1>1. Order => ReadyInOrder
  BY DEF Order, AnsweredFirst, ReadyInOrder
<1>. QED
  BY <1>1, OrderInvariant, PTL

\* What the sender says of its candidates finds a receiver that is ready.
THEOREM SenderCandidatesAreInTime == Spec => []SenderCandidatesInTime
<1>1. Other("sender") = "receiver"
  BY DEF Other
<1>2. Order => SenderCandidatesInTime
  BY <1>1 DEF Order, CandidatesLast, SenderCandidatesInTime, Said
<1>. QED
  BY <1>2, OrderInvariant, PTL
=============================================================================
