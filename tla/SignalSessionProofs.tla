------------------------ MODULE SignalSessionProofs ------------------------
(***************************************************************************)
(* Proofs about SignalSession, for any sets of sessions and texts:         *)
(* type correctness, and through RegistrationInv the two invariants that   *)
(* say the slots and the sessions agree.                                   *)
(***************************************************************************)
EXTENDS SignalSession, SequenceTheorems, TLAPS

(***************************************************************************)
(* Facts about roles, messages and queues.                                 *)
(***************************************************************************)

\* Every session has a role, and the other role is a role too.
LEMMA Roles ==
    /\ \A s \in Session : RoleOf(s) \in Role
    /\ \A r \in Role : Other(r) \in Role /\ Other(r) # r
BY DEF Session, Role, RoleOf, Other

\* The three messages a session queues, and what they carry.
LEMMA Messages ==
    ASSUME NEW s \in Session
    PROVE  /\ Connect(s) \in Message
           /\ Connect(s).kind = "Connect" /\ Connect(s).addr = s /\ Connect(s).role = RoleOf(s)
           /\ Disconnect(s) \in Message
           /\ Disconnect(s).kind = "Disconnect" /\ Disconnect(s).addr = s
           /\ Disconnect(s).role = RoleOf(s)
           /\ \A d \in Data :
                /\ SignalReq(s, d) \in Message
                /\ SignalReq(s, d).kind = "SignalReq" /\ SignalReq(s, d).addr = s
                /\ SignalReq(s, d).role = RoleOf(s)
BY Roles DEF Connect, Disconnect, SignalReq, Message

\* What taking the head off the mailbox leaves.
LEMMA TakeHead ==
    ASSUME mailbox \in Seq(Message), NEW kind, Take(kind)
    PROVE  /\ Len(mailbox) \in Nat /\ Len(mailbox) > 0
           /\ Head(mailbox) = mailbox[1] /\ mailbox[1] \in Message
           /\ mailbox[1].kind = kind
           /\ mailbox[1].addr \in Session /\ mailbox[1].role \in Role
           /\ mailbox[1].data \in Data \cup {NoData}
           /\ mailbox' \in Seq(Message)
           /\ Len(mailbox') = Len(mailbox) - 1
           /\ \A i \in 1..Len(mailbox') : mailbox'[i] = mailbox[i + 1]
           /\ phase' = phase
<1>1. mailbox # <<>> /\ Head(mailbox).kind = kind /\ mailbox' = Tail(mailbox) /\ phase' = phase
  BY DEF Take
<1>2. Len(mailbox) \in Nat \ {0}
  BY <1>1, EmptySeq
<1>3. Head(mailbox) = mailbox[1] /\ mailbox[1] \in Message
  BY <1>1, <1>2, HeadTailProperties
<1>4. mailbox[1].addr \in Session /\ mailbox[1].role \in Role /\ mailbox[1].data \in Data \cup {NoData}
  BY <1>3 DEF Message
<1>. QED
  BY <1>1, <1>2, <1>3, <1>4, HeadTailProperties

\* What queueing a message at the end of a queue does.
LEMMA AddLast ==
    ASSUME NEW S, NEW q \in Seq(S), NEW m \in S
    PROVE  /\ Append(q, m) \in Seq(S)
           /\ Len(q) \in Nat
           /\ Len(Append(q, m)) = Len(q) + 1
           /\ \A i \in 1..Len(q) + 1 : Append(q, m)[i] = IF i <= Len(q) THEN q[i] ELSE m
BY AppendProperties, LenProperties

\* Concatenating a single message is queueing it.
LEMMA ConcatOne ==
    ASSUME NEW S, NEW q \in Seq(S), NEW m \in S
    PROVE  q \o <<m>> = Append(q, m)
BY AppendIsConcat

(***************************************************************************)
(* Type correctness.                                                       *)
(***************************************************************************)

\* Sending a signal to a peer keeps the inboxes well typed.
LEMMA TellType ==
    ASSUME ServerTypeOK, NEW r \in Role, NEW sig \in Signal
    PROVE  Tell(r, sig) \in [Session -> Seq(Signal)]
<1>1. CASE peers[r] # NoPeer /\ AddrOpen(peers[r])
  <2>1. peers[r] \in Session
    BY <1>1 DEF ServerTypeOK
  <2>2. Append(inbox[peers[r]], sig) \in Seq(Signal)
    BY <2>1, AddLast DEF ServerTypeOK
  <2>. QED
    BY <1>1, <2>1, <2>2 DEF Tell, ServerTypeOK
<1>2. CASE ~(peers[r] # NoPeer /\ AddrOpen(peers[r]))
  BY <1>2 DEF Tell, ServerTypeOK
<1>. QED
  BY <1>1, <1>2

\* The notices and the relayed payloads are signals.
LEMMA SignalTypes ==
    /\ Notice("PeerConnected") \in Signal
    /\ Notice("PeerDisconnected") \in Signal
    /\ \A d \in Data \cup {NoData} : ToSignal(d) \in Signal
BY DEF Notice, ToSignal, Signal

\* The handlers of the server keep its state well typed.
LEMMA ServerTypeStep ==
    ASSUME ServerTypeOK, ServerStep
    PROVE  ServerTypeOK'
<1>. DEFINE m == Head(mailbox)
<1>1. CASE AcceptConnect
  <2>0. Take("Connect")
    BY <1>1 DEF AcceptConnect
  <2>1. m.role \in Role /\ m.addr \in Session /\ mailbox' \in Seq(Message) /\ phase' = phase
    BY <2>0, TakeHead DEF ServerTypeOK
  <2>2. peers' \in [Role -> Session \cup {NoPeer}]
    BY <1>1, <2>1 DEF AcceptConnect, ServerTypeOK
  <2>3. inbox' \in [Session -> Seq(Signal)]
    BY <1>1, <2>1, TellType, SignalTypes, Roles DEF AcceptConnect
  <2>4. reply' \in [Session -> Reply]
    BY <1>1 DEF AcceptConnect, Answer, ServerTypeOK, Reply
  <2>. QED
    BY <2>1, <2>2, <2>3, <2>4 DEF ServerTypeOK
<1>2. CASE RefuseConnect
  <2>0. Take("Connect")
    BY <1>2 DEF RefuseConnect
  <2>1. mailbox' \in Seq(Message) /\ phase' = phase
    BY <2>0, TakeHead DEF ServerTypeOK
  <2>2. reply' \in [Session -> Reply]
    BY <1>2 DEF RefuseConnect, Answer, ServerTypeOK, Reply
  <2>. QED
    BY <1>2, <2>1, <2>2 DEF RefuseConnect, ServerTypeOK
<1>3. CASE HandleDisconnect
  <2>0. Take("Disconnect")
    BY <1>3 DEF HandleDisconnect
  <2>1. m.role \in Role /\ mailbox' \in Seq(Message) /\ phase' = phase
    BY <2>0, TakeHead DEF ServerTypeOK
  <2>2. peers' \in [Role -> Session \cup {NoPeer}]
    BY <1>3, <2>1 DEF HandleDisconnect, ServerTypeOK
  <2>3. inbox' \in [Session -> Seq(Signal)]
    <3>1. AnnounceLeave(m.role) \in [Session -> Seq(Signal)]
      BY <2>1, TellType, SignalTypes, Roles DEF AnnounceLeave
    <3>. QED
      BY <1>3, <3>1 DEF HandleDisconnect, ServerTypeOK
  <2>. QED
    BY <1>3, <2>1, <2>2, <2>3 DEF HandleDisconnect, ServerTypeOK
<1>4. CASE Relay
  <2>0. Take("SignalReq")
    BY <1>4 DEF Relay
  <2>1. m.role \in Role /\ m.data \in Data \cup {NoData} /\ mailbox' \in Seq(Message) /\ phase' = phase
    BY <2>0, TakeHead DEF ServerTypeOK
  <2>2. inbox' \in [Session -> Seq(Signal)]
    BY <1>4, <2>1, TellType, SignalTypes, Roles DEF Relay
  <2>3. reply' \in [Session -> Reply]
    BY <1>4 DEF Relay, Answer, ServerTypeOK, Reply
  <2>. QED
    BY <1>4, <2>1, <2>2, <2>3 DEF Relay, ServerTypeOK
<1>5. CASE RefuseRelay
  <2>0. Take("SignalReq")
    BY <1>5 DEF RefuseRelay
  <2>1. mailbox' \in Seq(Message) /\ phase' = phase
    BY <2>0, TakeHead DEF ServerTypeOK
  <2>2. reply' \in [Session -> Reply]
    BY <1>5 DEF RefuseRelay, Answer, ServerTypeOK, Reply
  <2>. QED
    BY <1>5, <2>1, <2>2 DEF RefuseRelay, ServerTypeOK
<1>. QED
  BY <1>1, <1>2, <1>3, <1>4, <1>5 DEF ServerStep

\* Every step of the system keeps it well typed.
LEMMA TypeStep ==
    ASSUME TypeOK, [Next]_vars
    PROVE  TypeOK'
<1>. USE DEF TypeOK
<1>1. CASE Server
  BY <1>1, ServerTypeStep DEF Server, sessionVars
<1>2. ASSUME NEW s \in Session, Internal(s)
      PROVE  TypeOK'
  <2>1. CASE ConnectAccepted(s)
    BY <2>1 DEF ConnectAccepted, Goto, TakeReply, ServerTypeOK, Phase, Reply
  <2>2. CASE ConnectRefused(s)
    <3>1. Append(out[s], Notice("ALREADY_CONNECTED")) \in Seq(Frame)
      BY AddLast DEF Notice, Frame
    <3>. QED
      BY <2>2, <3>1 DEF ConnectRefused, Goto, TakeReply, Send, ServerTypeOK, Phase, Reply
  <2>3. CASE HandleSignal(s)
    <3>1. Head(inbox[s]) \in Signal /\ Tail(inbox[s]) \in Seq(Signal)
      BY <2>3, HeadTailProperties DEF HandleSignal, ServerTypeOK
    <3>2. [type |-> Head(inbox[s]).type, data |-> Head(inbox[s]).data] \in Frame
      BY <3>1 DEF Signal, Frame
    <3>3. Append(out[s], [type |-> Head(inbox[s]).type, data |-> Head(inbox[s]).data]) \in Seq(Frame)
      BY <3>2, AddLast
    <3>. QED
      BY <2>3, <3>1, <3>3 DEF HandleSignal, Send, ServerTypeOK
  <2>4. CASE RequestDone(s)
    <3>1. Append(out[s], Notice("PEER_NOT_CONNECTED")) \in Seq(Frame)
      BY AddLast DEF Notice, Frame
    <3>. QED
      BY <2>4, <3>1 DEF RequestDone, Goto, TakeReply, Send, ServerTypeOK, Phase, Reply
  <2>5. CASE Stopping(s)
    <3>1. mailbox' \in Seq(Message)
      BY <2>5, Messages, ConcatOne, AddLast, ConcatEmptySeq DEF Stopping, Farewell, ServerTypeOK
    <3>2. inbox' \in [Session -> Seq(Signal)]
      BY <2>5, EmptySeq DEF Stopping, ServerTypeOK
    <3>. QED
      BY <2>5, <3>1, <3>2 DEF Stopping, Goto, sessionVars, ServerTypeOK, Phase
  <2>. QED
    BY <1>2, <2>1, <2>2, <2>3, <2>4, <2>5 DEF Internal
<1>3. ASSUME NEW s \in Session, External(s)
      PROVE  TypeOK'
  <2>1. CASE Start(s)
    <3>1. mailbox' \in Seq(Message)
      BY <2>1, Messages, AddLast DEF Start, ServerTypeOK
    <3>. QED
      BY <2>1, <3>1 DEF Start, Goto, sessionVars, ServerTypeOK, Phase
  <2>2. ASSUME NEW d \in Data, ReceiveText(s, d)
        PROVE  TypeOK'
    <3>1. mailbox' \in Seq(Message)
      BY <2>2, Messages, AddLast DEF ReceiveText, ServerTypeOK
    <3>2. sent' \in 0..MaxTexts
      BY <2>2, MaxTextsAssumption DEF ReceiveText
    <3>. QED
      BY <2>2, <3>1, <3>2 DEF ReceiveText, Goto, ServerTypeOK, Phase
  <2>3. CASE StreamEnds(s)
    BY <2>3 DEF StreamEnds, Goto, sessionVars, ServerTypeOK, Phase
  <2>4. CASE HeartbeatFails(s)
    <3>1. mailbox' \in Seq(Message)
      BY <2>4, Messages, AddLast DEF HeartbeatFails, ServerTypeOK
    <3>. QED
      BY <2>4, <3>1 DEF HeartbeatFails, Goto, ServerTypeOK, Phase
  <2>5. CASE ConnectionLost(s)
    BY <2>5 DEF ConnectionLost, Goto, TakeReply, sessionVars, ServerTypeOK, Phase, Reply
  <2>. QED
    BY <1>3, <2>1, <2>2, <2>3, <2>4, <2>5 DEF External
<1>4. CASE UNCHANGED vars
  BY <1>4 DEF vars, ServerTypeOK
<1>. QED
  BY <1>1, <1>2, <1>3, <1>4 DEF Next

\* The type invariant holds whatever the number of sessions, texts and retries.
THEOREM TypeCorrect == Spec => []TypeOK
<1>1. Init => TypeOK
  BY MaxTextsAssumption, EmptySeq DEF Init, ServerInit, TypeOK, ServerTypeOK, Phase, Reply
<1>2. TypeOK /\ [Next]_vars => TypeOK'
  BY TypeStep
<1>. QED
  BY <1>1, <1>2, PTL DEF Spec

(***************************************************************************)
(* RegistrationInv is inductive.  A handler of the server takes a message  *)
(* off the mailbox and answers it; a step of a session queues at most one  *)
(* message.  The parts about the mailbox are proved for these two shapes,  *)
(* and the claims on the slots handler by handler.                         *)
(***************************************************************************)

\* Taking a message off the mailbox and answering it keeps what is known of
\* the rest of the mailbox.
LEMMA QueueAfterTake ==
    ASSUME RegistrationInv, NEW kind, Take(kind),
           NEW x, Answer(x) \/ reply' = reply,
           UNCHANGED sessionVars
    PROVE  /\ QueueMatchesPhase'
           /\ QueueOrder'
           /\ KnowledgeMatchesPhase'
<1>. DEFINE m == mailbox[1]
<1>0. mailbox \in Seq(Message) /\ reply \in [Session -> Reply]
  BY DEF RegistrationInv, TypeOK, ServerTypeOK
<1>1. /\ Len(mailbox) \in Nat /\ Len(mailbox) > 0 /\ Head(mailbox) = m /\ m.addr \in Session
      /\ Len(mailbox') = Len(mailbox) - 1
      /\ \A i \in 1..Len(mailbox') : mailbox'[i] = mailbox[i + 1]
      /\ phase' = phase /\ is_active' = is_active /\ hbFailed' = hbFailed
  BY <1>0, TakeHead DEF sessionVars
<1>2. \A s \in Session :
        \/ reply'[s] = reply[s]
        \/ s = m.addr /\ reply'[s] = x /\ phase[s] \in {"connecting", "waiting"}
  BY <1>0, <1>1 DEF Answer
<1>3. QueueMatchesPhase'
  <2>. SUFFICES ASSUME NEW i \in 1..Len(mailbox')
                PROVE  LET n == mailbox'[i] IN
                         /\ n.role = RoleOf(n.addr)
                         /\ phase[n.addr] # "new"
                         /\ n.kind = "Connect" => ~is_active[n.addr] /\ reply'[n.addr] = "none"
                         /\ n.kind # "Connect" => is_active[n.addr]
                         /\ n.kind = "Disconnect" =>
                              phase[n.addr] \in (IF n.addr \in hbFailed THEN {"stopping", "stopped"}
                                                 ELSE {"stopped"})
    BY <1>1 DEF QueueMatchesPhase
  <2>1. i + 1 \in 1..Len(mailbox) /\ mailbox'[i] = mailbox[i + 1] /\ 1 \in 1..Len(mailbox) /\ 1 < i + 1
    BY <1>1
  <2>2. mailbox[i + 1] \in Message
    BY <1>0, <2>1, ElementOfSeq
  <2>3. mailbox[i + 1].addr \in Session
    BY <2>2 DEF Message
  <2>4. mailbox[i + 1].kind = "Connect" => mailbox[i + 1].addr # m.addr
    BY <2>1 DEF RegistrationInv, QueueOrder
  <2>. QED
    BY <1>2, <2>1, <2>3, <2>4 DEF RegistrationInv, QueueMatchesPhase
<1>4. QueueOrder'
  <2>. SUFFICES ASSUME NEW i \in 1..Len(mailbox'), NEW j \in 1..Len(mailbox'),
                       i < j, mailbox'[i].addr = mailbox'[j].addr
                PROVE  /\ mailbox'[j].kind # "Connect"
                       /\ mailbox'[i].kind = "Disconnect" => mailbox'[i].addr \in hbFailed
    BY <1>1 DEF QueueOrder
  <2>1. i + 1 \in 1..Len(mailbox) /\ j + 1 \in 1..Len(mailbox) /\ i + 1 < j + 1
    BY <1>1
  <2>. QED
    BY <1>1, <2>1 DEF RegistrationInv, QueueOrder
<1>5. KnowledgeMatchesPhase'
  BY <1>1, <1>2 DEF RegistrationInv, KnowledgeMatchesPhase
<1>. QED
  BY <1>3, <1>4, <1>5

\* After a message has been taken and answered, whoever claims a slot either
\* claimed it before, or has just been told that its Connect succeeded.
LEMMA ClaimsAfterTake ==
    ASSUME RegistrationInv, NEW kind, Take(kind),
           NEW x, Answer(x) \/ reply' = reply,
           UNCHANGED sessionVars,
           NEW s \in Session, Claims(s)'
    PROVE  Claims(s) \/ (kind = "Connect" /\ x = "Ok" /\ s = mailbox[1].addr)
<1>0. mailbox \in Seq(Message) /\ reply \in [Session -> Reply]
  BY DEF RegistrationInv, TypeOK, ServerTypeOK
<1>1. /\ Len(mailbox) \in Nat /\ Len(mailbox) > 0 /\ Head(mailbox) = mailbox[1]
      /\ mailbox[1].kind = kind /\ mailbox[1].addr \in Session
      /\ Len(mailbox') = Len(mailbox) - 1
      /\ \A i \in 1..Len(mailbox') : mailbox'[i] = mailbox[i + 1]
      /\ phase' = phase /\ is_active' = is_active
  BY <1>0, TakeHead DEF sessionVars
<1>2. CASE is_active[s] /\ phase[s] # "stopped"
  BY <1>2 DEF Claims
<1>3. CASE phase[s] = "connecting" /\ reply'[s] = "Ok"
  <2>1. CASE reply'[s] = reply[s]
    BY <1>3, <2>1 DEF Claims
  <2>2. CASE reply'[s] # reply[s]
    <3>1. s = mailbox[1].addr /\ x = "Ok"
      BY <1>0, <1>1, <1>3, <2>2 DEF Answer
    <3>2. kind # "Connect" => is_active[s]
      BY <1>1, <3>1 DEF RegistrationInv, QueueMatchesPhase
    <3>3. ~is_active[s]
      BY <1>3 DEF RegistrationInv, KnowledgeMatchesPhase
    <3>. QED
      BY <3>1, <3>2, <3>3
  <2>. QED
    BY <2>1, <2>2
<1>4. ASSUME NEW i \in 1..Len(mailbox'), mailbox'[i].addr = s, mailbox'[i].kind # "Connect"
      PROVE  Claims(s)
  <2>1. i + 1 \in 1..Len(mailbox) /\ mailbox[i + 1] = mailbox'[i]
    BY <1>1
  <2>. QED
    BY <1>4, <2>1 DEF Claims
<1>. QED
  BY <1>1, <1>2, <1>3, <1>4 DEF Claims

\* The handlers of the server keep RegistrationInv.
LEMMA RegistrationServer ==
    ASSUME RegistrationInv, Server
    PROVE  RegistrationInv'
<1>0. TypeOK' /\ UNCHANGED sessionVars /\ hbFailed' = hbFailed
  BY TypeStep DEF RegistrationInv, Next, Server, sessionVars
<1>. DEFINE m == mailbox[1]
<1>1. ASSUME NEW kind, Take(kind)
      PROVE  /\ Head(mailbox) = m /\ m.kind = kind
             /\ m.addr \in Session /\ m.role = RoleOf(m.addr) /\ m.role \in Role
             /\ 1 \in 1..Len(mailbox)
             /\ kind # "Connect" => Claims(m.addr)
  <2>1. Head(mailbox) = m /\ m.kind = kind /\ m.addr \in Session /\ m.role \in Role /\ 1 \in 1..Len(mailbox)
    BY <1>1, TakeHead DEF RegistrationInv, TypeOK, ServerTypeOK
  <2>. QED
    BY <2>1 DEF RegistrationInv, QueueMatchesPhase, Claims
<1>2. peers \in [Role -> Session \cup {NoPeer}] /\ \A s \in Session : s # NoPeer
  BY SignalAssumption DEF RegistrationInv, TypeOK, ServerTypeOK
<1>3. CASE AcceptConnect
  <2>1. Take("Connect") /\ Answer("Ok") /\ peers' = [peers EXCEPT ![Head(mailbox).role] = Head(mailbox).addr]
        /\ peers[Head(mailbox).role] = NoPeer
    BY <1>3 DEF AcceptConnect, SlotFree
  <2>2. ClaimantsAreRegistered'
    <3>. SUFFICES ASSUME NEW s \in Session, Claims(s)', ~HeartbeatFailedIn(RoleOf(s))
                  PROVE  peers'[RoleOf(s)] = s
      BY <1>0 DEF ClaimantsAreRegistered, HeartbeatFailedIn
    <3>1. CASE s = m.addr
      BY <1>1, <1>2, <2>1, <3>1
    <3>2. CASE s # m.addr
      <4>1. Claims(s)
        BY <1>0, <2>1, <3>2, ClaimsAfterTake
      <4>2. peers[RoleOf(s)] = s
        BY <4>1 DEF RegistrationInv, ClaimantsAreRegistered
      <4>. QED
        BY <1>1, <1>2, <2>1, <4>2, Roles
    <3>. QED
      BY <3>1, <3>2
  <2>. QED
    BY <1>0, <2>1, <2>2, QueueAfterTake DEF RegistrationInv
<1>4. ASSUME NEW kind, Take(kind), NEW x, Answer(x) \/ reply' = reply,
             peers' = peers, kind = "Connect" => x # "Ok"
      PROVE  RegistrationInv'
  <2>1. ClaimantsAreRegistered'
    <3>. SUFFICES ASSUME NEW s \in Session, Claims(s)', ~HeartbeatFailedIn(RoleOf(s))
                  PROVE  peers[RoleOf(s)] = s
      BY <1>0, <1>4 DEF ClaimantsAreRegistered, HeartbeatFailedIn
    <3>1. Claims(s)
      BY <1>0, <1>4, ClaimsAfterTake
    <3>. QED
      BY <3>1 DEF RegistrationInv, ClaimantsAreRegistered
  <2>. QED
    BY <1>0, <1>4, <2>1, QueueAfterTake DEF RegistrationInv
<1>5. CASE RefuseConnect
  <2>1. Take("Connect") /\ Answer("AlreadyConnected") /\ peers' = peers
    BY <1>5 DEF RefuseConnect
  <2>. QED
    BY <1>4, <2>1
<1>6. CASE HandleDisconnect
  <2>1. Take("Disconnect") /\ reply' = reply
    BY <1>6 DEF HandleDisconnect
  <2>2. CASE peers' = peers
    BY <1>4, <2>1, <2>2
  <2>3. CASE peers' = [peers EXCEPT ![m.role] = NoPeer]
    <3>1. ClaimantsAreRegistered'
      <4>. SUFFICES ASSUME NEW s \in Session, Claims(s)', ~HeartbeatFailedIn(RoleOf(s))
                    PROVE  peers'[RoleOf(s)] = s
        BY <1>0 DEF ClaimantsAreRegistered, HeartbeatFailedIn
      <4>1. Claims(s) /\ m.kind = "Disconnect" /\ m.addr \in Session /\ m.role = RoleOf(m.addr)
            /\ Claims(m.addr)
        BY <1>0, <1>1, <2>1, ClaimsAfterTake
      <4>2. peers[RoleOf(s)] = s
        BY <4>1 DEF RegistrationInv, ClaimantsAreRegistered
      <4>3. CASE RoleOf(s) # m.role
        BY <1>2, <2>3, <4>2, <4>3, Roles
      <4>4. CASE RoleOf(s) = m.role
        \* s would be the session whose goodbye is at the head of the mailbox:
        \* it has stopped, and nothing of it is queued behind its goodbye.
        <5>1. ~HeartbeatFailedIn(RoleOf(m.addr)) /\ m.addr \notin hbFailed
          BY <4>1, <4>4 DEF HeartbeatFailedIn
        <5>2. peers[RoleOf(m.addr)] = m.addr
          BY <4>1, <5>1 DEF RegistrationInv, ClaimantsAreRegistered
        <5>3. s = m.addr
          BY <4>1, <4>2, <4>4, <5>2
        <5>4. phase[s] = "stopped"
          BY <1>1, <2>1, <4>1, <5>1, <5>3 DEF RegistrationInv, QueueMatchesPhase
        <5>5. PICK i \in 1..Len(mailbox') : mailbox'[i].addr = s
          BY <2>1, <5>4, TakeHead DEF Claims, RegistrationInv, TypeOK, ServerTypeOK
        <5>6. i + 1 \in 1..Len(mailbox) /\ 1 < i + 1 /\ mailbox[i + 1].addr = s /\ 1 \in 1..Len(mailbox)
          BY <2>1, <5>5, TakeHead DEF RegistrationInv, TypeOK, ServerTypeOK
        <5>7. m.addr \in hbFailed
          BY <4>1, <5>3, <5>6 DEF RegistrationInv, QueueOrder
        <5>. QED
          BY <5>1, <5>7
      <4>. QED
        BY <4>3, <4>4
    <3>. QED
      BY <1>0, <2>1, <3>1, QueueAfterTake DEF RegistrationInv
  <2>. QED
    BY <1>1, <1>6, <2>1, <2>2, <2>3 DEF HandleDisconnect
<1>7. CASE Relay
  <2>1. Take("SignalReq") /\ Answer("Ok") /\ peers' = peers
    BY <1>7 DEF Relay
  <2>. QED
    BY <1>4, <2>1
<1>8. CASE RefuseRelay
  <2>1. Take("SignalReq") /\ Answer("PeerNotConnected") /\ peers' = peers
    BY <1>8 DEF RefuseRelay
  <2>. QED
    BY <1>4, <2>1
<1>. QED
  BY <1>3, <1>5, <1>6, <1>7, <1>8 DEF Server, ServerStep

\* The steps of a session that queue nothing keep RegistrationInv.
LEMMA RegistrationLocal ==
    ASSUME RegistrationInv, NEW s \in Session,
           \/ ConnectAccepted(s)
           \/ ConnectRefused(s)
           \/ HandleSignal(s)
           \/ RequestDone(s)
           \/ StreamEnds(s)
           \/ ConnectionLost(s)
           \/ Stopping(s) /\ ~is_active[s]
    PROVE  RegistrationInv'
<1>0. TypeOK'
  BY TypeStep DEF RegistrationInv, Next, Internal, External
<1>1. /\ mailbox \in Seq(Message) /\ peers' = peers /\ hbFailed' = hbFailed
      /\ reply \in [Session -> Reply] /\ phase \in [Session -> Phase] /\ is_active \in [Session -> BOOLEAN]
  BY DEF RegistrationInv, TypeOK, ServerTypeOK, ConnectAccepted, ConnectRefused, HandleSignal,
         RequestDone, StreamEnds, ConnectionLost, Stopping, sessionVars
<1>2. mailbox' = mailbox
  BY <1>1, ConcatEmptySeq DEF ConnectAccepted, ConnectRefused, HandleSignal, RequestDone,
         StreamEnds, ConnectionLost, Stopping, Farewell
<1>3. \A t \in Session : t # s =>
        phase'[t] = phase[t] /\ reply'[t] = reply[t] /\ is_active'[t] = is_active[t]
  BY <1>1 DEF ConnectAccepted, ConnectRefused, HandleSignal, RequestDone,
         StreamEnds, ConnectionLost, Stopping, Goto, TakeReply, sessionVars
<1>4. \/ /\ phase[s] = "connecting" /\ reply[s] = "Ok"
         /\ phase'[s] = "running" /\ reply'[s] = "none" /\ is_active'[s]
      \/ /\ phase[s] \in {"running", "waiting"} /\ phase'[s] = "running"
         /\ reply'[s] # "Ok" /\ is_active'[s] = is_active[s]
      \/ /\ phase[s] \in {"connecting", "running", "waiting"} /\ phase'[s] = "stopping"
         /\ reply'[s] # "Ok" /\ is_active'[s] = is_active[s]
         /\ reply[s] = "none" => reply'[s] = "none"
      \/ /\ phase[s] = "stopping" /\ phase'[s] = "stopped" /\ ~is_active[s]
         /\ reply'[s] = reply[s] /\ is_active'[s] = is_active[s]
  BY <1>1 DEF ConnectAccepted, ConnectRefused, HandleSignal, RequestDone, StreamEnds,
         ConnectionLost, Stopping, Goto, TakeReply, sessionVars, RegistrationInv,
         KnowledgeMatchesPhase
<1>5. QueueMatchesPhase'
  <2>. SUFFICES ASSUME NEW i \in 1..Len(mailbox)
                PROVE  LET n == mailbox[i] IN
                         /\ n.role = RoleOf(n.addr)
                         /\ phase'[n.addr] # "new"
                         /\ n.kind = "Connect" => ~is_active'[n.addr] /\ reply'[n.addr] = "none"
                         /\ n.kind # "Connect" => is_active'[n.addr]
                         /\ n.kind = "Disconnect" =>
                              phase'[n.addr] \in (IF n.addr \in hbFailed THEN {"stopping", "stopped"}
                                                  ELSE {"stopped"})
    BY <1>1, <1>2 DEF QueueMatchesPhase
  <2>1. mailbox[i] \in Message
    BY <1>1, ElementOfSeq
  <2>2. mailbox[i].addr \in Session
    BY <2>1 DEF Message
  <2>3. /\ mailbox[i].role = RoleOf(mailbox[i].addr)
        /\ phase[mailbox[i].addr] # "new"
        /\ mailbox[i].kind = "Connect" => ~is_active[mailbox[i].addr] /\ reply[mailbox[i].addr] = "none"
        /\ mailbox[i].kind # "Connect" => is_active[mailbox[i].addr]
        /\ mailbox[i].kind = "Disconnect" =>
             phase[mailbox[i].addr] \in (IF mailbox[i].addr \in hbFailed THEN {"stopping", "stopped"}
                                         ELSE {"stopped"})
    BY DEF RegistrationInv, QueueMatchesPhase
  <2>4. CASE mailbox[i].addr # s
    BY <1>3, <2>2, <2>3, <2>4
  <2>5. CASE mailbox[i].addr = s
    <3>1. phase[s] \in {"running", "waiting"} => is_active[s]
      BY DEF RegistrationInv, KnowledgeMatchesPhase
    <3>. QED
      BY <1>4, <2>3, <2>5, <3>1
  <2>. QED
    BY <2>4, <2>5
<1>6. QueueOrder'
  BY <1>1, <1>2 DEF RegistrationInv, QueueOrder
<1>7. KnowledgeMatchesPhase'
  BY <1>3, <1>4 DEF RegistrationInv, KnowledgeMatchesPhase
<1>8. ClaimantsAreRegistered'
  <2>. SUFFICES ASSUME NEW t \in Session, Claims(t)', ~HeartbeatFailedIn(RoleOf(t))
                PROVE  Claims(t)
    BY <1>1 DEF RegistrationInv, ClaimantsAreRegistered, HeartbeatFailedIn
  <2>1. CASE t # s
    BY <1>2, <1>3, <2>1 DEF Claims
  <2>2. CASE t = s
    <3>1. is_active'[s] /\ phase'[s] # "stopped" => Claims(s)
      BY <1>4 DEF Claims
    <3>2. ~(phase'[s] = "connecting" /\ reply'[s] = "Ok")
      BY <1>4
    <3>. QED
      BY <1>2, <2>2, <3>1, <3>2 DEF Claims
  <2>. QED
    BY <2>1, <2>2
<1>. QED
  BY <1>0, <1>5, <1>6, <1>7, <1>8 DEF RegistrationInv

\* The steps of a session that queue a message keep RegistrationInv.
LEMMA RegistrationSend ==
    ASSUME RegistrationInv, NEW s \in Session,
           \/ Start(s)
           \/ \E d \in Data : ReceiveText(s, d)
           \/ HeartbeatFails(s)
           \/ Stopping(s) /\ is_active[s]
    PROVE  RegistrationInv'
<1>0. TypeOK'
  BY TypeStep DEF RegistrationInv, Next, Internal, External
<1>1. /\ mailbox \in Seq(Message) /\ peers' = peers /\ reply' = reply /\ is_active' = is_active
      /\ reply \in [Session -> Reply] /\ phase \in [Session -> Phase] /\ is_active \in [Session -> BOOLEAN]
      /\ Len(mailbox) \in Nat /\ hbFailed \subseteq hbFailed'
  BY LenProperties DEF RegistrationInv, TypeOK, ServerTypeOK, Start, ReceiveText, HeartbeatFails,
         Stopping, sessionVars
<1>2. \A t \in Session : t # s => phase'[t] = phase[t] /\ (t \in hbFailed' <=> t \in hbFailed)
  BY <1>1 DEF Start, ReceiveText, HeartbeatFails, Stopping, Goto, sessionVars
\* The four cases, by what is queued and the phase the session goes through.
<1>. DEFINE Sends(m) ==
        /\ mailbox' = Append(mailbox, m) /\ m.addr = s /\ m.role = RoleOf(s)
        /\ \/ /\ m.kind = "Connect" /\ phase[s] = "new" /\ phase'[s] = "connecting"
              /\ hbFailed' = hbFailed
           \/ /\ m.kind = "SignalReq" /\ phase[s] = "running" /\ phase'[s] = "waiting"
              /\ hbFailed' = hbFailed
           \/ /\ m.kind = "Disconnect" /\ phase[s] = "running" /\ phase'[s] = "stopping"
              /\ s \in hbFailed'
           \/ /\ m.kind = "Disconnect" /\ phase[s] = "stopping" /\ phase'[s] = "stopped"
              /\ is_active[s] /\ hbFailed' = hbFailed
<1>3. PICK m \in Message : Sends(m)
  <2>1. CASE Start(s)
    BY <1>1, <2>1, Messages DEF Start, Goto, sessionVars
  <2>2. ASSUME NEW d \in Data, ReceiveText(s, d)
        PROVE  \E m \in Message : Sends(m)
    BY <1>1, <2>2, Messages DEF ReceiveText, Goto
  <2>3. CASE HeartbeatFails(s)
    BY <1>1, <2>3, Messages DEF HeartbeatFails, Goto
  <2>4. CASE Stopping(s) /\ is_active[s]
    BY <1>1, <2>4, Messages, ConcatOne DEF Stopping, Farewell, Goto, sessionVars
  <2>. QED
    BY <2>1, <2>2, <2>3, <2>4
<1>4. /\ Len(mailbox') = Len(mailbox) + 1
      /\ \A i \in 1..Len(mailbox) : mailbox'[i] = mailbox[i]
      /\ mailbox'[Len(mailbox) + 1] = m
  BY <1>1, <1>3, AddLast
<1>5. \A i \in 1..Len(mailbox) : mailbox[i].addr \in Session
  <2>. SUFFICES ASSUME NEW i \in 1..Len(mailbox) PROVE mailbox[i].addr \in Session
    OBVIOUS
  <2>1. mailbox[i] \in Message
    BY <1>1, ElementOfSeq
  <2>. QED
    BY <2>1 DEF Message
<1>6. /\ phase[s] \in {"running", "waiting"} => is_active[s]
      /\ phase[s] = "new" => ~is_active[s]
      /\ phase[s] \in {"new", "running", "stopping"} => reply[s] # "Ok"
  BY DEF RegistrationInv, KnowledgeMatchesPhase
<1>7. phase[s] = "new" => \A i \in 1..Len(mailbox) : mailbox[i].addr # s
  BY DEF RegistrationInv, QueueMatchesPhase
<1>8. phase[s] = "new" => reply[s] = "none"
  BY DEF RegistrationInv, KnowledgeMatchesPhase
<1>9. QueueMatchesPhase'
  <2>. SUFFICES ASSUME NEW i \in 1..Len(mailbox')
                PROVE  LET n == mailbox'[i] IN
                         /\ n.role = RoleOf(n.addr)
                         /\ phase'[n.addr] # "new"
                         /\ n.kind = "Connect" => ~is_active[n.addr] /\ reply[n.addr] = "none"
                         /\ n.kind # "Connect" => is_active[n.addr]
                         /\ n.kind = "Disconnect" =>
                              phase'[n.addr] \in (IF n.addr \in hbFailed' THEN {"stopping", "stopped"}
                                                  ELSE {"stopped"})
    BY <1>1 DEF QueueMatchesPhase
  <2>1. CASE i = Len(mailbox) + 1
    BY <1>3, <1>4, <1>6, <1>8, <2>1
  <2>2. CASE i \in 1..Len(mailbox)
    <3>1. LET n == mailbox[i] IN
            /\ n.role = RoleOf(n.addr) /\ phase[n.addr] # "new" /\ n.addr \in Session
            /\ n.kind = "Connect" => ~is_active[n.addr] /\ reply[n.addr] = "none"
            /\ n.kind # "Connect" => is_active[n.addr]
            /\ n.kind = "Disconnect" =>
                 phase[n.addr] \in (IF n.addr \in hbFailed THEN {"stopping", "stopped"}
                                    ELSE {"stopped"})
      BY <1>5, <2>2 DEF RegistrationInv, QueueMatchesPhase
    <3>. QED
      BY <1>1, <1>2, <1>3, <1>4, <2>2, <3>1
  <2>. QED
    BY <1>1, <1>4, <2>1, <2>2
<1>10. QueueOrder'
  <2>. SUFFICES ASSUME NEW i \in 1..Len(mailbox'), NEW j \in 1..Len(mailbox'),
                       i < j, mailbox'[i].addr = mailbox'[j].addr
                PROVE  /\ mailbox'[j].kind # "Connect"
                       /\ mailbox'[i].kind = "Disconnect" => mailbox'[i].addr \in hbFailed'
    BY DEF QueueOrder
  <2>1. i \in 1..Len(mailbox) /\ (j \in 1..Len(mailbox) \/ j = Len(mailbox) + 1)
    BY <1>1, <1>4
  <2>2. CASE j \in 1..Len(mailbox)
    BY <1>1, <1>4, <2>1, <2>2 DEF RegistrationInv, QueueOrder
  <2>3. CASE j = Len(mailbox) + 1
    <3>1. mailbox[i].addr = s /\ m.addr = s /\ mailbox'[i] = mailbox[i] /\ mailbox'[j] = m
      BY <1>3, <1>4, <2>1, <2>3
    <3>2. m.kind # "Connect"
      BY <1>3, <1>7, <2>1, <3>1
    <3>3. mailbox[i].kind = "Disconnect" => phase[s] \in {"stopping", "stopped"}
             /\ (s \notin hbFailed => phase[s] = "stopped")
      BY <2>1, <3>1 DEF RegistrationInv, QueueMatchesPhase
    <3>. QED
      BY <1>1, <1>3, <3>1, <3>2, <3>3
  <2>. QED
    BY <2>1, <2>2, <2>3
<1>11. KnowledgeMatchesPhase'
  BY <1>1, <1>2, <1>3, <1>6, <1>8 DEF RegistrationInv, KnowledgeMatchesPhase
<1>12. ClaimantsAreRegistered'
  <2>. SUFFICES ASSUME NEW t \in Session, Claims(t)', ~HeartbeatFailedIn(RoleOf(t))'
                PROVE  Claims(t) /\ ~HeartbeatFailedIn(RoleOf(t))
    BY <1>1 DEF RegistrationInv, ClaimantsAreRegistered
  <2>1. ~HeartbeatFailedIn(RoleOf(t))
    BY <1>1 DEF HeartbeatFailedIn
  <2>2. CASE t # s
    <3>1. \A i \in 1..Len(mailbox') : mailbox'[i].addr = t => i \in 1..Len(mailbox) /\ mailbox'[i] = mailbox[i]
      BY <1>1, <1>3, <1>4, <2>2
    <3>. QED
      BY <1>1, <1>2, <2>1, <2>2, <3>1 DEF Claims
  <2>3. CASE t = s
    <3>1. CASE m.kind = "Connect"
      <4>1. ~is_active[s] /\ reply[s] # "Ok"
        BY <1>3, <1>6, <3>1
      <4>2. \A i \in 1..Len(mailbox') : mailbox'[i].addr = s => mailbox'[i].kind = "Connect"
        BY <1>1, <1>3, <1>4, <1>7, <3>1
      <4>. QED
        BY <1>1, <2>3, <4>1, <4>2 DEF Claims
    <3>2. CASE m.kind # "Connect"
      BY <1>3, <1>6, <2>1, <2>3, <3>2 DEF Claims
    <3>. QED
      BY <3>1, <3>2
  <2>. QED
    BY <2>2, <2>3
<1>. QED
  BY <1>0, <1>9, <1>10, <1>11, <1>12 DEF RegistrationInv

\* RegistrationInv is an invariant of the system.
THEOREM RegistrationInvariant == Spec => []RegistrationInv
<1>1. Init => RegistrationInv
  <2>. SUFFICES ASSUME Init PROVE RegistrationInv
    OBVIOUS
  <2>1. TypeOK
    BY MaxTextsAssumption, EmptySeq DEF Init, ServerInit, TypeOK, ServerTypeOK, Phase, Reply
  <2>2. 1..Len(mailbox) = {}
    BY DEF Init, ServerInit
  <2>. QED
    BY <2>1, <2>2 DEF Init, ServerInit, RegistrationInv, QueueMatchesPhase, QueueOrder,
       KnowledgeMatchesPhase, ClaimantsAreRegistered, Claims
<1>2. RegistrationInv /\ [Next]_vars => RegistrationInv'
  <2>. SUFFICES ASSUME RegistrationInv, [Next]_vars PROVE RegistrationInv'
    OBVIOUS
  <2>1. CASE Server
    BY <2>1, RegistrationServer
  <2>2. ASSUME NEW s \in Session, Internal(s) \/ External(s)
        PROVE  RegistrationInv'
    BY <2>2, RegistrationLocal, RegistrationSend DEF Internal, External
  <2>3. CASE UNCHANGED vars
    BY <2>3 DEF vars, RegistrationInv, TypeOK, ServerTypeOK, QueueMatchesPhase, QueueOrder,
       KnowledgeMatchesPhase, ClaimantsAreRegistered, Claims, HeartbeatFailedIn
  <2>. QED
    BY <2>1, <2>2, <2>3 DEF Next
<1>. QED
  BY <1>1, <1>2, PTL DEF Spec

\* A session that was told it is connected holds the slot of its role for as
\* long as it runs, unless a heartbeat has failed in that role.
THEOREM ActiveStaysRegistered == Spec => []ActiveIsRegistered
<1>1. RegistrationInv => ActiveIsRegistered
  BY DEF RegistrationInv, ClaimantsAreRegistered, Claims, ActiveIsRegistered, Live
<1>. QED
  BY <1>1, RegistrationInvariant, PTL

\* Whoever has a relay request queued is the session registered in its role.
THEOREM RequestsAreGenuine == Spec => []RequestIsFromRegistered
<1>1. RegistrationInv => RequestIsFromRegistered
  <2>. SUFFICES ASSUME RegistrationInv, NEW i \in 1..Len(mailbox),
                       mailbox[i].kind = "SignalReq", ~HeartbeatFailedIn(mailbox[i].role)
                PROVE  peers[mailbox[i].role] = mailbox[i].addr
    BY DEF RequestIsFromRegistered
  <2>0. mailbox[i] \in Message
    BY ElementOfSeq DEF RegistrationInv, TypeOK, ServerTypeOK
  <2>1. mailbox[i].addr \in Session
    BY <2>0 DEF Message
  <2>2. Claims(mailbox[i].addr) /\ mailbox[i].role = RoleOf(mailbox[i].addr)
    BY DEF Claims, RegistrationInv, QueueMatchesPhase
  <2>. QED
    BY <2>1, <2>2 DEF RegistrationInv, ClaimantsAreRegistered
<1>. QED
  BY <1>1, RegistrationInvariant, PTL
=============================================================================
