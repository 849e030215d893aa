------------------------- MODULE SignalNoticesProofs -------------------------
(***************************************************************************)
(* Proofs about what the sessions of SignalSession are told, for any sets  *)
(* of sessions and texts: the notices a session gets track the slot of its *)
(* peer, a peer that has left is heard no more, and with both, slots and   *)
(* sessions implement Rendezvous.                                          *)
(***************************************************************************)
EXTENDS SignalSessionProofs

(***************************************************************************)
(* Streams: what a further message, a message in between, and the loss of  *)
(* the last ones do to Alternate, Quiet and the last notice.               *)
(***************************************************************************)

\* A further message keeps the notices alternating unless it is a notice like
\* the last one.
LEMMA AlternateAppend ==
    ASSUME NEW q \in Seq(Frame), NEW f \in Frame, Alternate(q),
           IsNotice(f) => \A i \in 1..Len(q) : IsLastNotice(q, i) => q[i].type # f.type
    PROVE  Alternate(Append(q, f))
<1>. DEFINE r == Append(q, f)
<1>1. Len(q) \in Nat /\ Len(r) = Len(q) + 1 /\ r[Len(q) + 1] = f
      /\ \A i \in 1..Len(q) : r[i] = q[i]
  BY AddLast
<1>. HIDE DEF r
<1>. SUFFICES ASSUME NEW i \in 1..Len(r), NEW j \in 1..Len(r), i < j,
                     IsNotice(r[i]), r[j].type = r[i].type
              PROVE  \E k \in i + 1..j - 1 : IsNotice(r[k]) /\ r[k].type # r[i].type
  BY DEF Alternate, r
<1>2. i \in 1..Len(q) /\ r[i] = q[i]
  BY <1>1
<1>3. CASE j \in 1..Len(q)
  <2>1. PICK k \in i + 1..j - 1 : IsNotice(q[k]) /\ q[k].type # q[i].type
    BY <1>1, <1>2, <1>3 DEF Alternate
  <2>. QED
    BY <1>1, <1>2, <1>3, <2>1
<1>4. CASE j = Len(q) + 1
  <2>1. IsNotice(f) /\ q[i].type = f.type
    BY <1>1, <1>2, <1>4 DEF IsNotice
  <2>2. ~IsLastNotice(q, i)
    BY <1>2, <2>1
  <2>3. PICK k \in i + 1..Len(q) : IsNotice(q[k])
    BY <1>2, <2>2 DEF IsLastNotice
  <2>4. CASE q[k].type # q[i].type
    BY <1>1, <1>2, <1>4, <2>3, <2>4
  <2>5. CASE q[k].type = q[i].type
    <3>1. PICK l \in i + 1..k - 1 : IsNotice(q[l]) /\ q[l].type # q[i].type
      BY <1>1, <1>2, <2>3, <2>5 DEF Alternate
    <3>. QED
      BY <1>1, <1>2, <1>4, <2>3, <3>1
  <2>. QED
    BY <2>4, <2>5
<1>. QED
  BY <1>1, <1>3, <1>4

\* A further signal keeps the quiet if it is, or comes after, an arrival.
LEMMA QuietAppend ==
    ASSUME NEW q \in Seq(Frame), NEW f \in Frame, Alternate(q), Quiet(q),
           \/ f.type = "PeerConnected"
           \/ \A i \in 1..Len(q) : IsLastNotice(q, i) => q[i].type = "PeerConnected"
    PROVE  Quiet(Append(q, f))
<1>. DEFINE r == Append(q, f)
<1>1. Len(q) \in Nat /\ Len(r) = Len(q) + 1 /\ r[Len(q) + 1] = f
      /\ \A i \in 1..Len(q) : r[i] = q[i]
  BY AddLast
<1>. HIDE DEF r
<1>. SUFFICES ASSUME NEW i \in 1..Len(r), NEW j \in 1..Len(r), i < j,
                     r[i].type = "PeerDisconnected", IsSignal(r[j])
              PROVE  \E k \in i + 1..j : r[k].type = "PeerConnected"
  BY DEF Quiet, r
<1>2. i \in 1..Len(q) /\ r[i] = q[i]
  BY <1>1
<1>3. CASE j \in 1..Len(q)
  <2>1. PICK k \in i + 1..j : q[k].type = "PeerConnected"
    BY <1>1, <1>2, <1>3 DEF Quiet
  <2>. QED
    BY <1>1, <1>2, <1>3, <2>1
<1>4. CASE j = Len(q) + 1 /\ f.type = "PeerConnected"
  BY <1>1, <1>2, <1>4
<1>5. CASE j = Len(q) + 1 /\ f.type # "PeerConnected"
  <2>1. IsNotice(q[i]) /\ ~IsLastNotice(q, i)
    BY <1>2, <1>5 DEF IsNotice
  <2>2. PICK k \in i + 1..Len(q) : IsNotice(q[k])
    BY <2>1 DEF IsLastNotice
  <2>3. CASE q[k].type = "PeerConnected"
    BY <1>1, <1>2, <1>5, <2>2, <2>3
  <2>4. CASE q[k].type = "PeerDisconnected"
    <3>1. PICK l \in i + 1..k - 1 : IsNotice(q[l]) /\ q[l].type # q[i].type
      BY <1>1, <1>2, <2>1, <2>2, <2>4 DEF Alternate
    <3>2. q[l].type = "PeerConnected"
      BY <1>2, <3>1 DEF IsNotice
    <3>. QED
      BY <1>1, <1>2, <1>5, <2>2, <3>1, <3>2
  <2>. QED
    BY <2>2, <2>3, <2>4 DEF IsNotice
<1>. QED
  BY <1>1, <1>3, <1>4, <1>5

\* The last notice after a further message: that message, or what it was.
LEMMA LastAppend ==
    ASSUME NEW q \in Seq(Frame), NEW f \in Frame, NEW i \in 1..Len(Append(q, f)),
           IsLastNotice(Append(q, f), i)
    PROVE  \/ IsNotice(f) /\ Append(q, f)[i] = f
           \/ ~IsNotice(f) /\ i \in 1..Len(q) /\ IsLastNotice(q, i) /\ Append(q, f)[i] = q[i]
<1>. DEFINE r == Append(q, f)
<1>1. Len(q) \in Nat /\ Len(r) = Len(q) + 1 /\ r[Len(q) + 1] = f
      /\ \A j \in 1..Len(q) : r[j] = q[j]
  BY AddLast
<1>2. IsNotice(r[i]) /\ \A j \in i + 1..Len(r) : ~IsNotice(r[j])
  BY DEF IsLastNotice
<1>. HIDE DEF r
<1>3. CASE IsNotice(f)
  <2>1. i = Len(q) + 1
    BY <1>1, <1>2, <1>3 DEF r
  <2>. QED
    BY <1>1, <1>3, <2>1 DEF r
<1>4. CASE ~IsNotice(f)
  <2>1. i \in 1..Len(q) /\ r[i] = q[i]
    BY <1>1, <1>2, <1>4 DEF r
  <2>2. \A j \in i + 1..Len(q) : ~IsNotice(q[j])
    BY <1>1, <1>2, <2>1
  <2>. QED
    BY <1>2, <1>4, <2>1, <2>2 DEF r, IsLastNotice
<1>. QED
  BY <1>3, <1>4

\* r is q with a message that is no signal after the first n.
Inserted(q, r, n) ==
    /\ Len(r) = Len(q) + 1
    /\ \A i \in 1..n : r[i] = q[i]
    /\ ~IsSignal(r[n + 1])
    /\ \A i \in n + 1..Len(q) : r[i + 1] = q[i]

\* It is inserted when a session writes it while signals are in its inbox.
LEMMA InsertError ==
    ASSUME NEW a \in Seq(Frame), NEW b \in Seq(Frame), NEW e \in Frame, ~IsSignal(e)
    PROVE  Inserted(a \o b, Append(a, e) \o b, Len(a))
<1>. DEFINE c == Append(a, e)
            q == a \o b
            r == c \o b
<1>1. c \in Seq(Frame) /\ Len(a) \in Nat /\ Len(b) \in Nat /\ Len(c) = Len(a) + 1
      /\ \A i \in 1..Len(a) + 1 : c[i] = IF i <= Len(a) THEN a[i] ELSE e
  BY AddLast, LenProperties
<1>. HIDE DEF c
<1>2. Len(q) = Len(a) + Len(b)
      /\ \A i \in 1..Len(a) + Len(b) : q[i] = IF i <= Len(a) THEN a[i] ELSE b[i - Len(a)]
  BY ConcatProperties
<1>3. Len(r) = Len(c) + Len(b)
      /\ \A i \in 1..Len(c) + Len(b) : r[i] = IF i <= Len(c) THEN c[i] ELSE b[i - Len(c)]
  BY <1>1, ConcatProperties
<1>. HIDE DEF q, r
<1>4. ASSUME NEW i \in 1..Len(a)
      PROVE  r[i] = q[i]
  <2>1. q[i] = a[i]
    BY <1>1, <1>2
  <2>2. i \in 1..Len(c) + Len(b) /\ i <= Len(c) /\ c[i] = a[i]
    BY <1>1
  <2>. QED
    BY <1>3, <2>1, <2>2
<1>5. r[Len(a) + 1] = e
  BY <1>1, <1>3
<1>6. ASSUME NEW i \in Len(a) + 1..Len(q)
      PROVE  r[i + 1] = q[i]
  <2>1. q[i] = b[i - Len(a)]
    BY <1>1, <1>2
  <2>2. i + 1 \in 1..Len(c) + Len(b) /\ ~(i + 1 <= Len(c)) /\ (i + 1) - Len(c) = i - Len(a)
    BY <1>1, <1>2
  <2>3. r[i + 1] = b[(i + 1) - Len(c)]
    BY <1>3, <2>2
  <2>. QED
    BY <2>1, <2>2, <2>3
<1>. QED
  BY <1>1, <1>2, <1>3, <1>4, <1>5, <1>6 DEF Inserted, c, q, r

\* What is no signal changes nothing of what is said of signals.
LEMMA InsertKeeps ==
    ASSUME NEW q \in Seq(Frame), NEW r \in Seq(Frame), NEW n \in 0..Len(q), Inserted(q, r, n)
    PROVE  /\ Alternate(q) => Alternate(r)
           /\ Quiet(q) => Quiet(r)
           /\ \A i \in 1..Len(r) : IsLastNotice(r, i) =>
                  \E j \in 1..Len(q) : IsLastNotice(q, j) /\ r[i] = q[j]
<1>. DEFINE old(i) == IF i <= n THEN i ELSE i - 1
            new(i) == IF i <= n THEN i ELSE i + 1
<1>1. Len(q) \in Nat /\ Len(r) = Len(q) + 1 /\ n \in Nat
  BY LenProperties DEF Inserted
<1>2. \A i \in 1..Len(r) : IsSignal(r[i]) => i # n + 1
  BY DEF Inserted
<1>3. \A i \in 1..Len(r) : i # n + 1 => old(i) \in 1..Len(q) /\ r[i] = q[old(i)] /\ new(old(i)) = i
  <2>. SUFFICES ASSUME NEW i \in 1..Len(r), i # n + 1
                PROVE  old(i) \in 1..Len(q) /\ r[i] = q[old(i)] /\ new(old(i)) = i
    OBVIOUS
  <2>1. CASE i <= n
    BY <1>1, <2>1 DEF Inserted
  <2>2. CASE i > n
    <3>1. i - 1 \in n + 1..Len(q) /\ (i - 1) + 1 = i
      BY <1>1, <2>2
    <3>2. r[(i - 1) + 1] = q[i - 1]
      BY <3>1 DEF Inserted
    <3>. QED
      BY <1>1, <2>2, <3>1, <3>2
  <2>. QED
    BY <1>1, <2>1, <2>2
<1>4. \A i \in 1..Len(q) : new(i) \in 1..Len(r) /\ r[new(i)] = q[i]
  BY <1>1 DEF Inserted
<1>5. /\ \A i, j \in 1..Len(r) : i < j /\ i # n + 1 /\ j # n + 1 => old(i) < old(j)
      /\ \A i, j \in 1..Len(q) : i < j => new(i) < new(j)
  BY <1>1
<1>6. \A f : IsNotice(f) => IsSignal(f)
  BY DEF IsNotice, IsSignal
<1>7. \A f : f.type = "PeerDisconnected" \/ f.type = "PeerConnected" => IsNotice(f)
  BY DEF IsNotice
<1>8. \A i \in 1..Len(r) : old(i) \in Int /\ new(i) \in Int
  BY <1>1
<1>. HIDE DEF old, new
<1>9. ASSUME Alternate(q)
      PROVE  Alternate(r)
  <2>. SUFFICES ASSUME NEW i \in 1..Len(r), NEW j \in 1..Len(r), i < j,
                       IsNotice(r[i]), r[j].type = r[i].type
                PROVE  \E k \in i + 1..j - 1 : IsNotice(r[k]) /\ r[k].type # r[i].type
    BY DEF Alternate
  <2>1. IsNotice(r[j])
    BY DEF IsNotice
  <2>2. /\ old(i) \in 1..Len(q) /\ r[i] = q[old(i)] /\ new(old(i)) = i
        /\ old(j) \in 1..Len(q) /\ r[j] = q[old(j)] /\ new(old(j)) = j
        /\ old(i) < old(j)
    BY <1>2, <1>3, <1>5, <1>6, <2>1
  <2>3. PICK k \in old(i) + 1..old(j) - 1 : IsNotice(q[k]) /\ q[k].type # q[old(i)].type
    BY <1>9, <2>2 DEF Alternate
  <2>4. k \in 1..Len(q) /\ old(i) < k /\ k < old(j)
    BY <1>1, <2>2
  <2>5. i < new(k) /\ new(k) < j /\ new(k) \in 1..Len(r) /\ r[new(k)] = q[k]
    BY <1>4, <1>5, <2>2, <2>4
  <2>6. new(k) \in i + 1..j - 1
    BY <1>1, <2>5
  <2>. QED
    BY <2>2, <2>3, <2>5, <2>6
<1>10. ASSUME Quiet(q)
       PROVE  Quiet(r)
  <2>. SUFFICES ASSUME NEW i \in 1..Len(r), NEW j \in 1..Len(r), i < j,
                       r[i].type = "PeerDisconnected", IsSignal(r[j])
                PROVE  \E k \in i + 1..j : r[k].type = "PeerConnected"
    BY DEF Quiet
  <2>1. /\ old(i) \in 1..Len(q) /\ r[i] = q[old(i)] /\ new(old(i)) = i
        /\ old(j) \in 1..Len(q) /\ r[j] = q[old(j)] /\ new(old(j)) = j
        /\ old(i) < old(j)
    BY <1>2, <1>3, <1>5, <1>6, <1>7
  <2>2. PICK k \in old(i) + 1..old(j) : q[k].type = "PeerConnected"
    BY <1>10, <2>1 DEF Quiet
  <2>3. k \in 1..Len(q) /\ old(i) < k /\ (k < old(j) \/ k = old(j))
    BY <1>1, <2>1
  <2>4. i < new(k) /\ (new(k) < j \/ new(k) = j) /\ new(k) \in 1..Len(r) /\ r[new(k)] = q[k]
    BY <1>4, <1>5, <2>1, <2>3
  <2>5. new(k) \in i + 1..j
    BY <1>1, <2>4
  <2>. QED
    BY <2>2, <2>4, <2>5
<1>11. ASSUME NEW i \in 1..Len(r), IsLastNotice(r, i)
       PROVE  \E j \in 1..Len(q) : IsLastNotice(q, j) /\ r[i] = q[j]
  <2>1. IsNotice(r[i]) /\ old(i) \in 1..Len(q) /\ r[i] = q[old(i)] /\ new(old(i)) = i
    BY <1>2, <1>3, <1>6, <1>11 DEF IsLastNotice
  <2>2. ASSUME NEW k \in old(i) + 1..Len(q), IsNotice(q[k])
        PROVE  FALSE
    <3>1. k \in 1..Len(q) /\ old(i) < k
      BY <1>1, <2>1
    <3>2. new(k) \in 1..Len(r) /\ r[new(k)] = q[k] /\ i < new(k)
      BY <1>4, <1>5, <2>1, <3>1
    <3>3. new(k) \in i + 1..Len(r)
      BY <1>1, <3>2
    <3>. QED
      BY <1>11, <2>2, <3>2, <3>3 DEF IsLastNotice
  <2>. QED
    BY <2>1, <2>2 DEF IsLastNotice
<1>. QED
  BY <1>9, <1>10, <1>11

\* What a session has read of its stream alternates and is quiet if the whole is.
LEMMA PrefixKeeps ==
    ASSUME NEW a \in Seq(Frame), NEW b \in Seq(Frame)
    PROVE  /\ Alternate(a \o b) => Alternate(a)
           /\ Quiet(a \o b) => Quiet(a)
<1>. DEFINE q == a \o b
<1>1. Len(a) \in Nat /\ Len(q) \in Nat /\ Len(q) >= Len(a)
      /\ \A i \in 1..Len(a) : q[i] = a[i]
  BY ConcatProperties, LenProperties
<1>. HIDE DEF q
<1>2. 1..Len(a) \subseteq 1..Len(q)
  BY <1>1
<1>3. ASSUME Alternate(q)
      PROVE  Alternate(a)
  <2>. SUFFICES ASSUME NEW i \in 1..Len(a), NEW j \in 1..Len(a), i < j,
                       IsNotice(a[i]), a[j].type = a[i].type
                PROVE  \E k \in i + 1..j - 1 : IsNotice(a[k]) /\ a[k].type # a[i].type
    BY DEF Alternate
  <2>1. PICK k \in i + 1..j - 1 : IsNotice(q[k]) /\ q[k].type # q[i].type
    BY <1>1, <1>2, <1>3 DEF Alternate
  <2>2. k \in 1..Len(a)
    BY <1>1
  <2>. QED
    BY <1>1, <2>1, <2>2
<1>4. ASSUME Quiet(q)
      PROVE  Quiet(a)
  <2>. SUFFICES ASSUME NEW i \in 1..Len(a), NEW j \in 1..Len(a), i < j,
                       a[i].type = "PeerDisconnected", IsSignal(a[j])
                PROVE  \E k \in i + 1..j : a[k].type = "PeerConnected"
    BY DEF Quiet
  <2>1. PICK k \in i + 1..j : q[k].type = "PeerConnected"
    BY <1>1, <1>2, <1>4 DEF Quiet
  <2>2. k \in 1..Len(a)
    BY <1>1
  <2>. QED
    BY <1>1, <2>1, <2>2
<1>. QED
  BY <1>3, <1>4 DEF q

(***************************************************************************)
(* The invariant.                                                          *)
(***************************************************************************)

\* A session the server has not heard of yet, though it may have gone already.
Newcomer(s) ==
    \/ phase[s] = "new"
    \/ \E i \in 1..Len(mailbox) : mailbox[i].kind = "Connect" /\ mailbox[i].addr = s

NewcomersUntold ==
    \A s \in Session : Newcomer(s) => out[s] = <<>> /\ inbox[s] = <<>> /\ peers[RoleOf(s)] # s

SlotsOfRole == \A r \in Role : peers[r] # NoPeer => RoleOf(peers[r]) = r

\* What the two properties say of one session.
Told(s) ==
    /\ Alternate(Stream(s))
    /\ peers[RoleOf(s)] = s /\ AddrOpen(s) =>
         \A i \in 1..Len(Stream(s)) : IsLastNotice(Stream(s), i) =>
            (Stream(s)[i].type = "PeerConnected" <=> peers[Other(RoleOf(s))] # NoPeer)
    /\ ~HeartbeatFailedIn(Other(RoleOf(s))) => Quiet(Stream(s))

NoticeInv == NewcomersUntold /\ SlotsOfRole /\ \A s \in Session : Told(s)

LEMMA ToldTypes ==
    /\ Signal \subseteq Frame
    /\ \A f \in Signal : [type |-> f.type, data |-> f.data] = f
    /\ \A t \in {"ALREADY_CONNECTED", "PEER_NOT_CONNECTED"} :
            Notice(t) \in Frame /\ ~IsSignal(Notice(t))
    /\ \A d : ToSignal(d).type = "Data" /\ ~IsNotice(ToSignal(d))
    /\ \A t \in {"PeerConnected", "PeerDisconnected"} :
            Notice(t).type = t /\ IsNotice(Notice(t)) /\ Notice(t) \in Signal
BY DEF Signal, Frame, Notice, ToSignal, IsSignal, IsNotice

LEMMA StreamTypes ==
    ASSUME TypeOK, NEW s \in Session
    PROVE  /\ out[s] \in Seq(Frame) /\ inbox[s] \in Seq(Signal) /\ inbox[s] \in Seq(Frame)
           /\ Stream(s) \in Seq(Frame) /\ Len(Stream(s)) \in Nat
<1>1. out[s] \in Seq(Frame) /\ inbox[s] \in Seq(Signal)
  BY DEF TypeOK, ServerTypeOK
<1>2. inbox[s] \in Seq(Frame)
  BY <1>1, ToldTypes, SeqMonotonic
<1>. QED
  BY <1>1, <1>2, ConcatProperties, LenProperties DEF Stream

\* A signal the server sends is the last of the stream of the one it is sent to.
LEMMA TellStream ==
    ASSUME TypeOK, NEW r \in Role, NEW sig \in Signal, inbox' = Tell(r, sig), out' = out,
           NEW s \in Session
    PROVE  /\ s = peers[r] /\ AddrOpen(s) => Stream(s)' = Append(Stream(s), sig)
           /\ ~(s = peers[r] /\ AddrOpen(s)) => inbox'[s] = inbox[s] /\ Stream(s)' = Stream(s)
<1>0. inbox \in [Session -> Seq(Signal)]
  BY DEF TypeOK, ServerTypeOK
<1>1. CASE s = peers[r] /\ AddrOpen(s)
  <2>1. s # NoPeer
    BY SignalAssumption
  <2>2. inbox'[s] = Append(inbox[s], sig)
    BY <1>0, <1>1, <2>1 DEF Tell
  <2>3. inbox[s] \in Seq(Frame) /\ out[s] \in Seq(Frame) /\ sig \in Frame
    BY StreamTypes, ToldTypes
  <2>4. \A a, b \in Seq(Frame), f \in Frame : a \o Append(b, f) = Append(a \o b, f)
    <3>. SUFFICES ASSUME NEW a \in Seq(Frame), NEW b \in Seq(Frame), NEW f \in Frame
                  PROVE  a \o Append(b, f) = Append(a \o b, f)
      OBVIOUS
    <3>. DEFINE one == <<f>>
    <3>1. one \in Seq(Frame) /\ a \o b \in Seq(Frame)
      BY ConcatProperties
    <3>2. Append(b, f) = b \o one /\ Append(a \o b, f) = (a \o b) \o one
      BY <3>1, ConcatOne
    <3>. HIDE DEF one
    <3>3. (a \o b) \o one = a \o (b \o one)
      BY <3>1, ConcatAssociative
    <3>. QED
      BY <3>2, <3>3
  <2>5. out[s] \o Append(inbox[s], sig) = Append(out[s] \o inbox[s], sig)
    BY <2>3, <2>4
  <2>6. Stream(s)' = out[s] \o inbox'[s]
    BY DEF Stream
  <2>. QED
    BY <1>1, <2>2, <2>5, <2>6 DEF Stream
<1>2. CASE ~(s = peers[r] /\ AddrOpen(s))
  <2>1. inbox'[s] = inbox[s]
    BY <1>0, <1>2 DEF Tell
  <2>. QED
    BY <1>2, <2>1 DEF Stream
<1>. QED
  BY <1>1, <1>2

\* A signal that fits what its addressee was told last keeps it told rightly:
\* seats is whether there is a peer afterwards.
LEMMA ToldAppend ==
    ASSUME TypeOK, NEW s \in Session, Told(s), NEW sig \in Signal,
           peers[RoleOf(s)] = s, AddrOpen(s), Stream(s)' = Append(Stream(s), sig),
           hbFailed' = hbFailed,
           \/ /\ sig = Notice("PeerConnected")
              /\ peers[Other(RoleOf(s))] = NoPeer /\ peers'[Other(RoleOf(s))] # NoPeer
           \/ /\ sig = Notice("PeerDisconnected")
              /\ peers[Other(RoleOf(s))] # NoPeer /\ peers'[Other(RoleOf(s))] = NoPeer
           \/ /\ ~IsNotice(sig) /\ peers' = peers
              /\ ~HeartbeatFailedIn(Other(RoleOf(s))) => peers[Other(RoleOf(s))] # NoPeer
    PROVE  Told(s)'
<1>. DEFINE q == Stream(s)
            there == peers[Other(RoleOf(s))] # NoPeer
<1>1. q \in Seq(Frame) /\ sig \in Frame /\ Len(q) \in Nat
  BY StreamTypes, ToldTypes
<1>2. /\ Alternate(q)
      /\ \A i \in 1..Len(q) : IsLastNotice(q, i) => (q[i].type = "PeerConnected" <=> there)
      /\ ~HeartbeatFailedIn(Other(RoleOf(s))) => Quiet(q)
  BY DEF Told
<1>. HIDE DEF q
<1>3. IsNotice(sig) => \A i \in 1..Len(q) : IsLastNotice(q, i) => q[i].type # sig.type
  <2>. SUFFICES ASSUME IsNotice(sig), NEW i \in 1..Len(q), IsLastNotice(q, i), q[i].type = sig.type
                PROVE  FALSE
    OBVIOUS
  <2>. QED
    BY <1>2, ToldTypes
<1>4. Alternate(Append(q, sig))
  BY <1>1, <1>2, <1>3, AlternateAppend
<1>5. ~HeartbeatFailedIn(Other(RoleOf(s))) => Quiet(Append(q, sig))
  <2>. SUFFICES ASSUME ~HeartbeatFailedIn(Other(RoleOf(s)))
                PROVE  Quiet(Append(q, sig))
    OBVIOUS
  <2>1. sig.type = "PeerConnected" \/ \A i \in 1..Len(q) : IsLastNotice(q, i) => q[i].type = "PeerConnected"
    BY <1>2, ToldTypes
  <2>. QED
    BY <1>1, <1>2, <2>1, QuietAppend
<1>6. ASSUME NEW i \in 1..Len(Append(q, sig)), IsLastNotice(Append(q, sig), i)
      PROVE  Append(q, sig)[i].type = "PeerConnected" <=> peers'[Other(RoleOf(s))] # NoPeer
  <2>1. CASE IsNotice(sig) /\ Append(q, sig)[i] = sig
    BY <2>1, ToldTypes
  <2>2. CASE ~IsNotice(sig) /\ i \in 1..Len(q) /\ IsLastNotice(q, i) /\ Append(q, sig)[i] = q[i]
    BY <1>2, <2>2, ToldTypes
  <2>. QED
    BY <1>1, <1>6, <2>1, <2>2, LastAppend
<1>7. HeartbeatFailedIn(Other(RoleOf(s)))' <=> HeartbeatFailedIn(Other(RoleOf(s)))
  BY DEF HeartbeatFailedIn
<1>. QED
  BY <1>4, <1>5, <1>6, <1>7 DEF Told, q

\* What was rightly told stays so while the stream stays, unless the session or
\* its peer is registered anew.
LEMMA ToldKept ==
    ASSUME NEW s \in Session, Told(s), Stream(s)' = Stream(s), hbFailed \subseteq hbFailed',
           (peers[RoleOf(s)] = s /\ AddrOpen(s))' =>
               /\ peers[RoleOf(s)] = s /\ AddrOpen(s)
               /\ peers'[Other(RoleOf(s))] = NoPeer <=> peers[Other(RoleOf(s))] = NoPeer
    PROVE  Told(s)'
<1>. DEFINE q == Stream(s)
<1>1. HeartbeatFailedIn(Other(RoleOf(s))) => HeartbeatFailedIn(Other(RoleOf(s)))'
  BY DEF HeartbeatFailedIn
<1>2. /\ Alternate(q)
      /\ peers[RoleOf(s)] = s /\ AddrOpen(s) =>
           \A i \in 1..Len(q) : IsLastNotice(q, i) =>
              (q[i].type = "PeerConnected" <=> peers[Other(RoleOf(s))] # NoPeer)
      /\ ~HeartbeatFailedIn(Other(RoleOf(s))) => Quiet(q)
  BY DEF Told
<1>3. Stream(s)' = q
  OBVIOUS
<1>. HIDE DEF q
<1>. QED
  BY <1>1, <1>2, <1>3 DEF Told

\* Nothing wrong has been told to a session that was told nothing.
LEMMA EmptyTold ==
    ASSUME NEW s \in Session, Stream(s)' = <<>>
    PROVE  Told(s)'
<1>1. 1..Len(Stream(s)') = {}
  OBVIOUS
<1>. QED
  BY <1>1 DEF Told, Alternate, Quiet

(***************************************************************************)
(* NoticeInv is inductive.                                                 *)
(***************************************************************************)

\* What is known of the message a handler takes, and of the newcomers then.
LEMMA TakeFacts ==
    ASSUME RegistrationInv, NoticeInv, NEW kind, Take(kind)
    PROVE  /\ Head(mailbox) = mailbox[1] /\ mailbox[1].kind = kind
           /\ mailbox[1].addr \in Session /\ mailbox[1].role \in Role
           /\ mailbox[1].role = RoleOf(mailbox[1].addr)
           /\ mailbox[1].data \in Data \cup {NoData}
           /\ phase' = phase
           /\ \A s \in Session : Newcomer(s)' =>
                Newcomer(s) /\ (kind = "Connect" => s # mailbox[1].addr)
           /\ kind = "Connect" => Newcomer(mailbox[1].addr)
<1>1. /\ mailbox \in Seq(Message) /\ Len(mailbox) \in Nat /\ Len(mailbox) > 0
      /\ Head(mailbox) = mailbox[1] /\ mailbox[1].kind = kind
      /\ mailbox[1].addr \in Session /\ mailbox[1].role \in Role
      /\ mailbox[1].data \in Data \cup {NoData}
      /\ Len(mailbox') = Len(mailbox) - 1
      /\ \A i \in 1..Len(mailbox') : mailbox'[i] = mailbox[i + 1]
      /\ phase' = phase
  BY TakeHead DEF RegistrationInv, TypeOK, ServerTypeOK
<1>2. 1 \in 1..Len(mailbox)
  BY <1>1
<1>3. mailbox[1].role = RoleOf(mailbox[1].addr) /\ phase[mailbox[1].addr] # "new"
  BY <1>2 DEF RegistrationInv, QueueMatchesPhase
<1>4. ASSUME NEW s \in Session, Newcomer(s)'
      PROVE  Newcomer(s) /\ (kind = "Connect" => s # mailbox[1].addr)
  <2>1. CASE phase[s] = "new"
    BY <1>3, <2>1 DEF Newcomer
  <2>2. CASE phase[s] # "new"
    <3>1. PICK i \in 1..Len(mailbox') : mailbox'[i].kind = "Connect" /\ mailbox'[i].addr = s
      BY <1>1, <1>4, <2>2 DEF Newcomer
    <3>2. i + 1 \in 1..Len(mailbox) /\ 1 < i + 1 /\ mailbox[i + 1] = mailbox'[i]
      BY <1>1
    <3>3. mailbox[1].addr # s
      BY <1>2, <3>1, <3>2 DEF RegistrationInv, QueueOrder
    <3>. QED
      BY <3>1, <3>2, <3>3 DEF Newcomer
  <2>. QED
    BY <2>1, <2>2
<1>. QED
  BY <1>1, <1>2, <1>3, <1>4 DEF Newcomer

\* The handlers of the server keep NoticeInv.
LEMMA NoticeServer ==
    ASSUME RegistrationInv, NoticeInv, Server
    PROVE  NoticeInv'
<1>. DEFINE m == mailbox[1]
<1>1. /\ TypeOK /\ UNCHANGED sessionVars /\ out' = out /\ hbFailed' = hbFailed
      /\ peers \in [Role -> Session \cup {NoPeer}]
      /\ \A s \in Session : s # NoPeer
  BY SignalAssumption DEF RegistrationInv, TypeOK, ServerTypeOK, Server, sessionVars
<1>2. /\ \A s \in Session : RoleOf(s) \in Role /\ Told(s)
      /\ \A r \in Role : Other(r) \in Role /\ Other(r) # r /\ Other(Other(r)) = r
      /\ \A r, x \in Role : x = r \/ x = Other(r)
      /\ SlotsOfRole
  BY Roles DEF NoticeInv, Role, Other
<1>3. \A s \in Session : Newcomer(s) => Stream(s) = <<>> /\ out[s] = <<>> /\ inbox[s] = <<>> /\ peers[RoleOf(s)] # s
  <2>. SUFFICES ASSUME NEW s \in Session, Newcomer(s)
                PROVE  Stream(s) = <<>> /\ out[s] = <<>> /\ inbox[s] = <<>> /\ peers[RoleOf(s)] # s
    OBVIOUS
  <2>1. out[s] = <<>> /\ inbox[s] = <<>> /\ peers[RoleOf(s)] # s
    BY DEF NoticeInv, NewcomersUntold
  <2>. QED
    BY <2>1, ConcatEmptySeq DEF Stream
\* A handler that changes no slot and tells nobody anything.
<1>4. ASSUME NEW kind, Take(kind), peers' = peers, inbox' = inbox
      PROVE  NoticeInv'
  <2>1. phase' = phase /\ \A s \in Session : Newcomer(s)' => Newcomer(s)
    BY <1>4, TakeFacts
  <2>2. \A s \in Session : Stream(s)' = Stream(s) /\ (AddrOpen(s)' <=> AddrOpen(s))
    BY <1>1, <1>4, <2>1 DEF Stream, AddrOpen
  <2>3. \A s \in Session : Told(s)'
    BY <1>1, <1>2, <1>4, <2>2, ToldKept
  <2>. QED
    BY <1>1, <1>2, <1>3, <1>4, <2>1, <2>3 DEF NoticeInv, NewcomersUntold, SlotsOfRole
<1>5. CASE AcceptConnect
  <2>1. /\ Take("Connect") /\ Head(mailbox) = m /\ m.kind = "Connect"
        /\ m.addr \in Session /\ m.role \in Role /\ m.role = RoleOf(m.addr)
        /\ phase' = phase
        /\ \A s \in Session : Newcomer(s)' => Newcomer(s) /\ s # m.addr
        /\ Newcomer(m.addr)
    BY <1>5, TakeFacts DEF AcceptConnect
  <2>2. /\ peers[m.role] = NoPeer /\ peers' = [peers EXCEPT ![m.role] = m.addr]
        /\ inbox' = Tell(Other(m.role), Notice("PeerConnected"))
    BY <1>5, <2>1 DEF AcceptConnect, SlotFree
  <2>. HIDE DEF m
  <2>3. /\ peers'[m.role] = m.addr /\ \A r \in Role : r # m.role => peers'[r] = peers[r]
    BY <1>1, <2>1, <2>2
  <2>4. \A s \in Session :
          /\ s = peers[Other(m.role)] /\ AddrOpen(s) =>
                Stream(s)' = Append(Stream(s), Notice("PeerConnected"))
          /\ ~(s = peers[Other(m.role)] /\ AddrOpen(s)) =>
                inbox'[s] = inbox[s] /\ Stream(s)' = Stream(s)
    BY <1>1, <1>2, <2>1, <2>2, ToldTypes, TellStream
  <2>5. \A s \in Session : AddrOpen(s)' <=> AddrOpen(s)
    BY <2>1 DEF AddrOpen
  <2>6. ASSUME NEW s \in Session, s = peers[Other(m.role)]
        PROVE  RoleOf(s) = Other(m.role) /\ s # m.addr
    BY <1>1, <1>2, <2>1, <2>6 DEF SlotsOfRole
  <2>7. ASSUME NEW s \in Session
        PROVE  Told(s)'
    <3>1. CASE s = m.addr
      <4>1. Stream(s)' = <<>>
        BY <1>3, <2>1, <2>4, <2>6, <3>1
      <4>. QED
        BY <4>1, EmptyTold
    <3>2. CASE s = peers[Other(m.role)] /\ AddrOpen(s)
      <4>1. RoleOf(s) = Other(m.role) /\ Other(RoleOf(s)) = m.role
        BY <1>2, <2>1, <2>6, <3>2
      <4>2. Stream(s)' = Append(Stream(s), Notice("PeerConnected")) /\ Notice("PeerConnected") \in Signal
        BY <2>4, <3>2, ToldTypes
      <4>3. peers[Other(RoleOf(s))] = NoPeer /\ peers'[Other(RoleOf(s))] # NoPeer
        BY <1>1, <2>1, <2>2, <2>3, <4>1
      <4>. QED
        BY <1>1, <1>2, <3>2, <4>1, <4>2, <4>3, ToldAppend
    <3>3. CASE s # m.addr /\ ~(s = peers[Other(m.role)] /\ AddrOpen(s))
      <4>1. ~(peers'[RoleOf(s)] = s /\ AddrOpen(s)')
        BY <1>2, <2>1, <2>3, <2>5, <3>3
      <4>. QED
        BY <1>1, <1>2, <2>4, <3>3, <4>1, ToldKept
    <3>. QED
      BY <3>1, <3>2, <3>3
  <2>8. SlotsOfRole'
    BY <1>2, <2>1, <2>3 DEF SlotsOfRole
  <2>9. ASSUME NEW s \in Session, Newcomer(s)'
        PROVE  out'[s] = <<>> /\ inbox'[s] = <<>> /\ peers'[RoleOf(s)] # s
    <3>1. Newcomer(s) /\ s # m.addr
      BY <2>1, <2>9
    <3>2. out[s] = <<>> /\ inbox[s] = <<>> /\ peers[RoleOf(s)] # s
      BY <1>3, <3>1
    <3>3. s # peers[Other(m.role)]
      BY <2>6, <3>2
    <3>. QED
      BY <1>1, <1>2, <2>3, <2>4, <3>1, <3>2, <3>3
  <2>. QED
    BY <2>7, <2>8, <2>9 DEF NoticeInv, NewcomersUntold
<1>6. CASE RefuseConnect
  BY <1>4, <1>6 DEF RefuseConnect
<1>7. CASE HandleDisconnect
  <2>1. /\ Take("Disconnect") /\ Head(mailbox) = m
        /\ m.role \in Role /\ phase' = phase
        /\ \A s \in Session : Newcomer(s)' => Newcomer(s)
    BY <1>7, TakeFacts DEF HandleDisconnect
  <2>2. CASE peers[m.role] = NoPeer
    BY <1>4, <1>7, <2>1, <2>2 DEF HandleDisconnect
  <2>3. CASE peers[m.role] # NoPeer
    <3>1. /\ peers' = [peers EXCEPT ![m.role] = NoPeer]
          /\ inbox' = Tell(Other(m.role), Notice("PeerDisconnected"))
      BY <1>7, <2>1, <2>3 DEF HandleDisconnect, AnnounceLeave
    <3>. HIDE DEF m
    <3>2. /\ peers'[m.role] = NoPeer /\ \A r \in Role : r # m.role => peers'[r] = peers[r]
      BY <1>1, <2>1, <3>1
    <3>3. \A s \in Session :
            /\ s = peers[Other(m.role)] /\ AddrOpen(s) =>
                  Stream(s)' = Append(Stream(s), Notice("PeerDisconnected"))
            /\ ~(s = peers[Other(m.role)] /\ AddrOpen(s)) =>
                  inbox'[s] = inbox[s] /\ Stream(s)' = Stream(s)
      BY <1>1, <1>2, <2>1, <3>1, ToldTypes, TellStream
    <3>4. \A s \in Session : AddrOpen(s)' <=> AddrOpen(s)
      BY <2>1 DEF AddrOpen
    <3>5. ASSUME NEW s \in Session, s = peers[Other(m.role)]
          PROVE  RoleOf(s) = Other(m.role)
      BY <1>1, <1>2, <2>1, <3>5 DEF SlotsOfRole
    <3>6. ASSUME NEW s \in Session
          PROVE  Told(s)'
      <4>1. CASE s = peers[Other(m.role)] /\ AddrOpen(s)
        <5>1. RoleOf(s) = Other(m.role) /\ Other(RoleOf(s)) = m.role
          BY <1>2, <2>1, <3>5, <4>1
        <5>2. Stream(s)' = Append(Stream(s), Notice("PeerDisconnected")) /\ Notice("PeerDisconnected") \in Signal
          BY <3>3, <4>1, ToldTypes
        <5>3. peers[Other(RoleOf(s))] # NoPeer /\ peers'[Other(RoleOf(s))] = NoPeer
          BY <2>1, <2>3, <3>2, <5>1
        <5>. QED
          BY <1>1, <1>2, <4>1, <5>1, <5>2, <5>3, ToldAppend
      <4>2. CASE ~(s = peers[Other(m.role)] /\ AddrOpen(s))
        <5>1. ~(peers'[RoleOf(s)] = s /\ AddrOpen(s)')
          BY <1>1, <1>2, <2>1, <3>2, <3>4, <4>2
        <5>. QED
          BY <1>1, <1>2, <3>3, <4>2, <5>1, ToldKept
      <4>. QED
        BY <4>1, <4>2
    <3>7. SlotsOfRole'
      BY <1>2, <2>1, <3>2 DEF SlotsOfRole
    <3>8. ASSUME NEW s \in Session, Newcomer(s)'
          PROVE  out'[s] = <<>> /\ inbox'[s] = <<>> /\ peers'[RoleOf(s)] # s
      <4>1. out[s] = <<>> /\ inbox[s] = <<>> /\ peers[RoleOf(s)] # s
        BY <1>3, <2>1, <3>8
      <4>2. s # peers[Other(m.role)]
        BY <3>5, <4>1
      <4>. QED
        BY <1>1, <1>2, <2>1, <3>2, <3>3, <4>1, <4>2
    <3>. QED
      BY <3>6, <3>7, <3>8 DEF NoticeInv, NewcomersUntold
  <2>. QED
    BY <2>2, <2>3
<1>8. CASE Relay
  <2>1. /\ Take("SignalReq") /\ Head(mailbox) = m /\ m.kind = "SignalReq" /\ peers' = peers
        /\ m.addr \in Session /\ m.role \in Role /\ m.role = RoleOf(m.addr)
        /\ m.data \in Data \cup {NoData} /\ phase' = phase
        /\ \A s \in Session : Newcomer(s)' => Newcomer(s)
    BY <1>8, TakeFacts DEF Relay
  <2>2. inbox' = Tell(Other(m.role), ToSignal(m.data))
    BY <1>8, <2>1 DEF Relay
  <2>3. ~HeartbeatFailedIn(m.role) => peers[m.role] # NoPeer
    <3>1. 1 \in 1..Len(mailbox)
      BY <1>1, <2>1, TakeHead DEF TypeOK, ServerTypeOK
    <3>2. Claims(m.addr)
      BY <2>1, <3>1 DEF Claims
    <3>. QED
      BY <1>1, <2>1, <3>2 DEF RegistrationInv, ClaimantsAreRegistered
  <2>. DEFINE sig == ToSignal(m.data)
  <2>4. sig \in Signal /\ ~IsNotice(sig)
    BY <2>1, SignalTypes, ToldTypes
  <2>. HIDE DEF m, sig
  <2>5. \A s \in Session :
          /\ s = peers[Other(m.role)] /\ AddrOpen(s) => Stream(s)' = Append(Stream(s), sig)
          /\ ~(s = peers[Other(m.role)] /\ AddrOpen(s)) =>
                inbox'[s] = inbox[s] /\ Stream(s)' = Stream(s)
    BY <1>1, <1>2, <2>1, <2>2, <2>4, TellStream DEF sig
  <2>6. \A s \in Session : AddrOpen(s)' <=> AddrOpen(s)
    BY <2>1 DEF AddrOpen
  <2>7. ASSUME NEW s \in Session, s = peers[Other(m.role)]
        PROVE  RoleOf(s) = Other(m.role)
    BY <1>1, <1>2, <2>1, <2>7 DEF SlotsOfRole
  <2>8. ASSUME NEW s \in Session
        PROVE  Told(s)'
    <3>1. CASE s = peers[Other(m.role)] /\ AddrOpen(s)
      <4>1. RoleOf(s) = Other(m.role) /\ Other(RoleOf(s)) = m.role
        BY <1>2, <2>1, <2>7, <3>1
      <4>2. ~HeartbeatFailedIn(Other(RoleOf(s))) => peers[Other(RoleOf(s))] # NoPeer
        BY <2>3, <4>1
      <4>3. peers[RoleOf(s)] = s /\ Stream(s)' = Append(Stream(s), sig)
        BY <2>5, <3>1, <4>1
      <4>. QED
        BY <1>1, <1>2, <2>1, <2>4, <3>1, <4>2, <4>3, ToldAppend
    <3>2. CASE ~(s = peers[Other(m.role)] /\ AddrOpen(s))
      BY <1>1, <1>2, <2>1, <2>5, <2>6, <3>2, ToldKept
    <3>. QED
      BY <3>1, <3>2
  <2>9. ASSUME NEW s \in Session, Newcomer(s)'
        PROVE  out'[s] = <<>> /\ inbox'[s] = <<>> /\ peers'[RoleOf(s)] # s
    BY <1>1, <1>3, <2>1, <2>5, <2>7, <2>9
  <2>. QED
    BY <1>2, <2>1, <2>8, <2>9 DEF NoticeInv, NewcomersUntold, SlotsOfRole
<1>9. CASE RefuseRelay
  BY <1>4, <1>9 DEF RefuseRelay
<1>. QED
  BY <1>5, <1>6, <1>7, <1>8, <1>9 DEF Server, ServerStep

\* A step of a session makes nobody a newcomer.
LEMMA NewcomersLocal ==
    ASSUME RegistrationInv, NEW s \in Session, Internal(s) \/ External(s),
           NEW t \in Session, Newcomer(t)'
    PROVE  Newcomer(t)
<1>1. mailbox \in Seq(Message) /\ phase \in [Session -> Phase] /\ Len(mailbox) \in Nat
  BY LenProperties DEF RegistrationInv, TypeOK, ServerTypeOK
<1>2. phase'[t] = "new" => phase[t] = "new"
  BY <1>1 DEF Internal, External, ConnectAccepted, ConnectRefused, HandleSignal, RequestDone,
              Stopping, Start, ReceiveText, StreamEnds, HeartbeatFails, ConnectionLost, Goto
<1>3. \/ mailbox' = mailbox
      \/ \E m \in Message :
            mailbox' = Append(mailbox, m) /\ (m.kind # "Connect" \/ phase[m.addr] = "new")
  <2>1. CASE Internal(s)
    <3>1. mailbox' = mailbox \/ mailbox' = mailbox \o <<>> \/ mailbox' = mailbox \o <<Disconnect(s)>>
      BY <2>1 DEF Internal, ConnectAccepted, ConnectRefused, HandleSignal, RequestDone, Stopping, Farewell
    <3>. QED
      BY <1>1, <3>1, Messages, ConcatOne, ConcatEmptySeq
  <2>2. CASE External(s)
    BY <2>2, Messages DEF External, Start, ReceiveText, StreamEnds, HeartbeatFails, ConnectionLost
  <2>. QED
    BY <2>1, <2>2
<1>4. ASSUME NEW i \in 1..Len(mailbox'), mailbox'[i].kind = "Connect", mailbox'[i].addr = t
      PROVE  Newcomer(t)
  <2>1. CASE mailbox' = mailbox
    BY <1>4, <2>1 DEF Newcomer
  <2>2. CASE mailbox' # mailbox
    <3>0. PICK m \in Message : mailbox' = Append(mailbox, m) /\ (m.kind # "Connect" \/ phase[m.addr] = "new")
      BY <1>3, <2>2
    <3>1. (i \in 1..Len(mailbox) /\ mailbox'[i] = mailbox[i]) \/ mailbox'[i] = m
      BY <1>1, <3>0, AddLast
    <3>. QED
      BY <1>4, <3>0, <3>1 DEF Newcomer
  <2>. QED
    BY <2>1, <2>2
<1>. QED
  BY <1>2, <1>4 DEF Newcomer

\* Reading the first message of the inbox leaves the stream as it is.
LEMMA HeadMoves ==
    ASSUME NEW a \in Seq(Frame), NEW b \in Seq(Frame), b # <<>>
    PROVE  Append(a, Head(b)) \o Tail(b) = a \o b
<1>. DEFINE one == <<Head(b)>>
<1>1. Len(b) \in Nat \ {0} /\ Head(b) \in Frame /\ Tail(b) \in Seq(Frame)
  BY HeadTailProperties, EmptySeq
<1>2. one \in Seq(Frame) /\ Append(a, Head(b)) = a \o one
  BY <1>1, ConcatOne
<1>3. b = one \o Tail(b)
  <2>1. Len(one) = 1 /\ one[1] = Head(b)
    OBVIOUS
  <2>. HIDE DEF one
  <2>. DEFINE c == one \o Tail(b)
  <2>2. c \in Seq(Frame) /\ Len(c) = Len(b)
        /\ \A i \in 1..Len(b) : c[i] = IF i <= 1 THEN one[i] ELSE Tail(b)[i - 1]
    BY <1>1, <1>2, <2>1, ConcatProperties, HeadTailProperties
  <2>3. ASSUME NEW i \in 1..Len(b)
        PROVE  c[i] = b[i]
    BY <1>1, <2>1, <2>2, HeadTailProperties
  <2>. HIDE DEF c
  <2>4. c = b
    BY <2>2, <2>3, SeqEqual
  <2>. QED
    BY <2>4 DEF c
<1>. HIDE DEF one
<1>4. (a \o one) \o Tail(b) = a \o (one \o Tail(b))
  BY <1>1, <1>2, ConcatAssociative
<1>. QED
  BY <1>2, <1>3, <1>4

\* What a step of a session does to its own stream.
LEMMA StreamLocal ==
    ASSUME RegistrationInv, NoticeInv, NEW s \in Session, Internal(s) \/ External(s)
    PROVE  \/ Newcomer(s) /\ Stream(s)' = <<>> /\ out'[s] = <<>> /\ inbox'[s] = <<>>
           \/ /\ Stream(s)' = Stream(s) /\ ~Newcomer(s)
              /\ AddrOpen(s)' => AddrOpen(s)
           \/ /\ \E e \in Frame : ~IsSignal(e) /\ out'[s] = Append(out[s], e)
              /\ inbox'[s] = inbox[s] /\ ~Newcomer(s)
              /\ AddrOpen(s)' => AddrOpen(s)
           \/ /\ out'[s] = out[s] /\ inbox'[s] = <<>> /\ ~Newcomer(s)
              /\ ~AddrOpen(s)'
<1>1. /\ phase \in [Session -> Phase] /\ out \in [Session -> Seq(Frame)]
      /\ inbox \in [Session -> Seq(Signal)] /\ TypeOK
  BY DEF RegistrationInv, TypeOK, ServerTypeOK
<1>2. Newcomer(s) => out[s] = <<>> /\ inbox[s] = <<>>
  BY DEF NoticeInv, NewcomersUntold
<1>3. Newcomer(s) => reply[s] = "none"
  <2>1. phase[s] = "new" => reply[s] = "none"
    BY DEF RegistrationInv, KnowledgeMatchesPhase
  <2>. QED
    BY <2>1 DEF Newcomer, RegistrationInv, QueueMatchesPhase
<1>4. CASE Start(s) \/ ConnectAccepted(s) \/ (\E d \in Data : ReceiveText(s, d)) \/ StreamEnds(s)
           \/ HeartbeatFails(s) \/ ConnectionLost(s)
  <2>1. out' = out /\ inbox' = inbox
    BY <1>4 DEF Start, ConnectAccepted, ReceiveText, StreamEnds, HeartbeatFails, ConnectionLost, sessionVars
  <2>2. Stream(s)' = Stream(s)
    BY <2>1 DEF Stream
  <2>3. CASE Newcomer(s)
    BY <1>2, <2>1, <2>2, <2>3, ConcatEmptySeq DEF Stream
  <2>4. CASE ~Newcomer(s)
    <3>1. ~Start(s)
      BY <2>4 DEF Start, Newcomer
    <3>2. AddrOpen(s)
      BY <1>4, <3>1 DEF ConnectAccepted, ReceiveText, StreamEnds, HeartbeatFails, ConnectionLost, AddrOpen
    <3>. QED
      BY <2>2, <2>4, <3>2
  <2>. QED
    BY <2>3, <2>4
<1>5. CASE ConnectRefused(s) \/ RequestDone(s)
  <2>1. ~Newcomer(s)
    BY <1>3, <1>5 DEF ConnectRefused, RequestDone
  <2>2. inbox' = inbox /\ AddrOpen(s)
    BY <1>5 DEF ConnectRefused, RequestDone, AddrOpen
  <2>3. \/ out' = out
        \/ \E e \in {Notice("ALREADY_CONNECTED"), Notice("PEER_NOT_CONNECTED")} :
              out' = [out EXCEPT ![s] = Append(@, e)]
    BY <1>5 DEF ConnectRefused, RequestDone, Send
  <2>4. CASE out' = out
    BY <2>1, <2>2, <2>4 DEF Stream
  <2>5. ASSUME NEW e \in {Notice("ALREADY_CONNECTED"), Notice("PEER_NOT_CONNECTED")},
               out' = [out EXCEPT ![s] = Append(@, e)]
        PROVE  e \in Frame /\ ~IsSignal(e) /\ out'[s] = Append(out[s], e)
    BY <1>1, <2>5, ToldTypes
  <2>. QED
    BY <2>1, <2>2, <2>3, <2>4, <2>5
<1>6. CASE HandleSignal(s)
  <2>. DEFINE f == Head(inbox[s])
  <2>1. /\ phase[s] = "running" /\ inbox[s] # <<>> /\ phase' = phase
        /\ out' = [out EXCEPT ![s] = Append(@, [type |-> f.type, data |-> f.data])]
        /\ inbox' = [inbox EXCEPT ![s] = Tail(@)]
    BY <1>6 DEF HandleSignal, Send
  <2>2. ~Newcomer(s) /\ AddrOpen(s)
    BY <1>2, <2>1 DEF AddrOpen
  <2>3. inbox[s] \in Seq(Signal) /\ inbox[s] \in Seq(Frame) /\ out[s] \in Seq(Frame)
    BY <1>1, StreamTypes
  <2>4. f \in Signal /\ f \in Frame /\ Tail(inbox[s]) \in Seq(Frame) /\ [type |-> f.type, data |-> f.data] = f
    BY <2>1, <2>3, HeadTailProperties, EmptySeq, ToldTypes
  <2>5. out'[s] = Append(out[s], f) /\ inbox'[s] = Tail(inbox[s])
    BY <1>1, <2>1, <2>4
  <2>6. Append(out[s], f) \o Tail(inbox[s]) = out[s] \o inbox[s]
    BY <2>1, <2>3, HeadMoves
  <2>7. Stream(s)' = Stream(s)
    BY <2>5, <2>6 DEF Stream
  <2>. QED
    BY <2>2, <2>7
<1>7. CASE Stopping(s)
  <2>1. out' = out /\ inbox'[s] = <<>> /\ phase'[s] = "stopped"
    BY <1>1, <1>7 DEF Stopping, Goto, sessionVars
  <2>2. ~AddrOpen(s)'
    BY <2>1 DEF AddrOpen
  <2>3. CASE Newcomer(s)
    <3>1. out'[s] = <<>>
      BY <1>2, <2>1, <2>3
    <3>2. Stream(s)' = <<>>
      BY <2>1, <3>1, ConcatEmptySeq DEF Stream
    <3>. QED
      BY <2>1, <2>3, <3>1, <3>2
  <2>. QED
    BY <2>1, <2>2, <2>3
<1>. QED
  BY <1>4, <1>5, <1>6, <1>7 DEF Internal, External

\* A step of a session touches nothing of the others.
LEMMA OthersUntouched ==
    ASSUME RegistrationInv, NEW s \in Session, Internal(s) \/ External(s)
    PROVE  /\ peers' = peers /\ hbFailed \subseteq hbFailed'
           /\ \A t \in Session : t # s =>
                phase'[t] = phase[t] /\ out'[t] = out[t] /\ inbox'[t] = inbox[t]
<1>1. /\ phase \in [Session -> Phase] /\ out \in [Session -> Seq(Frame)]
      /\ inbox \in [Session -> Seq(Signal)]
  BY DEF RegistrationInv, TypeOK, ServerTypeOK
<1>2. CASE Internal(s)
  BY <1>1, <1>2 DEF Internal, ConnectAccepted, ConnectRefused, HandleSignal, RequestDone,
                    Stopping, Goto, Send, sessionVars
<1>3. CASE External(s)
  BY <1>1, <1>3 DEF External, Start, ReceiveText, StreamEnds, HeartbeatFails, ConnectionLost,
                    Goto, sessionVars
<1>. QED
  BY <1>2, <1>3

\* The steps of a session keep NoticeInv.
LEMMA NoticeLocal ==
    ASSUME RegistrationInv, NoticeInv, NEW s \in Session, Internal(s) \/ External(s)
    PROVE  NoticeInv'
<1>1. /\ peers' = peers /\ hbFailed \subseteq hbFailed' /\ TypeOK
      /\ \A t \in Session : t # s => phase'[t] = phase[t] /\ out'[t] = out[t] /\ inbox'[t] = inbox[t]
  BY OthersUntouched DEF RegistrationInv
<1>2. \A t \in Session : Newcomer(t)' => Newcomer(t)
  BY NewcomersLocal
<1>3. ASSUME NEW t \in Session, Newcomer(t)'
      PROVE  out'[t] = <<>> /\ inbox'[t] = <<>> /\ peers'[RoleOf(t)] # t
  <2>1. Newcomer(t) /\ out[t] = <<>> /\ inbox[t] = <<>> /\ peers[RoleOf(t)] # t
    BY <1>2, <1>3 DEF NoticeInv, NewcomersUntold
  <2>2. CASE t = s
    BY <1>1, <2>1, <2>2, StreamLocal
  <2>. QED
    BY <1>1, <2>1, <2>2
<1>4. ASSUME NEW t \in Session, t # s
      PROVE  Told(t)'
  <2>1. Told(t) /\ Stream(t)' = Stream(t) /\ (AddrOpen(t)' => AddrOpen(t))
    BY <1>1, <1>4 DEF NoticeInv, Stream, AddrOpen
  <2>. QED
    BY <1>1, <2>1, ToldKept
<1>5. Told(s)'
  <2>1. Told(s)
    BY DEF NoticeInv
  <2>2. CASE Stream(s)' = <<>>
    BY <2>2, EmptyTold
  <2>3. CASE Stream(s)' = Stream(s) /\ (AddrOpen(s)' => AddrOpen(s))
    BY <1>1, <2>1, <2>3, ToldKept
  <2>4. out[s] \in Seq(Frame) /\ inbox[s] \in Seq(Frame) /\ Stream(s) \in Seq(Frame)
    BY <1>1, StreamTypes
  <2>5. /\ Alternate(Stream(s))
        /\ peers[RoleOf(s)] = s /\ AddrOpen(s) =>
             \A i \in 1..Len(Stream(s)) : IsLastNotice(Stream(s), i) =>
                (Stream(s)[i].type = "PeerConnected" <=> peers[Other(RoleOf(s))] # NoPeer)
        /\ ~HeartbeatFailedIn(Other(RoleOf(s))) => Quiet(Stream(s))
    BY <2>1 DEF Told
  <2>6. HeartbeatFailedIn(Other(RoleOf(s))) => HeartbeatFailedIn(Other(RoleOf(s)))'
    BY <1>1 DEF HeartbeatFailedIn
  <2>7. ASSUME NEW e \in Frame, ~IsSignal(e), out'[s] = Append(out[s], e), inbox'[s] = inbox[s],
               AddrOpen(s)' => AddrOpen(s)
        PROVE  Told(s)'
    <3>. DEFINE q == Stream(s)
                r == Append(out[s], e) \o inbox[s]
    <3>1. q \in Seq(Frame) /\ r \in Seq(Frame) /\ Len(out[s]) \in 0..Len(q)
      <4>1. Append(out[s], e) \in Seq(Frame) /\ Len(out[s]) \in Nat /\ Len(inbox[s]) \in Nat
        BY <2>4, AddLast, LenProperties
      <4>2. r \in Seq(Frame)
        BY <2>4, <4>1, ConcatProperties
      <4>3. q = out[s] \o inbox[s]
        BY DEF Stream
      <4>4. Len(q) = Len(out[s]) + Len(inbox[s])
        BY <2>4, <4>3, ConcatProperties
      <4>5. \A a, b \in Nat : \A c : c = a + b => a \in 0..c
        OBVIOUS
      <4>6. Len(out[s]) \in 0..Len(q)
        BY ONLY <4>1, <4>4, <4>5
      <4>. QED
        BY <2>4, <4>2, <4>6
    <3>2. Inserted(q, r, Len(out[s]))
      BY <2>4, <2>7, InsertError DEF Stream
    <3>3. Stream(s)' = r
      BY <2>7 DEF Stream
    <3>. HIDE DEF q, r
    <3>4. /\ Alternate(q) => Alternate(r)
          /\ Quiet(q) => Quiet(r)
          /\ \A i \in 1..Len(r) : IsLastNotice(r, i) =>
                 \E j \in 1..Len(q) : IsLastNotice(q, j) /\ r[i] = q[j]
      BY <3>1, <3>2, InsertKeeps
    <3>5. /\ Alternate(q)
          /\ peers[RoleOf(s)] = s /\ AddrOpen(s) =>
               \A i \in 1..Len(q) : IsLastNotice(q, i) =>
                  (q[i].type = "PeerConnected" <=> peers[Other(RoleOf(s))] # NoPeer)
          /\ ~HeartbeatFailedIn(Other(RoleOf(s))) => Quiet(q)
      BY <2>5 DEF q
    <3>. QED
      BY <1>1, <2>6, <2>7, <3>3, <3>4, <3>5 DEF Told
  <2>8. ASSUME out'[s] = out[s], inbox'[s] = <<>>, ~AddrOpen(s)'
        PROVE  Told(s)'
    <3>1. Stream(s)' = out[s]
      BY <2>4, <2>8, ConcatEmptySeq DEF Stream
    <3>2. Alternate(out[s]) /\ (~HeartbeatFailedIn(Other(RoleOf(s))) => Quiet(out[s]))
      BY <2>4, <2>5, PrefixKeeps DEF Stream
    <3>. QED
      BY <2>6, <2>8, <3>1, <3>2 DEF Told
  <2>. QED
    BY <2>2, <2>3, <2>7, <2>8, StreamLocal
<1>. QED
  BY <1>1, <1>3, <1>4, <1>5 DEF NoticeInv, NewcomersUntold, SlotsOfRole

\* NoticeInv is an invariant of the system.
THEOREM NoticeInvariant == Spec => []NoticeInv
<1>1. Init => NoticeInv
  <2>. SUFFICES ASSUME Init PROVE NoticeInv
    OBVIOUS
  <2>1. \A s \in Session : out[s] = <<>> /\ inbox[s] = <<>>
    BY DEF Init, ServerInit
  <2>2. \A s \in Session : Stream(s) = <<>>
    BY <2>1, ConcatEmptySeq DEF Stream
  <2>3. \A r \in Role : peers[r] = NoPeer
    BY DEF Init, ServerInit
  <2>4. \A s \in Session : peers[RoleOf(s)] # s
    BY <2>3, Roles, SignalAssumption
  <2>5. ASSUME NEW s \in Session
        PROVE  Told(s)
    <3>1. 1..Len(Stream(s)) = {}
      BY <2>2
    <3>. QED
      BY <3>1 DEF Told, Alternate, Quiet
  <2>. QED
    BY <2>1, <2>3, <2>4, <2>5 DEF NoticeInv, NewcomersUntold, SlotsOfRole
<1>2. RegistrationInv /\ NoticeInv /\ [Next]_vars => NoticeInv'
  <2>. SUFFICES ASSUME RegistrationInv, NoticeInv, [Next]_vars PROVE NoticeInv'
    OBVIOUS
  <2>1. CASE Server
    BY <2>1, NoticeServer
  <2>2. ASSUME NEW s \in Session, Internal(s) \/ External(s)
        PROVE  NoticeInv'
    BY <2>2, NoticeLocal
  <2>3. CASE UNCHANGED vars
    <3>1. UNCHANGED <<peers, mailbox, inbox, phase, out, hbFailed>>
      BY <2>3 DEF vars
    <3>2. \A s \in Session : Stream(s)' = Stream(s) /\ (AddrOpen(s)' <=> AddrOpen(s))
                             /\ (Newcomer(s)' => Newcomer(s))
      BY <3>1 DEF Stream, AddrOpen, Newcomer
    <3>3. \A s \in Session : Told(s)'
      BY <3>1, <3>2, ToldKept DEF NoticeInv
    <3>. QED
      BY <3>1, <3>2, <3>3 DEF NoticeInv, NewcomersUntold, SlotsOfRole
  <2>. QED
    BY <2>1, <2>2, <2>3 DEF Next
<1>. QED
  BY <1>1, <1>2, RegistrationInvariant, PTL DEF Spec

\* The notices of arrival and departure a session gets alternate, and the last
\* one agrees with the slot of its peer while the session is registered.
THEOREM NoticesStayTrue == Spec => []NoticesTrackPeer
<1>1. NoticeInv => NoticesTrackPeer
  BY DEF NoticeInv, Told, NoticesTrackPeer
<1>. QED
  BY <1>1, NoticeInvariant, PTL

\* After the notice that its peer has left, a session hears nothing before the
\* notice that a peer has arrived, unless a heartbeat has failed on that side.
THEOREM QuietAfterLeave == Spec => []QuietWhenPeerGone
<1>1. NoticeInv => QuietWhenPeerGone
  BY DEF NoticeInv, Told, QuietWhenPeerGone
<1>. QED
  BY <1>1, NoticeInvariant, PTL

(***************************************************************************)
(* The slots implement the seats of Rendezvous.                            *)
(***************************************************************************)

\* What is asked to be relayed is a text, never an empty payload.
RequestsCarryText ==
    \A i \in 1..Len(mailbox) : mailbox[i].kind = "SignalReq" => mailbox[i].data \in Data

\* A step of a session queues at most one message, and Start alone a Connect.
LEMMA QueueLocal ==
    ASSUME TypeOK, NEW s \in Session, Internal(s) \/ External(s)
    PROVE  \/ mailbox' = mailbox /\ ~Start(s)
           \/ \E m \in Message :
                /\ mailbox' = Append(mailbox, m)
                /\ m.addr = s
                /\ m.kind = "Connect" <=> Start(s)
                /\ m.kind = "SignalReq" => m.data \in Data
<1>1. mailbox \in Seq(Message) /\ phase \in [Session -> Phase]
  BY DEF TypeOK, ServerTypeOK
<1>2. \A d \in Data : SignalReq(s, d).data = d
  BY DEF SignalReq
<1>3. CASE Internal(s)
  <2>1. phase[s] # "new"
    BY <1>3 DEF Internal, ConnectAccepted, ConnectRefused, HandleSignal, RequestDone, Stopping
  <2>2. ~Start(s)
    BY <2>1 DEF Start
  <2>3. mailbox' = mailbox \/ mailbox' = mailbox \o <<>> \/ mailbox' = mailbox \o <<Disconnect(s)>>
    BY <1>3 DEF Internal, ConnectAccepted, ConnectRefused, HandleSignal, RequestDone, Stopping, Farewell
  <2>. QED
    BY <1>1, <2>2, <2>3, Messages, ConcatOne, ConcatEmptySeq
<1>4. CASE Start(s)
  BY <1>4, Messages DEF Start
<1>5. CASE External(s) /\ ~Start(s)
  BY <1>2, <1>5, Messages DEF External, ReceiveText, StreamEnds, HeartbeatFails, ConnectionLost
<1>. QED
  BY <1>3, <1>4, <1>5

LEMMA RequestsStep ==
    ASSUME TypeOK, RequestsCarryText, [Next]_vars
    PROVE  RequestsCarryText'
<1>1. mailbox \in Seq(Message) /\ Len(mailbox) \in Nat
  BY LenProperties DEF TypeOK, ServerTypeOK
<1>2. CASE Server
  <2>1. PICK kind \in {"Connect", "Disconnect", "SignalReq"} : Take(kind)
    BY <1>2 DEF Server, ServerStep, AcceptConnect, RefuseConnect, HandleDisconnect, Relay, RefuseRelay
  <2>2. /\ Len(mailbox') = Len(mailbox) - 1
        /\ \A i \in 1..Len(mailbox') : mailbox'[i] = mailbox[i + 1]
    BY <1>1, <2>1, TakeHead
  <2>. QED
    BY <1>1, <2>2 DEF RequestsCarryText
<1>3. ASSUME NEW s \in Session, Internal(s) \/ External(s)
      PROVE  RequestsCarryText'
  <2>1. CASE mailbox' = mailbox
    BY <2>1 DEF RequestsCarryText
  <2>2. ASSUME NEW m \in Message, mailbox' = Append(mailbox, m), m.kind = "SignalReq" => m.data \in Data
        PROVE  RequestsCarryText'
    BY <1>1, <2>2, AddLast DEF RequestsCarryText
  <2>. QED
    BY <1>3, <2>1, <2>2, QueueLocal
<1>4. CASE UNCHANGED vars
  BY <1>4 DEF vars, RequestsCarryText
<1>. QED
  BY <1>2, <1>3, <1>4 DEF Next

THEOREM RequestsInvariant == Spec => []RequestsCarryText
<1>1. Init => RequestsCarryText
  <2>. SUFFICES ASSUME Init PROVE RequestsCarryText
    OBVIOUS
  <2>1. 1..Len(mailbox) = {}
    BY DEF Init, ServerInit
  <2>. QED
    BY <2>1 DEF RequestsCarryText
<1>2. TypeOK /\ RequestsCarryText /\ [Next]_vars => RequestsCarryText'
  BY RequestsStep
<1>. QED
  BY <1>1, <1>2, TypeCorrect, PTL DEF Spec

\* The stages of a session, by its phases.
LEMMA Stages ==
    /\ Stage("new") = "away" /\ Stage("stopping") = "leaving" /\ Stage("stopped") = "gone"
    /\ \A p \in {"connecting", "running", "waiting"} : Stage(p) = "here"
    /\ \A p \in Phase : /\ p = "new" <=> Stage(p) = "away"
                        /\ p = "stopped" <=> Stage(p) = "gone"
BY DEF Stage, Phase

\* Sides are roles.
LEMMA Sides ==
    /\ Seats!Visitor = Session /\ Seats!Side = Role
    /\ \A s : Seats!SideOf(s) = RoleOf(s)
    /\ \A r : Seats!Opposite(r) = Other(r)
BY DEF Seats!Visitor, Session, Seats!Side, Role, Seats!SideOf, RoleOf, Seats!Opposite, Other

\* Who holds a slot has been started, and belongs there.
LEMMA HolderStarted ==
    ASSUME RegistrationInv, NoticeInv, NEW r \in Role, peers[r] # NoPeer
    PROVE  peers[r] \in Session /\ RoleOf(peers[r]) = r /\ phase[peers[r]] # "new"
<1>1. peers[r] \in Session
  BY DEF RegistrationInv, TypeOK, ServerTypeOK
<1>2. RoleOf(peers[r]) = r
  BY DEF NoticeInv, SlotsOfRole
<1>. QED
  BY <1>1, <1>2 DEF NoticeInv, NewcomersUntold, Newcomer

\* A signal is handed to the one in the seat just as it is sent to its address.
LEMMA HandIsTell ==
    ASSUME RegistrationInv, NoticeInv, NEW r \in Role, NEW x
    PROVE  Seats!Hand(r, x) = Tell(r, x)
<1>1. CASE peers[r] = NoPeer
  BY <1>1 DEF Seats!Hand, Tell
<1>2. CASE peers[r] # NoPeer
  <2>1. peers[r] \in Session /\ phase[peers[r]] # "new" /\ phase[peers[r]] \in Phase
    BY <1>2, HolderStarted DEF RegistrationInv, TypeOK, ServerTypeOK
  <2>2. AddrOpen(peers[r]) <=> Stage(phase[peers[r]]) # "gone"
    BY <2>1, Stages DEF AddrOpen
  <2>. QED
    BY <1>2, <2>1, <2>2 DEF Seats!Hand, Tell
<1>. QED
  BY <1>1, <1>2

\* Taking a Connect off the mailbox leaves its session without a request, and
\* everybody else as they were; any other message is of one that asks no more.
LEMMA AsksAfterTake ==
    ASSUME RegistrationInv, NEW kind, Take(kind)
    PROVE  /\ kind = "Connect" <=> Asks(mailbox[1].addr)
           /\ \A s \in Session : Asks(s)' <=> Asks(s) /\ s # mailbox[1].addr
<1>1. /\ Len(mailbox) \in Nat /\ Len(mailbox) > 0 /\ mailbox[1].kind = kind
      /\ Len(mailbox') = Len(mailbox) - 1
      /\ \A i \in 1..Len(mailbox') : mailbox'[i] = mailbox[i + 1]
  BY TakeHead DEF RegistrationInv, TypeOK, ServerTypeOK
<1>2. \A i \in 2..Len(mailbox) : mailbox[i].addr = mailbox[1].addr => mailbox[i].kind # "Connect"
  BY <1>1 DEF RegistrationInv, QueueOrder
<1>3. \A i \in 1..Len(mailbox) : i = 1 \/ /\ i \in 2..Len(mailbox)
                                            /\ i - 1 \in 1..Len(mailbox')
                                            /\ mailbox'[i - 1] = mailbox[i]
  BY <1>1
<1>4. \A i \in 1..Len(mailbox') : i + 1 \in 2..Len(mailbox) /\ i + 1 \in 1..Len(mailbox)
  BY <1>1
<1>5. kind = "Connect" <=> Asks(mailbox[1].addr)
  BY <1>1, <1>2, <1>3 DEF Asks
<1>6. ASSUME NEW s \in Session, Asks(s)'
      PROVE  Asks(s) /\ s # mailbox[1].addr
  BY <1>1, <1>2, <1>4, <1>6 DEF Asks
<1>7. ASSUME NEW s \in Session, Asks(s), s # mailbox[1].addr
      PROVE  Asks(s)'
  BY <1>3, <1>7 DEF Asks
<1>. QED
  BY <1>5, <1>6, <1>7

\* Only starting makes a session ask.
LEMMA AsksAfterSend ==
    ASSUME TypeOK, NEW s \in Session, Internal(s) \/ External(s), NEW t \in Session
    PROVE  Asks(t)' <=> Asks(t) \/ (t = s /\ Start(s))
<1>1. mailbox \in Seq(Message) /\ Len(mailbox) \in Nat
  BY LenProperties DEF TypeOK, ServerTypeOK
<1>2. CASE mailbox' = mailbox /\ ~Start(s)
  BY <1>2 DEF Asks
<1>3. ASSUME NEW m \in Message, mailbox' = Append(mailbox, m), m.addr = s,
             m.kind = "Connect" <=> Start(s)
      PROVE  Asks(t)' <=> Asks(t) \/ (t = s /\ Start(s))
  <2>1. /\ Len(mailbox') = Len(mailbox) + 1
        /\ \A i \in 1..Len(mailbox) : mailbox'[i] = mailbox[i]
        /\ mailbox'[Len(mailbox) + 1] = m
    BY <1>1, <1>3, AddLast
  <2>2. \A i \in 1..Len(mailbox') : i \in 1..Len(mailbox) \/ i = Len(mailbox) + 1
    BY <1>1, <2>1
  <2>3. \A i \in 1..Len(mailbox) : i \in 1..Len(mailbox')
    BY <1>1, <2>1
  <2>4. Len(mailbox) + 1 \in 1..Len(mailbox')
    BY <1>1, <2>1
  <2>. QED
    BY <1>3, <2>1, <2>2, <2>3, <2>4 DEF Asks
<1>. QED
  BY <1>2, <1>3, QueueLocal

\* What the handlers do, as seen from the seats.
LEMMA SeatsServer ==
    ASSUME RegistrationInv, NoticeInv, RequestsCarryText, Server
    PROVE  Seats!Next \/ UNCHANGED Seats!seatVars
<1>. DEFINE m == mailbox[1]
            stage == [s \in Session |-> Stage(phase[s])]
            asking == {s \in Session : Asks(s)}
            lapsed == {RoleOf(s) : s \in hbFailed}
            Arrived == Notice("PeerConnected")
            Departed == Notice("PeerDisconnected")
<1>1. /\ hbFailed' = hbFailed /\ UNCHANGED lapsed
      /\ peers \in [Role -> Session \cup {NoPeer}] /\ inbox \in [Session -> Seq(Signal)]
      /\ mailbox \in Seq(Message)
  BY DEF RegistrationInv, TypeOK, ServerTypeOK, Server, sessionVars
<1>2. ASSUME NEW kind, Take(kind)
      PROVE  /\ Head(mailbox) = m /\ m.kind = kind /\ m.addr \in Session
             /\ m.role = RoleOf(m.addr) /\ m.role \in Role /\ Other(m.role) \in Role
             /\ 1 \in 1..Len(mailbox) /\ phase' = phase /\ UNCHANGED stage
             /\ phase[m.addr] # "new"
             /\ kind = "Connect" <=> m.addr \in asking
             /\ asking' = asking \ {m.addr}
             /\ kind # "Connect" => asking' = asking
             /\ kind # "Connect" /\ ~HeartbeatFailedIn(m.role) => peers[m.role] = m.addr
  <2>1. /\ Head(mailbox) = m /\ m.kind = kind /\ m.addr \in Session
        /\ m.role \in Role /\ 1 \in 1..Len(mailbox) /\ phase' = phase
    BY <1>1, <1>2, TakeHead
  <2>2. m.role = RoleOf(m.addr) /\ phase[m.addr] # "new"
    BY <2>1 DEF RegistrationInv, QueueMatchesPhase
  <2>3. kind # "Connect" /\ ~HeartbeatFailedIn(m.role) => peers[m.role] = m.addr
    BY <2>1, <2>2 DEF RegistrationInv, ClaimantsAreRegistered, Claims
  <2>4. (kind = "Connect" <=> m.addr \in asking) /\ asking' = asking \ {m.addr}
    BY <1>2, <2>1, AsksAfterTake
  <2>5. kind # "Connect" => asking' = asking
    BY <2>4
  <2>. QED
    BY <2>1, <2>2, <2>3, <2>4, <2>5, Roles
<1>3. \A r \in Role : HeartbeatFailedIn(r) => r \in lapsed
  BY DEF HeartbeatFailedIn
<1>4. \A r \in Role : \A x : Seats!Hand(r, x) = Tell(r, x)
  BY HandIsTell
<1>5. ASSUME NEW s \in Session
      PROVE  stage[s] = Stage(phase[s])
  OBVIOUS
<1>. HIDE DEF m, stage, asking, lapsed
<1>6. CASE AcceptConnect
  <2>1. /\ Take("Connect") /\ m.addr \in Session /\ m.role = RoleOf(m.addr) /\ m.role \in Role
        /\ m.addr \in asking /\ asking' = asking \ {m.addr} /\ UNCHANGED stage
        /\ Other(m.role) \in Role /\ Head(mailbox) = m
    BY <1>2, <1>6 DEF AcceptConnect
  <2>2. /\ peers[m.role] = NoPeer /\ peers' = [peers EXCEPT ![m.role] = m.addr]
        /\ inbox' = Tell(Other(m.role), Arrived)
    BY <1>6, <2>1 DEF AcceptConnect, SlotFree
  <2>3. Seats!Sit(m.addr)
    BY <1>1, <1>4, <2>1, <2>2, Sides DEF Seats!Sit, stage, asking, lapsed
  <2>. QED
    BY <2>1, <2>3, Sides DEF Seats!Next
<1>7. CASE RefuseConnect
  <2>1. /\ Take("Connect") /\ m.addr \in Session /\ m.role = RoleOf(m.addr)
        /\ m.addr \in asking /\ asking' = asking \ {m.addr} /\ UNCHANGED stage
        /\ Head(mailbox) = m
    BY <1>2, <1>7 DEF RefuseConnect
  <2>2. peers[m.role] # NoPeer /\ peers' = peers /\ inbox' = inbox
    BY <1>7, <2>1 DEF RefuseConnect, SlotFree
  <2>3. Seats!TurnAway(m.addr)
    BY <1>1, <2>1, <2>2, Sides DEF Seats!TurnAway, stage, asking, lapsed
  <2>. QED
    BY <2>1, <2>3, Sides DEF Seats!Next
<1>8. ASSUME NEW kind, Take(kind), kind # "Connect", peers' = peers, inbox' = inbox
      PROVE  UNCHANGED Seats!seatVars
  <2>1. asking' = asking /\ UNCHANGED stage
    BY <1>2, <1>8
  <2>. QED
    BY <1>1, <1>8, <2>1 DEF Seats!seatVars, stage, asking, lapsed
<1>9. CASE HandleDisconnect
  <2>1. /\ Take("Disconnect") /\ m.addr \in Session /\ m.role = RoleOf(m.addr) /\ m.role \in Role
        /\ asking' = asking /\ UNCHANGED stage /\ Other(m.role) \in Role
        /\ Head(mailbox) = m /\ m.kind = "Disconnect" /\ 1 \in 1..Len(mailbox)
        /\ ~HeartbeatFailedIn(m.role) => peers[m.role] = m.addr
    BY <1>2, <1>9 DEF HandleDisconnect
  <2>2. CASE peers[m.role] = NoPeer
    BY <1>8, <1>9, <2>1, <2>2 DEF HandleDisconnect
  <2>3. CASE peers[m.role] # NoPeer
    <3>1. /\ peers' = [peers EXCEPT ![m.role] = NoPeer]
          /\ inbox' = Tell(Other(m.role), Departed)
      BY <1>9, <2>1, <2>3 DEF HandleDisconnect, AnnounceLeave
    <3>2. stage[peers[m.role]] = "gone" \/ m.role \in lapsed
      <4>. SUFFICES ASSUME m.role \notin lapsed PROVE stage[peers[m.role]] = "gone"
        OBVIOUS
      <4>1. ~HeartbeatFailedIn(m.role) /\ peers[m.role] = m.addr
        BY <1>3, <2>1
      <4>2. m.addr \notin hbFailed
        BY <2>1, <4>1 DEF HeartbeatFailedIn
      <4>3. phase[m.addr] = "stopped"
        BY <2>1, <4>2 DEF RegistrationInv, QueueMatchesPhase, m
      <4>. QED
        BY <1>5, <2>1, <4>1, <4>3, Stages
    <3>3. Seats!GiveUp(m.role)
      BY <1>1, <1>4, <2>1, <2>3, <3>1, <3>2, Sides DEF Seats!GiveUp, stage, asking, lapsed
    <3>. QED
      BY <2>1, <3>3, Sides DEF Seats!Next
  <2>. QED
    BY <2>2, <2>3
<1>10. CASE Relay
  <2>1. /\ Take("SignalReq") /\ m.addr \in Session /\ m.role = RoleOf(m.addr) /\ m.role \in Role
        /\ m.addr \notin asking /\ asking' = asking /\ UNCHANGED stage /\ Other(m.role) \in Role
        /\ Head(mailbox) = m /\ m.kind = "SignalReq" /\ 1 \in 1..Len(mailbox)
        /\ phase[m.addr] # "new"
        /\ ~HeartbeatFailedIn(m.role) => peers[m.role] = m.addr
    BY <1>2, <1>10 DEF Relay
  <2>2. peers[Other(m.role)] # NoPeer /\ inbox' = Tell(Other(m.role), ToSignal(m.data)) /\ peers' = peers
    BY <1>10, <2>1 DEF Relay
  <2>3. m.data \in Data
    BY <2>1 DEF RequestsCarryText, m
  <2>4. stage[m.addr] # "away"
    <3>1. phase[m.addr] \in Phase
      BY <2>1 DEF RegistrationInv, TypeOK, ServerTypeOK
    <3>. QED
      BY <1>5, <2>1, <3>1, Stages
  <2>5. peers[m.role] = m.addr \/ m.role \in lapsed
    BY <1>3, <2>1
  <2>6. Seats!Speak(m.addr, ToSignal(m.data))
    BY <1>1, <1>4, <2>1, <2>2, <2>4, <2>5, Sides DEF Seats!Speak, stage, asking, lapsed
  <2>. QED
    BY <2>1, <2>3, <2>6, Sides DEF Seats!Next
<1>11. CASE RefuseRelay
  BY <1>8, <1>11 DEF RefuseRelay
<1>. QED
  BY <1>6, <1>7, <1>9, <1>10, <1>11 DEF Server, ServerStep

\* What the sessions do, as seen from the seats.
LEMMA SeatsLocal ==
    ASSUME RegistrationInv, NEW s \in Session, Internal(s) \/ External(s)
    PROVE  Seats!Next \/ UNCHANGED Seats!seatVars
<1>. DEFINE stage == [t \in Session |-> Stage(phase[t])]
            asking == {t \in Session : Asks(t)}
            lapsed == {RoleOf(t) : t \in hbFailed}
<1>1. /\ phase \in [Session -> Phase] /\ inbox \in [Session -> Seq(Signal)] /\ hbFailed \subseteq Session
      /\ TypeOK /\ peers' = peers /\ stage[s] = Stage(phase[s])
  BY OthersUntouched DEF RegistrationInv, TypeOK, ServerTypeOK
<1>2. /\ Start(s) => asking' = asking \cup {s}
      /\ ~Start(s) => asking' = asking
  BY <1>1, AsksAfterSend
<1>3. ASSUME NEW p, Goto(s, p)
      PROVE  stage' = [stage EXCEPT ![s] = Stage(p)]
  <2>1. \A t \in Session : phase'[t] = IF t = s THEN p ELSE phase[t]
    BY <1>1, <1>3 DEF Goto
  <2>. QED
    BY <2>1
<1>4. phase' = phase => stage' = stage
  OBVIOUS
<1>5. hbFailed' = hbFailed => lapsed' = lapsed
  OBVIOUS
<1>6. hbFailed' = hbFailed \cup {s} => lapsed' = lapsed \cup {RoleOf(s)}
  OBVIOUS
<1>7. stage = [stage EXCEPT ![s] = stage[s]]
  OBVIOUS
<1>8. /\ phase[s] \in {"connecting", "running", "waiting"} => stage[s] = "here"
      /\ phase[s] = "new" => stage[s] = "away"
      /\ phase[s] = "stopping" => stage[s] = "leaving"
      /\ Stage("connecting") = "here" /\ Stage("running") = "here" /\ Stage("waiting") = "here"
      /\ Stage("stopping") = "leaving" /\ Stage("stopped") = "gone"
  BY <1>1, Stages
<1>. HIDE DEF stage, asking, lapsed
<1>9. CASE Start(s)
  <2>1. phase[s] = "new" /\ Goto(s, "connecting") /\ inbox' = inbox /\ hbFailed' = hbFailed
    BY <1>9 DEF Start, sessionVars
  <2>2. Seats!Come(s)
    BY <1>1, <1>2, <1>3, <1>5, <1>8, <1>9, <2>1 DEF Seats!Come, stage, asking, lapsed
  <2>. QED
    BY <2>2, Sides DEF Seats!Next
<1>10. CASE ConnectAccepted(s) \/ RequestDone(s) \/ \E d \in Data : ReceiveText(s, d)
  <2>1. /\ phase[s] \in {"connecting", "running", "waiting"} /\ inbox' = inbox /\ hbFailed' = hbFailed
        /\ Goto(s, "running") \/ Goto(s, "waiting")
        /\ ~Start(s)
    BY <1>10 DEF ConnectAccepted, RequestDone, ReceiveText, Start
  <2>2. stage' = stage
    BY <1>3, <1>7, <1>8, <2>1
  <2>. QED
    BY <1>1, <1>2, <1>5, <2>1, <2>2 DEF Seats!seatVars, stage, asking, lapsed
<1>11. CASE HandleSignal(s)
  <2>1. /\ phase[s] = "running" /\ inbox[s] # <<>> /\ phase' = phase /\ hbFailed' = hbFailed
        /\ inbox' = [inbox EXCEPT ![s] = Tail(@)] /\ ~Start(s)
    BY <1>11 DEF HandleSignal, Start
  <2>2. Seats!Hear(s)
    BY <1>1, <1>2, <1>4, <1>5, <1>8, <2>1 DEF Seats!Hear, stage, asking, lapsed
  <2>. QED
    BY <2>2, Sides DEF Seats!Next
<1>12. CASE ConnectRefused(s) \/ StreamEnds(s) \/ HeartbeatFails(s) \/ ConnectionLost(s)
  <2>1. /\ phase[s] \in {"connecting", "running", "waiting"} /\ inbox' = inbox
        /\ Goto(s, "stopping") /\ ~Start(s)
        /\ hbFailed' = hbFailed \/ hbFailed' = hbFailed \cup {s}
    BY <1>12 DEF ConnectRefused, StreamEnds, HeartbeatFails, ConnectionLost, Start, sessionVars
  <2>2. lapsed' \in {lapsed, lapsed \cup {RoleOf(s)}}
    BY <1>5, <1>6, <2>1
  <2>3. Seats!Leave(s)
    BY <1>1, <1>2, <1>3, <1>8, <2>1, <2>2, Sides DEF Seats!Leave, stage, asking, lapsed
  <2>. QED
    BY <2>3, Sides DEF Seats!Next
<1>13. CASE Stopping(s)
  <2>1. /\ phase[s] = "stopping" /\ inbox' = [inbox EXCEPT ![s] = <<>>] /\ hbFailed' = hbFailed
        /\ Goto(s, "stopped") /\ ~Start(s)
    BY <1>13 DEF Stopping, Start, sessionVars
  <2>2. Seats!Go(s)
    BY <1>1, <1>2, <1>3, <1>5, <1>8, <2>1 DEF Seats!Go, stage, asking, lapsed
  <2>. QED
    BY <2>2, Sides DEF Seats!Next
<1>. QED
  BY <1>9, <1>10, <1>11, <1>12, <1>13 DEF Internal, External

\* The slots, the phases and the inboxes behave as Rendezvous: whatever the
\* sessions and the server do, in any order, takes, keeps or gives up a seat for
\* the one who sits there, or changes nothing of it.
THEOREM SignalsImplementRendezvous == Spec => RendezvousSpec
<1>1. Init => Seats!Init
  <2>. SUFFICES ASSUME Init PROVE Seats!Init
    OBVIOUS
  <2>1. 1..Len(mailbox) = {}
    BY DEF Init, ServerInit
  <2>2. {s \in Session : Asks(s)} = {}
    BY <2>1 DEF Asks
  <2>3. [s \in Session |-> Stage(phase[s])] = [s \in Session |-> "away"]
    BY Stages DEF Init, ServerInit
  <2>. QED
    BY <2>2, <2>3, Sides DEF Init, ServerInit, Seats!Init
<1>2. RegistrationInv /\ NoticeInv /\ RequestsCarryText /\ [Next]_vars => [Seats!Next]_(Seats!seatVars)
  <2>. SUFFICES ASSUME RegistrationInv, NoticeInv, RequestsCarryText, [Next]_vars
                PROVE  Seats!Next \/ UNCHANGED Seats!seatVars
    OBVIOUS
  <2>1. CASE Server
    BY <2>1, SeatsServer
  <2>2. ASSUME NEW s \in Session, Internal(s) \/ External(s)
        PROVE  Seats!Next \/ UNCHANGED Seats!seatVars
    BY <2>2, SeatsLocal
  <2>3. CASE UNCHANGED vars
    BY <2>3 DEF vars, Seats!seatVars, Asks
  <2>. QED
    BY <2>1, <2>2, <2>3 DEF Next
<1>. QED
  BY <1>1, <1>2, RegistrationInvariant, NoticeInvariant, RequestsInvariant, PTL
     DEF Spec, RendezvousSpec, Seats!Spec
=============================================================================
