--------------------------- MODULE InputHistoryProofs ---------------------------
(***************************************************************************)
(* Proofs about InputHistory, for any texts and any number of submits: the *)
(* offset is always at a line or at the draft, no line is lost, and the    *)
(* input line behaves as InputWalk.                                        *)
(***************************************************************************)
EXTENDS InputHistory, SequenceTheorems, TLAPS

\* What the refinement makes of a history and an offset into it.
OlderOf(h, o) == SubSeq(h, o + 2, Len(h))
NewerOf(h, o) == [i \in 1..(o + 1) |-> h[o + 2 - i]]

LEMMA WalkTerms ==
    /\ Walk!AllLines = Walk!Backwards(NewerOf(history, offset)) \o OlderOf(history, offset)
    /\ Walk!Shown = IF NewerOf(history, offset) = <<>> THEN typedInput
                    ELSE Head(NewerOf(history, offset))
BY DEF Walk!AllLines, Walk!Shown, NewerOf, OlderOf

\* Two sequences of one length with the same lines are the same.
LEMMA Same ==
    ASSUME NEW n \in Nat, NEW s \in Seq(Line), NEW t \in Seq(Line), Len(s) = n, Len(t) = n,
           \A i \in 1..n : s[i] = t[i]
    PROVE  s = t
BY SeqEqual

\* The lines of one sequence and then those of another.
LEMMA Joined ==
    \A s, t \in Seq(Line) :
        /\ s \o t \in Seq(Line)
        /\ Len(s \o t) = Len(s) + Len(t)
        /\ \A i \in 1..Len(s) : (s \o t)[i] = s[i]
        /\ \A i \in 1..Len(t) : (s \o t)[Len(s) + i] = t[i]
<1>. TAKE s, t \in Seq(Line)
<1>1. /\ s \o t \in Seq(Line)
      /\ Len(s \o t) = Len(s) + Len(t)
      /\ \A i \in 1..(Len(s) + Len(t)) : (s \o t)[i] = IF i <= Len(s) THEN s[i] ELSE t[i - Len(s)]
  BY ConcatProperties
<1>. QED
  BY <1>1, LenProperties

\* Both parts are sequences of lines, and these are their lines.
LEMMA Parts ==
    ASSUME NEW h \in Seq(Line), NEW o \in Int, o >= -1, o < Len(h)
    PROVE  /\ OlderOf(h, o) \in Seq(Line)
           /\ Len(OlderOf(h, o)) = Len(h) - o - 1
           /\ \A i \in 1..(Len(h) - o - 1) : OlderOf(h, o)[i] = h[o + 1 + i]
           /\ NewerOf(h, o) \in Seq(Line)
           /\ Len(NewerOf(h, o)) = o + 1
           /\ \A i \in 1..(o + 1) : NewerOf(h, o)[i] = h[o + 2 - i]
<1>. Len(h) \in Nat /\ o + 1 \in Nat /\ Len(h) - o - 1 \in Nat
  BY LenProperties
<1>1. \A i \in 1..Len(h) : h[i] \in Line
  BY ElementOfSeq
<1>2. NewerOf(h, o) \in Seq(Line) /\ Len(NewerOf(h, o)) = o + 1
  <2>1. \A i \in 1..(o + 1) : h[o + 2 - i] \in Line
    BY <1>1
  <2>. QED
    BY <2>1, IsASeq DEF NewerOf
<1>3. OlderOf(h, o) = [i \in 1..(Len(h) - o - 1) |-> h[i + o + 1]]
  <2>1. Len(h) - (o + 2) + 1 = Len(h) - o - 1 /\ \A i \in Int : i + (o + 2) - 1 = i + o + 1
    OBVIOUS
  <2>. QED
    BY <2>1 DEF OlderOf
<1>4. OlderOf(h, o) \in Seq(Line) /\ Len(OlderOf(h, o)) = Len(h) - o - 1
  <2>1. \A i \in 1..(Len(h) - o - 1) : h[i + o + 1] \in Line
    BY <1>1
  <2>. QED
    BY <1>3, <2>1, IsASeq
<1>. QED
  BY <1>2, <1>3, <1>4 DEF NewerOf

\* To step up moves the newest of the older lines to the newer ones.
LEMMA StepUp ==
    ASSUME NEW h \in Seq(Line), NEW o \in Int, o >= -1, o < Len(h) - 1
    PROVE  /\ OlderOf(h, o) # <<>>
           /\ NewerOf(h, o + 1) = <<Head(OlderOf(h, o))>> \o NewerOf(h, o)
           /\ OlderOf(h, o + 1) = Tail(OlderOf(h, o))
<1>. DEFINE older == OlderOf(h, o)
            newer == NewerOf(h, o)
<1>. Len(h) \in Nat
  BY LenProperties
<1>1. /\ older \in Seq(Line) /\ Len(older) = Len(h) - o - 1
      /\ \A i \in 1..(Len(h) - o - 1) : older[i] = h[o + 1 + i]
      /\ newer \in Seq(Line) /\ Len(newer) = o + 1
      /\ \A i \in 1..(o + 1) : newer[i] = h[o + 2 - i]
  BY Parts
<1>2. /\ OlderOf(h, o + 1) \in Seq(Line) /\ Len(OlderOf(h, o + 1)) = Len(h) - o - 2
      /\ \A i \in 1..(Len(h) - o - 2) : OlderOf(h, o + 1)[i] = h[o + 2 + i]
      /\ NewerOf(h, o + 1) \in Seq(Line) /\ Len(NewerOf(h, o + 1)) = o + 2
      /\ \A i \in 1..(o + 2) : NewerOf(h, o + 1)[i] = h[o + 3 - i]
  BY Parts
<1>. HIDE DEF older, newer
<1>3. older # <<>> /\ Head(older) = h[o + 2] /\ Head(older) \in Line
  <2>1. Len(older) # 0 /\ 1 \in 1..(Len(h) - o - 1) /\ o + 1 + 1 = o + 2
    BY <1>1
  <2>2. older # <<>>
    BY <2>1
  <2>3. Head(older) = older[1] /\ Head(older) \in Line
    BY <1>1, <2>2, HeadTailProperties
  <2>4. older[1] = h[o + 2]
    BY <1>1, <2>1
  <2>. QED
    BY <2>2, <2>3, <2>4
<1>4. OlderOf(h, o + 1) = Tail(older)
  <2>. DEFINE n == Len(h) - o - 2
              s == OlderOf(h, o + 1)
              t == Tail(older)
  <2>1. n \in Nat
    OBVIOUS
  <2>2. t \in Seq(Line) /\ Len(t) = n /\ \A i \in 1..n : t[i] = h[o + 2 + i]
    <3>1. /\ Tail(older) \in Seq(Line) /\ Len(Tail(older)) = Len(older) - 1
          /\ \A i \in 1..Len(Tail(older)) : Tail(older)[i] = older[i + 1]
      <4>1. older \in Seq(Line) /\ older # <<>>
        BY <1>1, <1>3
      <4>. QED
        BY <4>1, HeadTailProperties
    <3>2. Len(Tail(older)) = n
      BY <1>1, <3>1
    <3>3. ASSUME NEW i \in 1..n
          PROVE  Tail(older)[i] = h[o + 2 + i]
      <4>1. Tail(older)[i] = older[i + 1]
        BY <3>1, <3>2
      <4>2. i + 1 \in 1..(Len(h) - o - 1) /\ o + 1 + (i + 1) = o + 2 + i
        OBVIOUS
      <4>. QED
        BY <1>1, <4>1, <4>2
    <3>. QED
      BY <3>1, <3>2, <3>3
  <2>3. s \in Seq(Line) /\ Len(s) = n /\ \A i \in 1..n : s[i] = h[o + 2 + i]
    BY <1>2
  <2>. HIDE DEF n, s, t
  <2>4. \A i \in 1..n : s[i] = t[i]
    BY <2>2, <2>3
  <2>5. s = t
    BY <2>1, <2>2, <2>3, <2>4, Same
  <2>. QED
    BY <2>5 DEF s, t
<1>5. NewerOf(h, o + 1) = <<Head(older)>> \o newer
  <2>. DEFINE m == o + 1
              one == <<Head(older)>>
              s == NewerOf(h, o + 1)
  <2>1. one \in Seq(Line) /\ Len(one) = 1 /\ one[1] = h[o + 2]
    BY <1>3
  <2>2. m \in Nat /\ newer \in Seq(Line) /\ Len(newer) = m /\ 1 + m \in Nat
    BY <1>1
  <2>. HIDE DEF one, m
  <2>3. /\ one \o newer \in Seq(Line) /\ Len(one \o newer) = 1 + m
        /\ \A i \in 1..1 : (one \o newer)[i] = one[i]
        /\ \A i \in 1..m : (one \o newer)[1 + i] = newer[i]
    <3>1. /\ one \o newer \in Seq(Line) /\ Len(one \o newer) = Len(one) + Len(newer)
          /\ \A i \in 1..Len(one) : (one \o newer)[i] = one[i]
          /\ \A i \in 1..Len(newer) : (one \o newer)[Len(one) + i] = newer[i]
      BY <2>1, <2>2, Joined
    <3>. QED
      BY <2>1, <2>2, <3>1
  <2>4. s \in Seq(Line) /\ Len(s) = 1 + m
    BY <1>2 DEF m
  <2>5. \A i \in 1..(1 + m) : s[i] = (one \o newer)[i]
    <3>. SUFFICES ASSUME NEW i \in 1..(1 + m)
                  PROVE  s[i] = (one \o newer)[i]
      OBVIOUS
    <3>1. s[i] = h[o + 3 - i]
      BY <1>2 DEF m
    <3>2. CASE i = 1
      BY <2>1, <2>3, <3>1, <3>2
    <3>3. CASE i # 1
      <4>1. PICK j \in 1..m : i = 1 + j
        <5>1. i - 1 \in 1..m /\ i = 1 + (i - 1)
          BY <2>2, <3>3
        <5>. QED
          BY <5>1
      <4>2. newer[j] = h[o + 2 - j]
        BY <1>1, <4>1 DEF m
      <4>3. (one \o newer)[1 + j] = newer[j]
        BY <2>3, <4>1
      <4>. QED
        BY <3>1, <4>1, <4>2, <4>3
    <3>. QED
      BY <3>2, <3>3
  <2>. HIDE DEF s
  <2>6. s = one \o newer
    BY <2>2, <2>3, <2>4, <2>5, Same
  <2>. QED
    BY <2>6 DEF s, one
<1>. QED
  BY <1>3, <1>4, <1>5 DEF older, newer

\* To step down moves it back.
LEMMA StepDown ==
    ASSUME NEW h \in Seq(Line), NEW o \in Int, o >= 0, o < Len(h)
    PROVE  /\ NewerOf(h, o) # <<>>
           /\ OlderOf(h, o - 1) = <<Head(NewerOf(h, o))>> \o OlderOf(h, o)
           /\ NewerOf(h, o - 1) = Tail(NewerOf(h, o))
<1>. DEFINE older == OlderOf(h, o - 1)
            newer == NewerOf(h, o - 1)
<1>. Len(h) \in Nat /\ (o - 1) + 1 = o
  BY LenProperties
<1>1. /\ older # <<>>
      /\ NewerOf(h, o) = <<Head(older)>> \o newer
      /\ OlderOf(h, o) = Tail(older)
  BY StepUp, o - 1 \in Int, o - 1 >= -1, o - 1 < Len(h) - 1
<1>2. older \in Seq(Line) /\ newer \in Seq(Line)
  BY Parts, o - 1 \in Int, o - 1 >= -1, o - 1 < Len(h)
<1>. HIDE DEF older, newer
<1>3. Head(older) \in Line
  BY <1>1, <1>2, HeadTailProperties
<1>4. /\ NewerOf(h, o) # <<>>
      /\ Head(NewerOf(h, o)) = Head(older)
      /\ Tail(NewerOf(h, o)) = newer
  <2>. DEFINE x == Head(older)
  <2>1. x \in Line /\ <<x>> \in Seq(Line)
    BY <1>3
  <2>. HIDE DEF x
  <2>2. /\ <<x>> \o newer # <<>>
        /\ Head(<<x>> \o newer) = x
    BY <1>2, <2>1
  <2>3. Tail(<<x>> \o newer) = newer
    BY <1>2, <2>1
  <2>. QED
    BY <1>1, <2>2, <2>3 DEF x
<1>5. older = <<Head(older)>> \o Tail(older)
  BY <1>1, <1>2
<1>. QED
  BY <1>1, <1>4, <1>5 DEF older, newer

\* When the walk is over all lines are older, in the order of the history.
LEMMA StepReset ==
    ASSUME NEW h \in Seq(Line), NEW o \in Int, o >= -1, o < Len(h)
    PROVE  /\ OlderOf(h, Reset) = h
           /\ NewerOf(h, Reset) = <<>>
           /\ Walk!Backwards(NewerOf(h, o)) \o OlderOf(h, o) = h
<1>. DEFINE older == OlderOf(h, o)
            newer == NewerOf(h, o)
            back  == Walk!Backwards(newer)
<1>. Len(h) \in Nat /\ Reset = -1
  BY LenProperties DEF Reset, HISTORY_RESET_POS
<1>1. /\ older \in Seq(Line) /\ Len(older) = Len(h) - o - 1
      /\ \A i \in 1..(Len(h) - o - 1) : older[i] = h[o + 1 + i]
      /\ newer \in Seq(Line) /\ Len(newer) = o + 1
      /\ \A i \in 1..(o + 1) : newer[i] = h[o + 2 - i]
  BY Parts
<1>2. OlderOf(h, Reset) = h
  BY SubSeqFull DEF OlderOf
<1>3. NewerOf(h, Reset) = <<>>
  <2>1. NewerOf(h, -1) \in Seq(Line) /\ Len(NewerOf(h, -1)) = 0
    BY Parts, -1 \in Int, -1 >= -1, -1 < Len(h)
  <2>. QED
    BY <2>1, EmptySeq
<1>. HIDE DEF older, newer
<1>4. /\ back \in Seq(Line) /\ Len(back) = o + 1
      /\ \A i \in 1..(o + 1) : back[i] = h[i]
  <2>1. back = [i \in 1..(o + 1) |-> newer[(o + 1) + 1 - i]]
    BY <1>1 DEF Walk!Backwards
  <2>2. \A i \in 1..(o + 1) : newer[(o + 1) + 1 - i] = h[i] /\ h[i] \in Line
    BY <1>1, ElementOfSeq
  <2>. HIDE DEF back
  <2>3. o + 1 \in Nat /\ \A i \in 1..(o + 1) : newer[(o + 1) + 1 - i] \in Line
    BY <2>2
  <2>4. back \in Seq(Line) /\ Len(back) = o + 1
    BY <2>1, <2>3, IsASeq
  <2>. QED
    BY <2>1, <2>2, <2>4
<1>. HIDE DEF back
<1>5. back \o older = h
  <2>. DEFINE m == o + 1
              n == Len(h) - o - 1
  <2>1. m \in Nat /\ n \in Nat /\ m + n = Len(h) /\ m + n \in Nat
    OBVIOUS
  <2>2. Len(back) = m /\ Len(older) = n
    BY <1>1, <1>4
  <2>. HIDE DEF m, n
  <2>3. /\ back \o older \in Seq(Line) /\ Len(back \o older) = m + n
        /\ \A i \in 1..m : (back \o older)[i] = back[i]
        /\ \A i \in 1..n : (back \o older)[m + i] = older[i]
    BY <1>1, <1>4, <2>1, <2>2, Joined
  <2>4. \A i \in 1..(m + n) : (back \o older)[i] = h[i]
    <3>. SUFFICES ASSUME NEW i \in 1..(m + n)
                  PROVE  (back \o older)[i] = h[i]
      OBVIOUS
    <3>1. CASE i \in 1..m
      BY <1>4, <2>1, <2>3, <3>1 DEF m
    <3>2. CASE i \notin 1..m
      <4>1. PICK j \in 1..n : i = m + j
        <5>1. i - m \in 1..n /\ i = m + (i - m)
          BY <2>1, <3>2
        <5>. QED
          BY <5>1
      <4>2. older[j] = h[o + 1 + j]
        BY <1>1, <4>1 DEF n
      <4>3. (back \o older)[m + j] = older[j]
        BY <2>3, <4>1
      <4>4. o + 1 + j = m + j
        BY <4>1 DEF m
      <4>. QED
        BY <4>1, <4>2, <4>3, <4>4
    <3>. QED
      BY <3>1, <3>2
  <2>. QED
    BY <2>1, <2>3, <2>4, Same
<1>. QED
  BY <1>2, <1>3, <1>5 DEF older, newer, back

(***************************************************************************)
(* The input line.                                                         *)
(***************************************************************************)

\* What TypeOK says of the walk, in the terms of the lemmas above.
LEMMA Here ==
    ASSUME TypeOK
    PROVE  /\ history \in Seq(Line) /\ Len(history) \in Nat
           /\ offset \in Int /\ offset >= -1 /\ offset < Len(history)
           /\ HISTORY_RESET_POS = -1 /\ Reset = -1
BY LenProperties DEF TypeOK, HISTORY_RESET_POS, Reset

\* The line shown is a text, also when it is one of the history.
LEMMA ShownIsText ==
    ASSUME TypeOK
    PROVE  /\ ActualInput \in Text
           /\ ActualInput = Walk!Shown
<1>. USE Here
<1>1. NewerOf(history, offset) \in Seq(Line) /\ Len(NewerOf(history, offset)) = offset + 1
  BY Parts
<1>2. CASE offset = -1
  <2>1. NewerOf(history, offset) = <<>>
    BY <1>1, <1>2, EmptySeq
  <2>. QED
    BY <1>2, <2>1, WalkTerms DEF ActualInput, TypeOK
<1>3. CASE offset # -1
  <2>1. offset + 1 \in 1..Len(history) /\ 1 \in 1..(offset + 1)
    BY <1>3
  <2>2. history[offset + 1] \in Line
    BY <2>1, ElementOfSeq
  <2>3. NewerOf(history, offset) # <<>>
    BY <1>1, <1>3
  <2>4. Head(NewerOf(history, offset)) = history[offset + 1]
    <3>1. NewerOf(history, offset)[1] = history[offset + 2 - 1]
      BY <2>1 DEF NewerOf
    <3>. QED
      BY <1>1, <2>3, <3>1
  <2>. QED
    BY <1>3, <2>2, <2>3, <2>4, WalkTerms DEF ActualInput, Text
<1>. QED
  BY <1>2, <1>3

\* An empty line is never one of the history.
LEMMA ShownIsLine ==
    ASSUME TypeOK, ActualInput = NoText
    PROVE  offset = -1
<1>. SUFFICES ASSUME offset # -1
              PROVE  FALSE
  OBVIOUS
<1>1. history[offset + 1] \in Line
  <2>1. offset + 1 \in 1..Len(history)
    BY Here
  <2>. QED
    BY <2>1, Here, ElementOfSeq
<1>. QED
  BY <1>1, Here, LineAssumption DEF ActualInput

\* What entering a text does to the history.
LEMMA PrependStep ==
    ASSUME TypeOK, NEW text \in Text, Prepend(text)
    PROVE  /\ history' \in Seq(Line)
           /\ Len(history') >= Len(history)
           /\ text = NoText => history' = history
           /\ text # NoText => history' = <<text>> \o history
<1>1. CASE text = NoText
  BY <1>1, Here DEF Prepend
<1>2. CASE text # NoText
  <2>1. text \in Line /\ <<text>> \in Seq(Line) /\ Len(<<text>>) = 1
    BY <1>2 DEF Text
  <2>2. <<text>> \o history \in Seq(Line) /\ Len(<<text>> \o history) = 1 + Len(history)
    BY <2>1, Here, ConcatProperties
  <2>. QED
    BY <1>2, <2>2, Here DEF Prepend
<1>. QED
  BY <1>1, <1>2

\* The offset is always at a line or at the draft, whatever is typed.
THEOREM OffsetInRange == Spec => []TypeOK
<1>1. Init => TypeOK
  BY DEF Init, TypeOK, HISTORY_RESET_POS, Text
<1>2. TypeOK /\ [Next]_vars => TypeOK'
  <2>. SUFFICES ASSUME TypeOK, [Next]_vars
                PROVE  TypeOK'
    OBVIOUS
  <2>. USE Here
  <2>1. CASE ShiftUp
    BY <2>1 DEF ShiftUp, AtTop, TypeOK
  <2>2. CASE ShiftDown
    BY <2>2 DEF ShiftDown, AtBottom, TypeOK
  <2>3. ASSUME NEW text \in Text, OnChange(text)
        PROVE  TypeOK'
    BY <2>3 DEF OnChange, TypeOK
  <2>4. CASE Submit
    <3>1. Prepend(ActualInput) /\ typedInput' = NoText /\ offset' = AfterAppend(ActualInput)
      BY <2>4 DEF Submit
    <3>2. ActualInput \in Text
      BY ShownIsText
    <3>3. history' \in Seq(Line) /\ Len(history') >= Len(history) /\ Len(history') \in Nat
      BY <3>1, <3>2, PrependStep, LenProperties
    <3>4. offset' \in HISTORY_RESET_POS'..(Len(history') - 1)
      BY <3>1, <3>3 DEF AfterAppend, HISTORY_RESET_POS
    <3>5. [type |-> "text", value |-> ActualInput] \in TerminalInputValue
      BY <3>2 DEF TerminalInputValue
    <3>6. onSubmit' \in Seq(TerminalInputValue)
      BY <2>4, <3>5 DEF Submit, TypeOK
    <3>. QED
      BY <3>1, <3>3, <3>4, <3>6 DEF TypeOK, Text
  <2>5. CASE Cancel
    BY <2>5 DEF Cancel, TypeOK, TerminalInputValue
  <2>6. CASE UNCHANGED vars
    BY <2>6 DEF vars, TypeOK
  <2>. QED
    BY <2>1, <2>2, <2>3, <2>4, <2>5, <2>6 DEF Next
<1>. QED
  BY <1>1, <1>2, PTL DEF Spec

\* Every key does to the input line what the walk promises: a step of the walk,
\* or, for Ctrl-C, none.
THEOREM InputIsWalk == Spec => WalkSpec
<1>1. Init => Walk!Init
  <2>. SUFFICES ASSUME Init
                PROVE  Walk!Init
    OBVIOUS
  <2>1. history = <<>> /\ offset = -1 /\ typedInput = NoText
    BY DEF Init, HISTORY_RESET_POS
  <2>2. history \in Seq(Line) /\ Len(history) = 0
    BY <2>1
  <2>3. OlderOf(history, -1) = history /\ NewerOf(history, -1) = <<>>
    BY <2>2, StepReset, -1 \in Int, -1 >= -1, -1 < Len(history) DEF Reset, HISTORY_RESET_POS
  <2>. QED
    BY <2>1, <2>3 DEF Walk!Init, OlderOf, NewerOf
<1>2. TypeOK /\ [Next]_vars =>
        [Walk!Next]_<<OlderOf(history, offset), NewerOf(history, offset), typedInput>>
  <2>. SUFFICES ASSUME TypeOK, [Next]_vars
                PROVE  Walk!Next \/ (/\ OlderOf(history, offset)' = OlderOf(history, offset)
                                     /\ NewerOf(history, offset)' = NewerOf(history, offset)
                                     /\ typedInput' = typedInput)
    OBVIOUS
  <2>. USE Here
  <2>. DEFINE older == OlderOf(history, offset)
              newer == NewerOf(history, offset)
  <2>1. CASE ShiftUp
    <3>1. offset < Len(history) - 1 /\ offset' = offset + 1
          /\ history' = history /\ typedInput' = typedInput
      BY <2>1 DEF ShiftUp, AtTop
    <3>2. older # <<>> /\ newer' = <<Head(older)>> \o newer /\ older' = Tail(older)
      BY <3>1, StepUp
    <3>3. Walk!Older
      BY <3>1, <3>2 DEF Walk!Older, OlderOf, NewerOf
    <3>. QED
      BY <3>3 DEF Walk!Next
  <2>2. CASE ShiftDown
    <3>1. offset >= 0 /\ offset' = offset - 1 /\ history' = history /\ typedInput' = typedInput
      BY <2>2 DEF ShiftDown, AtBottom
    <3>2. newer # <<>> /\ older' = <<Head(newer)>> \o older /\ newer' = Tail(newer)
      BY <3>1, StepDown
    <3>3. Walk!Newer
      BY <3>1, <3>2 DEF Walk!Newer, OlderOf, NewerOf
    <3>. QED
      BY <3>3 DEF Walk!Next
  <2>3. ASSUME NEW text \in Text, OnChange(text)
        PROVE  Walk!Next
    <3>1. offset' = -1 /\ history' = history /\ typedInput' = text
      BY <2>3 DEF OnChange
    <3>2. older' = Walk!AllLines /\ newer' = <<>>
      BY <3>1, StepReset, WalkTerms
    <3>3. typedInput' \in Line \cup {NoText}
      BY <3>1 DEF Text
    <3>4. Walk!Edit
      BY <3>2, <3>3 DEF Walk!Edit, OlderOf, NewerOf
    <3>. QED
      BY <3>4 DEF Walk!Next
  <2>4. CASE Submit
    <3>1. Prepend(ActualInput) /\ typedInput' = NoText /\ offset' = AfterAppend(ActualInput)
      BY <2>4 DEF Submit
    <3>2. ActualInput \in Text /\ ActualInput = Walk!Shown
      BY ShownIsText
    <3>3. Walk!AllLines = history
      BY StepReset, WalkTerms
    <3>4. offset' = -1
      <4>1. CASE ActualInput = NoText
        BY <3>1, <4>1, ShownIsLine DEF AfterAppend
      <4>2. CASE ActualInput # NoText
        BY <3>1, <4>2 DEF AfterAppend
      <4>. QED
        BY <4>1, <4>2
    <3>5. history' \in Seq(Line) /\ Len(history') \in Nat
      BY <3>1, <3>2, PrependStep, LenProperties
    <3>6. older' = history' /\ newer' = <<>>
      <4>1. OlderOf(history', -1) = history' /\ NewerOf(history', -1) = <<>>
        BY <3>5, StepReset, -1 \in Int, -1 >= -1, -1 < Len(history')
      <4>. QED
        BY <3>4, <4>1
    <3>7. history' = IF Walk!Shown = NoText THEN Walk!AllLines ELSE <<Walk!Shown>> \o Walk!AllLines
      BY <3>1, <3>2, <3>3, PrependStep
    <3>8. Walk!Enter
      BY <3>1, <3>6, <3>7 DEF Walk!Enter, OlderOf, NewerOf
    <3>. QED
      BY <3>8 DEF Walk!Next
  <2>5. CASE Cancel
    BY <2>5 DEF Cancel, OlderOf, NewerOf
  <2>6. CASE UNCHANGED vars
    BY <2>6 DEF vars, OlderOf, NewerOf
  <2>. QED
    BY <2>1, <2>2, <2>3, <2>4, <2>5, <2>6 DEF Next
<1>. QED
  BY <1>1, <1>2, OffsetInRange, PTL DEF Spec, WalkSpec, Walk!Spec, OlderOf, NewerOf

\* The inputs after a further one.
LEMMA InputTaken ==
    ASSUME NEW q \in Seq(TerminalInputValue), NEW input \in TerminalInputValue
    PROVE  /\ Len(Append(q, input)) = Len(q) + 1 /\ Len(q) \in Nat
           /\ \A k \in 1..Len(q) : Append(q, input)[k] = q[k]
           /\ Append(q, input)[Len(q) + 1] = input
BY AppendProperties, LenProperties

\* The terminal is given something that is not kept.
LEMMA NotKept ==
    ASSUME TypeOK, LinesAreKept, history' = history,
           NEW input \in TerminalInputValue, onSubmit' = Append(onSubmit, input),
           ~(input.type = "text" /\ input.value # NoText)
    PROVE  LinesAreKept'
<1>1. /\ Len(onSubmit') = Len(onSubmit) + 1 /\ Len(onSubmit) \in Nat
      /\ \A k \in 1..Len(onSubmit) : onSubmit'[k] = onSubmit[k]
      /\ onSubmit'[Len(onSubmit) + 1] = input
  BY InputTaken DEF TypeOK
<1>2. LineInputs' = LineInputs
  <2>1. ASSUME NEW k \in LineInputs'
        PROVE  k \in LineInputs
    BY <1>1 DEF LineInputs
  <2>2. ASSUME NEW k \in LineInputs
        PROVE  k \in LineInputs'
    BY <1>1 DEF LineInputs
  <2>. QED
    BY <2>1, <2>2
<1>3. \A k \in LineInputs : onSubmit'[k] = onSubmit[k]
  BY <1>1 DEF LineInputs
<1>4. PICK taken \in [1..Len(history) -> LineInputs] :
        /\ \A i, j \in 1..Len(history) : i < j => taken[i] > taken[j]
        /\ \A k \in LineInputs : \E i \in 1..Len(history) : taken[i] = k
        /\ \A i \in 1..Len(history) : history[i] = onSubmit[taken[i]].value
  BY DEF LinesAreKept
<1>5. \A i \in 1..Len(history) : history[i] = onSubmit'[taken[i]].value
  BY <1>3, <1>4
<1>6. /\ taken \in [1..Len(history') -> LineInputs']
      /\ \A i, j \in 1..Len(history') : i < j => taken[i] > taken[j]
      /\ \A k \in LineInputs' : \E i \in 1..Len(history') : taken[i] = k
      /\ \A i \in 1..Len(history') : history'[i] = onSubmit'[taken[i]].value
  BY <1>2, <1>4, <1>5
<1>. QED
  BY <1>6, Zenon DEF LinesAreKept

\* It is given a line, which is the newest then.
LEMMA LineKept ==
    ASSUME TypeOK, LinesAreKept, NEW text \in Line, history' = <<text>> \o history,
           onSubmit' = Append(onSubmit, [type |-> "text", value |-> text])
    PROVE  LinesAreKept'
<1>. DEFINE input == [type |-> "text", value |-> text]
            n == Len(onSubmit)
            h == Len(history)
<1>0. input \in TerminalInputValue /\ input.type = "text" /\ input.value = text /\ text # NoText
  BY LineAssumption DEF TerminalInputValue, Text
<1>. HIDE DEF input
<1>1. /\ Len(onSubmit') = n + 1 /\ n \in Nat
      /\ \A k \in 1..n : onSubmit'[k] = onSubmit[k]
      /\ onSubmit'[n + 1] = input
  BY <1>0, InputTaken DEF TypeOK, input
<1>2. /\ Len(history') = h + 1 /\ h \in Nat
      /\ history'[1] = text
      /\ \A i \in 2..h + 1 : history'[i] = history[i - 1]
  <2>. DEFINE one == <<text>>
  <2>1. one \in Seq(Line) /\ Len(one) = 1 /\ one[1] = text
    OBVIOUS
  <2>2. history \in Seq(Line) /\ history' = one \o history
    BY DEF TypeOK
  <2>. HIDE DEF one
  <2>3. /\ Len(one \o history) = 1 + h /\ h \in Nat
        /\ \A i \in 1..1 + h : (one \o history)[i] = IF i <= 1 THEN one[i] ELSE history[i - 1]
    BY <2>1, <2>2, ConcatProperties, LenProperties
  <2>. QED
    BY <2>1, <2>2, <2>3
<1>3. LineInputs \subseteq 1..n
  BY DEF LineInputs
<1>4. LineInputs' = LineInputs \cup {n + 1}
  <2>1. ASSUME NEW k \in LineInputs'
        PROVE  k \in LineInputs \cup {n + 1}
    BY <1>1 DEF LineInputs
  <2>2. ASSUME NEW k \in LineInputs
        PROVE  k \in LineInputs'
    BY <1>1 DEF LineInputs
  <2>3. n + 1 \in LineInputs'
    BY <1>0, <1>1 DEF LineInputs
  <2>. QED
    BY <2>1, <2>2, <2>3
<1>5. PICK taken \in [1..h -> LineInputs] :
        /\ \A i, j \in 1..h : i < j => taken[i] > taken[j]
        /\ \A k \in LineInputs : \E i \in 1..h : taken[i] = k
        /\ \A i \in 1..h : history[i] = onSubmit[taken[i]].value
  BY DEF LinesAreKept
<1>. DEFINE now == [i \in 1..h + 1 |-> IF i = 1 THEN n + 1 ELSE taken[i - 1]]
<1>. HIDE DEF n, h
<1>6. /\ now[1] = n + 1
      /\ \A i \in 2..h + 1 : i - 1 \in 1..h /\ now[i] = taken[i - 1]
                           /\ now[i] \in LineInputs /\ now[i] \in 1..n
  BY <1>2, <1>3, <1>5
<1>7. now \in [1..h + 1 -> LineInputs']
  BY <1>2, <1>4, <1>5
<1>. HIDE DEF now
<1>8. ASSUME NEW i \in 1..h + 1, NEW j \in 1..h + 1, i < j
      PROVE  now[i] > now[j]
  <2>1. CASE i = 1
    <3>1. now[j] \in 1..n
      BY <1>2, <1>6, <1>8, <2>1
    <3>. QED
      BY <1>1, <1>6, <2>1, <3>1
  <2>2. CASE i # 1
    <3>1. i - 1 \in 1..h /\ j - 1 \in 1..h /\ i - 1 < j - 1
          /\ now[i] = taken[i - 1] /\ now[j] = taken[j - 1]
      BY <1>2, <1>6, <1>8, <2>2
    <3>. QED
      BY <1>5, <3>1
  <2>. QED
    BY <2>1, <2>2
<1>9. ASSUME NEW k \in LineInputs'
      PROVE  \E i \in 1..h + 1 : now[i] = k
  <2>1. CASE k = n + 1
    BY <1>2, <1>6, <2>1
  <2>2. CASE k \in LineInputs
    <3>1. PICK i \in 1..h : taken[i] = k
      BY <1>5, <2>2
    <3>2. i + 1 \in 2..h + 1 /\ (i + 1) - 1 = i /\ i + 1 \in 1..h + 1
      BY <1>2
    <3>3. now[i + 1] = k
      BY <1>6, <3>1, <3>2
    <3>. QED
      BY <3>2, <3>3
  <2>. QED
    BY <1>4, <2>1, <2>2
<1>10. ASSUME NEW i \in 1..h + 1
       PROVE  history'[i] = onSubmit'[now[i]].value
  <2>1. CASE i = 1
    BY <1>0, <1>1, <1>2, <1>6, <2>1
  <2>2. CASE i # 1
    <3>1. i \in 2..h + 1
      BY <1>2, <2>2
    <3>2. history'[i] = onSubmit[now[i]].value
      BY <1>2, <1>5, <1>6, <3>1
    <3>. QED
      BY <1>1, <1>6, <3>1, <3>2
  <2>. QED
    BY <2>1, <2>2
<1>11. /\ now \in [1..Len(history') -> LineInputs']
       /\ \A i, j \in 1..Len(history') : i < j => now[i] > now[j]
       /\ \A k \in LineInputs' : \E i \in 1..Len(history') : now[i] = k
       /\ \A i \in 1..Len(history') : history'[i] = onSubmit'[now[i]].value
  BY <1>2, <1>7, <1>8, <1>9, <1>10
<1>. QED
  BY <1>11, Zenon DEF LinesAreKept

\* The lines of history are those the terminal was given, in their order.
THEOREM HistoryIsComplete == Spec => []LinesAreKept
<1>1. Init => LinesAreKept
  <2>. SUFFICES ASSUME Init PROVE LinesAreKept
    OBVIOUS
  <2>1. 1..Len(history) = {} /\ LineInputs = {}
    BY DEF Init, LineInputs
  <2>. DEFINE taken == [i \in 1..Len(history) |-> 0]
  <2>2. taken \in [1..Len(history) -> LineInputs]
    BY <2>1
  <2>. HIDE DEF taken
  <2>. QED
    BY <2>1, <2>2 DEF LinesAreKept
<1>2. TypeOK /\ LinesAreKept /\ [Next]_vars => LinesAreKept'
  <2>. SUFFICES ASSUME TypeOK, LinesAreKept, [Next]_vars
                PROVE  LinesAreKept'
    OBVIOUS
  <2>1. CASE UNCHANGED <<history, onSubmit>>
    BY <2>1 DEF LinesAreKept, LineInputs
  <2>2. CASE Submit
    <3>1. ActualInput \in Text /\ Prepend(ActualInput)
          /\ onSubmit' = Append(onSubmit, [type |-> "text", value |-> ActualInput])
      BY <2>2, ShownIsText DEF Submit
    <3>2. CASE ActualInput = NoText
      <4>1. history' = history
        BY <3>1, <3>2, PrependStep
      <4>2. [type |-> "text", value |-> ActualInput] \in TerminalInputValue
        BY <3>1 DEF TerminalInputValue
      <4>. QED
        BY <3>1, <3>2, <4>1, <4>2, NotKept
    <3>3. CASE ActualInput # NoText
      <4>1. ActualInput \in Line /\ history' = <<ActualInput>> \o history
        BY <3>1, <3>3, PrependStep DEF Text
      <4>. QED
        BY <3>1, <4>1, LineKept
    <3>. QED
      BY <3>2, <3>3
  <2>3. CASE Cancel
    <3>1. history' = history /\ onSubmit' = Append(onSubmit, [type |-> "cancel"])
          /\ [type |-> "cancel"] \in TerminalInputValue
      BY <2>3 DEF Cancel, TerminalInputValue
    <3>. QED
      BY <3>1, NotKept
  <2>. QED
    BY <2>1, <2>2, <2>3 DEF Next, vars, ShiftUp, ShiftDown, OnChange
<1>. QED
  BY <1>1, <1>2, OffsetInRange, PTL DEF Spec
=============================================================================
