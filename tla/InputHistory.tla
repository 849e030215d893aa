----------------------------- MODULE InputHistory -----------------------------
(***************************************************************************)
(* The input line of the terminal: TerminalInput, useInputHistory and the  *)
(* key listeners (frontend/src/components/userarea/terminal).              *)
(*                                                                         *)
(* A listener is a closure over the state of the render that registered    *)
(* it.  Every event here is an event of the user, after which React        *)
(* renders and runs its effects, and so registers the listeners again,     *)
(* before the next event.  So each handler sees the state as it is.        *)
(* The position of the cursor is only shown, and left out.                 *)
(***************************************************************************)
EXTENDS Integers, Sequences

CONSTANTS
    Line,      \* the texts that may be typed, without the empty one
    NoText,    \* the empty one
    MaxLines   \* bound: no more lines are submitted

ASSUME LineAssumption == NoText \notin Line /\ MaxLines \in Nat

VARIABLES
    offset,      \* of the line of history that is shown
    history,     \* the lines that may be shown again, the newest first
    typedInput,  \* what was typed since
    onSubmit     \* history: the TerminalInputValues it was called with

vars == <<offset, history, typedInput, onSubmit>>

HISTORY_RESET_POS == -1
Text == Line \cup {NoText}
TerminalInputValue == [type : {"text"}, value : Text] \cup [type : {"cancel"}]

Reset == HISTORY_RESET_POS

-----------------------------------------------------------------------------
(* useInputHistory *)

\* Faulty: off by one at the oldest line.
PastTop  == offset >= Len(history)
AtTop    == offset >= Len(history) - 1
AtBottom == offset <= HISTORY_RESET_POS

ShiftUp ==
    /\ ~AtTop
    /\ offset' = offset + 1
    /\ UNCHANGED <<history, typedInput, onSubmit>>

ShiftDown ==
    /\ ~AtBottom
    /\ offset' = IF offset = HISTORY_RESET_POS + 1 THEN Reset ELSE offset - 1
    /\ UNCHANGED <<history, typedInput, onSubmit>>

\* Faulty: the text goes to the end.
AppendLast(text) == history' = IF text = NoText THEN history ELSE Append(history, text)
\* append, but for the reset: no empty text is kept.
Prepend(text) == history' = IF text = NoText THEN history ELSE <<text>> \o history

\* Faulty: what is shown stays where it is.
StayThere(text) == offset
\* The reset of append, which an empty text does not reach.
AfterAppend(text) == IF text = NoText THEN offset ELSE Reset

-----------------------------------------------------------------------------
(* TerminalInput *)

\* calcActualInput of typedInput and history.value
ActualInput == IF offset = HISTORY_RESET_POS THEN typedInput ELSE history[offset + 1]

\* Some other text than the one shown.
OnChange(text) ==
    /\ text # ActualInput
    /\ typedInput' = text
    /\ offset' = Reset
    /\ UNCHANGED <<history, onSubmit>>

Submit ==
    /\ Len(onSubmit) < MaxLines
    /\ onSubmit' = Append(onSubmit, [type |-> "text", value |-> ActualInput])
    /\ typedInput' = NoText
    /\ Prepend(ActualInput)
    /\ offset' = AfterAppend(ActualInput)

\* useCancelListener: Ctrl-C goes to the terminal and leaves the line alone.
Cancel ==
    /\ Len(onSubmit) < MaxLines
    /\ onSubmit' = Append(onSubmit, [type |-> "cancel"])
    /\ UNCHANGED <<offset, history, typedInput>>

-----------------------------------------------------------------------------

Init ==
    /\ offset = HISTORY_RESET_POS
    /\ history = <<>>
    /\ typedInput = NoText
    /\ onSubmit = <<>>

Next ==
    \/ ShiftUp
    \/ ShiftDown
    \/ \E text \in Text : OnChange(text)
    \/ Submit
    \/ Cancel

Spec == Init /\ [][Next]_vars

-----------------------------------------------------------------------------

\* Type invariant, with the offset always at a line or at the draft: so
\* history.value is never undefined (useInputHistory.ts:67).
TypeOK ==
    /\ history \in Seq(Line)
    /\ offset \in HISTORY_RESET_POS..(Len(history) - 1)
    /\ typedInput \in Text
    /\ onSubmit \in Seq(TerminalInputValue)

\* Every line the terminal was given can be shown again, in its order, and no
\* other: neither a walk, an edited old line nor Ctrl-C adds or loses one.  The
\* lines of history are, the newest first, those given at the inputs taken.
LineInputs ==
    {k \in 1..Len(onSubmit) : onSubmit[k].type = "text" /\ onSubmit[k].value # NoText}

LinesAreKept ==
    \E taken \in [1..Len(history) -> LineInputs] :
        /\ \A i, j \in 1..Len(history) : i < j => taken[i] > taken[j]
        /\ \A k \in LineInputs : \E i \in 1..Len(history) : taken[i] = k
        /\ \A i \in 1..Len(history) : history[i] = onSubmit[taken[i]].value

\* The offset into an array does what the walk over two stacks promises: the
\* draft comes back unchanged, editing an old line leaves the old one as it
\* was, and each submitted text is the shown one.
Walk == INSTANCE InputWalk WITH
            older <- SubSeq(history, offset + 2, Len(history)),
            newer <- [i \in 1..(offset + 1) |-> history[offset + 2 - i]],
            draft <- typedInput

WalkSpec == Walk!Spec
=============================================================================
