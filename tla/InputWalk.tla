------------------------------- MODULE InputWalk -------------------------------
(***************************************************************************)
(* What the input line of the terminal promises: a walk through the lines  *)
(* entered so far.  The older ones lie on one stack, the ones walked past  *)
(* on another, and the draft comes back when all of these are put back.    *)
(***************************************************************************)
EXTENDS Naturals, Sequences

CONSTANTS
    Line,    \* the texts a line may have, without the empty one
    NoText   \* the empty one

VARIABLES older, newer, draft

Backwards(s) == [i \in 1..Len(s) |-> s[Len(s) + 1 - i]]

Shown == IF newer = <<>> THEN draft ELSE Head(newer)

\* All lines, the newest first, as they lie when the walk is over.
AllLines == Backwards(newer) \o older

Older ==
    /\ older # <<>>
    /\ newer' = <<Head(older)>> \o newer
    /\ older' = Tail(older)
    /\ UNCHANGED draft

Newer ==
    /\ newer # <<>>
    /\ older' = <<Head(newer)>> \o older
    /\ newer' = Tail(newer)
    /\ UNCHANGED draft

\* Whatever is typed replaces what is shown, and ends the walk.
Edit ==
    /\ draft' \in Line \cup {NoText}
    /\ older' = AllLines
    /\ newer' = <<>>

\* What is shown is entered; the empty line is not kept.
Enter ==
    /\ older' = IF Shown = NoText THEN AllLines ELSE <<Shown>> \o AllLines
    /\ newer' = <<>>
    /\ draft' = NoText

Init == older = <<>> /\ newer = <<>> /\ draft = NoText

Next == Older \/ Newer \/ Edit \/ Enter

Spec == Init /\ [][Next]_<<older, newer, draft>>
=============================================================================
