-------------------------- MODULE CommandShellProofs --------------------------
(***************************************************************************)
(* Proofs about CommandShell, for any number of launches: types, who can   *)
(* still exit, how often, and who takes the terminal from whom.            *)
(***************************************************************************)
EXTENDS CommandShell, TLAPS

\* What was launched and has not ended.
Live == Waiting \cup {"notAProcess"}

\* A render can only be late with the news that the terminal is free.
ViewIsCurrent == cur = view \/ cur = NoPid

\* What was not launched yet has done nothing; what has exited is done.
Unused == \A p \in Pid : at[p] = "unused" => exits[p] = 0 /\ p \notin {cur, view}
Exited == \A p \in Pid : exits[p] > 0 => at[p] = "done"

\* How often a process has exited; an echo that has exited gets no more input.
ExitsOnce ==
    \A p \in Pid : /\ cmd[p] # "me" => exits[p] <= 1
                   /\ cmd[p] = "echo" /\ exits[p] > 0 => p \notin {cur, view}

\* An echo waits for texts and never for the server.
EchoWaits == \A p \in Pid : cmd[p] = "echo" => at[p] \in {"text", "done"}

\* As long as nothing was interrupted, what lives has the terminal.
LiveIsCurrent == interrupted = {} => \A p \in Pid : at[p] \in Live => cur = p

Shell == ViewIsCurrent /\ Unused /\ Exited /\ ExitsOnce /\ EchoWaits /\ LiveIsCurrent

\* What the end of a fetch does.
LEMMA SettledStep ==
    ASSUME NEW p \in Pid, FetchSettles(p)
    PROVE  /\ at[p] = "fetch" /\ cur' = NoPid
           /\ UNCHANGED <<auth, view, cmd, interrupted>>
           /\ room' \in {room, p}
           /\ \E n \in {1, 2} : /\ exits' = [exits EXCEPT ![p] = @ + n]
                                /\ cmd[p] # "me" => n = 1
           /\ at' = [at EXCEPT ![p] = "done"]
<1>1. CASE FetchSucceeds(p)
  BY <1>1 DEF FetchSucceeds, SysExit, Detach
<1>2. CASE BadStatus(p)
  BY <1>2 DEF BadStatus, SysExit, Detach
<1>3. CASE FetchRejects(p)
  BY <1>3 DEF FetchRejects, SysExit, Detach
<1>. QED
  BY <1>1, <1>2, <1>3 DEF FetchSettles

\* What the start of a process does, of a command or of an inherited name.
LEMMA LaunchStep ==
    ASSUME ViewIsCurrent, NEW p \in Pid, (\E c \in Command : StartProcess(p, c)) \/ StartInherited(p)
    PROVE  /\ at[p] = "unused" /\ view = NoPid /\ cur = NoPid
           /\ cur' = p /\ view' = p /\ UNCHANGED <<auth, room, exits, interrupted>>
           /\ \E c \in Command \cup {"inherited"}, w \in Live :
                  /\ cmd' = [cmd EXCEPT ![p] = c] /\ at' = [at EXCEPT ![p] = w]
                  /\ c = "echo" => w = "text"
<1>1. CASE StartInherited(p)
  <2>1. /\ at[p] = "unused" /\ view = NoPid /\ cur = NoPid
        /\ cur' = p /\ view' = p /\ UNCHANGED <<auth, room, exits, interrupted>>
        /\ cmd' = [cmd EXCEPT ![p] = "inherited"] /\ at' = [at EXCEPT ![p] = "notAProcess"]
    BY <1>1 DEF StartInherited, Launch, WaitingForCmd, Flush, ViewIsCurrent
  <2>2. "notAProcess" \in Live /\ "inherited" # "echo"
    BY DEF Live
  <2>. QED
    BY <2>1, <2>2
<1>2. ASSUME NEW c \in Command, StartProcess(p, c)
      PROVE  /\ at[p] = "unused" /\ view = NoPid /\ cur = NoPid
             /\ cur' = p /\ view' = p /\ UNCHANGED <<auth, room, exits, interrupted>>
             /\ cmd' = [cmd EXCEPT ![p] = c] /\ at' = [at EXCEPT ![p] = FirstWait(c)]
             /\ FirstWait(c) \in Live /\ (c = "echo" => FirstWait(c) = "text")
  <2>1. FirstWait(c) \in Live /\ (c = "echo" => FirstWait(c) = "text")
    BY DEF FirstWait, Command, Live, Waiting
  <2>. QED
    BY <1>2, <2>1 DEF StartProcess, Launch, WaitingForCmd, Flush, ViewIsCurrent
<1>. QED
  BY <1>1, <1>2

LEMMA InitShell == Init => TypeOK /\ Shell
<1>. SUFFICES ASSUME Init
              PROVE  TypeOK /\ Shell
  OBVIOUS
<1>1. TypeOK
  <2>1. /\ cmd \in [Pid -> Command \cup {"none", "inherited"}]
        /\ at \in [Pid -> At]
    BY DEF Init, At
  <2>2. exits \in [Pid -> 0..2]
    <3>1. exits = [p \in Pid |-> 0] /\ 0 \in 0..2
      BY DEF Init
    <3>. QED
      BY <3>1
  <2>. QED
    BY <2>1, <2>2 DEF Init, TypeOK
<1>2. /\ cur = NoPid /\ view = NoPid
      /\ \A p \in Pid : at[p] = "unused" /\ exits[p] = 0 /\ cmd[p] = "none"
      /\ interrupted = {}
  BY DEF Init
<1>. QED
  BY <1>1, <1>2, ShellAssumption
  DEF Shell, ViewIsCurrent, Unused, Exited, ExitsOnce,
       EchoWaits, LiveIsCurrent, Live, Waiting

LEMMA ShellKept ==
    ASSUME TypeOK, Shell, [Next]_vars
    PROVE  TypeOK' /\ Shell'
<1>. USE ShellAssumption
<1>. USE DEF TypeOK, At, Waiting, Shell, ViewIsCurrent, Unused, Exited, ExitsOnce,
             EchoWaits, LiveIsCurrent, Live
<1>1. CASE LogIn
  BY <1>1 DEF LogIn
<1>2. ASSUME NEW p \in Pid, (\E c \in Command : StartProcess(p, c)) \/ StartInherited(p)
      PROVE  TypeOK' /\ Shell'
  <2>1. /\ at[p] = "unused" /\ view = NoPid /\ cur = NoPid
        /\ cur' = p /\ view' = p /\ UNCHANGED <<auth, room, exits, interrupted>>
    BY <1>2, LaunchStep
  <2>2. PICK c \in Command \cup {"inherited"}, w \in Live :
            /\ cmd' = [cmd EXCEPT ![p] = c] /\ at' = [at EXCEPT ![p] = w]
            /\ c = "echo" => w = "text"
    BY <1>2, LaunchStep
  <2>3. TypeOK'
    BY <2>1, <2>2
  <2>4. Shell'
    BY <2>1, <2>2
  <2>. QED
    BY <2>3, <2>4
<1>3. ASSUME NEW p \in Pid, AnswerQuestion(p)
      PROVE  TypeOK' /\ Shell'
  <2>1. /\ at[p] \in {"roomName", "hostName"} /\ view = p /\ view' \in {view, cur}
        /\ \E w \in Waiting : at' = [at EXCEPT ![p] = w]
        /\ UNCHANGED <<auth, cur, cmd, room, exits, interrupted>>
    BY <1>3 DEF AnswerQuestion
  <2>2. TypeOK'
    BY <2>1
  <2>3. Shell'
    BY <2>1
  <2>. QED
    BY <2>2, <2>3
<1>4. ASSUME NEW p \in Pid, TypeExit(p)
      PROVE  TypeOK' /\ Shell'
  <2>1. /\ view = p /\ cmd[p] = "echo" /\ cur' = NoPid /\ view' = NoPid
        /\ exits' = [exits EXCEPT ![p] = @ + 1] /\ at' = [at EXCEPT ![p] = "done"]
        /\ UNCHANGED <<auth, cmd, room, interrupted>>
    BY <1>4 DEF TypeExit, SysExit, Detach, Flush
  <2>2. exits[p] = 0
    BY <2>1
  <2>3. TypeOK'
    BY <2>1, <2>2
  <2>4. Shell'
    BY <2>1, <2>2
  <2>. QED
    BY <2>3, <2>4
<1>5. ASSUME NEW p \in Pid, Interrupt(p)
      PROVE  TypeOK' /\ Shell'
  BY <1>5 DEF Interrupt, Detach, Flush
<1>6. ASSUME NEW p \in Pid, FetchSettles(p)
      PROVE  TypeOK' /\ Shell'
  <2>1. /\ at[p] = "fetch" /\ cur' = NoPid /\ room' \in {room, p}
        /\ UNCHANGED <<auth, view, cmd, interrupted>> /\ at' = [at EXCEPT ![p] = "done"]
    BY <1>6, SettledStep
  <2>2. PICK n \in {1, 2} : exits' = [exits EXCEPT ![p] = @ + n] /\ (cmd[p] # "me" => n = 1)
    BY <1>6, SettledStep
  <2>3. exits[p] = 0
    BY <2>1
  <2>4. TypeOK'
    BY <2>1, <2>2, <2>3
  <2>5. Shell'
    BY <2>1, <2>2, <2>3
  <2>. QED
    BY <2>4, <2>5
<1>7. CASE Render
  BY <1>7 DEF Render
<1>8. CASE UNCHANGED vars
  BY <1>8 DEF vars
<1>. QED
  BY <1>1, <1>2, <1>3, <1>4, <1>5, <1>6, <1>7, <1>8 DEF Next

\* Types, and who may still exit and has the terminal, hold in every state.
THEOREM ShellInvariant == Spec => [](TypeOK /\ Shell)
BY InitShell, ShellKept, PTL DEF Spec

\* The shell loses a process that still fetches only through an interrupt.
THEOREM StrayNeedsInterrupt == Spec => []StrayOnlyAfterInterrupt
<1>1. Shell => StrayOnlyAfterInterrupt
  BY DEF Shell, LiveIsCurrent, Live, Waiting, StrayOnlyAfterInterrupt, Stray
<1>. QED
  BY <1>1, ShellInvariant, PTL

\* A process reports its end once, me at most twice.
THEOREM EndReportedOnce == Spec => []ReportsOnce
<1>1. TypeOK /\ Shell => ReportsOnce
  <2>. SUFFICES ASSUME TypeOK, Shell, NEW p \in Pid
                PROVE  (cmd[p] = "me" => exits[p] <= 2) /\ (cmd[p] # "me" => exits[p] <= 1)
    BY DEF ReportsOnce
  <2>1. exits[p] \in 0..2
    BY DEF TypeOK
  <2>. QED
    BY <2>1 DEF Shell, ExitsOnce
<1>. QED
  BY <1>1, ShellInvariant, PTL

\* A process gives the terminal up by its own exit, by an interrupt, or to a
\* stray process.
THEOREM TerminalIsKept == Spec => KeepsTerminal
<1>1. TypeOK /\ Shell /\ [Next]_vars =>
        [\A p \in Pid :
            cur = p /\ cur' # p => \/ exits'[p] > exits[p]
                                   \/ p \in interrupted'
                                   \/ Stray # {}]_vars
  <2>. SUFFICES ASSUME TypeOK, Shell, [Next]_vars, NEW p \in Pid, cur = p, cur' # p
                PROVE  exits'[p] > exits[p] \/ p \in interrupted' \/ Stray # {}
    BY Zenon
  <2>. USE ShellAssumption DEF Shell, ViewIsCurrent
  <2>1. view = p
    OBVIOUS
  <2>2. ASSUME NEW q \in Pid, (\E c \in Command : StartProcess(q, c)) \/ StartInherited(q)
        PROVE  FALSE
    BY <2>1, <2>2, LaunchStep
  <2>3. ASSUME NEW q \in Pid, TypeExit(q)
        PROVE  exits'[p] > exits[p]
    BY <2>1, <2>3 DEF TypeExit, SysExit, TypeOK
  <2>4. ASSUME NEW q \in Pid, Interrupt(q)
        PROVE  p \in interrupted'
    BY <2>1, <2>4 DEF Interrupt
  <2>5. ASSUME NEW q \in Pid, FetchSettles(q)
        PROVE  exits'[p] > exits[p] \/ Stray # {}
    <3>1. CASE q = p
      BY <2>5, <3>1, SettledStep DEF TypeOK
    <3>2. CASE q # p
      <4>1. q \in Stray
        BY <2>5, <3>2, SettledStep DEF Stray
      <4>. QED
        BY <4>1
    <3>. QED
      BY <3>1, <3>2
  <2>6. ASSUME NEW q \in Pid, AnswerQuestion(q)
        PROVE  FALSE
    BY <2>6 DEF AnswerQuestion
  <2>7. ~(LogIn \/ Render \/ UNCHANGED vars)
    BY DEF LogIn, Render, vars
  <2>. QED
    BY <2>2, <2>3, <2>4, <2>5, <2>6, <2>7 DEF Next
<1>. QED
  BY <1>1, ShellInvariant, PTL DEF Spec, KeepsTerminal

\* A room is opened once, by the process that has the terminal, unless something
\* was interrupted.
THEOREM RoomsInTurn == Spec => RoomOpenedInTurn
<1>1. TypeOK /\ Shell /\ [Next]_vars =>
        [room' # room => /\ exits[room'] = 0 /\ exits'[room'] = 1
                         /\ cur = room' \/ interrupted # {}]_vars
  <2>. SUFFICES ASSUME TypeOK, Shell, [Next]_vars, room' # room
                PROVE  /\ exits[room'] = 0 /\ exits'[room'] = 1
                       /\ cur = room' \/ interrupted # {}
    OBVIOUS
  <2>1. PICK p \in Pid : FetchSucceeds(p)
    BY DEF Next, LogIn, StartProcess, StartInherited, Launch, AnswerQuestion, TypeExit, Interrupt,
           FetchSettles, BadStatus, FetchRejects, Render, vars
  <2>2. /\ at[p] = "fetch" /\ room' = p
        /\ exits' = [exits EXCEPT ![p] = @ + 1]
    BY <2>1 DEF FetchSucceeds, SysExit
  <2>3. exits[p] = 0
    BY <2>2 DEF TypeOK, Shell, Exited
  <2>4. cur = p \/ interrupted # {}
    BY <2>2 DEF Shell, LiveIsCurrent, Live, Waiting
  <2>. QED
    BY <2>2, <2>3, <2>4 DEF TypeOK
<1>. QED
  BY <1>1, ShellInvariant, PTL DEF Spec, RoomOpenedInTurn
=============================================================================
