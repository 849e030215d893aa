---------------------------- MODULE CommandShell ----------------------------
(***************************************************************************)
(* The command shell of the terminal (frontend/src/components/userarea):   *)
(* useCurrentProcess and useCommandShell, the input side of Terminal, the  *)
(* process factory of UserArea, and the commands me, echo and room.        *)
(*                                                                         *)
(* The page is one thread.  What interleaves are the events of the user    *)
(* and the answers to the fetches of the commands, which go on after their *)
(* process was interrupted.  An event handler sees the shell as it was     *)
(* last rendered; React renders right after an event of the user, and some *)
(* time after an update made when a fetch settles.                         *)
(***************************************************************************)
EXTENDS Naturals

CONSTANTS
    Pid,    \* the launches of commands, each used once
    NoPid   \* no process, no room (null, undefined)

ASSUME ShellAssumption == NoPid \notin Pid

VARIABLES
    auth,        \* whether auth._tag is "ok": until then there are no commands
    cur,         \* curProcess of useCurrentProcess, by its launch
    view,        \* curProcess as of the last render, which the handlers use
    cmd,         \* the command of every launch
    at,          \* what every process waits for
    room,        \* roomId of UserArea, by the process that created the room
    exits,       \* history: how many times a process has called sysExit
    interrupted  \* history: the processes the user has interrupted

vars == <<auth, cur, view, cmd, at, room, exits, interrupted>>

Command == {"me", "echo", "room"}
Waiting == {"fetch", "text", "roomName", "hostName"}
At      == Waiting \cup {"unused", "done", "notAProcess"}

\* Rendering right after an event of the user.
Flush == view' = cur'

-----------------------------------------------------------------------------
(* Terminal.onInput: text *)

LogIn ==
    /\ ~auth
    /\ auth' = TRUE
    /\ UNCHANGED <<cur, view, cmd, at, room, exits, interrupted>>

Launch(p, c, waits) ==
    /\ at[p] = "unused"
    /\ cmd' = [cmd EXCEPT ![p] = c]
    /\ at' = [at EXCEPT ![p] = waits]
    /\ cur' = p
    /\ Flush
    /\ UNCHANGED <<auth, room, exits, interrupted>>

\* Faulty: a command line is run whatever the shell is doing.
AnyTime == TRUE
WaitingForCmd == view = NoPid

FirstWait(c) == CASE c = "me"   -> "fetch"
                  [] c = "echo" -> "text"
                  [] c = "room" -> "roomName"

\* startProcess with the name of a command.  (Any other name only prints.)
StartProcess(p, c) ==
    /\ WaitingForCmd
    /\ auth
    /\ Launch(p, c, FirstWait(c))

\* startProcess with a name every object has, such as "constructor": the
\* lookup commands[cmd] finds the inherited function, and what that returns
\* is kept as the process.
StartInherited(p) ==
    /\ WaitingForCmd
    /\ Launch(p, "inherited", "notAProcess")

\* createRoom.onInput, until it has both names.  It prints and leaves the
\* current process alone, so an exit still to be rendered may stay so.
AnswerQuestion(p) ==
    /\ view = p
    /\ \/ at[p] = "roomName" /\ at' = [at EXCEPT ![p] = "hostName"]
       \/ at[p] = "hostName" /\ at' = [at EXCEPT ![p] = "fetch"]
    /\ view' \in {view, cur}
    /\ UNCHANGED <<auth, cur, cmd, room, exits, interrupted>>

\* Faulty: detaching leaves the process attached.
StayAttached == cur
\* Faulty: the process is cleared to a value that is not tested for.
ClearToUndefined == "undefined"
\* detachProcess
Detach == NoPid

\* handleSysCall: exit, of whichever process; it detaches the current one.
SysExit(p, times) ==
    /\ exits' = [exits EXCEPT ![p] = @ + times]
    /\ at' = [at EXCEPT ![p] = "done"]
    /\ cur' = Detach

\* echo.onInput: "exit"; it may come again as long as echo gets input.
TypeExit(p) ==
    /\ view = p
    /\ cmd[p] = "echo"
    /\ SysExit(p, 1)
    /\ Flush
    /\ UNCHANGED <<auth, cmd, room, interrupted>>

(* Terminal.onInput: cancel *)

\* interruptProcess; without onInterrupt it throws before it detaches.
Interrupt(p) ==
    /\ view = p
    /\ at[p] # "notAProcess"
    /\ interrupted' = interrupted \cup {p}
    /\ cur' = Detach
    /\ Flush
    /\ UNCHANGED <<auth, cmd, at, room, exits>>

-----------------------------------------------------------------------------
(* The fetches of me and room settle, interrupted or not *)

\* The expected status and a body: both print; room opens the room.
FetchSucceeds(p) ==
    /\ at[p] = "fetch"
    /\ room' = IF cmd[p] = "room" THEN p ELSE room
    /\ SysExit(p, 1)
    /\ UNCHANGED <<auth, view, cmd, interrupted>>

\* Another status: room rejects and exits once; me exits, and then once more
\* when the next callback finds no body.
BadStatus(p) ==
    /\ at[p] = "fetch"
    /\ SysExit(p, IF cmd[p] = "me" THEN 2 ELSE 1)
    /\ UNCHANGED <<auth, view, cmd, room, interrupted>>

\* fetch or json rejects.
FetchRejects(p) ==
    /\ at[p] = "fetch"
    /\ SysExit(p, 1)
    /\ UNCHANGED <<auth, view, cmd, room, interrupted>>

Render ==
    /\ view # cur
    /\ view' = cur
    /\ UNCHANGED <<auth, cur, cmd, at, room, exits, interrupted>>

-----------------------------------------------------------------------------

Init ==
    /\ auth = FALSE
    /\ cur = NoPid
    /\ view = NoPid
    /\ cmd = [p \in Pid |-> "none"]
    /\ at = [p \in Pid |-> "unused"]
    /\ room = NoPid
    /\ exits = [p \in Pid |-> 0]
    /\ interrupted = {}

FetchSettles(p) == FetchSucceeds(p) \/ BadStatus(p) \/ FetchRejects(p)

Next ==
    \/ LogIn
    \/ \E p \in Pid :
        \/ \E c \in Command : StartProcess(p, c)
        \/ StartInherited(p)
        \/ AnswerQuestion(p)
        \/ TypeExit(p)
        \/ Interrupt(p)
        \/ FetchSettles(p)
    \/ Render

Spec == Init /\ [][Next]_vars

\* Every fetch settles and every update is rendered; the user owes nothing.
FairSpec == Spec /\ WF_vars(Render) /\ \A p \in Pid : WF_vars(FetchSettles(p))

-----------------------------------------------------------------------------
(* Type invariant: every variable has its type. *)
TypeOK ==
    /\ auth \in BOOLEAN
    /\ cur \in Pid \cup {NoPid}
    /\ view \in Pid \cup {NoPid}
    /\ cmd \in [Pid -> Command \cup {"none", "inherited"}]
    /\ at \in [Pid -> At]
    /\ room \in Pid \cup {NoPid}
    /\ exits \in [Pid -> 0..2]
    /\ interrupted \subseteq Pid

\* The processes that will still exit although the shell has let go of them.
Stray == {p \in Pid : at[p] = "fetch" /\ cur # p}

\* The shell loses track of a process with a fetch under way only through an
\* interrupt of the user: as long as there was none, there is one such
\* process at most and its exit cannot hit another one.
StrayOnlyAfterInterrupt == interrupted = {} => Stray = {}

\* A process keeps the terminal until it exits or is interrupted itself,
\* unless a stray process is left that can exit in its place.
KeepsTerminal ==
    [][\A p \in Pid :
        cur = p /\ cur' # p => \/ exits'[p] > exits[p]
                               \/ p \in interrupted'
                               \/ Stray # {}]_vars

\* Every process reports its end once, whatever else ends or is interrupted
\* meanwhile; only me reports a bad status twice.
ReportsOnce ==
    \A p \in Pid : (cmd[p] = "me" => exits[p] <= 2) /\ (cmd[p] # "me" => exits[p] <= 1)

\* A room is opened once by its process, when that ends, and only by the one
\* that has the terminal: a late answer puts its room in the place of another
\* only after the user has interrupted something.
RoomOpenedInTurn ==
    [][room' # room => /\ exits[room'] = 0 /\ exits'[room'] = 1
                       /\ cur = room' \/ interrupted # {}]_vars

\* A command that only waits for the server gives the terminal back by itself.
FetchReleasesTerminal == \A p \in Pid : cur = p /\ at[p] = "fetch" ~> view # p
=============================================================================
