# Cyber-chat in TLA+

Cyber-chat is a video chat for two: a Rust/actix server that logs browsers in,
keeps rooms in Postgres and relays WebRTC signals between a sender and a
receiver over websockets, and a React page driven by a terminal. This directory
holds TLA+ modules of its concurrent parts, TLC runs over small instances of
them, and TLAPS proofs of what matters most for every instance. `PROJECT.json`
lists the components, runs, findings, hazards and theorems, and maps every
definition to the lines it models. Paths below are relative to `server/src` and
`frontend/src`.

    tlc -workers 2 -config SignalSafety.cfg MCSignalSession.tla
    tlapm SignalSessionProofs.tla

## The system

| component | state | operations | meets |
|---|---|---|---|
| `SignalServer` actor (`application/signal_server.rs`) | one slot per role, `sender` and `receiver` | `Connect`, `Disconnect`, `SignalReq` | sessions, by mailbox, reply channels and `do_send` |
| `SignalSession` actors (`infra/routes/webrtc.rs`), one per websocket | `is_active`, `last_hb`, mailbox | start, reply to `Connect`, text, signal, heartbeat, close, stop | the signal server, the client |
| room routes, `Room` (`infra/routes/rooms.rs`, `domain/room.rs`) | the `Room` of a request | create, join, view | the store |
| `RoomStore`, `tx`, pool (`application/room_store.rs`, `db_common.rs`, `infra/pg.rs`) | tables room, host, guest; five connections | `find_by_id`, `save` | Postgres |
| login, `UserStore`, `authenticate` (`application/login.rs`, `user_store.rs`, `infra/routes/{login,auth,users}.rs`) | table users | log in, authenticate, `me` | browser cookie, tokens |
| `AuthProvider` (`components/auth`) | `auth` | one login per page | `/login`; the commands need its token |
| command shell (`components/userarea/terminal`, `UserArea.tsx`) | `curProcess` | start, input, interrupt, system calls | commands, React rendering |
| commands `me`, `echo`, `room` (`components/userarea/commands`) | answers so far | input, fetch, exit | shell, REST routes, `roomId` of `UserArea` |
| negotiation hooks (`core/webrtc/use{Sender,Receiver}Negotiation.ts`, `useIceCandidatesExchange.ts`) | `mediaAttached`, `offerSent`, `offerReceived`, `ready`, two `gatheringComplete` | offer, answer, candidates, each an effect | websocket, `RTCPeerConnection` |
| `useRtcPeerConnection` | the connection, its candidate and remote stream | `addStream` and four promises | negotiation hooks |
| local media (`core/useLocalMedia.tsx`) | `asked`, the stream | ask the user for the screen | sender's hooks |
| `Room`, `VideoStreaming`, log context (`components`) | the last message, the log | render, and make `server` and `conn` anew | all hooks |
| input line (`TerminalInput.tsx`, `useInputHistory.ts`, key listeners) | `offset`, `history`, `typedInput` | type, arrows, submit, Ctrl-C | shell |
| layout, player, start-up, utilities | see `PROJECT.json` | | |

What is hard in it:

* **Actors.** Two worker threads of sessions and a third with the signal server
  interleave freely; a session waits for replies with `ctx.wait` and may be
  dropped while it does; `Disconnect` names a role and not a session.
* **Requests.** Each gives way at every `await`; a save runs outside the
  transaction it opens, and needs two connections of the pool; clients leave,
  statements fail, the process crashes.
* **The page.** It is one thread, but fetches outlive the process that made
  them, and handlers see the shell as it was last rendered.
* **Effects.** A hook acts after a render, on the state of that render, and what
  it sets is seen after the next; a page keeps only the last signal; `Room`
  renders for ever, so every effect runs while what it began is under way.
* **Browsers.** Tabs race on one cookie, which outlives the database and does
  not outlive the browser.

What makes each part correct:

* signals: a connected session owns its role; only it speaks for it; what it is
  told about its peer is true; everybody is answered; who has gone leaves;
* rooms: a room appears with its host and never loses it, a guest is never the
  host, an answered join excludes later ones, what was answered is stored,
  every connection comes back, every request ends;
* login: a cookie always has its user, tabs opened in sequence share one user,
  a tab is one user throughout, every login ends, and a tab that takes a refusal
  for a login is nobody;
* shell: a process keeps the terminal until it ends or is interrupted, reports
  its end once, and a process that waits for the server ends;
* negotiation: offers carry the media, no candidate is added too early, nobody
  is ready ahead of the other, an effect that notes what it begins begins it
  again only ahead of that note (`sendOffer` notes nothing before its offer was
  sent, and repeats it), an offer is answered in the end;
* input line: every line entered can be shown again, in order, and the draft
  survives the walk.

## Modules

| module | models | run by | proved in |
|---|---|---|---|
| `SignalServer` | the actor and its three handlers | (part of the next) | |
| `Rendezvous` | what the signal server promises (abstract) | as a property of the next | |
| `SignalSession` | the session actors, composed with `SignalServer` | `MCSignalSession` | `SignalSessionProofs`, `SignalNoticesProofs` |
| `RoomBook` | what the store promises (abstract) | as a property of the next | |
| `RoomStore` | room routes, store, transaction, pool | `MCRoomStore` | `RoomStoreProofs` |
| `Login` | login, cookie, tokens, `AuthProvider` | itself | `LoginProofs` |
| `CommandShell` | shell, commands, rendering | itself | `CommandShellProofs` |
| `Negotiation` | hooks, connection and media of both pages, the relay between them | itself | `NegotiationProofs`, `NegotiationOnceProofs` |
| `InputWalk` | what the input line promises (abstract) | as a property of the next | |
| `InputHistory` | offset, history, draft | itself | `InputHistoryProofs` |

An `MC` module adds the symmetry of its instance and nothing else. Only the runs
that look for a violation use it: the others check liveness too, and symmetry is
not sound for that. Modules without a symmetric set are run as they are. Definitions
marked "Faulty" are plausible mistakes in the operator that follows them; no
specification uses them. They show that a property can fail: each property of a
passing run is violated when the operator is replaced by one of them
(`PROJECT.json`, `mutants`).

### Signals: `SignalServer`, `SignalSession` and `Rendezvous`

`peers` is the two slots, `mailbox` the queue of the server actor, `inbox` the
queue of each session, `reply` the one-shot channel of the request a session
waits for, `out` what was written to its websocket. `phase` is the life of a
session actor: `connecting` is the `ctx.wait` of `started`, `waiting` the one of
a text; in both it handles nothing, and only `ConnectionLost` (the actor is
dropped with its connection) ends them early. A server step is one handler: it
takes the head of the mailbox, and everything the handler does is in that step,
with `do_send` to a stopped session having no effect. A text becomes a
`SignalReq` whatever it is; its kind and payload are one model value.

`Rendezvous` has no mailbox, no replies and no messages: a visitor asks, sits down
or is turned away, speaks to the other seat, and leaves; the seat is given up
only when the one who sits there has gone. `SignalSession` implements it with
`peers` as the seats and `inbox` as the post, a session being *here* while it is
connecting, running or waiting, and *asking* while its `Connect` is queued; a
handler is a step of the abstract one, and what only moves knowledge about
(`ConnectAccepted`, `ReceiveText`, `RequestDone`) is a stutter. A failed heartbeat
makes its role *lapse*, and the promise to those of that role with it, which is
how far the code keeps it.

Left out: the time of heartbeats (`HeartbeatFails` is possible whenever the
session is not waiting, which is more than the code allows), ping and pong, the
panic on a text that does not parse, close frames, and mailbox errors, which
need the server actor to have died. The routes check the room id against
`"main"` before anything starts, and `Start` stands for those that pass.

### Rooms: `RoomStore` and `RoomBook`

A request goes from `idle` through the awaits of its route to an answer. `pc`
names the statement it is at, `loaded` is the `Room` it has in memory, `free`
counts the connections nobody uses. `save` takes a connection for `tx` and
keeps it (`Saving`); each statement of `do_save` takes another, commits by
itself and gives it back within the step, so it only needs `free > 0`.
`AwaitFails` is an error of the database at any await, `AcquireTimeout` the
pool giving up, `Abandon` a client that left (the future is dropped, its
connection returned), `Crash` a restart. A created room bears the name of the
request that creates it, since ids are fresh uuids. Names of rooms and
participants are left out. The query of the authentication middleware is left
out of the pool: it holds nothing while it waits.

`RoomBook` says what somebody who looks rooms up sees: `Open` makes a room with
its host in one step, `Admit` adds guests other than the host. `RoomStore`
implements it with `host` and `guest` as they are: a room exists, as the inner
join of `SELECT_ROOM` has it, from its host row on, so the three statements of
a save take effect one visible step at a time. `RoomBook` does not promise one
guest at most, because the code cannot keep it.

### Login: `Login`

A step is what one party does at once: the page sends (`OpenTab`), the route
answers (`NewUser`, `KnownUser`, `UserNotFound`), the browser stores the cookie
(`Receive`), the page takes the body (`SetAuth`) or fails (`LoginFails`).
A user and the workstation id minted with it bear the name of the tab whose
request minted them. Page and server are of one origin, as the server delivers
the build (`infra/routes/ui.rs`); from the development server of the page no
cookie would be sent. `RestartBrowser` ends the session cookie,
`ResetDatabase` empties the table under a running browser. A response of status
401 has a body too, without a token, and `SetAuth` takes it for a login as the
page does (`AuthContext.tsx:18-21`): `TokenlessIsNobody` says what that comes to.

### Shell: `CommandShell`

`cur` is `curProcess`, `view` the value of the last render, which handlers
test. React renders right after a discrete event (`Flush`); an update made when
a fetch settles has a lower priority and is rendered some time later
(`Render`), possibly after another event. `at` is what a process waits for. A
fetch settles with the expected status, with another one, or not at all, and
the chain of callbacks that follows is one step: it runs in microtasks,
between which no event is handled. `exit` detaches whatever process is current.
`StartInherited` is a command line such as `constructor`: the look-up
`commands[cmd]` finds what every object inherits, calls it, and keeps what it
returns; the terminal is then held by something that cannot be interrupted,
until a stray process exits or the page is reloaded.

### Video: `Negotiation`

A page is a set of effects (`Effect`). `Acts` is when one does not return early,
`Deps` what its dependency list holds; an effect runs after a render (`Due`) in
which its dependencies differ from those of the last, and all it reads is that
render. So `st` is the state with all updates and `view` the state last
rendered. `Refresh` is a render with its effects: `Render` one of `Room` or
`VideoStreaming`, which makes `server` and `conn` anew and with them re-runs
every effect that names either, `RenderInner` one of `SendVideo` or `RecvVideo`
alone. `Render` is always possible, as in the code: `Room` calls `useLoggingOf`
with its `server`, a new object in each render, and reads the context that
stores it.

What an effect begins goes on behind its back: `ops` is the operations chain of
`RTCPeerConnection`, one entry per `await` of a method of `useRtcPeerConnection`,
and what follows the `await` (`setOfferSent`, sending the offer, ...) happens in
the step that ends it. `conn` is as much of the connection as decides whether
an operation is possible; any may also be refused (`OpRejected`), and then the
rest of its method does not happen. `inbox` is what the server sent and the
page has not received, `unsent` what `useWebSocket` keeps until its socket is
open, and its session until it is registered. A page keeps one message, the
last (`Receive`).

`useWebSocket` is a library that is not in the repository; `package-lock.json`
pins react-use-websocket 4.0.0, which puts a message, and the opening of its
socket, into the state of the page within `flushSync`. Both are rendered at
once, without the updates that still wait for a render: `Receive` and `Open` run
the effects on `view`, changed by the message alone. So an effect may run on a
state in which its own update is missing, and begin again what it has begun. The
model has what follows: the user is asked for the screen twice (`Render`, then
`Open`), tracks are added twice, which throws in an effect and takes the page
down (`GrantMedia`, `Render`, `Open`), and an offer is answered twice (two
`Receive`). `RepeatsOnlyAhead` says that nothing else has these effects: a render
that has all updates repeats none of the three.

What the model shows besides its properties: the receiver answers no offer that
comes after it has noted one, so an answer that is overwritten by the next message, or that comes when
the sender has asked for another local description, leaves the sender without a
connection for good; an answer that could not be prepared is not tried again;
a late offer can put a sender that is ready back into `have-local-offer`; the
end of gathering is announced while gathering goes on, as the guard of
`notifyOnGatheringComplete` is the wrong way round; effects repeat themselves
ahead of their updates. No text of the repository
says otherwise, so none of these is a finding; `OfferIsAnswered` is stated up to
them.

Left out: errors the hooks collect, the event log, a reload of a page (one that
went down stays down), and leaving the room. In this revision no page mounts the
hooks: `UserArea.tsx:31` passes `streamActive={false}`, and the url in
`Room.tsx:16` is not a route of `main.rs`. The model is of a page that mounts
them, connected to the signal server as one session per role.

### Input line: `InputWalk` and `InputHistory`

`InputHistory` has the three states of the input line. Each handler is one
action. The listeners are closures over a render, but every event is one of the
user, after which React renders and registers them again before the next, so a
handler sees the state as it is. The cursor is left out. `InputWalk` is two
stacks, the lines older and newer than the one shown, and a draft;
`InputHistory` implements it with the two parts `offset` divides `history` into.

## Runs

Passing:

| run | instance | states | shows |
|---|---|---|---|
| `SignalSafety` | 2 senders, 1 receiver, 1 text, fair | 438k | owners of slots, genuine requests, truthful notices, silence after a departure, refinement of `Rendezvous`; every `ctx.wait` ends, a stopped session gives its slot back |
| `RoomSafety` | 1 creation, 2 joins, 1 view, 2 users, 2 connections, fair | 52k | connections conserved, acknowledged rows kept, later joins refused, refinement of `RoomBook`; every request ends though the pool is exhausted |
| `LoginSafety` | 1 browser, 3 tabs, fair | 297k | cookies with users, one user per sequence of tabs, stable identity, a refused login is nobody; every login ends |
| `ShellSafety` | 4 launches, fair | 342k | who holds the terminal, exits once, rooms opened in turn; the terminal comes back |
| `NegotiationSafety` | both peers gather, 1 operation and 1 signal at a time | 582k | no candidate before its description, the receiver is ready first |
| `NegotiationOffers` | no candidates, 2 operations, 1 signal, fair | 49k | offers have media, effects repeat themselves only ahead of their updates; an offer is answered |
| `InputHistory` | 2 texts, 4 submits | 3k | no line is lost or moved, refinement of `InputWalk` |

Violated, each a disagreement of the code with the text quoted in
`PROJECT.json` (`findings`):

| run | what happens |
|---|---|
| `SignalOnePeerPerRole` | a failed heartbeat disconnects its role twice; the second evicts a newcomer, and two sessions of one role are connected |
| `SignalGoneParticipant` | a connection lost before the reply to `Connect` keeps the role for ever |
| `RoomOneGuest` | two overlapping joins both become guests |
| `RoomRolledBack` | a rolled back creation leaves its room row |
| `LoginOneUser` | two tabs opened together are two users |

**Bounds.** Two sessions of one role are what eviction, refusal and a
successor need (three for `OnePeerPerRole`: the one that fails, the one it
evicts, the one that follows); one of the other role sees all notices. Each
session lives once, so a client that reconnects is another session. One text is
enough: notices do not depend on texts, and a text that is relayed to the wrong
session is one text; what is said of requests is proved for every number. With
two connections two saves exhaust the pool as five do with five. Two joins
overlap or follow each other; what is said of them is proved for every number.
Three tabs are two that race and a later one; browsers share nothing but the
tables, so one is enough. Four launches are an interrupted process, its
successor, and two more. Four submits make a history with a line that is neither
its first nor its last.

In `Negotiation` the render loop starts offers without end, so `MaxOps` bounds
the operations under way and `MaxWire` the signals in a queue: a render that
would start or say more waits. With one operation at a time an offer, an answer
and a candidate still interleave over the wire and with the renders; with two,
operations of two offers, or of an offer and an answer, stand in one chain.
`Gatherers` are the peers that find candidates: candidates are sent only by a
peer that is ready, so they say nothing about how an offer is answered, and the
run of `OfferIsAnswered` leaves them out.

`MaxTexts`, `MaxOps`, `MaxWire` and `MaxLines` are the bounds in guards; everything
else is bounded by the sets of sessions, requests, tabs and launches, each used
once. The systems of the signal, room and shell runs stop when these are used
up, so `CHECK_DEADLOCK` is off there, and that no participant hangs is what
their liveness says; it is on for `Login`, `Negotiation` and `InputHistory`.

**Fairness.** Actors with a message or a reply are polled, so the server and
the inner steps of sessions are weakly fair; clients, network and clock owe
nothing. A request proceeds or meets `acquire_timeout`, never one particular of
the two. The login route answers and the page handles what it received, but a
response may be lost. Fetches settle and updates are rendered; the user does
nothing that must happen. In `Negotiation` pages render, sockets open, messages
arrive and operations end, each weakly fair; the creation and the setting of an
offer are strongly fair as well: a connection may refuse them, but not for ever,
which is all that makes the endless repetition of offers useful. Nothing is
assumed of the answer.

## Proofs

Every theorem holds for all constants that satisfy the named assumptions of the
modules: disjoint sets of actors or requests, "no value" outside the values,
`MaxTexts` and `MaxLines` natural numbers, `MaxConnections`, `MaxOps` and
`MaxWire` positive ones. Request, session, user and text sets may be infinite.

`SignalSessionProofs` proves `TypeCorrect`, and `RegistrationInv` inductive.
That a connected session holds its slot does not follow from itself: the slot
is taken when the server handles `Connect`, the session learns it later, and
gives it back by a message that is handled later still. `Claims` names all the
ways a session can be entitled to the slot (told so, about to be told, or with
a message of a registered session still queued), and `ClaimantsAreRegistered`
is the invariant. It is kept because only one claimant exists per role, because
`QueueMatchesPhase` says a queued `Disconnect` is of a session that has stopped
(so the one it disconnects is itself), and because `QueueOrder` says nothing of
it follows that message. All this is up to a failed heartbeat in the role,
whose two messages break it: the exception in the statements is the finding.
`ActiveStaysRegistered` and `RequestsAreGenuine` follow.

`SignalNoticesProofs` proves `NoticeInv` inductive, on top of `RegistrationInv`. What
a session is told lies in two places, its websocket and its inbox, so the
properties are of `Stream`, the two in a row, and lemmas say what may happen to a
stream: a signal is added at its end (`AlternateAppend`, `QuietAppend`), an error is
written in its middle (`InsertKeeps`), its end is dropped with the actor
(`PrefixKeeps`), or a signal moves from the inbox to the websocket, which changes
nothing (`HeadMoves`). A new holder of a slot must have been told nothing yet
(`NewcomersUntold`), slots hold sessions of their role (`SlotsOfRole`), and `Told` is
the two properties of one session. That a relayed text comes from a peer that is
still there is what `ClaimantsAreRegistered` says of a queued request.
`NoticesStayTrue` and `QuietAfterLeave` follow, and `SignalsImplementRendezvous` from
both invariants: a queued `Disconnect` is of a session that has stopped and is
the one in the slot, so whoever gives up a seat has gone; a queued request is of
the one in the slot, so nobody speaks for another. A request carries a text
(`RequestsInvariant`).

`RoomStoreProofs` proves `StoreInv` inductive: types, the balance of the pool,
what each kind of request knows of the tables at each statement, and that a
join still admissible arrived before any other was answered. From it
`PoolBalanced` (finite cardinality of the holders, any size of pool),
`AcknowledgedStays`, `JoinExcludesLater`, and `StoreImplementsBook`: a save of
a host is `Open`, a save of a guest `Admit`, every other step a stutter.

`NegotiationProofs` proves `Order` inductive. Each property of a page is about
the other page or about the past, so `Order` says it of every place where
knowledge can be on its way: that tracks were added, of the state, of the state
last rendered and of the operations begun (`MediaFirst`); that there is a remote
description, of the same and of the signaling state (`DescribedFirst`); that the
receiver is ready, of an answer unsent, on its way, kept, rendered or being
attached (`AnsweredFirst`), and of a candidate of the sender (`CandidatesLast`).
What is rendered may be old but is never ahead of the state (`ViewIsOld`), which
is what a render for the socket (`Open`, `Receive`) needs.

`NegotiationOnceProofs` proves `Noted` inductive, given the types: whatever render
an effect ran in, what it has begun is noted in the state of its hook, that the
user was asked (`AskedIsNoted`), that tracks were added (`TracksAreNoted`), that
an offer is or was answered (`AnswerIsNoted`). So an effect that begins the same
again has passed a guard that the state would not let it pass: it has read an
older one, and only the renders made at once for the socket do.
`EffectsRepeatOnlyAhead` follows; that the end of an operation begins no answer
is because it makes the chain no longer (`ResolveOnce`).

`InputHistoryProofs` proves `OffsetInRange` and, with it, `InputIsWalk`: the three
lemmas `StepUp`, `StepDown` and `StepReset` say what one step of the offset does to
the two stacks it stands for. `HistoryIsComplete` says that the lines of the history
are those given at some inputs `taken`, all of them, in reverse order; each submit
of a line puts a new first one before the function.

`LoginProofs` proves `Identities` inductive. What a tab is depends on what its
browser kept, so it follows a user from the row (`MadeByAnswer`) through the
response to the cookie and the token (`NamesAreKnown`, up to a reset of the
database), says that a cookie stays in the browser as long as a tab that brought
or got it is open (`CookieStays`), and that a tab opened after that went out with
it (`LateTabsHaveCookie`), so that the route makes no user for it.
`RefusedHadCookie`, on top of it, follows a login without a token from the
response to the answers the tab gets.

`CommandShellProofs` proves `Shell` inductive. Handlers test what was rendered,
and exits detach whatever is current, so it has to say how far the two may
differ: a render is only ever late with the news that the terminal is free
(`ViewIsCurrent`). Until the first interrupt what lives is current
(`LiveIsCurrent`), and a process that has exited is at its end (`Exited`).
`TerminalIsKept` and `RoomsInTurn` are action properties and follow from the
invariant, step by step.

Every invariant, action property and refinement of a passing run is so stated by a
theorem. Only model-checked are the liveness properties (`SessionsSettle`,
`EveryRequestEnds`, `EveryLoginEnds`, `OfferIsAnswered`, `FetchReleasesTerminal`): they rest
on fairness, that is on ENABLED, which is out of TLAPS's reach.

## Plan

Done: `SignalServer`, `SignalSession` and `Rendezvous`, `RoomBook` and `RoomStore`,
`Login`, `CommandShell`, `Negotiation`, `InputWalk` and `InputHistory`, and proofs of all
their safety properties.

Next, in this order:

1. An abstract specification of login (one identity per tab, one user per cookie)
   and of the negotiation (one exchange of an offer and an answer), with `Login`
   and `Negotiation` shown to implement them.
2. A model of the heartbeat with its times: given up after 10 s of silence, never
   earlier and not 5 s later.

## Not modelled

* When a heartbeat fails (`webrtc.rs:83`: between 10 and 15 s of silence). A
  failed heartbeat is possible at any time a session is not waiting, so what the
  runs show holds for every timing; only the bound itself is not shown.
* An ICE restart: the code asks for none, so gathering ends once.
* Whether a request for a websocket gets through: `main.rs:68` nests its scope so
  that the path has two ids where the handlers extract one.
* `application/active_room.rs` is not compiled; signing of tokens has unit
  tests of its own; layout, player, terminal text, log contents, system area,
  utilities and start-up keep no state the others depend on.
* Page and server are joined in `Negotiation` only by what the relay does to one
  session per role; evictions, refusals and rejoining are in `SignalSession`.
