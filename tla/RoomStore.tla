----------------------------- MODULE RoomStore -----------------------------
(***************************************************************************)
(* The room routes of the server (server/src/infra/routes/rooms.rs) over   *)
(* RoomStore and its tables (server/src/application/room_store.rs).        *)
(*                                                                         *)
(* Requests run concurrently and give way to each other at every await: a  *)
(* step is one statement.  RoomStore::save opens a transaction and then    *)
(* runs its statements on the pool, outside that transaction, so each is   *)
(* committed at once, and a save needs a second connection while it holds  *)
(* the first.  A statement takes a free connection and gives it back in    *)
(* the same step; it fails, when the database does or when no connection   *)
(* becomes free in time, and the client or the process can go away at any  *)
(* moment.                                                                 *)
(***************************************************************************)
EXTENDS Naturals, FiniteSets

CONSTANTS
    Creates,        \* POST /rooms; the room a request creates bears its name
    Joins,          \* PUT /rooms/{id}/guest
    Views,          \* GET /rooms/{id}
    User,           \* the users the requests are made by
    NoUser,         \* no guest (None)
    MaxConnections  \* of the connection pool

Request == Creates \cup Joins \cup Views

ASSUME RoomAssumption ==
    /\ Creates \cap Joins = {} /\ Creates \cap Views = {} /\ Joins \cap Views = {}
    /\ NoUser \notin User
    /\ MaxConnections \in Nat \ {0}

VARIABLES
    room,     \* table room, by id
    host,     \* table host: <<room id, user id>>
    guest,    \* table guest: <<room id, user id>>
    free,     \* connections of the pool nobody uses
    pc,       \* what every request does next, or how it was answered
    caller,   \* the user of the request, from its token
    target,   \* the room id of the request
    loaded,   \* the Room in the memory of the request: its host and its guest
    earlier   \* history: the joins already accepted when a request arrived

tables == <<room, host, guest>>
vars == <<room, host, guest, free, pc, caller, target, loaded, earlier>>

Saving  == {"room", "host", "guest", "commit", "rollback"}  \* holds a connection
Pending == {"find", "begin"} \cup Saving
Answers == {"Created", "Ok", "NotFound", "Conflict", "ServerError"}
Gone    == {"Panicked", "Dropped"}                          \* closed without an answer
Ended   == Answers \cup Gone

HostsOf(rm)  == {u \in User : <<rm, u>> \in host}
GuestsOf(rm) == {u \in User : <<rm, u>> \in guest}

Goto(r, p) == pc' = [pc EXCEPT ![r] = p]

-----------------------------------------------------------------------------
(* create_room, join_room and get_room *)

\* The token has been checked.  create_room makes its Room, under a fresh id,
\* before it awaits anything.
Arrive(r, u, rm) ==
    /\ pc[r] = "idle"
    /\ r \in Creates => rm = r
    /\ Goto(r, IF r \in Creates THEN "begin" ELSE "find")
    /\ caller' = [caller EXCEPT ![r] = u]
    /\ target' = [target EXCEPT ![r] = rm]
    /\ loaded' = [loaded EXCEPT ![r] = [host |-> u, guest |-> NoUser]]
    /\ earlier' = [earlier EXCEPT ![r] = {j \in Joins : pc[j] = "Ok"}]
    /\ UNCHANGED <<tables, free>>

\* Faulty: Room::join forgets to look for a guest.
JoinAnyway(r, h, g) == h # caller[r]
\* Faulty: Room::join lets the host join its own room.
HostMayJoin(r, h, g) == g = NoUser
\* Room::join: the caller may become the guest of a room with this host and guest.
MayJoin(r, h, g) == g = NoUser /\ h # caller[r]

\* find_by_id: the first row of room, host and guest joined; any row when
\* there are several.
Find(r) ==
    /\ pc[r] = "find"
    /\ free > 0
    /\ \/ /\ HostsOf(target[r]) = {}
          /\ Goto(r, "NotFound")
          /\ UNCHANGED loaded
       \/ \E h \in HostsOf(target[r]),
             g \in IF GuestsOf(target[r]) = {} THEN {NoUser} ELSE GuestsOf(target[r]) :
            \/ /\ r \in Views
               /\ Goto(r, "Ok")
               /\ loaded' = [loaded EXCEPT ![r] = [host |-> h, guest |-> g]]
            \/ /\ r \in Joins
               /\ MayJoin(r, h, g)
               /\ Goto(r, "begin")
               /\ loaded' = [loaded EXCEPT ![r] = [host |-> h, guest |-> caller[r]]]
            \/ /\ r \in Joins
               /\ ~MayJoin(r, h, g)
               /\ Goto(r, "Conflict")
               /\ UNCHANGED loaded
    /\ UNCHANGED <<tables, free, caller, target, earlier>>

-----------------------------------------------------------------------------
(* RoomStore::save: tx around do_save *)

\* Faulty: the transaction is begun on a connection that stays in the pool.
BeginUncounted(r) ==
    /\ pc[r] = "begin"
    /\ free > 0
    /\ Goto(r, "room")
    /\ UNCHANGED <<tables, free, caller, target, loaded, earlier>>

Begin(r) ==
    /\ pc[r] = "begin"
    /\ free > 0
    /\ free' = free - 1
    /\ Goto(r, "room")
    /\ UNCHANGED <<tables, caller, target, loaded, earlier>>

SaveRoom(r) ==
    /\ pc[r] = "room"
    /\ free > 0
    /\ room' = room \cup {target[r]}
    /\ Goto(r, "host")
    /\ UNCHANGED <<host, guest, free, caller, target, loaded, earlier>>

\* Faulty: the guest of the room is not saved.
NoGuestSaved(r) == "commit"
AfterHost(r) == IF loaded[r].guest = NoUser THEN "commit" ELSE "guest"

SaveHost(r) ==
    /\ pc[r] = "host"
    /\ free > 0
    /\ host' = host \cup {<<target[r], loaded[r].host>>}
    /\ Goto(r, AfterHost(r))
    /\ UNCHANGED <<room, guest, free, caller, target, loaded, earlier>>

SaveGuest(r) ==
    /\ pc[r] = "guest"
    /\ free > 0
    /\ guest' = guest \cup {<<target[r], loaded[r].guest>>}
    /\ Goto(r, "commit")
    /\ UNCHANGED <<room, host, free, caller, target, loaded, earlier>>

Commit(r) ==
    /\ pc[r] = "commit"
    /\ free' = free + 1
    /\ Goto(r, IF r \in Creates THEN "Created" ELSE "Ok")
    /\ UNCHANGED <<tables, caller, target, loaded, earlier>>

\* What a failed save makes of its request: create_room maps the error,
\* join_room unwraps it.
Failure(r) == IF r \in Creates THEN "ServerError" ELSE "Panicked"

\* Faulty: rolling back keeps the connection.
RollbackKeeps(r) ==
    /\ pc[r] = "rollback"
    /\ Goto(r, Failure(r))
    /\ UNCHANGED <<tables, free, caller, target, loaded, earlier>>

\* Faulty: the rollback runs on the pool, as the statements do.
RollbackOnPool(r) ==
    /\ pc[r] = "rollback"
    /\ free > 0
    /\ free' = free + 1
    /\ Goto(r, Failure(r))
    /\ UNCHANGED <<tables, caller, target, loaded, earlier>>

\* Rolling back undoes nothing: no statement ran in the transaction.
Rollback(r) ==
    /\ pc[r] = "rollback"
    /\ free' = free + 1
    /\ Goto(r, Failure(r))
    /\ UNCHANGED <<tables, caller, target, loaded, earlier>>

-----------------------------------------------------------------------------
(* Failures *)

\* The await fails that request r is at.  find_by_id unwraps its error; an
\* error of commit comes when the rows are already there.
AwaitFails(r) ==
    /\ \/ /\ pc[r] = "find"
          /\ Goto(r, "Panicked")
          /\ UNCHANGED free
       \/ /\ pc[r] = "begin"
          /\ Goto(r, Failure(r))
          /\ UNCHANGED free
       \/ /\ pc[r] \in {"room", "host", "guest"}
          /\ Goto(r, "rollback")
          /\ UNCHANGED free
       \/ /\ pc[r] = "commit"
          /\ Goto(r, Failure(r))
          /\ free' = free + 1
    /\ UNCHANGED <<tables, caller, target, loaded, earlier>>

\* The pool gives up: no connection became free within acquire_timeout.
AcquireTimeout(r) ==
    /\ free = 0
    /\ pc[r] # "commit"
    /\ AwaitFails(r)

\* The connections a request gives back when it is dropped.
Held(r) == IF pc[r] \in Saving THEN 1 ELSE 0

\* The client disconnects and the future of its request is dropped.
Abandon(r) ==
    /\ pc[r] \in Pending
    /\ free' = free + Held(r)
    /\ Goto(r, "Dropped")
    /\ UNCHANGED <<tables, caller, target, loaded, earlier>>

\* The process dies and is started again; only the tables remain.
Crash ==
    /\ \E r \in Request : pc[r] \in Pending
    /\ free' = MaxConnections
    /\ pc' = [r \in Request |-> IF pc[r] \in Pending THEN "Dropped" ELSE pc[r]]
    /\ UNCHANGED <<tables, caller, target, loaded, earlier>>

-----------------------------------------------------------------------------

Init ==
    /\ room = {} /\ host = {} /\ guest = {}
    /\ free = MaxConnections
    /\ pc = [r \in Request |-> "idle"]
    /\ caller = [r \in Request |-> NoUser]
    /\ target = [r \in Request |-> r]
    /\ loaded = [r \in Request |-> [host |-> NoUser, guest |-> NoUser]]
    /\ earlier = [r \in Request |-> {}]

Work(r) ==
    \/ Find(r)
    \/ Begin(r)
    \/ SaveRoom(r)
    \/ SaveHost(r)
    \/ SaveGuest(r)
    \/ Commit(r)
    \/ Rollback(r)

Next ==
    \/ \E r \in Request : Work(r) \/ AwaitFails(r) \/ AcquireTimeout(r) \/ Abandon(r)
    \/ \E r \in Request, u \in User, rm \in Creates : Arrive(r, u, rm)
    \/ Crash

Spec == Init /\ [][Next]_vars

\* A request at an await proceeds, or runs into the timeout of the pool.
FairSpec == Spec /\ \A r \in Request : WF_vars(Work(r) \/ AcquireTimeout(r))

-----------------------------------------------------------------------------
(* Type invariant: every variable has its type. *)
TypeOK ==
    /\ room \subseteq Creates
    /\ host \subseteq Creates \X User
    /\ guest \subseteq Creates \X User
    /\ free \in 0..MaxConnections
    /\ pc \in [Request -> {"idle"} \cup Pending \cup Ended]
    /\ caller \in [Request -> User \cup {NoUser}]
    /\ target \in [Request -> Request]
    /\ loaded \in [Request -> [host : User \cup {NoUser}, guest : User \cup {NoUser}]]
    /\ earlier \in [Request -> SUBSET Joins]

\* The requests that hold a connection for their transaction.
Holders == {r \in Request : pc[r] \in Saving}

\* Whatever ends a request - an answer, an error, a panic, a timeout, a client
\* that left - gives back the connection its save held, once.
PoolConserved == IsFiniteSet(Holders) /\ free + Cardinality(Holders) = MaxConnections

\* What a client was told was saved is in the tables, and stays there across
\* failures of other requests and crashes of the process.
AcknowledgedIsStored ==
    \A r \in Request :
        /\ pc[r] = "Created" => target[r] \in room /\ <<target[r], caller[r]>> \in host
        /\ pc[r] = "Ok" /\ r \in Joins => <<target[r], caller[r]>> \in guest

\* Whoever was told that they joined a room keeps out everyone who asks after
\* that: of two accepted joins of a room, neither arrived when the other had
\* been answered.
LaterJoinRefused ==
    \A j, k \in Joins :
        pc[j] = "Ok" /\ pc[k] = "Ok" /\ target[j] = target[k] => j \notin earlier[k]

\* The tables, as those who look rooms up see them, behave as RoomBook says:
\* a room appears at once, with one host for ever, and never admits its host
\* as a guest, although each save is a sequence of separate statements.
Book == INSTANCE RoomBook WITH Room <- Creates
BookSpec == Book!Spec

\* "Only one person except call host can join room" (task.md:32).  Not true
\* of the code: two joins both find the room without a guest, then both save.
OneGuest == \A rm \in Creates : Cardinality(GuestsOf(rm)) <= 1

\* "rolling back transaction" (db_common.rs:23): a save that was rolled back
\* has left nothing behind.  Not true of the code: the statements before the
\* one that failed were committed on their own.
RolledBackLeavesNothing ==
    [][\A r \in Creates : Rollback(r) => r \notin room']_vars

\* Every request ends, even when saves hold all the connections and each of
\* them waits for one more: the timeout of the pool resolves it.
EveryRequestEnds == \A r \in Request : pc[r] \in Pending ~> pc[r] \in Ended

-----------------------------------------------------------------------------
(* What a request in progress knows of the tables: the invariant behind    *)
(* BookSpec, AcknowledgedIsStored and LaterJoinRefused, which              *)
(* RoomStoreProofs proves inductive.                                       *)

\* The kinds of request go through different states.
KindMatchesPc ==
    \A r \in Request :
        /\ r \in Creates => pc[r] \notin {"find", "guest", "Ok"}
        /\ r \in Joins => pc[r] # "Created"
        /\ r \in Views => pc[r] \notin {"begin", "Created"} \cup Saving
        /\ pc[r] # "idle" => caller[r] \in User /\ target[r] \in Creates

\* create_room saves its caller as the host of a room nobody else knows of.
CreateSavesFreshRoom ==
    \A r \in Creates :
        /\ pc[r] # "idle" =>
             target[r] = r /\ loaded[r] = [host |-> caller[r], guest |-> NoUser]
        /\ pc[r] \in {"idle", "begin", "room", "host"} => HostsOf(r) = {}

\* join_room saves its caller as the guest of a room that has its host.
JoinSavesKnownHost ==
    \A r \in Joins :
        pc[r] \in {"begin"} \cup Saving =>
            /\ loaded[r].guest = caller[r]
            /\ loaded[r].host # caller[r]
            /\ <<target[r], loaded[r].host>> \in host

\* A save writes its rows in order.
RowsWritten ==
    \A r \in Request :
        /\ r \in Creates /\ pc[r] \in {"host", "commit", "Created"} => target[r] \in room
        /\ r \in Creates /\ pc[r] \in {"commit", "Created"} => <<target[r], caller[r]>> \in host
        /\ r \in Joins /\ pc[r] \in {"commit", "Ok"} => <<target[r], caller[r]>> \in guest

\* A join admitted to its room arrived before any other join of it was done.
AdmittedBeforeOthers ==
    \A k \in Joins : \A j \in earlier[k] :
        /\ pc[j] = "Ok"
        /\ pc[k] \in {"begin", "Ok"} \cup Saving => target[j] # target[k]

StoreInv ==
    /\ TypeOK
    /\ PoolConserved
    /\ KindMatchesPc
    /\ CreateSavesFreshRoom
    /\ JoinSavesKnownHost
    /\ RowsWritten
    /\ AdmittedBeforeOthers
=============================================================================
