-------------------------- MODULE RoomStoreProofs --------------------------
(***************************************************************************)
(* Proofs about RoomStore, for any requests, users and size of the pool:   *)
(* type correctness, what an answer says of the tables, and that the       *)
(* tables behave as RoomBook.                                              *)
(***************************************************************************)
EXTENDS RoomStore, FiniteSetTheorems, TLAPS

\* Creates, joins and views are different requests.
LEMMA Kinds ==
    /\ Creates \subseteq Request /\ Joins \subseteq Request /\ Views \subseteq Request
    /\ \A r \in Creates : r \notin Joins /\ r \notin Views
    /\ \A r \in Joins : r \notin Creates /\ r \notin Views
    /\ \A r \in Request : r \in Creates \/ r \in Joins \/ r \in Views
BY RoomAssumption DEF Request


(***************************************************************************)
(* Types and the pool.                                                     *)
(***************************************************************************)

\* How a step of one request changes the set of those that hold a connection.
LEMMA HoldersStep ==
    ASSUME TypeOK, PoolConserved, NEW r \in Request, NEW p, Goto(r, p)
    PROVE  /\ IsFiniteSet(Holders') /\ Cardinality(Holders) \in Nat /\ Cardinality(Holders') \in Nat
           /\ pc[r] \in Saving /\ p \notin Saving => Cardinality(Holders') = Cardinality(Holders) - 1
           /\ pc[r] \notin Saving /\ p \in Saving => Cardinality(Holders') = Cardinality(Holders) + 1
           /\ (pc[r] \in Saving <=> p \in Saving) => Cardinality(Holders') = Cardinality(Holders)
<1>0. IsFiniteSet(Holders) /\ pc' = [pc EXCEPT ![r] = p] /\ DOMAIN pc = Request
  BY DEF PoolConserved, Goto, TypeOK
<1>1. CASE pc[r] \in Saving /\ p \notin Saving
  <2>1. Holders' = Holders \ {r} /\ r \in Holders
    BY <1>0, <1>1 DEF Holders
  <2>. QED
    BY <1>0, <1>1, <2>1, FS_RemoveElement, FS_CardinalityType
<1>2. CASE pc[r] \notin Saving /\ p \in Saving
  <2>1. Holders' = Holders \cup {r} /\ r \notin Holders
    BY <1>0, <1>2 DEF Holders
  <2>. QED
    BY <1>0, <1>2, <2>1, FS_AddElement, FS_CardinalityType
<1>3. CASE pc[r] \in Saving <=> p \in Saving
  <2>1. Holders' = Holders
    BY <1>0, <1>3 DEF Holders
  <2>. QED
    BY <1>0, <1>3, <2>1, FS_CardinalityType
<1>. QED
  BY <1>1, <1>2, <1>3

\* Every step keeps the pool in balance: what a request takes it gives back.
LEMMA PoolStep ==
    ASSUME TypeOK, PoolConserved, [Next]_vars
    PROVE  PoolConserved' /\ free' \in 0..MaxConnections
<1>. USE RoomAssumption
<1>1. free \in Nat /\ free <= MaxConnections
  BY DEF TypeOK
<1>2. ASSUME NEW r \in Request, NEW p, Goto(r, p), p \in {"idle"} \cup Pending \cup Ended,
             \/ pc[r] \in Saving /\ p \notin Saving /\ free' = free + 1
             \/ pc[r] \notin Saving /\ p \in Saving /\ free > 0 /\ free' = free - 1
             \/ (pc[r] \in Saving <=> p \in Saving) /\ free' = free
      PROVE  PoolConserved' /\ free' \in 0..MaxConnections
  BY <1>1, <1>2, HoldersStep DEF PoolConserved
<1>. DEFINE Balanced(r) == \E p \in {"idle"} \cup Pending \cup Ended :
        /\ Goto(r, p)
        /\ \/ pc[r] \in Saving /\ p \notin Saving /\ free' = free + 1
           \/ pc[r] \notin Saving /\ p \in Saving /\ free > 0 /\ free' = free - 1
           \/ (pc[r] \in Saving <=> p \in Saving) /\ free' = free
<1>3. ASSUME NEW r \in Request, Work(r)
      PROVE  Balanced(r)
  <2>1. CASE Find(r)
    BY <2>1 DEF Find, Pending, Saving, Ended, Answers, Gone
  <2>2. CASE Begin(r)
    BY <2>2 DEF Begin, Pending, Saving, Ended, Answers, Gone
  <2>3. CASE SaveRoom(r) \/ SaveHost(r) \/ SaveGuest(r)
    BY <2>3 DEF SaveRoom, SaveHost, AfterHost, SaveGuest, Pending, Saving, Ended, Answers, Gone
  <2>4. CASE Commit(r) \/ Rollback(r)
    BY <2>4 DEF Commit, Rollback, Failure, Pending, Saving, Ended, Answers, Gone
  <2>. QED
    BY <1>3, <2>1, <2>2, <2>3, <2>4 DEF Work
<1>4. ASSUME NEW r \in Request, AwaitFails(r) \/ AcquireTimeout(r)
      PROVE  Balanced(r)
  BY <1>4 DEF AcquireTimeout, AwaitFails, Failure, Pending, Saving, Ended, Answers, Gone
<1>5. ASSUME NEW r \in Request, Abandon(r)
      PROVE  Balanced(r)
  BY <1>1, <1>5 DEF Abandon, Held, Pending, Saving, Ended, Answers, Gone
<1>6. ASSUME NEW r \in Request, NEW u \in User, NEW rm \in Creates, Arrive(r, u, rm)
      PROVE  Balanced(r)
  BY <1>6 DEF Arrive, Pending, Saving, Ended, Answers, Gone
<1>7. CASE Crash
  <2>1. Holders' = {} /\ free' = MaxConnections
    BY <1>7 DEF Crash, Holders, Pending, Saving
  <2>. QED
    BY <2>1, FS_EmptySet DEF PoolConserved
<1>8. CASE UNCHANGED vars
  BY <1>1, <1>8 DEF vars, PoolConserved, Holders
<1>. QED
  BY <1>2, <1>3, <1>4, <1>5, <1>6, <1>7, <1>8 DEF Next

\* What a save in progress is about to write has the types of the tables.
LEMMA SavedTypes ==
    ASSUME StoreInv, NEW r \in Request, pc[r] \in Saving
    PROVE  /\ target[r] \in Creates
           /\ r \in Creates \/ r \in Joins
           /\ loaded[r].host \in User
           /\ pc[r] = "guest" => loaded[r].guest \in User /\ r \in Joins
<1>. USE DEF StoreInv
<1>1. caller[r] \in User /\ target[r] \in Creates /\ r \notin Views
  BY DEF KindMatchesPc, Saving
<1>2. CASE r \in Creates
  <2>1. pc[r] # "idle" /\ pc[r] # "guest"
    BY <1>2 DEF KindMatchesPc, Saving
  <2>2. loaded[r] = [host |-> caller[r], guest |-> NoUser]
    BY <1>2, <2>1 DEF CreateSavesFreshRoom
  <2>. QED
    BY <1>1, <1>2, <2>1, <2>2
<1>3. CASE r \in Joins
  BY <1>1, <1>3 DEF JoinSavesKnownHost, TypeOK
<1>. QED
  BY <1>1, <1>2, <1>3, Kinds

\* Every step keeps the types.
LEMMA TypeStep ==
    ASSUME StoreInv, [Next]_vars
    PROVE  TypeOK'
<1>0. TypeOK /\ PoolConserved /\ free' \in 0..MaxConnections
  BY PoolStep DEF StoreInv
<1>. USE DEF TypeOK
<1>1. Creates \subseteq Request
  BY Kinds
<1>2. ASSUME NEW r \in Request, Work(r)
      PROVE  TypeOK'
  <2>1. CASE Find(r)
    <3>1. loaded' \in [Request -> [host : User \cup {NoUser}, guest : User \cup {NoUser}]]
      <4>1. PICK h \in User \cup {NoUser}, g \in User \cup {NoUser} :
              loaded' = loaded \/ loaded' = [loaded EXCEPT ![r] = [host |-> h, guest |-> g]]
        <5>1. HostsOf(target[r]) \subseteq User /\ GuestsOf(target[r]) \subseteq User
          BY DEF HostsOf, GuestsOf
        <5>2. caller[r] \in User \cup {NoUser}
          BY <1>0
        <5>. QED
          BY <2>1, <5>1, <5>2 DEF Find
      <4>. QED
        BY <1>0, <4>1
    <3>2. pc' \in [Request -> {"idle"} \cup Pending \cup Ended]
      BY <1>0, <2>1 DEF Find, Goto, Pending, Saving, Ended, Answers, Gone
    <3>. QED
      BY <1>0, <2>1, <3>1, <3>2 DEF Find, tables
  <2>2. CASE Begin(r) \/ Commit(r) \/ Rollback(r)
    BY <1>0, <2>2 DEF Begin, Commit, Rollback, Failure, tables, Goto, Pending, Saving, Ended,
       Answers, Gone
  <2>3. CASE SaveRoom(r)
    <3>1. target[r] \in Creates
      BY <2>3, SavedTypes DEF SaveRoom, Saving
    <3>. QED
      BY <1>0, <2>3, <3>1 DEF SaveRoom, Goto, Pending, Saving, Ended
  <2>4. CASE SaveHost(r)
    <3>1. target[r] \in Creates /\ loaded[r].host \in User
      BY <2>4, SavedTypes DEF SaveHost, Saving
    <3>. QED
      BY <1>0, <2>4, <3>1 DEF SaveHost, AfterHost, Goto, Pending, Saving, Ended
  <2>5. CASE SaveGuest(r)
    <3>1. target[r] \in Creates /\ loaded[r].guest \in User
      BY <2>5, SavedTypes DEF SaveGuest, Saving
    <3>. QED
      BY <1>0, <2>5, <3>1 DEF SaveGuest, Goto, Pending, Saving, Ended
  <2>. QED
    BY <1>2, <2>1, <2>2, <2>3, <2>4, <2>5 DEF Work
<1>3. ASSUME NEW r \in Request, AwaitFails(r) \/ AcquireTimeout(r) \/ Abandon(r)
      PROVE  TypeOK'
  <2>1. UNCHANGED <<tables, caller, target, loaded, earlier>>
    BY <1>3 DEF AcquireTimeout, AwaitFails, Abandon
  <2>2. \E p \in Pending \cup Ended : pc' = [pc EXCEPT ![r] = p]
    BY <1>3 DEF AcquireTimeout, AwaitFails, Abandon, Failure, Goto, Pending, Saving, Ended,
       Answers, Gone
  <2>3. pc' \in [Request -> {"idle"} \cup Pending \cup Ended]
    BY <1>0, <2>2
  <2>. QED
    BY <1>0, <2>1, <2>3 DEF tables
<1>4. ASSUME NEW r \in Request, NEW u \in User, NEW rm \in Creates, Arrive(r, u, rm)
      PROVE  TypeOK'
  <2>1. pc' \in [Request -> {"idle"} \cup Pending \cup Ended]
    BY <1>0, <1>4 DEF Arrive, Goto, Pending
  <2>2. caller' \in [Request -> User \cup {NoUser}] /\ target' \in [Request -> Request]
    BY <1>0, <1>1, <1>4 DEF Arrive
  <2>3. loaded' \in [Request -> [host : User \cup {NoUser}, guest : User \cup {NoUser}]]
    BY <1>0, <1>4 DEF Arrive
  <2>4. earlier' \in [Request -> SUBSET Joins]
    BY <1>0, <1>4 DEF Arrive
  <2>. QED
    BY <1>0, <1>4, <2>1, <2>2, <2>3, <2>4 DEF Arrive, tables
<1>5. CASE Crash
  BY <1>0, <1>5 DEF Crash, tables, Pending, Saving, Ended, Gone
<1>6. CASE UNCHANGED vars
  BY <1>0, <1>6 DEF vars
<1>. QED
  BY <1>2, <1>3, <1>4, <1>5, <1>6 DEF Next

(***************************************************************************)
(* What requests know of the tables.  Each step concerns one request; the  *)
(* rows that were written stay; and only Arrive, Find and the three saves  *)
(* do more than move a request on.                                         *)
(***************************************************************************)

\* A step moves request r from one state to the next, and leaves its caller,
\* its target and what it knew on arrival alone.
Moves(r, from, to) ==
    /\ pc[r] = from
    /\ pc' = [pc EXCEPT ![r] = to]
    /\ caller' = caller /\ target' = target /\ earlier' = earlier

\* The steps, by what they change.
StepKinds(r) ==
    \/ /\ pc[r] = "idle"
       /\ \E u \in User, rm \in Creates :
            /\ pc' = [pc EXCEPT ![r] = IF r \in Creates THEN "begin" ELSE "find"]
            /\ r \in Creates => rm = r
            /\ caller' = [caller EXCEPT ![r] = u]
            /\ target' = [target EXCEPT ![r] = rm]
            /\ loaded' = [loaded EXCEPT ![r] = [host |-> u, guest |-> NoUser]]
            /\ earlier' = [earlier EXCEPT ![r] = {j \in Joins : pc[j] = "Ok"}]
       /\ UNCHANGED tables
    \/ /\ r \in Joins /\ Moves(r, "find", "begin")
       /\ GuestsOf(target[r]) = {}
       /\ \E h \in HostsOf(target[r]) :
            /\ h # caller[r]
            /\ loaded' = [loaded EXCEPT ![r] = [host |-> h, guest |-> caller[r]]]
       /\ UNCHANGED tables
    \/ /\ r \in Views /\ Moves(r, "find", "Ok")
       /\ \E x : loaded' = [loaded EXCEPT ![r] = x]
       /\ UNCHANGED tables
    \/ /\ Moves(r, "room", "host")
       /\ room' = room \cup {target[r]}
       /\ UNCHANGED <<host, guest, loaded>>
    \/ /\ Moves(r, "host", IF loaded[r].guest = NoUser THEN "commit" ELSE "guest")
       /\ host' = host \cup {<<target[r], loaded[r].host>>}
       /\ UNCHANGED <<room, guest, loaded>>
    \/ /\ Moves(r, "guest", "commit")
       /\ guest' = guest \cup {<<target[r], loaded[r].guest>>}
       /\ UNCHANGED <<room, host, loaded>>
    \/ /\ \/ Moves(r, "begin", "room")
          \/ r \in Creates /\ Moves(r, "commit", "Created")
          \/ r \notin Creates /\ Moves(r, "commit", "Ok")
          \/ \E f \in {"room", "host", "guest"} : Moves(r, f, "rollback")
          \/ \E f \in Pending, t \in {"NotFound", "Conflict", "ServerError", "Panicked", "Dropped"} :
               Moves(r, f, t)
       /\ UNCHANGED <<tables, loaded>>

LEMMA StepCases ==
    ASSUME StoreInv, Next, ~Crash
    PROVE  \E r \in Request : StepKinds(r)
<1>. USE DEF Moves, StepKinds
<1>1. ASSUME NEW r \in Request, NEW u \in User, NEW rm \in Creates, Arrive(r, u, rm)
      PROVE  StepKinds(r)
  BY <1>1 DEF Arrive, Goto
<1>2. ASSUME NEW r \in Request, Find(r)
      PROVE  StepKinds(r)
  <2>1. CASE HostsOf(target[r]) = {} /\ Goto(r, "NotFound") /\ UNCHANGED loaded
    BY <1>2, <2>1 DEF Find, Goto, Pending
  <2>2. ASSUME NEW h \in HostsOf(target[r]),
               NEW g \in IF GuestsOf(target[r]) = {} THEN {NoUser} ELSE GuestsOf(target[r]),
               \/ /\ r \in Views
                  /\ Goto(r, "Ok")
                  /\ loaded' = [loaded EXCEPT ![r] = [host |-> h, guest |-> g]]
               \/ /\ r \in Joins
                  /\ MayJoin(r, h, g)
                  /\ Goto(r, "begin")
                  /\ loaded' = [loaded EXCEPT ![r] = [host |-> h, guest |-> caller[r]]]
               \/ /\ r \in Joins
                  /\ ~MayJoin(r, h, g)
                  /\ Goto(r, "Conflict")
                  /\ UNCHANGED loaded
        PROVE  StepKinds(r)
    <3>0. NoUser \notin GuestsOf(target[r])
      BY RoomAssumption DEF GuestsOf
    <3>1. g = NoUser => GuestsOf(target[r]) = {}
      BY <3>0
    <3>2. UNCHANGED tables /\ caller' = caller /\ target' = target /\ earlier' = earlier
          /\ pc[r] = "find" /\ "find" \in Pending
      BY <1>2 DEF Find, Pending
    <3>. QED
      BY <2>2, <3>1, <3>2 DEF Goto, MayJoin
  <2>. QED
    BY <1>2, <2>1, <2>2 DEF Find
<1>3. ASSUME NEW r \in Request, Begin(r) \/ Commit(r) \/ Rollback(r)
      PROVE  StepKinds(r)
  BY <1>3 DEF Begin, Commit, Rollback, Failure, Goto, Pending, Saving
<1>4. ASSUME NEW r \in Request, SaveRoom(r) \/ SaveHost(r) \/ SaveGuest(r)
      PROVE  StepKinds(r)
  BY <1>4 DEF SaveRoom, SaveHost, AfterHost, SaveGuest, Goto
<1>5. ASSUME NEW r \in Request, AwaitFails(r) \/ AcquireTimeout(r) \/ Abandon(r)
      PROVE  StepKinds(r)
  BY <1>5 DEF AcquireTimeout, AwaitFails, Abandon, Failure, Goto, Pending, Saving
<1>. QED
  BY <1>1, <1>2, <1>3, <1>4, <1>5 DEF Next, Work

\* A crash, and a step that changes nothing, keep what requests know.
LEMMA CrashStep ==
    ASSUME StoreInv, Crash \/ UNCHANGED vars
    PROVE  /\ KindMatchesPc' /\ CreateSavesFreshRoom' /\ JoinSavesKnownHost'
           /\ RowsWritten' /\ AdmittedBeforeOthers'
<1>. USE DEF StoreInv
<1>1. /\ UNCHANGED <<tables, caller, target, loaded, earlier>>
      /\ \A r \in Request : pc'[r] = pc[r] \/ (pc[r] \in Pending /\ pc'[r] = "Dropped")
  BY DEF Crash, vars, tables
<1>2. Creates \subseteq Request /\ Joins \subseteq Request
  BY Kinds
<1>3. KindMatchesPc'
  BY <1>1 DEF KindMatchesPc, Pending, Saving
<1>4. CreateSavesFreshRoom'
  BY <1>1, <1>2 DEF CreateSavesFreshRoom, HostsOf, tables, Pending, Saving
<1>5. JoinSavesKnownHost'
  BY <1>1, <1>2 DEF JoinSavesKnownHost, tables, Saving
<1>6. RowsWritten'
  BY <1>1, <1>2 DEF RowsWritten, tables
<1>7. AdmittedBeforeOthers'
  <2>1. \A k \in Joins : \A j \in earlier[k] : j \in Joins
    BY <1>2 DEF TypeOK
  <2>2. "Ok" \notin Pending
    BY DEF Pending, Saving
  <2>. QED
    BY <1>1, <1>2, <2>1, <2>2 DEF AdmittedBeforeOthers, Saving
<1>. QED
  BY <1>3, <1>4, <1>5, <1>6, <1>7

\* Every other step keeps them too.
LEMMA KnowledgeStep ==
    ASSUME StoreInv, TypeOK', NEW r \in Request, StepKinds(r)
    PROVE  /\ KindMatchesPc' /\ CreateSavesFreshRoom' /\ JoinSavesKnownHost'
           /\ RowsWritten' /\ AdmittedBeforeOthers'
<1>. USE DEF StoreInv
<1>1. /\ \A t \in Request : t # r =>
            /\ pc'[t] = pc[t] /\ caller'[t] = caller[t] /\ target'[t] = target[t]
            /\ loaded'[t] = loaded[t] /\ earlier'[t] = earlier[t]
      /\ room \subseteq room' /\ host \subseteq host' /\ guest \subseteq guest'
  BY DEF StepKinds, Moves, tables, TypeOK
<1>2. pc[r] # "idle" =>
        caller'[r] = caller[r] /\ target'[r] = target[r] /\ earlier'[r] = earlier[r]
  BY DEF StepKinds, Moves
<1>3. Creates \subseteq Request /\ Joins \subseteq Request
  BY Kinds
<1>4. KindMatchesPc'
  <2>. SUFFICES ASSUME NEW t \in Request
                PROVE  /\ t \in Creates => pc'[t] \notin {"find", "guest", "Ok"}
                       /\ t \in Joins => pc'[t] # "Created"
                       /\ t \in Views => pc'[t] \notin {"begin", "Created"} \cup Saving
                       /\ pc'[t] # "idle" => caller'[t] \in User /\ target'[t] \in Creates
    BY DEF KindMatchesPc
  <2>1. CASE t # r
    BY <1>1, <2>1 DEF KindMatchesPc
  <2>2. CASE t = r
    <3>1. pc[r] = "idle" \/ (caller[r] \in User /\ target[r] \in Creates)
      BY DEF KindMatchesPc
    <3>2. pc'[r] # "idle" => caller'[r] \in User /\ target'[r] \in Creates
      <4>1. CASE pc[r] = "idle"
        <5>1. \/ pc'[r] = "idle"
              \/ \E u \in User, rm \in Creates : caller'[r] = u /\ target'[r] = rm
          BY <4>1 DEF StepKinds, Moves, TypeOK, Pending, Saving
        <5>. QED
          BY <5>1
      <4>2. CASE pc[r] # "idle"
        BY <1>2, <3>1, <4>2
      <4>. QED
        BY <4>1, <4>2
    <3>3. /\ r \in Creates => pc[r] \notin {"find", "guest", "Ok"}
          /\ r \in Joins => pc[r] # "Created"
          /\ r \in Views => pc[r] \notin {"begin", "Created"} \cup Saving
      BY DEF KindMatchesPc
    <3>4. r \in Creates => loaded[r].guest = NoUser \/ pc[r] = "idle"
      <4>1. r \in Creates /\ pc[r] # "idle" => loaded[r] = [host |-> caller[r], guest |-> NoUser]
        BY DEF CreateSavesFreshRoom
      <4>. QED
        BY <4>1
    <3>5. DOMAIN pc = Request
      BY DEF TypeOK
    <3>6. /\ r \in Creates => pc'[r] \notin {"find", "guest", "Ok"}
          /\ r \in Joins => pc'[r] # "Created"
          /\ r \in Views => pc'[r] \notin {"begin", "Created"} \cup Saving
      BY <3>3, <3>4, <3>5, Kinds DEF StepKinds, Moves, Saving, Pending
    <3>. QED
      BY <2>2, <3>2, <3>6
  <2>. QED
    BY <2>1, <2>2
<1>5. CreateSavesFreshRoom'
  <2>. SUFFICES ASSUME NEW t \in Creates
                PROVE  /\ pc'[t] # "idle" =>
                            target'[t] = t /\ loaded'[t] = [host |-> caller'[t], guest |-> NoUser]
                       /\ pc'[t] \in {"idle", "begin", "room", "host"} => (HostsOf(t))' = {}
    BY DEF CreateSavesFreshRoom
  <2>0. t \in Request /\ t \notin Joins /\ t \notin Views
    BY Kinds
  <2>1. pc'[t] # "idle" =>
          target'[t] = t /\ loaded'[t] = [host |-> caller'[t], guest |-> NoUser]
    <3>1. CASE t # r
      BY <1>1, <2>0, <3>1 DEF CreateSavesFreshRoom
    <3>2. CASE t = r
      <4>1. CASE pc[r] = "idle"
        <5>1. PICK u \in User, rm \in Creates :
                /\ r \in Creates => rm = r
                /\ caller' = [caller EXCEPT ![r] = u]
                /\ target' = [target EXCEPT ![r] = rm]
                /\ loaded' = [loaded EXCEPT ![r] = [host |-> u, guest |-> NoUser]]
          BY <4>1 DEF StepKinds, Moves, Pending, Saving
        <5>. QED
          BY <2>0, <3>2, <5>1 DEF TypeOK
      <4>2. CASE pc[r] # "idle"
        <5>1. loaded'[r] = loaded[r]
          BY <2>0, <3>2, <4>2 DEF StepKinds, Moves
        <5>2. target[r] = r /\ loaded[r] = [host |-> caller[r], guest |-> NoUser]
          BY <3>2, <4>2 DEF CreateSavesFreshRoom
        <5>. QED
          BY <1>2, <3>2, <4>2, <5>1, <5>2
      <4>. QED
        BY <4>1, <4>2
    <3>. QED
      BY <3>1, <3>2
  <2>2. ASSUME pc'[t] \in {"idle", "begin", "room", "host"}
        PROVE  (HostsOf(t))' = {}
    <3>1. pc[t] \in {"idle", "begin", "room", "host"}
      <4>1. CASE t # r
        BY <1>1, <2>0, <2>2, <4>1
      <4>2. CASE t = r
        BY <2>0, <2>2, <4>2 DEF StepKinds, Moves, TypeOK
      <4>. QED
        BY <4>1, <4>2
    <3>2. HostsOf(t) = {}
      BY <3>1 DEF CreateSavesFreshRoom
    <3>3. CASE host' = host
      BY <3>2, <3>3 DEF HostsOf
    <3>4. CASE /\ Moves(r, "host", IF loaded[r].guest = NoUser THEN "commit" ELSE "guest")
               /\ host' = host \cup {<<target[r], loaded[r].host>>}
      <4>1. CASE r \in Creates
        <5>1. target[r] = r /\ r # t
          <6>1. target[r] = r
            BY <3>4, <4>1 DEF CreateSavesFreshRoom, Moves
          <6>2. pc'[r] \in {"commit", "guest"}
            BY <3>4 DEF Moves, TypeOK
          <6>. QED
            BY <2>2, <6>1, <6>2
        <5>. QED
          BY <3>2, <3>4, <5>1 DEF HostsOf
      <4>2. CASE r \in Joins
        \* The host a join saves again is in the table already.
        <5>1. <<target[r], loaded[r].host>> \in host
          BY <3>4, <4>2 DEF JoinSavesKnownHost, Moves, Saving
        <5>. QED
          BY <3>2, <3>4, <5>1 DEF HostsOf
      <4>3. CASE r \in Views
        BY <3>4, <4>3 DEF KindMatchesPc, Moves, Saving
      <4>. QED
        BY <4>1, <4>2, <4>3, Kinds
    <3>. QED
      BY <3>3, <3>4 DEF StepKinds, tables
  <2>. QED
    BY <2>1, <2>2
<1>6. JoinSavesKnownHost'
  <2>. SUFFICES ASSUME NEW t \in Joins, pc'[t] \in {"begin"} \cup Saving
                PROVE  /\ loaded'[t].guest = caller'[t]
                       /\ loaded'[t].host # caller'[t]
                       /\ <<target'[t], loaded'[t].host>> \in host'
    BY DEF JoinSavesKnownHost
  <2>1. CASE t # r
    BY <1>1, <1>3, <2>1 DEF JoinSavesKnownHost
  <2>2. CASE t = r
    <3>1. CASE /\ Moves(r, "find", "begin")
               /\ \E h \in HostsOf(target[r]) :
                    /\ h # caller[r]
                    /\ loaded' = [loaded EXCEPT ![r] = [host |-> h, guest |-> caller[r]]]
      BY <1>1, <2>2, <3>1 DEF Moves, HostsOf, TypeOK
    <3>2. CASE pc[r] \in {"begin"} \cup Saving /\ loaded'[r] = loaded[r]
      BY <1>1, <1>2, <2>2, <3>2 DEF JoinSavesKnownHost, Saving
    <3>3. ~(pc[r] = "idle")
      BY <1>3, <2>2, Kinds DEF StepKinds, Moves, Saving, TypeOK
    <3>. QED
      BY <2>2, <3>1, <3>2, <3>3, Kinds DEF StepKinds, Moves, Saving, TypeOK
  <2>. QED
    BY <2>1, <2>2
<1>7. RowsWritten'
  <2>. SUFFICES ASSUME NEW t \in Request
                PROVE  /\ t \in Creates /\ pc'[t] \in {"host", "commit", "Created"} => target'[t] \in room'
                       /\ t \in Creates /\ pc'[t] \in {"commit", "Created"} => <<target'[t], caller'[t]>> \in host'
                       /\ t \in Joins /\ pc'[t] \in {"commit", "Ok"} => <<target'[t], caller'[t]>> \in guest'
    BY DEF RowsWritten
  <2>1. CASE t # r
    BY <1>1, <2>1 DEF RowsWritten
  <2>2. CASE t = r
    <3>1. CASE r \in Creates
      <4>1. pc[r] # "idle" => loaded[r] = [host |-> caller[r], guest |-> NoUser]
        BY <3>1 DEF CreateSavesFreshRoom
      <4>2. pc'[r] \in {"host", "commit", "Created"} => target'[r] \in room'
        <5>1. pc[r] # "guest" /\ pc \in [Request -> {"idle"} \cup Pending \cup Ended]
          BY <3>1 DEF KindMatchesPc, TypeOK
        <5>2. pc'[r] \in {"host", "commit", "Created"} =>
                \/ pc[r] = "room" /\ target[r] \in room'
                \/ pc[r] \in {"host", "commit", "Created"}
          BY <3>1, <5>1 DEF StepKinds, Moves
        <5>3. pc[r] \in {"host", "commit", "Created"} => target[r] \in room'
          BY <1>1, <3>1 DEF RowsWritten
        <5>. QED
          BY <1>2, <5>2, <5>3
      <4>3. pc'[r] \in {"commit", "Created"} => <<target'[r], caller'[r]>> \in host'
        BY <1>1, <1>2, <3>1, <4>1, Kinds DEF StepKinds, Moves, RowsWritten, KindMatchesPc, TypeOK
      <4>. QED
        BY <2>2, <3>1, <4>2, <4>3, Kinds
    <3>2. CASE r \in Joins
      <4>1. pc[r] \in {"begin"} \cup Saving => loaded[r].guest = caller[r] /\ caller[r] # NoUser
        BY <1>3, <3>2, RoomAssumption DEF JoinSavesKnownHost, KindMatchesPc, Saving
      <4>2. pc'[r] \in {"commit", "Ok"} => <<target'[r], caller'[r]>> \in guest'
        BY <1>1, <1>2, <3>2, <4>1, Kinds DEF StepKinds, Moves, RowsWritten, Saving, TypeOK
      <4>. QED
        BY <2>2, <3>2, <4>2, Kinds
    <3>3. CASE r \in Views
      BY <2>2, <3>3, Kinds
    <3>. QED
      BY <3>1, <3>2, <3>3, Kinds
  <2>. QED
    BY <2>1, <2>2
<1>8. AdmittedBeforeOthers'
  <2>. SUFFICES ASSUME NEW k \in Joins, NEW j \in earlier'[k]
                PROVE  /\ pc'[j] = "Ok"
                       /\ pc'[k] \in {"begin", "Ok"} \cup Saving => target'[j] # target'[k]
    BY DEF AdmittedBeforeOthers
  <2>1. k \in Request /\ j \in Joins /\ j \in Request
    BY <1>3 DEF TypeOK
  <2>2. pc[j] = "Ok"
    <3>1. CASE j \in earlier[k]
      BY <3>1 DEF AdmittedBeforeOthers
    <3>2. CASE j \notin earlier[k]
      <4>1. k = r /\ pc[r] = "idle"
        BY <1>1, <1>2, <2>1, <3>2
      <4>. QED
        BY <3>2, <4>1 DEF StepKinds, Moves, TypeOK
    <3>. QED
      BY <3>1, <3>2
  <2>3. j # r
    BY <2>2, Kinds DEF StepKinds, Moves, Pending, Saving
  <2>4. pc'[j] = "Ok" /\ target'[j] = target[j]
    BY <1>1, <2>1, <2>2, <2>3
  <2>5. ASSUME pc'[k] \in {"begin", "Ok"} \cup Saving
        PROVE  target[j] # target'[k]
    <3>1. CASE k # r
      BY <1>1, <2>1, <2>5, <3>1 DEF AdmittedBeforeOthers
    <3>2. CASE k = r
      <4>0. pc[r] # "idle" /\ j \in earlier[k] /\ target'[k] = target[k]
        BY <1>2, <2>1, <2>5, <3>2, Kinds DEF StepKinds, Moves, Saving, TypeOK
      <4>1. CASE pc[r] = "find"
        \* The room has the guest that the earlier join saved.
        <5>1. GuestsOf(target[r]) = {}
          BY <2>5, <3>2, <4>1, Kinds DEF StepKinds, Moves, Saving, TypeOK
        <5>2. <<target[j], caller[j]>> \in guest /\ caller[j] \in User
          BY <2>1, <2>2 DEF RowsWritten, KindMatchesPc
        <5>. QED
          BY <3>2, <4>0, <5>1, <5>2 DEF GuestsOf
      <4>2. CASE pc[r] # "find"
        <5>1. pc[r] \in {"begin", "Ok"} \cup Saving
          BY <2>5, <3>2, <4>0, <4>2, Kinds DEF StepKinds, Moves, Saving, Pending, TypeOK
        <5>. QED
          BY <3>2, <4>0, <5>1 DEF AdmittedBeforeOthers
      <4>. QED
        BY <4>1, <4>2
    <3>. QED
      BY <3>1, <3>2
  <2>. QED
    BY <2>4, <2>5
<1>. QED
  BY <1>4, <1>5, <1>6, <1>7, <1>8

\* StoreInv is an invariant of the system.
THEOREM StoreInvariant == Spec => []StoreInv
<1>1. Init => StoreInv
  <2>. SUFFICES ASSUME Init PROVE StoreInv
    OBVIOUS
  <2>1. TypeOK
    BY RoomAssumption DEF Init, TypeOK
  <2>2. Holders = {}
    BY DEF Init, Holders, Saving
  <2>3. PoolConserved
    BY <2>2, FS_EmptySet, RoomAssumption DEF PoolConserved, Init
  <2>4. KindMatchesPc /\ CreateSavesFreshRoom /\ JoinSavesKnownHost /\ RowsWritten
    BY Kinds DEF Init, KindMatchesPc, CreateSavesFreshRoom, JoinSavesKnownHost, RowsWritten,
       HostsOf, Saving
  <2>5. AdmittedBeforeOthers
    BY Kinds DEF Init, AdmittedBeforeOthers
  <2>. QED
    BY <2>1, <2>3, <2>4, <2>5 DEF StoreInv
<1>2. StoreInv /\ [Next]_vars => StoreInv'
  <2>. SUFFICES ASSUME StoreInv, [Next]_vars PROVE StoreInv'
    OBVIOUS
  <2>1. TypeOK' /\ PoolConserved'
    BY TypeStep, PoolStep DEF StoreInv
  <2>2. CASE Crash \/ UNCHANGED vars
    BY <2>1, <2>2, CrashStep DEF StoreInv
  <2>3. CASE Next /\ ~Crash
    BY <2>1, <2>3, StepCases, KnowledgeStep DEF StoreInv
  <2>. QED
    BY <2>2, <2>3
<1>. QED
  BY <1>1, <1>2, PTL DEF Spec

\* The variables always have their types; in particular the pool is never
\* overdrawn or given a connection too many.
THEOREM TypeCorrect == Spec => []TypeOK
<1>1. StoreInv => TypeOK
  BY DEF StoreInv
<1>. QED
  BY <1>1, StoreInvariant, PTL

\* Connections are given back exactly once, however a request ends.
THEOREM PoolBalanced == Spec => []PoolConserved
<1>1. StoreInv => PoolConserved
  BY DEF StoreInv
<1>. QED
  BY <1>1, StoreInvariant, PTL

\* An acknowledged create or join is in the tables, for good.
THEOREM AcknowledgedStays == Spec => []AcknowledgedIsStored
<1>1. StoreInv => AcknowledgedIsStored
  <2>. SUFFICES ASSUME StoreInv, NEW r \in Request
                PROVE  /\ pc[r] = "Created" => target[r] \in room /\ <<target[r], caller[r]>> \in host
                       /\ pc[r] = "Ok" /\ r \in Joins => <<target[r], caller[r]>> \in guest
    BY DEF AcknowledgedIsStored
  <2>1. pc[r] = "Created" => r \in Creates
    BY Kinds DEF StoreInv, KindMatchesPc
  <2>. QED
    BY <2>1 DEF StoreInv, RowsWritten
<1>. QED
  BY <1>1, StoreInvariant, PTL

\* Whoever was told that they joined keeps out all who ask later.
THEOREM JoinExcludesLater == Spec => []LaterJoinRefused
<1>1. StoreInv => LaterJoinRefused
  BY DEF StoreInv, AdmittedBeforeOthers, LaterJoinRefused
<1>. QED
  BY <1>1, StoreInvariant, PTL

\* The tables behave as RoomBook: every step opens a room with its one host,
\* admits a guest who is not the host, or changes neither table.
THEOREM StoreImplementsBook == Spec => BookSpec
<1>1. Init => Book!Init
  BY DEF Init, Book!Init
<1>2. StoreInv /\ [Next]_vars => [Book!Next]_(Book!bookVars)
  <2>. SUFFICES ASSUME StoreInv, [Next]_vars
                PROVE  Book!Next \/ (host' = host /\ guest' = guest)
    BY DEF Book!bookVars
  <2>1. CASE Crash \/ UNCHANGED vars
    BY <2>1 DEF Crash, vars, tables
  <2>2. ASSUME NEW r \in Request, StepKinds(r)
        PROVE  Book!Next \/ (host' = host /\ guest' = guest)
    <3>1. CASE pc[r] = "host" /\ host' = host \cup {<<target[r], loaded[r].host>>} /\ guest' = guest
      <4>1. target[r] \in Creates /\ loaded[r].host \in User /\ (r \in Creates \/ r \in Joins)
        BY <3>1, SavedTypes DEF Saving
      <4>2. CASE r \in Creates
        <5>1. target[r] = r /\ HostsOf(r) = {}
          BY <3>1, <4>2 DEF StoreInv, CreateSavesFreshRoom
        <5>2. Book!Open(target[r], loaded[r].host)
          BY <3>1, <5>1 DEF Book!Open, HostsOf
        <5>. QED
          BY <4>1, <5>2 DEF Book!Next
      <4>3. CASE r \in Joins
        BY <3>1, <4>3 DEF StoreInv, JoinSavesKnownHost, Saving
      <4>. QED
        BY <4>1, <4>2, <4>3
    <3>2. CASE pc[r] = "guest" /\ guest' = guest \cup {<<target[r], loaded[r].guest>>} /\ host' = host
      <4>1. target[r] \in Creates /\ loaded[r].host \in User /\ loaded[r].guest \in User /\ r \in Joins
        BY <3>2, SavedTypes DEF Saving
      <4>2. <<target[r], loaded[r].host>> \in host /\ loaded[r].host # loaded[r].guest
        BY <3>2, <4>1 DEF StoreInv, JoinSavesKnownHost, Saving
      <4>3. Book!Admit(target[r], loaded[r].guest)
        BY <3>2, <4>1, <4>2 DEF Book!Admit
      <4>. QED
        BY <4>1, <4>3 DEF Book!Next
    <3>. QED
      BY <2>2, <3>1, <3>2 DEF StepKinds, Moves, tables
  <2>. QED
    BY <2>1, <2>2, StepCases
<1>. QED
  BY <1>1, <1>2, StoreInvariant, PTL DEF Spec, BookSpec, Book!Spec
=============================================================================
