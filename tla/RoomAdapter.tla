---------------------------- MODULE RoomAdapter -----------------------------
(***************************************************************************)
(* The rooms of one Socket.IO namespace, kept twice: in the in-memory      *)
(* adapter of the server (what socket.rooms shows) and as groups of the    *)
(* service (where messages go).  An operation calls the service first and  *)
(* changes the memory when the answer has come                             *)
(* (SIO/components/web-pubsub-adapter.ts).                                  *)
(*                                                                         *)
(* addAll, del and delAll of a socket take its lock, a FIFO mutex;         *)
(* addSockets and delSockets take none and then call join and leave of     *)
(* each matching socket, which do.  Errors are caught and logged.          *)
(* Socket.IO (namespace, middleware, in-memory adapter) and the service    *)
(* are external.                                                           *)
(***************************************************************************)
EXTENDS RoomFilter, FiniteSets

CONSTANTS
    Sockets,      \* Socket.IO sockets, each on a connection of its own
    Rooms,        \* rooms besides the private room of each socket
    Selections,   \* the options of bulk operations: [rooms, excepts]
    MaxCalls,     \* bound on join, leave and bulk operations
    CanFail,      \* whether a call of the service may fail
    CanLose,      \* whether a client may go away
    None          \* no bulk operation

Name == Rooms \cup Sockets   \* a private room is named as its socket

Bulk == [kind : {"addSockets", "delSockets"}, selection : Selections,
         room : Rooms, at : {"asked", "served"}]

ASSUME AdapterAssumption ==
    /\ MaxCalls \in Nat /\ {CanFail, CanLose} \subseteq BOOLEAN
    /\ Selections \subseteq [rooms : Seq(Name), excepts : Seq(Name)]
    /\ Rooms \cap Sockets = {} /\ Namespace \notin Name /\ None \notin Bulk

VARIABLES
    where,    \* "checking" (middleware runs), "present" in nsp.sockets, "gone"
    rooms,    \* the adapter's sids: the rooms of each socket
    queue,    \* calls of each socket that wait for its lock or hold it
    groups,   \* the service: groups of each socket's connection
    open,     \* the service: the connection is there
    bulk,     \* the addSockets or delSockets under way
    want,     \* history: the rooms, had every call been done at once
    spoiled,  \* history: what may have separated rooms, groups and want
    calls     \* join, leave and bulk operations so far

vars == <<where, rooms, queue, groups, open, bulk, want, spoiled, calls>>

Cause == {"failed", "early", "overlap", "filter"}
Call == [kind : {"addAll", "del", "delAll"}, names : SUBSET Name,
         at : {"waiting", "asked", "served"}]

TypeOK ==
    /\ where \in [Sockets -> {"checking", "present", "gone"}]
    /\ rooms \in [Sockets -> SUBSET Name]
    /\ queue \in [Sockets -> Seq(Call)]
    /\ groups \in [Sockets -> SUBSET Name]
    /\ open \in [Sockets -> BOOLEAN]
    /\ bulk \in Bulk \cup {None}
    /\ want \in [Sockets -> SUBSET Name]
    /\ spoiled \in [Sockets -> SUBSET Cause]
    /\ calls \in 0..MaxCalls

Init ==
    /\ where = [s \in Sockets |-> "checking"]
    /\ rooms = [s \in Sockets |-> {}]
    /\ queue = [s \in Sockets |-> << >>]
    /\ groups = [s \in Sockets |-> {}]
    /\ open = [s \in Sockets |-> TRUE]
    /\ bulk = None
    /\ want = [s \in Sockets |-> {}]
    /\ spoiled = [s \in Sockets |-> {}]
    /\ calls = 0

-----------------------------------------------------------------------------
\* What the sockets of the application ask for

Ask(s, kind, names) ==
    queue' = [queue EXCEPT ![s] =
                Append(queue[s], [kind |-> kind, names |-> names, at |-> "waiting"])]

\* A call beside a bulk operation leaves their order to the service.
Spoil(s) ==
    spoiled' = IF bulk = None THEN spoiled
               ELSE [spoiled EXCEPT ![s] = @ \cup {"overlap"}]

\* socket.join, in a middleware or later; after _cleanup it does nothing.
Join(s, names) ==
    /\ where[s] # "gone" /\ calls < MaxCalls
    /\ Ask(s, "addAll", names)
    /\ want' = [want EXCEPT ![s] = @ \cup names]
    /\ Spoil(s)
    /\ calls' = calls + 1
    /\ UNCHANGED <<where, rooms, groups, open, bulk>>

\* socket.leave, which is not disabled after _cleanup
Leave(s, name) ==
    /\ calls < MaxCalls
    /\ Ask(s, "del", {name})
    /\ want' = [want EXCEPT ![s] = @ \ {name}]
    /\ Spoil(s)
    /\ calls' = calls + 1
    /\ UNCHANGED <<where, rooms, groups, open, bulk>>

\* Namespace._doConnect: the socket is registered and joins its own room.
Connect(s) ==
    /\ where[s] = "checking"
    /\ where' = [where EXCEPT ![s] = "present"]
    /\ Ask(s, "addAll", {s})
    /\ want' = [want EXCEPT ![s] = @ \cup {s}]
    /\ Spoil(s)
    /\ UNCHANGED <<rooms, groups, open, bulk, calls>>

\* Socket._cleanup, after a disconnection or a middleware's error: leaveAll,
\* then the socket is taken from nsp.sockets.
Disconnect(s) ==
    /\ where[s] # "gone"
    /\ where' = [where EXCEPT ![s] = "gone"]
    /\ Ask(s, "delAll", {})
    /\ want' = [want EXCEPT ![s] = {}]
    /\ Spoil(s)
    /\ UNCHANGED <<rooms, groups, open, bulk, calls>>

\* The connection is closed at the service, which forgets its groups.
Lose(s) ==
    /\ CanLose /\ open[s]
    /\ open' = [open EXCEPT ![s] = FALSE]
    /\ groups' = [groups EXCEPT ![s] = {}]
    /\ UNCHANGED <<where, rooms, queue, bulk, want, spoiled, calls>>

-----------------------------------------------------------------------------
\* addAll, del and delAll

\* Mutated form of HoldsLock: calls do not wait for each other.
NoLock(i) == TRUE

\* _getLock: the mutex is given in the order in which it was asked for.
HoldsLock(i) == i = 1

\* The i-th call of s ends and releases the lock (finally).
Release(s, i) == queue' = [queue EXCEPT ![s] = RemoveAt(queue[s], i)]

Reached(pending, i, place) == [pending EXCEPT ![i] = [pending[i] EXCEPT !.at = place]]

At(s, i, place) == queue' = [queue EXCEPT ![s] = Reached(queue[s], i, place)]

\* Mutated form of Begin: the memory is changed before the service is asked.
BeginBoth(s, i) ==
    LET call == queue[s][i] IN
    /\ HoldsLock(i) /\ call.at = "waiting"
    /\ where[s] = "present" \/ call.kind = "delAll"
    /\ At(s, i, "asked")
    /\ rooms' = IF call.kind = "addAll"
                THEN [rooms EXCEPT ![s] = @ \cup call.names] ELSE rooms
    /\ UNCHANGED <<where, groups, open, bulk, want, spoiled, calls>>

\* The lock is taken: the connection is found through nsp.sockets and the
\* service is asked.  delAll only broadcasts a DISCONNECT packet to the
\* private room.
Begin(s, i) ==
    LET call == queue[s][i] IN
    /\ HoldsLock(i) /\ call.at = "waiting"
    /\ where[s] = "present" \/ call.kind = "delAll"
    /\ At(s, i, "asked")
    /\ UNCHANGED <<where, rooms, groups, open, bulk, want, spoiled, calls>>

\* _getEioSid throws, for a socket that is gone or still being checked.
BeginAbsent(s, i) ==
    LET call == queue[s][i] IN
    /\ HoldsLock(i) /\ call.at = "waiting"
    /\ where[s] # "present" /\ call.kind # "delAll"
    /\ Release(s, i)
    /\ spoiled' = [spoiled EXCEPT ![s] = @ \cup {"early"}]
    /\ UNCHANGED <<where, rooms, groups, open, bulk, want, calls>>

Serve(s, i) ==
    LET call == queue[s][i] IN
    /\ call.at = "asked"
    /\ At(s, i, "served")
    /\ groups' =
        CASE call.kind = "addAll" /\ open[s] -> [groups EXCEPT ![s] = @ \cup call.names]
          [] call.kind = "del" -> [groups EXCEPT ![s] = @ \ call.names]
          [] OTHER -> groups
    /\ UNCHANGED <<where, rooms, open, bulk, want, spoiled, calls>>

\* The memory after the answer.  addAll reads the socket once more, for its
\* debug message, and throws if it is gone.
Remembered(s, call) ==
    CASE call.kind = "addAll" /\ where[s] = "present" -> rooms[s] \cup call.names
      [] call.kind = "addAll" /\ where[s] # "present" -> rooms[s]
      [] call.kind = "del" -> rooms[s] \ call.names
      [] call.kind = "delAll" -> {}

Answer(s, i) ==
    LET call == queue[s][i] IN
    /\ call.at = "served"
    /\ rooms' = [rooms EXCEPT ![s] = Remembered(s, call)]
    /\ Release(s, i)
    /\ UNCHANGED <<where, groups, open, bulk, want, spoiled, calls>>

\* Mutated form of Fail: the error of the broadcast ends delAll.
FailAll(s, i) ==
    LET call == queue[s][i] IN
    /\ CanFail /\ call.at \in {"asked", "served"}
    /\ Release(s, i)
    /\ spoiled' = [spoiled EXCEPT ![s] = @ \cup {"failed"}]
    /\ UNCHANGED <<where, rooms, groups, open, bulk, want, calls>>

\* Mutated form of Fail: the lock is not released.
FailLocked(s, i) ==
    LET call == queue[s][i] IN
    /\ CanFail /\ call.at \in {"asked", "served"}
    /\ queue' = [queue EXCEPT ![s][i].at = "failed"]
    /\ spoiled' = [spoiled EXCEPT ![s] = @ \cup {"failed"}]
    /\ UNCHANGED <<where, rooms, groups, open, bulk, want, calls>>

\* The call of the service fails, before or after it took effect.  broadcast
\* catches its own errors, so that delAll goes on.
Fail(s, i) ==
    LET call == queue[s][i] IN
    /\ CanFail /\ call.at \in {"asked", "served"}
    /\ rooms' = IF call.kind = "delAll" THEN [rooms EXCEPT ![s] = {}] ELSE rooms
    /\ Release(s, i)
    /\ spoiled' = [spoiled EXCEPT ![s] = @ \cup {"failed"}]
    /\ UNCHANGED <<where, groups, open, bulk, want, calls>>

-----------------------------------------------------------------------------
\* addSockets and delSockets

Changed(kind, names, room) ==
    IF kind = "addSockets" THEN names \cup {room} ELSE names \ {room}

\* Whether apply of the in-memory adapter picks socket s of these rooms.  (When
\* no room is named it goes through the sockets it has rooms of: those present,
\* but for one whose own join is not done, which is then spoiled: the operation
\* overlaps the join, or the join has failed or came too early.)
Picked(s, names, selection) ==
    where[s] = "present" /\ Selected(names, selection.rooms, selection.excepts)

BulkAsk(kind, selection, room) ==
    /\ bulk = None /\ calls < MaxCalls
    /\ bulk' = [kind |-> kind, selection |-> selection, room |-> room, at |-> "asked"]
    /\ want' = [s \in Sockets |-> IF Picked(s, want[s], selection)
                                  THEN Changed(kind, want[s], room) ELSE want[s]]
    /\ spoiled' = [s \in Sockets |->
                    spoiled[s] \cup (IF queue[s] = << >> THEN {} ELSE {"overlap"})
                               \cup (IF Ambiguous(selection.rooms, selection.excepts) THEN {"filter"} ELSE {})]
    /\ calls' = calls + 1
    /\ UNCHANGED <<where, rooms, queue, groups, open>>

\* The service evaluates the filter on the groups of a connection, the
\* namespace's among them once the socket is connected.
Served(s, selection) ==
    Holds(BuildODataFilter(selection.rooms, selection.excepts),
          groups[s] \cup (IF where[s] = "present" THEN {Namespace} ELSE {}))

BulkServe ==
    /\ bulk # None /\ bulk.at = "asked"
    /\ bulk' = [bulk EXCEPT !.at = "served"]
    /\ groups' = [s \in Sockets |->
            IF open[s] /\ Served(s, bulk.selection)
            THEN Changed(bulk.kind, groups[s], bulk.room) ELSE groups[s]]
    /\ UNCHANGED <<where, rooms, queue, open, want, spoiled, calls>>

\* super.addSockets or super.delSockets: the sockets picked now join or leave.
BulkAnswer ==
    /\ bulk # None /\ bulk.at = "served"
    /\ LET kind == IF bulk.kind = "addSockets" THEN "addAll" ELSE "del"
           call == [kind |-> kind, names |-> {bulk.room}, at |-> "waiting"]
       IN queue' = [s \in Sockets |->
            IF Picked(s, rooms[s], bulk.selection)
            THEN Append(queue[s], call) ELSE queue[s]]
    /\ bulk' = None
    /\ UNCHANGED <<where, rooms, groups, open, want, spoiled, calls>>

BulkFail ==
    /\ CanFail /\ bulk # None
    /\ bulk' = None
    /\ spoiled' = [s \in Sockets |-> spoiled[s] \cup {"failed"}]
    /\ UNCHANGED <<where, rooms, queue, groups, open, want, calls>>

-----------------------------------------------------------------------------
CallStep(s, i) ==
    \/ Begin(s, i) \/ BeginAbsent(s, i)
    \/ Serve(s, i) \/ Answer(s, i) \/ Fail(s, i)

BulkStep == BulkServe \/ BulkAnswer \/ BulkFail

SocketStep(s) ==
    \/ \E names \in SUBSET Rooms \ {{}} : Join(s, names)
    \/ \E name \in Rooms : Leave(s, name)
    \/ Connect(s) \/ Disconnect(s) \/ Lose(s)
    \/ \E i \in DOMAIN queue[s] : CallStep(s, i)

Next ==
    \/ \E s \in Sockets : SocketStep(s)
    \/ \E kind \in {"addSockets", "delSockets"}, selection \in Selections, room \in Rooms :
        BulkAsk(kind, selection, room)
    \/ BulkStep

Spec == Init /\ [][Next]_vars

\* The service answers every call, or the call fails; a lock that is free is
\* given to the first that waits.
Fairness ==
    /\ \A s \in Sockets : WF_vars(queue[s] # << >> /\ CallStep(s, 1))
    /\ WF_vars(BulkStep)

FairSpec == Spec /\ Fairness

-----------------------------------------------------------------------------
\* What the names of a call do to a set of rooms
Applied(call, names) ==
    IF call.kind = "addAll" THEN names \cup call.names ELSE names \ call.names

\* The rooms once all calls have been done: the last call that names a room
\* decides.
Outcome(pending, names) ==
    {r \in Name :
        \/ r \in names /\ \A i \in DOMAIN pending : r \notin pending[i].names
        \/ \E i \in DOMAIN pending :
            /\ pending[i].kind = "addAll" /\ r \in pending[i].names
            /\ \A j \in DOMAIN pending : j > i => r \notin pending[j].names}

\* Only the holder of the lock has called the service.
OneAtATime ==
    \A s \in Sockets : \A i \in DOMAIN queue[s] : i > 1 => queue[s][i].at = "waiting"

\* Before it is registered a socket has nothing anywhere.
Unregistered(s) ==
    where[s] = "checking" =>
        /\ rooms[s] = {} /\ groups[s] = {}
        /\ \A i \in DOMAIN queue[s] : queue[s][i].at = "waiting"

\* delAll is called once, when the socket goes.
Leaving(s) ==
    IF where[s] = "gone"
      THEN rooms[s] = {} \/ \E i \in DOMAIN queue[s] : queue[s][i].kind = "delAll"
      ELSE \A i \in DOMAIN queue[s] : queue[s][i].kind # "delAll"

\* A bulk operation that nothing overlaps finds no call under way, and has a
\* filter that means what was asked.
Undisturbed(s) ==
    where[s] # "gone" /\ bulk # None =>
        /\ "overlap" \notin spoiled[s] => queue[s] = << >>
        /\ "filter" \notin spoiled[s]
            => ~Ambiguous(bulk.selection.rooms, bulk.selection.excepts)

\* The rooms after the bulk operation under way
AfterBulk(s) ==
    IF Picked(s, rooms[s], bulk.selection)
    THEN Changed(bulk.kind, rooms[s], bulk.room) ELSE rooms[s]

\* The service is ahead of the memory by at most what is under way.
InStep(s) ==
    where[s] # "gone" /\ open[s] /\ spoiled[s] \subseteq {"early"} =>
        IF bulk # None
          THEN groups[s] = IF bulk.at = "served" THEN AfterBulk(s) ELSE rooms[s]
          ELSE IF queue[s] = << >> THEN groups[s] = rooms[s]
          ELSE /\ groups[s] \in {rooms[s], Applied(queue[s][1], rooms[s])}
               /\ queue[s][1].at = "served"
                    => groups[s] = Applied(queue[s][1], rooms[s])

\* What is under way leads to what was asked for.
Heading(s) ==
    where[s] # "gone" /\ spoiled[s] = {} =>
        want[s] = IF bulk # None THEN AfterBulk(s) ELSE Outcome(queue[s], rooms[s])

\* The inductive invariant
IInvRooms ==
    /\ TypeOK
    /\ OneAtATime
    /\ \A s \in Sockets : /\ Unregistered(s) /\ Leaving(s) /\ Undisturbed(s)
                          /\ InStep(s) /\ Heading(s)

-----------------------------------------------------------------------------
Settled(s) == where[s] = "present" /\ open[s] /\ queue[s] = << >> /\ bulk = None

\* When nothing is under way, the server's rooms and the service's groups
\* are what the application's calls, done one after the other, give.  This
\* needs every call of the service to succeed, no join before the socket is
\* registered, no bulk operation beside another call, and a filter that
\* means what was asked.
AsIfAtOnce ==
    \A s \in Sockets :
        Settled(s) /\ spoiled[s] = {} => rooms[s] = want[s] /\ groups[s] = want[s]

\* A room the server shows is one the service delivers to, or it is being
\* left: after "await socket.join(r)" a broadcast to r reaches the socket.
SeenIsServed ==
    \A s \in Sockets :
        where[s] = "present" /\ open[s] /\ spoiled[s] \subseteq {"early"} =>
            \A r \in rooms[s] \ groups[s] :
                \/ \E i \in DOMAIN queue[s] :
                    queue[s][i].kind = "del" /\ r \in queue[s][i].names
                \/ bulk # None /\ bulk.kind = "delSockets" /\ bulk.room = r

\* Nothing is remembered of a socket that is gone, whatever failed and
\* whatever was under way when it went.
GoneLeavesNothing ==
    \A s \in Sockets : where[s] = "gone" /\ queue[s] = << >> => rooms[s] = {}

\* Every lock is released: no call waits for ever.
EveryCallEnds ==
    \A s \in Sockets : queue[s] # << >> ~> queue[s] = << >>

\* A room joined in a middleware is a room of the socket once it is
\* connected: addAll "Adds a socket to a list of room".
EarlyJoinCounts ==
    \A s \in Sockets :
        Settled(s) /\ spoiled[s] \subseteq {"early"} => rooms[s] = want[s]
=============================================================================
