-------------------------- MODULE TunnelConnection --------------------------
(***************************************************************************)
(* Invocations through the tunnel: TunnelConnection.invokeAsync, the ack   *)
(* map, and the consistent keys that pin the requests of one room (or of   *)
(* "send to all") to one client while they are in flight                   *)
(* (sdk/server-proxies/src/tunnels/TunnelConnection.ts).  The clients are  *)
(* those of TunnelClients; the service at the other end executes the       *)
(* requests of one connection in the order it reads them.                  *)
(***************************************************************************)
EXTENDS TunnelClients, Sequences

CONSTANTS
    Key,             \* consistent keys (rooms, "send to all")
    NoKey,           \* no consistentKey: a send to a single connection
    NoClient,        \* an invocation that has no client yet
    MaxInvocations,  \* bound on the ack ids handed out
    MaxParts,        \* bound on the messages of one chunked response
    Chunked,         \* invocations whose response may be chunked
    Signals          \* invocations whose caller passes an abort signal

ASSUME TunnelAssumption ==
    /\ NoKey \notin Key
    /\ NoClient \notin Client
    /\ MaxInvocations \in Nat
    /\ MaxParts \in Nat \ {0}
    /\ Chunked \cup Signals \subseteq 1..MaxInvocations

VARIABLES
    ackId,     \* TunnelConnection._ackId
    ackMap,    \* keys of _ackMap
    mapping,   \* _keyMapping: key -> [count, client], absent is count 0
    key,       \* consistentKey of an invocation
    client,    \* the client invokeAsync chose for it
    st,        \* where its invokeAsync call is
    wire,      \* where its request is
    sentAt,    \* position of its request in the order of transmission, 0 if none
    lastSent,  \* number of requests transmitted
    reply,     \* response messages on their way back to it
    timers,    \* reader calls queued with setTimeout 0 by AckEntity.write
    aborted,   \* invocations whose abort signal has fired
    severed,   \* history: requests and responses a cut took off their connection
    alive      \* FALSE once an uncaught error has ended the process

invokeVars == <<ackId, ackMap, mapping, key, client, st, wire, sentAt,
                lastSent, reply, timers, aborted, severed, alive>>
vars == <<clientVars, invokeVars>>

Inv == 1..MaxInvocations

\* sending: sendEvent was called, the library has not written the request yet;
\* written: it has, sendAsync has not returned; sent: sendAsync returned and the
\* caller waits for the first response; resolved, rejected: invokeAsync is over.
Status == {"none", "sending", "written", "sent", "resolved", "rejected"}

\* wire: travelling on the client's current connection; adrift: its connection
\* was cut, the service may still execute it; lost: it never will; done: executed.
Fate == {"none", "wire", "adrift", "lost", "done"}

\* A queued reader: given a message of the response, or "aborted" and no data.
Reader == [inv : Inv, kind : {"message", "abort"}]

TypeOK ==
    /\ TypeOKClients
    /\ ackId \in 0..MaxInvocations
    /\ ackMap \subseteq Inv
    /\ mapping \in [Key -> [count : Nat, client : Client \cup {NoClient}]]
    /\ key \in [Inv -> Key \cup {NoKey}]
    /\ client \in [Inv -> Client \cup {NoClient}]
    /\ st \in [Inv -> Status]
    /\ wire \in [Inv -> Fate]
    /\ sentAt \in [Inv -> Nat]
    /\ lastSent \in Nat
    /\ reply \in [Inv -> 0..MaxParts]
    /\ timers \in Seq(Reader)
    /\ aborted \subseteq Inv
    /\ severed \subseteq Inv
    /\ alive \in BOOLEAN

Unmapped == [count |-> 0, client |-> NoClient]

Init ==
    /\ InitClients
    /\ ackId = 0
    /\ ackMap = {}
    /\ mapping = [k \in Key |-> Unmapped]
    /\ key = [i \in Inv |-> NoKey]
    /\ client = [i \in Inv |-> NoClient]
    /\ st = [i \in Inv |-> "none"]
    /\ wire = [i \in Inv |-> "none"]
    /\ sentAt = [i \in Inv |-> 0]
    /\ lastSent = 0
    /\ reply = [i \in Inv |-> 0]
    /\ timers = << >>
    /\ aborted = {}
    /\ severed = {}
    /\ alive = TRUE

-----------------------------------------------------------------------------
Mapped(k) == mapping[k].count > 0

\* getClient: the mapped client, even one that has stopped; else any member of
\* the map (getRandomClient gives up avoiding stopped ones after six draws).
Candidates(k) ==
    IF k \in Key /\ Mapped(k) THEN {mapping[k].client} ELSE clients

\* getClient's deletion of the entry of a stopped client, then lockClient.
Lock(k, c) ==
    mapping' = IF k = NoKey THEN mapping
               ELSE [mapping EXCEPT ![k] =
                        [count |-> IF Mapped(k) /\ ~stopped[mapping[k].client]
                                     THEN @.count + 1 ELSE 1,
                         client |-> c]]

\* Mutated form of Release: the entry goes with the first release.
ReleaseEntirely(k, c) ==
    mapping' = IF k = NoKey THEN mapping
               ELSE IF ~Mapped(k) \/ mapping[k].client # c THEN mapping
               ELSE [mapping EXCEPT ![k] = Unmapped]

\* releaseClient: ignored unless the key is mapped to that client.
Release(k, c) ==
    mapping' = IF k = NoKey THEN mapping
               ELSE IF ~Mapped(k) \/ mapping[k].client # c THEN mapping
               ELSE [mapping EXCEPT ![k] =
                        IF @.count = 1 THEN Unmapped
                        ELSE [count |-> @.count - 1, client |-> c]]

\* The library writes request i on the open connection of its client.
Transmit(i) ==
    /\ lastSent' = lastSent + 1
    /\ sentAt' = [sentAt EXCEPT ![i] = lastSent']
    /\ wire' = [wire EXCEPT ![i] = "wire"]
    /\ st' = [st EXCEPT ![i] = "written"]

\* invokeAsync up to its first await.  Without any client it throws before it
\* changes anything; otherwise the client is chosen, the ack entity stored, the
\* key locked and the request handed to the library, which writes it at once
\* when the connection is open.
Invoke(k) ==
    LET i == ackId + 1 IN
    /\ alive
    /\ ackId < MaxInvocations
    /\ ackId' = i
    /\ ackMap' = ackMap \cup {i}
    /\ key' = [key EXCEPT ![i] = k]
    /\ \E c \in Candidates(k) :
          /\ client' = [client EXCEPT ![i] = c]
          /\ Lock(k, c)
          /\ IF conn[c] = "open"
               THEN Transmit(i)
               ELSE /\ st' = [st EXCEPT ![i] = "sending"]
                    /\ UNCHANGED <<wire, sentAt, lastSent>>
    /\ UNCHANGED <<clientVars, reply, timers, aborted, severed, alive>>

\* The library tries a request again that found its connection not open.
SendLate(i) ==
    /\ alive
    /\ st[i] = "sending"
    /\ conn[client[i]] = "open"
    /\ Transmit(i)
    /\ UNCHANGED <<clientVars, ackId, ackMap, mapping, key, client, reply, timers,
                   aborted, severed, alive>>

\* Mutated forms of SendDone: the clean-up of the catch block in a finally
\* block, for the key and for the ack entity.
SendDoneReleases(i) ==
    /\ alive
    /\ st[i] = "written"
    /\ st' = [st EXCEPT ![i] = "sent"]
    /\ Release(key[i], client[i])
    /\ UNCHANGED <<clientVars, ackId, ackMap, key, client, wire, sentAt,
                   lastSent, reply, timers, aborted, severed, alive>>

SendDoneForgets(i) ==
    /\ alive
    /\ st[i] = "written"
    /\ st' = [st EXCEPT ![i] = "sent"]
    /\ ackMap' = ackMap \ {i}
    /\ UNCHANGED <<clientVars, ackId, mapping, key, client, wire, sentAt,
                   lastSent, reply, timers, aborted, severed, alive>>

\* sendAsync returns: invokeAsync goes on to wait for the first response.
SendDone(i) ==
    /\ alive
    /\ st[i] = "written"
    /\ st' = [st EXCEPT ![i] = "sent"]
    /\ UNCHANGED <<clientVars, ackId, ackMap, mapping, key, client, wire, sentAt,
                   lastSent, reply, timers, aborted, severed, alive>>

\* Mutated form of SendFails: the catch block keeps the ack entity.
SendFailsKeepsAck(i) ==
    /\ alive
    /\ \/ st[i] = "sending"
       \/ st[i] = "written" /\ (conn[client[i]] # "open" \/ i \in aborted)
    /\ st' = [st EXCEPT ![i] = "rejected"]
    /\ Release(key[i], client[i])
    /\ UNCHANGED <<clientVars, ackId, ackMap, key, client, wire, sentAt,
                   lastSent, reply, timers, aborted, severed, alive>>

\* sendAsync throws: the request never found an open connection, the connection
\* was cut while writing, or the caller aborted.  The catch block deletes the ack
\* entity and releases the key; a request already written stays on the wire.
SendFails(i) ==
    /\ alive
    /\ \/ st[i] = "sending"
       \/ st[i] = "written" /\ (conn[client[i]] # "open" \/ i \in aborted)
    /\ st' = [st EXCEPT ![i] = "rejected"]
    /\ ackMap' = ackMap \ {i}
    /\ Release(key[i], client[i])
    /\ UNCHANGED <<clientVars, ackId, key, client, wire, sentAt, lastSent,
                   reply, timers, aborted, severed, alive>>

\* The abort listener of the ack entity: it queues a reader without data,
\* wherever the invocation is by then, and leaves the entity in the map.
AbortFires(i) ==
    /\ alive
    /\ st[i] # "none"
    /\ i \in Signals \ aborted
    /\ aborted' = aborted \cup {i}
    /\ timers' = Append(timers, [inv |-> i, kind |-> "abort"])
    /\ UNCHANGED <<clientVars, ackId, ackMap, mapping, key, client, st, wire,
                   sentAt, lastSent, reply, severed, alive>>

-----------------------------------------------------------------------------
\* The service executes the next request of a connection and answers it in one
\* or more messages.  A request whose connection was cut gets no answer.  The
\* end of this process does not keep the service from what it has read.
Execute(i) ==
    /\ \/ /\ wire[i] = "wire"
          /\ \A j \in Inv : (wire[j] = "wire" /\ client[j] = client[i])
                              => sentAt[i] <= sentAt[j]
          /\ \E n \in 1..MaxParts :
               /\ n > 1 => i \in Chunked
               /\ reply' = [reply EXCEPT ![i] = n]
       \/ /\ wire[i] = "adrift"
          /\ UNCHANGED reply
    /\ wire' = [wire EXCEPT ![i] = "done"]
    /\ UNCHANGED <<clientVars, ackId, ackMap, mapping, key, client, st, sentAt,
                   lastSent, timers, aborted, severed, alive>>

\* Mutated form of HandleResponse: the ack id is not looked up first.
HandleAnyResponse(i) ==
    /\ alive
    /\ reply[i] > 0
    /\ conn[client[i]] \in {"open", "closing"}
    /\ st[i] # "written"
    /\ reply' = [reply EXCEPT ![i] = @ - 1]
    /\ timers' = Append(timers, [inv |-> i, kind |-> "message"])
    /\ ackMap' = IF reply[i] = 1 THEN ackMap \ {i} ELSE ackMap
    /\ UNCHANGED <<clientVars, ackId, mapping, key, client, st, wire, sentAt,
                   lastSent, aborted, severed, alive>>

\* processMessage, HttpResponse: queue the reader if the ack id is known, and
\* forget the ack id with the message that completes the response.  The write
\* of a request has called back before any answer to it can be read.
HandleResponse(i) ==
    /\ alive
    /\ reply[i] > 0
    /\ conn[client[i]] \in {"open", "closing"}
    /\ st[i] # "written"
    /\ reply' = [reply EXCEPT ![i] = @ - 1]
    /\ IF i \in ackMap
         THEN /\ timers' = Append(timers, [inv |-> i, kind |-> "message"])
              /\ ackMap' = IF reply[i] = 1 THEN ackMap \ {i} ELSE ackMap
         ELSE UNCHANGED <<timers, ackMap>>
    /\ UNCHANGED <<clientVars, ackId, mapping, key, client, st, wire, sentAt,
                   lastSent, aborted, severed, alive>>

\* The queued reader runs, given a message: the first one for an invocation
\* releases its key and resolves its promise, later ones only feed the body.
ReadMessage(i) ==
    /\ IF st[i] = "resolved"
         THEN UNCHANGED <<mapping, st>>
         ELSE /\ st' = [st EXCEPT ![i] = "resolved"]
              /\ Release(key[i], client[i])
    /\ UNCHANGED alive

\* Given "aborted": it gives the error to the body and fails on data!.Content
\* before it could release or settle anything.  The error is uncaught: it ends
\* the process, unless the application listens for such errors.
ReadAborted ==
    /\ alive' \in BOOLEAN
    /\ UNCHANGED <<mapping, st>>

RunReader ==
    /\ alive
    /\ timers # << >>
    /\ timers' = Tail(timers)
    /\ \/ Head(timers).kind = "message" /\ ReadMessage(Head(timers).inv)
       \/ Head(timers).kind = "abort" /\ ReadAborted
    /\ UNCHANGED <<clientVars, ackId, ackMap, key, client, wire, sentAt, lastSent,
                   reply, aborted, severed>>

\* The connection of c is cut: answers under way are lost, requests under way
\* are lost or stay with the service without a way back.
Cut(c) ==
    /\ alive
    /\ CutStep(c)
    /\ severed' = severed \cup {i \in Inv : client[i] = c /\ (wire[i] = "wire" \/ reply[i] > 0)}
    /\ reply' = [i \in Inv |-> IF client[i] = c THEN 0 ELSE reply[i]]
    /\ \E fate \in {"adrift", "lost"} :
          wire' = [i \in Inv |-> IF client[i] = c /\ wire[i] = "wire" THEN fate ELSE wire[i]]
    /\ UNCHANGED <<ackId, ackMap, mapping, key, client, st, sentAt, lastSent, timers,
                   aborted, alive>>

Next ==
    \/ alive /\ ClientStep /\ UNCHANGED invokeVars
    \/ \E c \in Client : Cut(c)
    \/ \E k \in Key \cup {NoKey} : Invoke(k)
    \/ \E i \in Inv :
         \/ SendLate(i)
         \/ SendDone(i)
         \/ SendFails(i)
         \/ AbortFires(i)
         \/ Execute(i)
         \/ HandleResponse(i)
    \/ RunReader

\* The event loop returns from a completed write, reads what arrived and runs
\* due timers; the service executes what it has read.
Fairness ==
    /\ WF_vars(RunReader)
    /\ \A i \in Inv :
         /\ WF_vars(SendDone(i))
         /\ WF_vars(Execute(i))
         /\ WF_vars(HandleResponse(i))

Spec == Init /\ [][Next]_vars /\ Fairness

-----------------------------------------------------------------------------
\* An invocation between its lockClient and its releaseClient.
Holding(i) == st[i] \in {"sending", "written", "sent"}

\* Invocations that hold k on c.
Holders(k, c) == {i \in Inv : key[i] = k /\ client[i] = c /\ Holding(i)}

\* References the key map counts for k on c.
Count(k, c) == IF mapping[k].client = c THEN mapping[k].count ELSE 0

\* Reference counting of keys: while a client runs, its entry counts exactly
\* the invocations that hold the key on it, so a key is never unpinned early
\* nor pinned for ever.  On a stopped client entries may be dropped early but
\* never count invocations that are over.
LockAccounting ==
    \A k \in Key :
        /\ Mapped(k) => mapping[k].client \in Client
        /\ \A c \in Client :
             /\ Count(k, c) <= Cardinality(Holders(k, c))
             /\ ~stopped[c] => Count(k, c) = Cardinality(Holders(k, c))

\* Two requests of the same key that are both in flight on running clients are
\* on the same client.
KeyAffinity ==
    \A i, j \in Inv :
        (/\ key[i] = key[j] /\ key[i] # NoKey
         /\ Holding(i) /\ Holding(j)
         /\ ~stopped[client[i]] /\ ~stopped[client[j]])
            => client[i] = client[j]

\* What consistent keys are for: the service executes the requests of one key
\* in the order they were transmitted, however many connections there are, as
\* long as their clients run and the earlier one was neither cut off nor failed.
OrderedPerKey ==
    \A i, j \in Inv :
        (/\ key[i] = key[j] /\ key[i] # NoKey
         /\ sentAt[i] < sentAt[j] /\ wire[j] = "done"
         /\ st[i] # "rejected"
         /\ ~stopped[client[i]] /\ ~stopped[client[j]])
            => wire[i] # "wire"

\* Whether the map has to have an ack entity: its request is still to be
\* answered, or a cut took the request or part of the response away.  Then
\* nothing removes the entity but a failing send: it stays for ever, and so
\* does its caller if the first message never came.
Awaited(i) ==
    /\ st[i] \notin {"none", "rejected"}
    /\ st[i] = "sending" \/ wire[i] = "wire" \/ reply[i] > 0 \/ i \in severed

\* The life of ack entities, in both directions: whatever sends, chunks, aborts
\* and cuts interleave, no entity is missing while a message for it may come,
\* and none is left over but those of requests a cut has taken away.
AckEntityLifetime == ackMap = {i \in Inv : Awaited(i)}

\* An invocation is settled once and not before the service executed its
\* request, whatever readers of messages and aborts are queued for it: one that
\* threw is never resolved by a reader (which would release its key a second
\* time), and one that resolved never throws.
SettledOnce ==
    [][/\ \A i \in Inv : st[i] \in {"resolved", "rejected"} => st'[i] = st[i]
       /\ \A i \in Inv : st'[i] = "resolved" => wire[i] = "done"]_vars

\* Where the pieces of one invocation can be at the same time.
Progress(i) ==
    /\ i > ackId => st[i] = "none"
    /\ IF st[i] = "none" THEN client[i] = NoClient ELSE client[i] \in Client
    /\ st[i] \in {"none", "sending"} => wire[i] = "none" /\ sentAt[i] = 0
    /\ st[i] = "resolved" => wire[i] = "done"
    /\ reply[i] > 0 => wire[i] = "done"
    /\ reply[i] > 0 => st[i] \in {"written", "sent", "resolved", "rejected"}
    /\ sentAt[i] <= lastSent
    /\ wire[i] = "none" => sentAt[i] = 0
    /\ wire[i] \in {"wire", "adrift", "done"} => sentAt[i] > 0
    /\ wire[i] = "wire" => st[i] \in {"written", "sent", "rejected"}
    /\ wire[i] \in {"adrift", "lost"} => i \in severed
    /\ i \in severed => wire[i] # "wire" /\ reply[i] = 0 /\ wire[i] # "none"
    /\ i \in ackMap <=> Awaited(i)

\* While a request is on the wire and its caller waits, later ones of its key
\* follow it on the same client.
SameClient ==
    \A i, j \in Inv :
        (/\ key[i] = key[j] /\ key[i] # NoKey
         /\ sentAt[i] < sentAt[j]
         /\ wire[i] = "wire" /\ st[i] # "rejected"
         /\ ~stopped[client[i]] /\ ~stopped[client[j]])
            => client[i] = client[j]

\* On one client requests leave the wire in the order they were transmitted.
ClientFifo ==
    \A i, j \in Inv :
        (/\ client[i] = client[j]
         /\ sentAt[i] < sentAt[j] /\ wire[j] # "wire")
            => wire[i] # "wire"

\* A reader queued for a message belongs to an invocation that was sent and
\* executed; one queued for an abort may be of any.
ReadersMatch ==
    \A n \in 1..Len(timers) :
        timers[n].kind = "message" =>
            st[timers[n].inv] \in {"sent", "resolved"} /\ wire[timers[n].inv] = "done"

\* The inductive invariant: what the proofs need besides the properties above.
IInv ==
    /\ TypeOK
    /\ \A i \in Inv : Progress(i)
    /\ ReadersMatch
    /\ LockAccounting
    /\ SameClient
    /\ ClientFifo

\* A request that reached the wire is answered, or given up by its caller,
\* unless its client stops or loses its connection, or an abort ends the
\* process: no other request, retry or rebalance can starve it.
InvocationSettles ==
    \A i \in Inv :
        wire[i] = "wire" ~> \/ st[i] \in {"resolved", "rejected"}
                            \/ client[i] \in Client /\ conn[client[i]] # "open"
                            \/ ~alive

\* Outstanding requests the order is not promised for: failed to their caller,
\* cut off on the way, or given to a client that was told to stop.
Excused ==
    {i \in Inv : /\ wire[i] # "done"
                /\ \/ st[i] = "rejected"
                   \/ wire[i] \in {"adrift", "lost"}
                   \/ client[i] \in Client /\ stopped[client[i]]}

\* The abstract promise, and that this specification keeps it: for every key,
\* "performed in order of transmission" survives any interleaving of sends,
\* responses, retries, rebalances and new connections.
Promise == INSTANCE RoomOrder
    WITH Request <- Inv, Room <- Key, NoRoom <- NoKey,
         room <- key, position <- sentAt, last <- lastSent,
         performed <- {i \in Inv : wire[i] = "done"}, excused <- Excused

KeepsRoomOrder == Promise!Spec

\* The change log's promise: "Messages sending to the same room or broadcast
\* can guarantee order" (CHANGELOG.md, 1.1.0) - a message of a room is not
\* executed before one of that room that was sent before and arrives, while the
\* tunnel is not being stopped.
RoomOrderGuaranteed ==
    \A i, j \in Inv :
        (/\ key[i] = key[j] /\ key[i] # NoKey
         /\ sentAt[i] < sentAt[j] /\ wire[j] = "done"
         /\ st[i] = "sent" /\ ~ended)
            => wire[i] # "wire"
=============================================================================
