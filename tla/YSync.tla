------------------------------- MODULE YSync -------------------------------
(***************************************************************************)
(* Documents shared through a group                                        *)
(* (experimental/sdk/y-azure-webpubsub/src/WebPubSubSyncHost.ts and        *)
(* y-azure-webpubsub-client/src/WebPubSubSyncClient.ts): every client      *)
(* sends to the group of the host, the host sends to the group of all.     *)
(*                                                                         *)
(* Yjs and its awareness protocol are external.  A document is the set of  *)
(* updates it was given; an update whose predecessors of the same author   *)
(* are missing is kept but not integrated.  The service keeps the order of *)
(* the messages of one connection and loses those of a closed one.         *)
(***************************************************************************)
EXTENDS FiniteSets, Integers, Sequences

CONSTANTS
    Client,      \* WebPubSubSyncClient objects
    Host,        \* the WebPubSubSyncHost of the topic, the only one the README allows
    NoSocket,    \* _ws = null
    Plans        \* what a behaviour may contain: for each plan the number of WebSockets
                 \* of a client, of edits of all documents, of changes of each awareness
                 \* state and of resync questions, the clients whose connections may be
                 \* stopped or lost, and those whose start may be called while it awaits

ASSUME SyncAssumption ==
    /\ Host \notin Client
    /\ NoSocket \notin Client \X Nat
    /\ Plans \subseteq [sockets : [Client -> Nat], edits : Nat, touches : Nat,
                       resyncs : Nat, drops : SUBSET Client, twice : SUBSET Client]

Member == Client \cup {Host}
Socket == UNION {{c} \X (1..p.sockets[c]) : c \in Client, p \in Plans}
Update == Member \X (Nat \ {0})

VARIABLES
    plan,       \* the bounds of this behaviour
    doc,        \* updates each member was given
    aware,      \* what each member knows of the presence of each client
    sock,       \* readyState of every WebSocket
    fetching,   \* calls of start before the answer of the negotiation
    ws,         \* _ws of every client
    connected,  \* _wsConnected
    synced,     \* _synced
    hosting,    \* the host's connection is open and in its group
    joined,     \* sockets in the group of the topic
    up,         \* messages of a socket the service or the host has not handled
    down,       \* messages on their way to a socket
    heard,      \* history: sockets whose init message the host handled
    resyncs,    \* questions the timers have asked so far
    raced       \* history: clients that had two sockets at a time

clientVars == <<fetching, ws, connected, synced, resyncs, raced>>
netVars == <<sock, joined, heard>>
vars == <<plan, doc, aware, clientVars, netVars, hosting, up, down>>

\* What of a set of updates a document shows, and its state vector.
Visible(S) == {u \in S : \A k \in 1..u[2] : <<u[1], k>> \in S}

\* t of the message is "to"; Host stands for a message without one.
Msg(kind, to, body) == [kind |-> kind, to |-> to, body |-> body, states |-> {}]
Presence(E) == [kind |-> "presence", to |-> Host, body |-> {}, states |-> E]
Entry == [who : Client, clock : Nat, here : BOOLEAN]
Message == [kind : {"join", "init", "step1", "step2", "update", "presence", "garbled"},
            to : Member, body : SUBSET Update, states : SUBSET Entry]

TypeOKSync ==
    /\ plan \in Plans
    /\ doc \in [Member -> SUBSET Update]
    /\ aware \in [Member -> [Client -> [clock : Nat, here : BOOLEAN]]]
    /\ sock \in [Socket -> {"none", "opening", "open", "closing", "closed"}]
    /\ fetching \in [Client -> Nat]
    /\ ws \in [Client -> Socket \cup {NoSocket}]
    /\ connected \in [Client -> BOOLEAN]
    /\ synced \in [Client -> BOOLEAN]
    /\ hosting \in BOOLEAN
    /\ joined \subseteq Socket
    /\ up \in [Socket -> Seq(Message)]
    /\ down \in [Socket -> Seq(Message)]
    /\ heard \subseteq Socket
    /\ resyncs \in Nat
    /\ raced \subseteq Client

\* The constructors: a client's own state is set, that of the host is null.
Init ==
    /\ plan \in Plans
    /\ doc = [p \in Member |-> {}]
    /\ aware = [p \in Member |-> [d \in Client |-> [clock |-> 0, here |-> p = d]]]
    /\ sock = [s \in Socket |-> "none"]
    /\ fetching = [c \in Client |-> 0]
    /\ ws = [c \in Client |-> NoSocket]
    /\ connected = [c \in Client |-> FALSE]
    /\ synced = [c \in Client |-> FALSE]
    /\ hosting = FALSE
    /\ joined = {}
    /\ up = [s \in Socket |-> << >>]
    /\ down = [s \in Socket |-> << >>]
    /\ heard = {}
    /\ resyncs = 0
    /\ raced = {}

-----------------------------------------------------------------------------
(* Sending.                                                                *)

\* sendToControlGroup: nothing without a connected socket; the WebSocket drops
\* what is sent while it closes and throws while it opens.
Sends(c, m) ==
    up' = IF connected[c] /\ ws[c] # NoSocket /\ sock[ws[c]] = "open"
            THEN [up EXCEPT ![ws[c]] = Append(@, m)] ELSE up

\* The group of the topic gets q; nothing is sent before the host's socket is open.
Broadcast(q) ==
    down' = IF hosting
              THEN [s \in Socket |-> IF s \in joined THEN down[s] \o q ELSE down[s]]
              ELSE down

\* encodeStateAsUpdate against a state vector.
Missing(p, vector) == doc[p] \ vector

\* applyAwarenessUpdate: entries that are news to p, and p's states with them.
News(p, E) == {e \in E : \/ aware[p][e.who].clock < e.clock
                         \/ aware[p][e.who].clock = e.clock /\ ~e.here /\ aware[p][e.who].here}
Learn(p, E) ==
    aware' = [aware EXCEPT ![p] = [d \in Client |->
        IF \E e \in News(p, E) : e.who = d
          THEN LET e == CHOOSE e \in News(p, E) : e.who = d
               IN  [clock |-> e.clock, here |-> e.here]
          ELSE aware[p][d]]]

-----------------------------------------------------------------------------
(* The life of a client's connection.                                      *)

\* start up to its await: a second call returns only once _ws is set.
Start(c) ==
    /\ ~connected[c] /\ ws[c] = NoSocket
    /\ fetching[c] = 0 \/ c \in plan.twice
    /\ Cardinality({s \in Socket : s[1] = c /\ sock[s] # "none"}) + fetching[c] < plan.sockets[c]
    /\ fetching' = [fetching EXCEPT ![c] = @ + 1]
    /\ UNCHANGED <<plan, doc, aware, ws, connected, synced, resyncs, raced, netVars, hosting, up, down>>

\* start after its await: a socket is created and takes the place of any other.
Fetched(c) ==
    /\ fetching[c] > 0
    /\ \E n \in 1..plan.sockets[c] :
          /\ sock[<<c, n>>] = "none"
          /\ \A k \in 1..(n - 1) : sock[<<c, k>>] # "none"
          /\ sock' = [sock EXCEPT ![<<c, n>>] = "opening"]
          /\ ws' = [ws EXCEPT ![c] = <<c, n>>]
    /\ fetching' = [fetching EXCEPT ![c] = @ - 1]
    /\ connected' = [connected EXCEPT ![c] = FALSE]
    /\ synced' = [synced EXCEPT ![c] = FALSE]
    /\ raced' = IF ws[c] = NoSocket THEN raced ELSE raced \cup {c}
    /\ UNCHANGED <<plan, doc, aware, resyncs, joined, heard, hosting, up, down>>

\* onopen: the client joins, asks the host for what it lacks, and means to
\* announce itself, but sends the question again in place of its state.
Open(s) ==
    LET c == s[1]
        sk == [sock EXCEPT ![s] = "open"]
        hello == <<Msg("join", Host, {}), Msg("init", Host, Visible(doc[c])), Msg("garbled", Host, {})>>
    IN  /\ sock[s] = "opening"
        /\ sock' = sk
        /\ connected' = [connected EXCEPT ![c] = TRUE]
        /\ up' = IF ws[c] # NoSocket /\ sk[ws[c]] = "open"
                   THEN [up EXCEPT ![ws[c]] = @ \o hello] ELSE up
        /\ UNCHANGED <<plan, doc, aware, fetching, ws, synced, resyncs, raced, joined, heard, hosting, down>>

\* stop: reaches only a socket that is already there.
Stop(c) ==
    /\ c \in plan.drops
    /\ ws[c] # NoSocket /\ sock[ws[c]] \in {"opening", "open"}
    /\ sock' = [sock EXCEPT ![ws[c]] = "closing"]
    /\ UNCHANGED <<plan, doc, aware, clientVars, joined, heard, hosting, up, down>>

\* What onclose does to the presence of the others.
Forget(c) ==
    aware' = [aware EXCEPT ![c] = [d \in Client |->
        IF d # c /\ connected[c] THEN [@[d] EXCEPT !.here = FALSE] ELSE @[d]]]

\* Mutated form of Closed: the presence of the others is removed while the
\* client can still send the removal.
ClosedTelling(s) ==
    LET c == s[1]
        gone == {[who |-> d, clock |-> aware[c][d].clock, here |-> FALSE] : d \in Client \ {c}}
    IN  /\ sock[s] \in {"opening", "open", "closing"}
        /\ c \in plan.drops
        /\ sock' = [sock EXCEPT ![s] = "closed"]
        /\ ws' = [ws EXCEPT ![c] = NoSocket]
        /\ connected' = [connected EXCEPT ![c] = FALSE]
        /\ synced' = [synced EXCEPT ![c] = connected[c] => FALSE]
        /\ Forget(c)
        /\ Sends(c, Presence(gone))
        /\ joined' = joined \ {s}
        /\ down' = [down EXCEPT ![s] = << >>]
        /\ UNCHANGED <<plan, doc, fetching, resyncs, raced, heard, hosting>>

\* Mutated form of Closed: onclose forgets the socket but not that it was connected.
ClosedHalf(s) ==
    LET c == s[1] IN
    /\ sock[s] \in {"opening", "open", "closing"}
    /\ sock[s] # "closing" => c \in plan.drops
    /\ sock' = [sock EXCEPT ![s] = "closed"]
    /\ ws' = [ws EXCEPT ![c] = NoSocket]
    /\ synced' = [synced EXCEPT ![c] = @ /\ ~connected[c]]
    /\ joined' = joined \ {s}
    /\ down' = [down EXCEPT ![s] = << >>]
    /\ up' = [up EXCEPT ![s] = << >>]
    /\ UNCHANGED <<plan, doc, aware, fetching, connected, resyncs, raced, heard, hosting>>

\* onclose, asked for or not.  The service handles what reached it; the rest
\* of what was on the way is lost.
Closed(s) ==
    LET c == s[1] IN
    /\ sock[s] \in {"opening", "open", "closing"}
    /\ sock[s] # "closing" => c \in plan.drops
    /\ sock' = [sock EXCEPT ![s] = "closed"]
    /\ ws' = [ws EXCEPT ![c] = NoSocket]
    /\ connected' = [connected EXCEPT ![c] = FALSE]
    /\ synced' = [synced EXCEPT ![c] = @ /\ ~connected[c]]
    /\ Forget(c)
    /\ joined' = joined \ {s}
    /\ down' = [down EXCEPT ![s] = << >>]
    /\ \E n \in 0..Len(up[s]) : up' = [up EXCEPT ![s] = SubSeq(@, 1, n)]
    /\ UNCHANGED <<plan, doc, fetching, resyncs, raced, heard, hosting>>

-----------------------------------------------------------------------------
(* The application, and the client's handlers.                             *)

\* The next update of an author; the bound is over all authors.
NextOf(p) == {u \in {p} \X (1..plan.edits) :
                 /\ u \notin doc[p]
                 /\ \A k \in 1..(u[2] - 1) : <<p, k>> \in doc[p]
                 /\ Cardinality(UNION {doc[q] : q \in Member}) < plan.edits}

\* An edit of the application, and the update handler of the document.
Edit(c) ==
    /\ \E u \in NextOf(c) :
          /\ doc' = [doc EXCEPT ![c] = @ \cup {u}]
          /\ Sends(c, Msg("update", Host, {u}))
    /\ UNCHANGED <<plan, aware, clientVars, netVars, hosting, down>>

\* The application, or the protocol's renewal timer, sets the local state.
Touch(c) ==
    LET e == [who |-> c, clock |-> aware[c][c].clock + 1, here |-> TRUE] IN
    /\ e.clock <= plan.touches
    /\ aware' = [aware EXCEPT ![c][c] = [clock |-> e.clock, here |-> TRUE]]
    /\ Sends(c, Presence({e}))
    /\ UNCHANGED <<plan, doc, clientVars, netVars, hosting, down>>

\* The resync timer asks the host again.
Resync(c) ==
    /\ resyncs < plan.resyncs
    /\ resyncs' = resyncs + 1
    /\ ws[c] # NoSocket
    /\ Sends(c, Msg("step1", Host, Visible(doc[c])))
    /\ UNCHANGED <<plan, doc, aware, fetching, ws, connected, synced, raced, netVars, hosting, down>>

\* Mutated form of Receive: any synchronisation message makes the client synced.
ReceiveEager(s) ==
    LET c == s[1]
        m == Head(down[s])
        mine == m.to \in {Host, c}
    IN  /\ sock[s] = "open" /\ down[s] # << >>
        /\ down' = [down EXCEPT ![s] = Tail(@)]
        /\ doc' = IF mine /\ m.kind \in {"step2", "update"}
                    THEN [doc EXCEPT ![c] = @ \cup m.body] ELSE doc
        /\ synced' = [synced EXCEPT ![c] = @ \/ (mine /\ m.kind # "presence")]
        /\ IF mine /\ m.kind = "step1" THEN Sends(c, Msg("step2", Host, Missing(c, m.body))) ELSE UNCHANGED up
        /\ UNCHANGED <<plan, aware, fetching, ws, connected, resyncs, raced, netVars, hosting>>

\* onmessage with readMessage and its three handlers.
Receive(s) ==
    LET c == s[1]
        m == Head(down[s])
        mine == m.to \in {Host, c}
    IN  /\ sock[s] = "open" /\ down[s] # << >>
        /\ down' = [down EXCEPT ![s] = Tail(@)]
        /\ doc' = IF mine /\ m.kind \in {"step2", "update"}
                    THEN [doc EXCEPT ![c] = @ \cup m.body] ELSE doc
        /\ synced' = [synced EXCEPT ![c] = @ \/ (mine /\ m.kind = "step2")]
        /\ IF m.kind = "presence" THEN Learn(c, m.states) ELSE UNCHANGED aware
        /\ CASE mine /\ m.kind = "step1" -> Sends(c, Msg("step2", Host, Missing(c, m.body)))
             [] m.kind = "presence" /\ News(c, m.states) # {} -> Sends(c, Presence(News(c, m.states)))
             [] OTHER -> UNCHANGED up
        /\ UNCHANGED <<plan, fetching, ws, connected, resyncs, raced, netVars, hosting>>

-----------------------------------------------------------------------------
(* The host.                                                               *)

\* start, up to the service putting the host into its group: what the host
\* sends from onopen on follows its join.
HostListens ==
    /\ ~hosting
    /\ hosting' = TRUE
    /\ UNCHANGED <<plan, doc, aware, clientVars, netVars, up, down>>

\* The document of the host is given P; its update handler broadcasts whatever
\* it integrates.
HostApplies(P) ==
    LET after == doc[Host] \cup P
        fresh == Visible(after) \ Visible(doc[Host])
    IN  /\ doc' = [doc EXCEPT ![Host] = after]
        /\ Broadcast(IF fresh = {} THEN << >> ELSE <<Msg("update", Host, fresh)>>)

\* The host's own application edits.
HostEdit ==
    /\ \E u \in NextOf(Host) : HostApplies({u})
    /\ UNCHANGED <<plan, aware, clientVars, netVars, hosting, up>>

\* The service takes the next message of a socket.
Takes(s) ==
    /\ up[s] # << >>
    /\ up' = [up EXCEPT ![s] = Tail(@)]

\* A join is the service's own; what is sent to a host that does not listen is lost.
Joins(s) ==
    /\ Takes(s)
    /\ Head(up[s]).kind = "join"
    /\ joined' = IF sock[s] = "closed" THEN joined ELSE joined \cup {s}
    /\ UNCHANGED <<plan, doc, aware, clientVars, sock, heard, hosting, down>>
Lost(s) ==
    /\ Takes(s)
    /\ Head(up[s]).kind # "join" /\ ~hosting
    /\ UNCHANGED <<plan, doc, aware, clientVars, netVars, hosting, down>>

\* Mutated form of HearsQuestion: onClientInit is not called.
HearsQuestionOnly(s) ==
    LET m == Head(up[s]) IN
    /\ Takes(s) /\ hosting
    /\ m.kind \in {"init", "step1"}
    /\ Broadcast(<<Msg("step2", s[1], Missing(Host, m.body))>>)
    /\ heard' = heard \cup (IF m.kind = "init" THEN {s} ELSE {})
    /\ UNCHANGED <<plan, doc, aware, clientVars, sock, joined, hosting>>

\* onClientInit asks back before onClientSync answers; a later question is
\* only answered.
HearsQuestion(s) ==
    LET m == Head(up[s])
        back == IF m.kind = "init" THEN <<Msg("step1", s[1], Visible(doc[Host]))>> ELSE << >>
    IN  /\ Takes(s) /\ hosting
        /\ m.kind \in {"init", "step1"}
        /\ Broadcast(Append(back, Msg("step2", s[1], Missing(Host, m.body))))
        /\ heard' = heard \cup (IF m.kind = "init" THEN {s} ELSE {})
        /\ UNCHANGED <<plan, doc, aware, clientVars, sock, joined, hosting>>

\* Mutated form of HearsUpdate: an update that arrives is broadcast as it is,
\* without what it made the document integrate.
HearsUpdateAsIs(s) ==
    LET m == Head(up[s])
        after == doc[Host] \cup m.body
    IN  /\ Takes(s) /\ hosting
        /\ m.kind \in {"step2", "update"}
        /\ doc' = [doc EXCEPT ![Host] = after]
        /\ IF m.kind = "step2" THEN UNCHANGED down ELSE Broadcast(<<Msg("update", Host, m.body)>>)
        /\ UNCHANGED <<plan, aware, clientVars, netVars, hosting>>

\* onClientSync with an update or an answer.
HearsUpdate(s) ==
    LET m == Head(up[s]) IN
    /\ Takes(s) /\ hosting
    /\ m.kind \in {"step2", "update"}
    /\ HostApplies(m.body)
    /\ UNCHANGED <<plan, aware, clientVars, netVars, hosting>>

\* onAwareness: what is news is broadcast; a message that is not an awareness
\* update fails to parse and is reported as an error only.
HearsPresence(s) ==
    LET m == Head(up[s]) IN
    /\ Takes(s) /\ hosting
    /\ m.kind \in {"presence", "garbled"}
    /\ Learn(Host, m.states)
    /\ Broadcast(IF News(Host, m.states) = {} THEN << >> ELSE <<Presence(News(Host, m.states))>>)
    /\ UNCHANGED <<plan, doc, clientVars, netVars, hosting>>

Hears(s) ==
    Joins(s) \/ Lost(s) \/ HearsQuestion(s) \/ HearsUpdate(s) \/ HearsPresence(s)

-----------------------------------------------------------------------------
ClientStep(c) == Start(c) \/ Fetched(c) \/ Stop(c) \/ Edit(c) \/ Touch(c) \/ Resync(c)
SocketStep(s) == Open(s) \/ Closed(s) \/ Receive(s) \/ Hears(s)
HostStep == HostListens \/ HostEdit
Next == HostStep \/ (\E c \in Client : ClientStep(c)) \/ (\E s \in Socket : SocketStep(s))
Spec == Init /\ [][Next]_vars

\* Sockets open or close, messages arrive, promises resolve.
FairSpec ==
    /\ Spec
    /\ \A c \in Client : WF_vars(Fetched(c))
    /\ \A s \in Socket : /\ WF_vars(Open(s)) /\ WF_vars(Receive(s)) /\ WF_vars(Hears(s))
                         /\ WF_vars(sock[s] = "closing" /\ Closed(s))

-----------------------------------------------------------------------------
\* Messages that bring updates, and those that bring them to client c.
Carries(m) == m.kind \in {"step2", "update"}
Brings(m, c) == Carries(m) /\ m.to \in {Host, c}
Bodies(q) == UNION {q[i].body : i \in {k \in DOMAIN q : Carries(q[k])}}

\* What the host shows is in the document of c or brought to it by q from i on.
Covered(c, q, i) ==
    \A u \in Visible(doc[Host]) :
        u \in doc[c] \/ \E j \in i..Len(q) : Brings(q[j], c) /\ u \in q[j].body

\* Unless start was called twice at a time, a client that believes it is synced
\* has or will get everything the host shows, although answers, broadcasts and
\* its own reconnections cross each other (onmessage and onclose of the client,
\* onClientSync and the update handler of the host).
SyncedMeansComplete ==
    \A c \in Client : synced[c] /\ c \notin raced =>
        ws[c] # NoSocket /\ Covered(c, down[ws[c]], 1)

\* A client holds no socket of another; one not raced has one live socket, which
\* is open only if the client says so.
OneSocket ==
    /\ \A c \in Client : ws[c] # NoSocket => ws[c][1] = c
    /\ \A s \in Socket : s[1] \notin raced =>
          /\ sock[s] \in {"opening", "open", "closing"} => ws[s[1]] = s
          /\ sock[s] = "open" => connected[s[1]]

\* Only sockets in the group are sent to, and they are live.
Delivered ==
    \A s \in Socket : /\ down[s] # << >> => s \in joined /\ hosting
                      /\ s \in joined => sock[s] \in {"open", "closing"}
                      /\ sock[s] \in {"none", "opening"} => up[s] = << >>

\* A question never claims more than its sender has.
QuestionsHonest ==
    \A s \in Socket : \A i \in DOMAIN up[s] :
        up[s][i].kind \in {"init", "step1"} => up[s][i].body \subseteq doc[s[1]]

\* An answer on its way, with what follows it, completes the client's document.
AnswersComplete ==
    \A s \in Socket : \A i \in DOMAIN down[s] :
        down[s][i].kind = "step2" /\ down[s][i].to \in {Host, s[1]} => Covered(s[1], down[s], i)

\* A synced client is connected through a socket in the group.
SyncedIsJoined ==
    \A c \in Client : synced[c] /\ c \notin raced =>
        connected[c] /\ ws[c] # NoSocket /\ ws[c] \in joined /\ hosting

\* The inductive invariant behind SyncedMeansComplete: how the group, the
\* questions and the answers keep what a client was promised.
IInvSync ==
    /\ TypeOKSync /\ OneSocket /\ Delivered /\ QuestionsHonest
    /\ AnswersComplete /\ SyncedIsJoined /\ SyncedMeansComplete

\* Once the host has handled the init message of a client's socket, whatever
\* the client has reaches the host: it is there, on its way, or the host's
\* question is on its way (onopen and the update handler of the client,
\* onClientInit and onClientSync of the host).
HostWillKnow ==
    \A c \in Client :
        LET s == ws[c] IN
        /\ connected[c] /\ s # NoSocket /\ hosting
        /\ s \in heard /\ sock[s] = "open"
        => \/ \E i \in DOMAIN down[s] : down[s][i].kind = "step1" /\ down[s][i].to = c
           \/ doc[c] \subseteq doc[Host] \cup Bodies(up[s])

\* Unless start was called twice at a time, a client that believes to be
\* connected holds the socket it sends on (start, onopen, onclose, the getter ws).
ConnectedHoldsSocket ==
    \A c \in Client : connected[c] /\ c \notin raced =>
        ws[c] # NoSocket /\ sock[ws[c]] \in {"open", "closing"}

\* The end of one client's connection never takes the presence of another from
\* the host: the sending goes through a getter that onclose has emptied first.
PresenceSurvivesOthers ==
    [][\A d \in Client : aware[Host][d].here => aware'[Host][d].here]_vars

\* When edits and connections have settled, every client whose init message was
\* handled shows what the host shows.
Agree ==
    \A c \in Client :
        connected[c] /\ ws[c] \in heard /\ hosting
        => Visible(doc[c]) = Visible(doc[Host])
Converges == <>[]Agree
=============================================================================
