--------------------------- MODULE EioConnections ---------------------------
(***************************************************************************)
(* Engine.IO connections through the tunnel: the handlers of the connect,  *)
(* user and disconnected events (EIO/components/web-pubsub-connection-     *)
(* manager.ts, client-connection-context.ts) and the Engine.IO server      *)
(* they drive (EIO/index.ts).  Engine.IO's handshake is external: it       *)
(* refuses a request before it asks for an id, or asks for one at once and *)
(* makes the client when it pleases.  The service sends the events of one  *)
(* connection one after the other.                                         *)
(***************************************************************************)
EXTENDS TunnelRequests

CONSTANTS
    Conn,   \* connection ids of the service
    Weak    \* lines that may be cut before the server is closed

Event == {"connect", "message", "disconnected"}

ASSUME ConnectionAssumption ==
    /\ Request = Conn \X Event
    /\ Status = {"ok", "refused", "failed"}

VARIABLES
    peer,       \* the service's view of each connection
    known,      \* keys of _clientConnections
    candidates, \* _candidateSids
    sid,        \* the id the handshake of a connection was given, or {}
    clients,    \* keys of the server's clients
    shake,      \* where onConnect of a connection is
    bound,      \* contexts whose transport is set
    responded,  \* contexts with connectResponded
    timers,     \* armed timeouts of handleConnect
    opening,    \* transports that encode their open packet
    errors,     \* connection_error events emitted for a connection
    closed,     \* the Engine.IO server is closed
    ended       \* history: connections Engine.IO has ended on its own

managerVars == <<known, candidates, sid, clients, shake, bound, responded,
                 timers, opening, errors, ended>>
vars == <<requestVars, peer, managerVars, closed>>

\* shaking: handshake is awaited; refused, made: it has refused the request or
\* made the client, and onConnect has yet to go on.
Shake == {"none", "shaking", "refused", "made", "over"}

TypeOK ==
    /\ TypeOKRequests
    /\ peer \in [Conn -> {"new", "connecting", "connected", "gone"}]
    /\ {known, clients, bound, responded, timers, opening, ended} \subseteq SUBSET Conn
    /\ candidates \in Seq(Conn)
    /\ sid \in [Conn -> SUBSET Conn]
    /\ shake \in [Conn -> Shake]
    /\ errors \in [Conn -> Nat]
    /\ closed \in BOOLEAN

Init ==
    /\ InitRequests
    /\ peer = [c \in Conn |-> "new"]
    /\ known = {}
    /\ candidates = << >>
    /\ sid = [c \in Conn |-> {}]
    /\ clients = {}
    /\ shake = [c \in Conn |-> "none"]
    /\ bound = {}
    /\ responded = {}
    /\ timers = {}
    /\ opening = {}
    /\ errors = [c \in Conn |-> 0]
    /\ ended = {}
    /\ closed = FALSE

-----------------------------------------------------------------------------
(* The service.                                                            *)

ClientArrives(c) ==
    /\ peer[c] = "new"
    /\ peer' = [peer EXCEPT ![c] = "connecting"]
    /\ Send(<<c, "connect">>)
    /\ UNCHANGED <<managerVars, closed>>

\* The reply to the connect event decides; without one the service gives up.
ConnectEnds(c) ==
    LET r == <<c, "connect">> IN
    /\ peer[c] = "connecting"
    /\ stage[r] \in {"known", "lost"}
    /\ peer' = [peer EXCEPT ![c] =
                   IF stage[r] = "known" /\ answer[r] = "ok" THEN "connected" ELSE "gone"]
    /\ UNCHANGED <<requestVars, managerVars, closed>>

ClientSends(c) ==
    /\ peer[c] = "connected"
    /\ Send(<<c, "message">>)
    /\ UNCHANGED <<peer, managerVars, closed>>

\* The disconnected event follows the answer to the user event.
ClientLeaves(c) ==
    /\ peer[c] = "connected"
    /\ stage[<<c, "message">>] \in {"none", "known", "lost"}
    /\ peer' = [peer EXCEPT ![c] = "gone"]
    /\ Send(<<c, "disconnected">>)
    /\ UNCHANGED <<managerVars, closed>>

-----------------------------------------------------------------------------
(* The connect event.                                                      *)

\* Promises of the manager and of the transports go on before anything else
\* arrives or a timer fires.
Quiet == opening = {} /\ \A c \in Conn : shake[c] \notin {"refused", "made"}

\* cleanup of the connections C: they are forgotten, an id leaves the candidates
\* q if it is the last (shift takes the first), and an error event is emitted.
Cleanup(C, q) ==
    /\ known' = known \ C
    /\ candidates' = IF q # << >> /\ q[Len(q)] \in C THEN Tail(q) ELSE q
    /\ errors' = [c \in Conn |-> IF c \in C THEN errors[c] + 1 ELSE errors[c]]

\* The connect events of C are answered.
AnswerConnect(C, s) ==
    answer' = [r \in Request |-> IF r \in C \X {"connect"} THEN Answered(answer, r, s)[r] ELSE answer[r]]

\* Mutated form of Connect: no timeout is set.
ConnectUntimed(c) ==
    LET q == Append(candidates, c) IN
    /\ Quiet
    /\ Arrive(<<c, "connect">>)
    /\ known' = known \cup {c}
    /\ candidates' = Tail(q)
    /\ sid' = [sid EXCEPT ![c] = {Head(q)}]
    /\ shake' = [shake EXCEPT ![c] = "shaking"]
    /\ UNCHANGED <<answer, peer, clients, bound, responded, timers, opening, errors, ended, closed>>

\* The first turn of handleConnect: the id becomes a candidate, the timeout is
\* set, and the handshake takes the first candidate.
Connect(c) ==
    LET q == Append(candidates, c) IN
    /\ Quiet
    /\ Arrive(<<c, "connect">>)
    /\ timers' = timers \cup {c}
    /\ known' = known \cup {c}
    /\ candidates' = Tail(q)
    /\ sid' = [sid EXCEPT ![c] = {Head(q)}]
    /\ shake' = [shake EXCEPT ![c] = "shaking"]
    /\ UNCHANGED <<answer, peer, clients, bound, responded, opening, errors, ended, closed>>

\* Mutated form of Refuse: the id of the refused request stays a candidate.
RefuseKeepsSid(c) ==
    /\ Quiet
    /\ Arrive(<<c, "connect">>)
    /\ timers' = timers \cup {c}
    /\ candidates' = Append(candidates, c)
    /\ shake' = [shake EXCEPT ![c] = "refused"]
    /\ AnswerConnect({c}, "refused")
    /\ responded' = responded \cup {c}
    /\ errors' = [errors EXCEPT ![c] = @ + 1]
    /\ UNCHANGED <<peer, known, sid, clients, bound, opening, ended, closed>>

\* The same turn when the handshake refuses the request at once, for its
\* protocol version: onRefuseEioConnection answers and cleans up.
Refuse(c) ==
    /\ Quiet
    /\ Arrive(<<c, "connect">>)
    /\ timers' = timers \cup {c}
    /\ shake' = [shake EXCEPT ![c] = "refused"]
    /\ AnswerConnect({c}, "refused")
    /\ responded' = responded \cup {c}
    /\ Cleanup({c}, Append(candidates, c))
    /\ UNCHANGED <<peer, sid, clients, bound, opening, ended, closed>>

\* The rest of the handshake: the client is made and its open packet written.
MakeClient(c) ==
    /\ shake[c] = "shaking"
    /\ shake' = [shake EXCEPT ![c] = "made"]
    /\ clients' = clients \cup sid[c]
    /\ opening' = opening \cup {c}
    /\ UNCHANGED <<requestVars, peer, known, candidates, sid, bound, responded,
                   timers, errors, ended, closed>>

\* The open packet is encoded: onAcceptEioConnection.  A second answer to the
\* event may make the response throw before the context is marked.
Accept(c) ==
    /\ c \in opening
    /\ opening' = opening \ {c}
    /\ AnswerConnect({c}, "ok")
    /\ \/ responded' = responded \cup {c}
       \/ answer[<<c, "connect">>] # NoAnswer /\ UNCHANGED responded
    /\ UNCHANGED <<cut, on, stage, peer, known, candidates, sid, clients, shake,
                   bound, timers, errors, ended, closed>>

\* onConnect goes on after the handshake.  Without a client it throws, after a
\* refusal as well, and handleConnect cleans up and answers, again perhaps.
GoesOn(c) ==
    /\ shake[c] \in {"refused", "made"}
    /\ shake' = [shake EXCEPT ![c] = "over"]
    /\ \/ /\ c \in clients
          /\ bound' = bound \cup {c}
          /\ UNCHANGED <<answer, known, candidates, errors, timers>>
       \/ /\ c \notin clients
          /\ timers' = timers \ {c}
          /\ Cleanup({c}, candidates)
          /\ AnswerConnect({c}, "failed")
          /\ UNCHANGED bound
    /\ UNCHANGED <<cut, on, stage, peer, sid, clients, responded, opening, ended, closed>>

\* Mutated form of Timeout: whether the context has answered is not looked at.
TimeoutAlways(c) ==
    /\ Quiet
    /\ c \in timers
    /\ timers' = timers \ {c}
    /\ Cleanup({c}, candidates)
    /\ AnswerConnect({c}, "failed")
    /\ UNCHANGED <<cut, on, stage, peer, sid, clients, shake, bound, responded,
                   opening, ended, closed>>

\* The timeout of handleConnect.  It does not mark the context.
Timeout(c) ==
    /\ Quiet
    /\ c \in timers
    /\ timers' = timers \ {c}
    /\ IF c \in responded
         THEN UNCHANGED <<answer, known, candidates, errors>>
         ELSE Cleanup({c}, candidates) /\ AnswerConnect({c}, "failed")
    /\ UNCHANGED <<cut, on, stage, peer, sid, clients, shake, bound, responded,
                   opening, ended, closed>>

-----------------------------------------------------------------------------
(* The other events.                                                       *)

\* handleUserEvent up to the decoding of the payload.
Message(c) ==
    LET r == <<c, "message">> IN
    /\ Quiet
    /\ Arrive(r)
    /\ answer' = CASE c \notin known -> Answered(answer, r, "refused")
                   [] c \in known \ clients -> Answered(answer, r, "failed")
                   [] OTHER -> answer
    /\ UNCHANGED <<peer, managerVars, closed>>

\* The packets go to the transport that was read before, ended or not; they do
\* not decode, or a listener of the application throws: the event has failed.
Decoded(c) ==
    LET r == <<c, "message">> IN
    /\ stage[r] = "handling" /\ answer[r] = NoAnswer
    /\ \E s \in {"ok", "failed"} : answer' = Answered(answer, r, s)
    /\ UNCHANGED <<cut, on, stage, peer, managerVars, closed>>

\* Mutated form of Disconnected: the connection is forgotten only with its client.
DisconnectedBoth(c) ==
    LET r == <<c, "disconnected">> IN
    /\ Quiet
    /\ Arrive(r)
    /\ answer' = Answered(answer, r, "ok")
    /\ known' = IF c \in clients THEN known \ {c} ELSE known
    /\ clients' = clients \ {c}
    /\ UNCHANGED <<peer, candidates, sid, shake, bound, responded, timers, opening,
                   errors, ended, closed>>

\* onDisconnected: the error of a client that has ended is only logged.
Disconnected(c) ==
    LET r == <<c, "disconnected">> IN
    /\ Quiet
    /\ Arrive(r)
    /\ answer' = Answered(answer, r, "ok")
    /\ known' = known \ {c}
    /\ clients' = IF c \in known THEN clients \ {c} ELSE clients
    /\ UNCHANGED <<peer, candidates, sid, shake, bound, responded, timers, opening,
                   errors, ended, closed>>

-----------------------------------------------------------------------------
(* Engine.IO ends connections.                                             *)

\* Engine.IO ends the clients S.  A transport that has not sent its open packet
\* refuses the connection instead of closing it.
EndClients(S) ==
    /\ clients' = clients \ S
    /\ ended' = ended \cup S
    /\ Cleanup(S \cap opening, candidates)
    /\ AnswerConnect(S \cap opening, "refused")
    /\ responded' = responded \cup (S \cap opening)
    /\ UNCHANGED <<cut, on, stage, peer, sid, shake, bound, timers, opening>>

\* A ping timeout, or a close by the application.
ClientEnds(c) == c \in clients /\ EndClients({c}) /\ UNCHANGED closed

\* The close of the server ends every client; its cleanup then stops the tunnel.
Close == ~closed /\ closed' = TRUE /\ EndClients(clients)
StopTunnel ==
    /\ closed /\ cut # Line
    /\ CutLines(Line)
    /\ UNCHANGED <<peer, managerVars, closed>>

\* A connection of the tunnel is cut.
Cut(l) ==
    /\ l \in Weak \ cut
    /\ CutLines({l})
    /\ UNCHANGED <<peer, managerVars, closed>>

Replies(r) == (Reply(r) \/ Read(r)) /\ UNCHANGED <<peer, managerVars, closed>>

ServiceStep(c) ==
    ClientArrives(c) \/ ConnectEnds(c) \/ ClientSends(c) \/ ClientLeaves(c)
ServerStep(c) ==
    \/ Connect(c) \/ Refuse(c) \/ MakeClient(c) \/ Accept(c) \/ GoesOn(c) \/ Timeout(c)
    \/ Message(c) \/ Decoded(c) \/ Disconnected(c) \/ ClientEnds(c)
Next ==
    \/ \E c \in Conn : ServiceStep(c) \/ ServerStep(c)
    \/ \E r \in Request : Replies(r)
    \/ \E l \in Line : Cut(l)
    \/ Close \/ StopTunnel
Spec == Init /\ [][Next]_vars

\* Timers fire and awaited promises of the manager itself go on; nothing is
\* assumed of Engine.IO's handshake.
FairSpec == Spec /\ \A c \in Conn : WF_vars(Timeout(c)) /\ WF_vars(GoesOn(c)) /\ WF_vars(Accept(c))

-----------------------------------------------------------------------------
\* The handshake of a connection gets the id of that connection, although ids
\* are handed over through a shared queue and refusals leave theirs in it
\* (handleConnect, cleanup and generateId).
OwnSid ==
    /\ candidates = << >>
    /\ \A c \in Conn : sid[c] \subseteq {c}

\* A connection the service has let in is served until its disconnected event
\* arrives or Engine.IO ends it: the manager knows it, Engine.IO has its client,
\* and close() can reach its transport once onConnect is over - whatever the
\* timeout, late answers and second answers do.
AcceptedServed ==
    \A c \in Conn \ ended :
        peer[c] = "connected" =>
            c \in known /\ c \in clients /\ (shake[c] = "over" => c \in bound)

\* What the manager keeps of a connection that is gone for the service is owed to
\* an event that is still to come or to a lost one: a reply that accepted the
\* connection, or the disconnected event.
KnownMeansLive ==
    \A c \in known :
        peer[c] = "gone" => \/ stage[<<c, "connect">>] = "lost"
                           \/ stage[<<c, "disconnected">>] \in {"sent", "lost"}

\* An error event is emitted only for a connection that is not accepted, unless
\* Engine.IO ended it before onConnect was over.
ErrorMeansRefused ==
    \A c \in Conn \ ended : errors[c] > 0 => answer[<<c, "connect">>] \notin {NoAnswer, "ok"}

\* What has happened to the requests of a connection when the service sees it so.
Events(c) ==
    /\ peer[c] = "new" => \A e \in Event : stage[<<c, e>>] = "none"
    /\ peer[c] = "connecting" => stage[<<c, "disconnected">>] = "none"
    /\ peer[c] = "connected" =>
          /\ stage[<<c, "connect">>] = "known" /\ answer[<<c, "connect">>] = "ok"
          /\ stage[<<c, "disconnected">>] = "none"
    /\ peer[c] = "gone" => stage[<<c, "connect">>] \in {"known", "lost"}
    /\ stage[<<c, "disconnected">>] # "none" =>
          peer[c] = "gone" /\ answer[<<c, "connect">>] = "ok"
    /\ stage[<<c, "connect">>] \in {"none", "sent"} => shake[c] = "none"
    /\ stage[<<c, "connect">>] \in {"replied", "known"} => answer[<<c, "connect">>] # NoAnswer

\* Nothing is known of a connection whose connect event has not arrived.
Untouched(c) ==
    shake[c] = "none" =>
        /\ c \notin known \cup clients \cup opening \cup bound \cup responded \cup timers \cup ended
        /\ answer[<<c, "connect">>] = NoAnswer /\ errors[c] = 0 /\ sid[c] = {}

\* How the answer, the context and Engine.IO's client of a connection agree.
Agreement(c) ==
    LET a == answer[<<c, "connect">>] IN
    /\ a \in {"refused", "failed"} => c \notin known
    /\ shake[c] = "refused" => a = "refused"
    /\ shake[c] = "made" /\ c \notin ended => c \in clients
    /\ shake[c] \in {"made", "over"} /\ a = "ok" /\ c \notin ended => c \in responded /\ errors[c] = 0
    /\ shake[c] = "over" /\ a = "ok" /\ c \notin ended => c \in bound
    /\ a = "ok" \/ c \in clients => shake[c] \in {"made", "over"}
    /\ a = "ok" /\ c \notin ended /\ peer[c] # "gone" => c \in known \cap clients
    /\ c \in opening => shake[c] \in {"made", "over"} /\ sid[c] = {c}
    /\ c \in opening /\ c \notin ended => a \in {NoAnswer, "failed"} /\ c \in clients
    /\ shake[c] = "over" /\ c \notin ended /\ a = NoAnswer => c \in bound
    /\ a = NoAnswer => errors[c] = 0
    /\ a = NoAnswer /\ shake[c] # "none" => c \in known
    /\ shake[c] = "shaking" => sid[c] = {c} /\ a \in {NoAnswer, "failed"} /\ c \notin ended

\* The inductive invariant.
IInvConn ==
    /\ TypeOK /\ OwnSid /\ KnownMeansLive
    /\ \A c \in Conn : Events(c) /\ Untouched(c) /\ Agreement(c)

\* Every connect event that arrives is answered, even when Engine.IO neither
\* accepts nor refuses it.
ConnectAnswered ==
    \A c \in Conn :
        stage[<<c, "connect">>] = "handling" ~> answer[<<c, "connect">>] # NoAnswer
=============================================================================
