---------------------------- MODULE EioTransport ----------------------------
(***************************************************************************)
(* One Engine.IO connection on the server: Engine.IO's Socket with its     *)
(* writeBuffer (external, engine.io 6.5), the WebPubSubTransport under it  *)
(* with its own buffer, and the calls of the service that carry packets to *)
(* the client (EIO/components/web-pubsub-transport.ts and                  *)
(* client-connection-context.ts).                                          *)
(*                                                                         *)
(* send is an async method that Engine.IO does not await, so several calls *)
(* of it may be under way.  Code between two awaits is one turn: while     *)
(* "unit" or "duty" is set a turn is going on and nothing else runs.       *)
(***************************************************************************)
EXTENDS PacketBatch, FiniteSets

CONSTANTS
    MaxPackets,   \* bound on the packets Engine.IO sends
    Calls,        \* bound on overlapping calls of send: a set of their names
    CanFail,      \* whether a call of the service may fail
    CanLose,      \* whether the client may go away
    CanShutDown   \* whether the server's cleanup may close the connection

ASSUME TransportAssumption ==
    /\ MaxPackets \in Nat /\ MaxPackets >= 3
    /\ IsFiniteSet(Calls) /\ Cardinality(Calls) >= 2
    /\ {CanFail, CanLose, CanShutDown} \subseteq BOOLEAN

\* What is written in one turn: a control packet, a text message, or the
\* header and the attachments of a binary message.
Unit == {<<"ping">>, <<"event">>, <<"bin1", "att">>, <<"bin2", "att", "att">>}

Packet == [no : Nat, kind : Kind]

VARIABLES
    unit,       \* kinds still to be written in this turn
    duty,       \* what the turn does next: "flush", "close" or "none"
    engine,     \* readyState of Engine.IO's Socket
    closeWhenDrained, \* Socket.close waits for the write buffer to be flushed
    pending,    \* Socket.writeBuffer
    created,    \* packets created so far
    writable,   \* Transport.writable
    closing,    \* Transport.readyState is "closing" or "closed"
    opened,     \* WebPubSubTransport._opened
    buffer,     \* WebPubSubTransport._buffer
    phase,      \* where each call of send is
    payload,    \* the packets it has taken from the buffer
    answers,    \* answers to the service's connect event
    delivered,  \* packets the service got, in order
    failed,     \* a call of the service has failed, or the client has gone
    shutDown    \* Engine.IO's server is closed ("now" within that turn)

vars == <<unit, duty, engine, closeWhenDrained, pending, created, writable,
          closing, opened, buffer, phase, payload, answers, delivered, failed,
          shutDown>>

socketVars == <<engine, closeWhenDrained, pending, created>>
transportVars == <<writable, opened, buffer, phase, payload, answers>>
serviceVars == <<delivered, failed>>

Phase == {"idle", "opening", "encoding", "posting", "posted"}
Active == {c \in Calls : phase[c] # "idle"}
\* No promise is pending: timers and input of the process can run.
BetweenTurns == unit = << >> /\ duty = "none" /\ shutDown # "now"
Quiet == /\ BetweenTurns
         /\ \A c \in Calls : phase[c] \notin {"opening", "encoding"}

Kinds(packets) == [i \in DOMAIN packets |-> packets[i].kind]

TypeOK ==
    /\ unit \in Seq(Kind)
    /\ duty \in {"none", "flush", "close"}
    /\ engine \in {"open", "closing", "closed"}
    /\ pending \in Seq(Packet) /\ buffer \in Seq(Packet)
    /\ created \in Nat
    /\ {closeWhenDrained, writable, closing, opened, failed} \subseteq BOOLEAN
    /\ shutDown \in {"no", "now", "done"}
    /\ phase \in [Calls -> Phase]
    /\ payload \in [Calls -> Seq(Packet)]
    /\ answers \in Seq({"accept", "refuse"})
    /\ delivered \in Seq(Packet)

\* Socket.onOpen is about to send the open packet.
Init ==
    /\ unit = <<"open">>
    /\ duty = "none"
    /\ engine = "open"
    /\ closeWhenDrained = FALSE
    /\ pending = << >>
    /\ created = 0
    /\ writable = TRUE
    /\ closing = FALSE
    /\ opened = FALSE
    /\ buffer = << >>
    /\ phase = [c \in Calls |-> "idle"]
    /\ payload = [c \in Calls |-> << >>]
    /\ answers = << >>
    /\ delivered = << >>
    /\ failed = FALSE
    /\ shutDown = "no"

-----------------------------------------------------------------------------
\* The transport

\* Mutated form of Loop: the packets taken are left in the buffer.
LoopSlice(c, buf, w) ==
    LET n == NextSend(Kinds(buf)) IN
    \/ /\ n \in 1..Len(buf)
       /\ buffer' = buf
       /\ payload' = [payload EXCEPT ![c] = SubSeq(buf, 1, n)]
       /\ phase' = [phase EXCEPT ![c] = "encoding"]
       /\ writable' = w
    \/ /\ n \notin 1..Len(buf)
       /\ buffer' = buf
       /\ payload' = [payload EXCEPT ![c] = << >>]
       /\ phase' = [phase EXCEPT ![c] = "idle"]
       /\ writable' = TRUE

\* The loop of send, up to its next await or to its end: call c takes what
\* may go from the packets buf, or is done and sets writable, which was w.
Loop(c, buf, w) ==
    LET n == NextSend(Kinds(buf)) IN
    \/ /\ n \in 1..Len(buf)
       /\ buffer' = SubSeq(buf, n + 1, Len(buf))
       /\ payload' = [payload EXCEPT ![c] = SubSeq(buf, 1, n)]
       /\ phase' = [phase EXCEPT ![c] = "encoding"]
       /\ writable' = w
    \/ /\ n \notin 1..Len(buf)
       /\ buffer' = buf
       /\ payload' = [payload EXCEPT ![c] = << >>]
       /\ phase' = [phase EXCEPT ![c] = "idle"]
       /\ writable' = TRUE

\* Mutated form of Send: the call does not wait for the open packet.
SendUnopened(packets) ==
    \E c \in Calls :
        /\ phase[c] = "idle"
        /\ Loop(c, buffer \o packets, FALSE)
        /\ opened' = opened
        /\ answers' = answers

\* A new call of send(packets), up to its first await.  A call that returns
\* at once emits "drain" with nothing pending: every caller has emptied or
\* abandoned the write buffer.
Send(packets) ==
    LET buf == buffer \o packets IN
    \E c \in Calls :
        /\ phase[c] = "idle"
        /\ \/ opened /\ Loop(c, buf, FALSE) /\ answers' = answers
           \/ /\ ~opened
              /\ buf[1].kind = "open"
              /\ buffer' = Tail(buf)
              /\ phase' = [phase EXCEPT ![c] = "opening"]
              /\ writable' = FALSE
              /\ UNCHANGED <<payload, answers>>
           \/ /\ ~opened
              /\ buf[1].kind # "open"
              /\ answers' = Append(answers, "refuse")
              /\ Loop(c, Tail(buf), FALSE)
        /\ opened' = opened

\* The open packet is encoded: the connect event is answered with it.
AnswerConnect(c) ==
    /\ BetweenTurns
    /\ phase[c] = "opening"
    /\ opened' = TRUE
    /\ answers' = Append(answers, "accept")
    /\ Loop(c, buffer, writable)
    /\ duty' = IF phase'[c] = "idle" THEN "flush" ELSE "none"
    /\ UNCHANGED <<unit, socketVars, closing, serviceVars, shutDown>>

\* The payload is encoded and goes to the service.
Post(c) ==
    /\ BetweenTurns
    /\ phase[c] = "encoding"
    /\ phase' = [phase EXCEPT ![c] = "posting"]
    /\ UNCHANGED <<unit, duty, socketVars, writable, closing, opened, buffer,
                   payload, answers, serviceVars, shutDown>>

\* Mutated form of Resume: the end of a call does not emit "drain".
ResumeSilently(c) ==
    /\ Quiet
    /\ phase[c] = "posted"
    /\ Loop(c, buffer, writable)
    /\ UNCHANGED <<unit, duty, socketVars, closing, opened, answers,
                   serviceVars, shutDown>>

\* The service has answered, or failed (ClientConnectionContext.send drops
\* the error): the loop goes on, and at its end "drain" makes Socket flush.
Resume(c) ==
    /\ Quiet
    /\ phase[c] = "posted"
    /\ Loop(c, buffer, writable)
    /\ duty' = IF phase'[c] = "idle" THEN "flush" ELSE "none"
    /\ UNCHANGED <<unit, socketVars, closing, opened, answers, serviceVars,
                   shutDown>>

\* The service hands the payload to the client.  Calls under way at the same
\* time reach it in any order: sendToConnection names no tunnel connection
\* and no ordering key.
Deliver(c) ==
    /\ phase[c] = "posting"
    /\ delivered' = delivered \o payload[c]
    /\ phase' = [phase EXCEPT ![c] = "posted"]
    /\ payload' = [payload EXCEPT ![c] = << >>]
    /\ UNCHANGED <<unit, duty, socketVars, writable, closing, opened, buffer,
                   answers, failed, shutDown>>

PostFails(c) ==
    /\ CanFail
    /\ phase[c] = "posting"
    /\ failed' = TRUE
    /\ phase' = [phase EXCEPT ![c] = "posted"]
    /\ payload' = [payload EXCEPT ![c] = << >>]
    /\ UNCHANGED <<unit, duty, socketVars, writable, closing, opened, buffer,
                   answers, delivered, shutDown>>

\* Transport.close and doClose, which reports back at once.
CloseTransport ==
    /\ duty = "close"
    /\ duty' = "none"
    /\ engine' = "closed"
    /\ closing' = TRUE
    /\ \/ /\ ~closing
          /\ created' = created + 1
          /\ Send(<<[no |-> created', kind |-> "close"]>>)
       \/ /\ closing
          /\ UNCHANGED <<created, transportVars>>
    /\ UNCHANGED <<unit, closeWhenDrained, pending, serviceVars, shutDown>>

\* ClientConnectionContext.close: a close packet that goes round Engine.IO's
\* Socket and its write buffer.
CloseContext ==
    /\ shutDown = "now" /\ unit = << >> /\ duty = "none"
    /\ shutDown' = "done"
    /\ created' = created + 1
    /\ Send(<<[no |-> created', kind |-> "close"]>>)
    /\ UNCHANGED <<unit, duty, engine, closeWhenDrained, pending, closing, serviceVars>>

-----------------------------------------------------------------------------
\* Engine.IO's Socket

\* The server's code, Socket.IO or the heartbeat writes.  Two numbers are
\* kept for close packets, and two calls of send for the turn.
Write ==
    /\ BetweenTurns
    /\ engine = "open"
    /\ created > 0
    /\ Cardinality(Active) <= Cardinality(Calls) - 2
    /\ \E u \in Unit :
        /\ created + Len(u) <= MaxPackets - 2
        /\ unit' = u
    /\ UNCHANGED <<duty, socketVars, transportVars, closing, serviceVars, shutDown>>

\* Socket.sendPacket
SendPacket ==
    /\ unit # << >> /\ duty = "none"
    /\ created' = created + 1
    /\ pending' = Append(pending, [no |-> created', kind |-> Head(unit)])
    /\ unit' = Tail(unit)
    /\ duty' = "flush"
    /\ UNCHANGED <<engine, closeWhenDrained, transportVars, closing, serviceVars, shutDown>>

\* Mutated form of Flush: writable is not looked at.
FlushAlways ==
    /\ duty = "flush"
    /\ duty' = "none"
    /\ \/ /\ engine # "closed" /\ pending # << >>
          /\ Send(pending)
          /\ pending' = << >>
       \/ /\ pending = << >>
          /\ UNCHANGED <<pending, transportVars>>
    /\ UNCHANGED <<unit, engine, closeWhenDrained, created, closing,
                   serviceVars, shutDown>>

\* Socket.flush; its "drain" event runs a close that waits for it.
Flush ==
    /\ duty = "flush"
    /\ \/ /\ engine # "closed" /\ writable /\ pending # << >>
          /\ Send(pending)
          /\ pending' = << >>
          /\ duty' = IF closeWhenDrained THEN "close" ELSE "none"
          /\ closeWhenDrained' = FALSE
       \/ /\ engine = "closed" \/ ~writable \/ pending = << >>
          /\ duty' = "none"
          /\ UNCHANGED <<closeWhenDrained, pending, transportVars>>
    /\ UNCHANGED <<unit, engine, created, closing, serviceVars, shutDown>>

\* Socket.close
Close ==
    /\ BetweenTurns
    /\ engine = "open"
    /\ created > 0
    /\ engine' = "closing"
    /\ closeWhenDrained' = (pending # << >>)
    /\ duty' = IF pending = << >> THEN "close" ELSE "none"
    /\ UNCHANGED <<unit, pending, created, transportVars, closing, serviceVars, shutDown>>

\* The close of Engine.IO's server: Socket.close(true), which may drop what is
\* pending (versions differ), then the cleanup of EIO/index.ts, that is
\* CloseContext.
CloseServer ==
    /\ CanShutDown
    /\ BetweenTurns
    /\ created > 0 /\ shutDown = "no"
    /\ shutDown' = "now"
    /\ \/ /\ engine = "open"
          /\ \E drop \in BOOLEAN :
                /\ pending' = IF drop THEN << >> ELSE pending
                /\ closeWhenDrained' = (pending' # << >>)
                /\ duty' = IF pending' = << >> THEN "close" ELSE "none"
          /\ engine' = "closing"
       \/ engine = "closing" /\ UNCHANGED <<duty, engine, closeWhenDrained, pending>>
    /\ UNCHANGED <<unit, created, transportVars, closing, serviceVars>>

\* Socket.onClose after a ping timeout: what is pending is dropped and the
\* transport closed.
PingTimeout ==
    /\ CanLose
    /\ Quiet
    /\ opened
    /\ engine # "closed"
    /\ pending' = << >>
    /\ closeWhenDrained' = FALSE
    /\ engine' = "closed"
    /\ duty' = "close"
    /\ failed' = TRUE
    /\ UNCHANGED <<unit, created, transportVars, closing, delivered, shutDown>>

\* The service reports that the client is gone: Transport.onClose.
Disconnected ==
    /\ CanLose
    /\ Quiet
    /\ opened
    /\ engine # "closed"
    /\ pending' = << >>
    /\ closeWhenDrained' = FALSE
    /\ engine' = "closed"
    /\ closing' = TRUE
    /\ failed' = TRUE
    /\ UNCHANGED <<unit, duty, created, transportVars, delivered, shutDown>>

-----------------------------------------------------------------------------
Next ==
    \/ \E c \in Calls : \/ AnswerConnect(c) \/ Post(c) \/ Resume(c)
                        \/ Deliver(c) \/ PostFails(c)
    \/ CloseTransport \/ CloseContext
    \/ Write \/ SendPacket \/ Flush \/ Close \/ CloseServer
    \/ PingTimeout \/ Disconnected

Spec == Init /\ [][Next]_vars

\* A turn that has begun goes on; promises and timers are run by the event
\* loop; the service answers every call.
Fairness ==
    /\ WF_vars(SendPacket) /\ WF_vars(Flush) /\ WF_vars(CloseTransport)
    /\ WF_vars(CloseContext)
    /\ \A c \in Calls :
        /\ WF_vars(AnswerConnect(c)) /\ WF_vars(Post(c)) /\ WF_vars(Resume(c))
        /\ WF_vars(Deliver(c))

FairSpec == Spec /\ Fairness

-----------------------------------------------------------------------------
\* Until the connection is closed or the server cleans up.
Serving == engine # "closed" /\ shutDown = "no"

\* While the connection is served at most one call of send is under way, and
\* writable says that none is: what Engine.IO relies on for order.
OneCallAtATime ==
    Serving =>
        /\ \A c, d \in Active : c = d
        /\ writable <=> Active = {}

InFlight ==
    IF Active # {} THEN payload[CHOOSE c \in Active : TRUE] ELSE << >>

Opening == \E c \in Calls : phase[c] = "opening"

\* Only a call that is about to post, or posting, carries packets.
Carried ==
    \A c \in Calls : payload[c] # << >> => phase[c] \in {"encoding", "posting"}

\* Until the first call of send has taken it, the open packet is the only one.
OpenFirst ==
    Serving /\ ~opened /\ ~Opening =>
        /\ Active = {} /\ delivered = << >> /\ buffer = << >>
        /\ \/ created = 0 /\ unit = <<"open">> /\ duty = "none" /\ pending = << >>
           \/ /\ created = 1 /\ unit = << >> /\ duty = "flush"
              /\ pending = <<[no |-> 1, kind |-> "open"]>>

Ascending(packets) ==
    \A i, j \in DOMAIN packets : i < j => packets[i].no < packets[j].no

AllPackets == delivered \o InFlight \o buffer \o pending

\* While it is served, every packet but the open packet is in one place at
\* most, and the places are in order: delivered, on its way, in the
\* transport's buffer, in Engine.IO's.  If no call fails, none is missing.
NothingLostOrSwapped ==
    Serving =>
        LET first == IF opened \/ Opening THEN 1 ELSE 0
        IN /\ Ascending(AllPackets)
           /\ ~failed => /\ Len(AllPackets) + first = created
                         /\ \A i \in DOMAIN AllPackets : AllPackets[i].no = i + first

\* Type correctness, with the discipline the other properties rest on.
IInvEio == TypeOK /\ OneCallAtATime /\ Carried /\ OpenFirst

\* No call of the service carries a part of a binary message, closing and
\* shutdown included.
BinaryKeptWhole ==
    \A c \in Calls : /\ Whole(Kinds(payload[c]))
                     /\ NextSend(Kinds(payload[c])) = Len(payload[c])

Carrying == delivered # << >> \/ \E c \in Calls : payload[c] # << >>

\* The service keeps to the first answer to a connect event.  A connection that
\* is served has been accepted or not answered at all, never refused, and what
\* goes to a client follows an acceptance.  Only the close of the whole server
\* leaves room for more: its cleanup may have been taken for a first packet,
\* and so have refused the connection before the acceptance.
AcceptedFirst ==
    /\ Serving => answers \in {<< >>, <<"accept">>}
    /\ Carrying => /\ "accept" \in Range(answers)
                   /\ shutDown = "no" => answers[1] = "accept"

\* The order concern noted at InprocessServerProxy.sendToConnection: the
\* client gets the packets of a connection in the order they were sent.
OrderGuaranteed == Ascending(delivered)

\* What one call takes of the packets in line is the largest part that tears
\* no binary message, as the comment of _getPacketNumberForNextSend promises,
\* and what is left waits for attachments that are still being written: the
\* loop in send does not go round again for it.
InLine == Kinds(buffer \o pending)

SendsLargestWhole ==
    LET n == NextSend(InLine) IN
    /\ n = LargestWhole(InLine)
    /\ NextSend(SubSeq(InLine, n + 1, Len(InLine))) = 0
    /\ unit = << >> => n = Len(InLine)

\* As long as the service answers, the client stays and the server is not shut
\* down, every packet the server has created reaches the client, whatever
\* closes the connection: again and again none is outstanding.
Delivered(n) == \E i \in DOMAIN delivered : delivered[i].no = n

EverythingArrives ==
    []<>(\/ \A n \in 2..created : Delivered(n)
         \/ "refuse" \in Range(answers) \/ failed \/ shutDown # "no")
=============================================================================
