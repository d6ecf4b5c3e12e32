---------------------------- MODULE BroadcastAck ----------------------------
(***************************************************************************)
(* broadcastWithAck of the Socket.IO adapter: the acknowledgements of a    *)
(* broadcast come back as the lines of one streamed response, read piece   *)
(* by piece through the body of ResponseBody                               *)
(* (SIO/components/web-pubsub-adapter.ts, InprocessServerProxy.invoke).    *)
(*                                                                         *)
(* The response is a text of bytes that the service, or a connection on    *)
(* the way, cuts into pieces anywhere.  A line stands for the payload of   *)
(* one client: the two bytes of one character and the newline, so a cut    *)
(* may fall inside a character, inside a line, or between lines.           *)
(***************************************************************************)
EXTENDS ResponseBody, SequencesExt

CONSTANT MaxAcks   \* bound on the clients that acknowledge

ASSUME AcksAssumption == MaxAcks \in Nat

VARIABLES
    bytesTo,    \* bytes of the response up to the end of each of its pieces
    held,       \* accumulatedData, what the incomplete line has of each character
    responses,  \* what was given to ack, in order
    app         \* the callback of the application: waiting, answered or timed out

ackVars == <<bytesTo, held, responses, app>>
allVars == <<bodyVars, ackVars>>

Acks == bytesTo[total] \div 3

\* Characters of a line: the character whole, one of its halves decoded alone
\* (U+FFFD), and the end of the line.
Units == (1..MaxAcks) \X {"char", "half", "end"}

TypeOKAck ==
    /\ bytesTo \in [0..total -> 0..3 * MaxAcks]
    /\ held \subseteq Units
    /\ responses \in Seq([client : 1..MaxAcks, intact : BOOLEAN])
    /\ app \in {"waiting", "answered", "timedout"}

\* Any way to cut the lines of any number of clients into the pieces.
InitAck ==
    /\ Init
    /\ \E n \in 0..MaxAcks :
          bytesTo \in {f \in [0..total -> 0..3 * n] :
                         /\ f[0] = 0 /\ f[total] = 3 * n
                         /\ \A i, j \in 0..total : i <= j => f[i] <= f[j]}
    /\ held = {}
    /\ responses = << >>
    /\ app = "waiting"

-----------------------------------------------------------------------------
\* TextDecoder.decode of piece n by itself, without its stream option.
Decoded(n) ==
    LET In(b) == bytesTo[n - 1] < b /\ b <= bytesTo[n] IN
    {u \in Units :
        LET lead == 3 * u[1] - 2 IN
        CASE u[2] = "char" -> In(lead) /\ In(lead + 1)
          [] u[2] = "half" -> In(lead) # In(lead + 1)
          [] u[2] = "end"  -> In(lead + 2)}

\* The i-th smallest member of a set of numbers.
NthOf(S, i) == CHOOSE k \in S : Cardinality({j \in S : j <= k}) = i

\* handleJsonLines: one call of ack for each complete line that is not empty.
Lines(text) ==
    LET complete == {k \in 1..MaxAcks : <<k, "end">> \in text
                                         /\ {<<k, "char">>, <<k, "half">>} \cap text # {}}
    IN  [i \in 1..Cardinality(complete) |->
            LET k == NthOf(complete, i)
            IN  [client |-> k, intact |-> <<k, "char">> \in text]]

\* Mutated form of HandleChunk: the incomplete line is not kept.
HandleChunkAlone(n) ==
    /\ responses' = responses \o Lines(Decoded(n))
    /\ held' = {}
    /\ UNCHANGED app

\* streamHandleResponse: the lines of what was kept and the piece, then what
\* follows the last newline is kept.
HandleChunk(n) ==
    LET text == held \cup Decoded(n) IN
    /\ responses' = responses \o Lines(text)
    /\ held' = {u \in text : <<u[1], "end">> \notin text}
    /\ UNCHANGED app

\* clientCountCallback(count) at the end of the body: Socket.IO has as many
\* responses as it was told to expect and calls the application, unless it did.
CountClients ==
    /\ app' = IF app = "waiting" THEN "answered" ELSE app
    /\ UNCHANGED <<held, responses>>

\* bodyHandler, called by the loop of invoke for each piece and for the end; a
\* loop that waits has nothing to hand over, and one that threw never counts.
BodyHandler ==
    /\ IF received' # received THEN HandleChunk(Last(received'))
       ELSE IF caller' = "ended" THEN CountClients
       ELSE UNCHANGED <<held, responses, app>>
    /\ UNCHANGED bytesTo

\* Socket.IO's timeout of the broadcast.
TimesOut ==
    /\ alive
    /\ app = "waiting"
    /\ caller # "woken"
    /\ app' = "timedout"
    /\ UNCHANGED <<bodyVars, bytesTo, held, responses>>

NextAck ==
    \/ (Arrive \/ AbortFires \/ RunReader \/ StartReading) /\ UNCHANGED ackVars
    \/ CallNext /\ BodyHandler
    \/ Resume /\ BodyHandler
    \/ TimesOut

FairnessAck ==
    /\ WF_allVars(RunReader /\ UNCHANGED ackVars)
    /\ WF_allVars(StartReading /\ UNCHANGED ackVars)
    /\ WF_allVars(CallNext /\ BodyHandler)
    /\ WF_allVars(Resume /\ BodyHandler)

SpecAck == InitAck /\ [][NextAck]_allVars /\ FairnessAck

-----------------------------------------------------------------------------
\* A cut inside the character of a line.
Torn(k) == \E n \in DOMAIN bytesTo : bytesTo[n] = 3 * k - 2

\* However the response is cut and timed, and whenever Socket.IO gives up: each
\* client's acknowledgement is handed over once, in order, complete unless a cut
\* went through one of its characters; and an application that is answered has
\* them all, which it is as soon as the body has ended in time.
EveryAckCounts ==
    /\ TypeOKAck
    /\ \A i \in DOMAIN responses :
          responses[i].client = i /\ (responses[i].intact <=> ~Torn(i))
    /\ app = "answered" => caller = "ended" /\ Len(responses) = Acks
    /\ caller = "ended" => app # "waiting"
=============================================================================
