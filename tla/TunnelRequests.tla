--------------------------- MODULE TunnelRequests ---------------------------
(***************************************************************************)
(* Requests of the service to the server through the tunnel                *)
(* (sdk/server-proxies/src/tunnels/TunnelConnection.ts, processMessage,    *)
(* and InprocessServerProxy.ts): a request comes on a connection of a      *)
(* tunnel client, the first answer its handler gives resolves it, and the  *)
(* reply goes out on the connection the request came on.  What a request   *)
(* asks for and who answers it is said by the modules that extend this.    *)
(***************************************************************************)
EXTENDS FiniteSets, Integers, Sequences

CONSTANTS
    Request,   \* requests of the service
    Line,      \* connections of the tunnel clients
    NoLine,    \* a request that was not sent
    NoAnswer,  \* a request nobody has answered
    Status     \* answers a handler may give

ASSUME RequestAssumption == NoLine \notin Line /\ NoAnswer \notin Status

VARIABLES
    cut,     \* lines that are cut, or stopped; a reconnected client has a new one
    on,      \* the line of a request that is under way
    stage,   \* where it is
    answer   \* its first answer, what readResponse or httpInvoke resolves with

requestVars == <<cut, on, stage, answer>>

\* handling: processMessage awaits the handler; known: the service has read the
\* reply; lost: no reply will ever reach the service.
Stage == {"none", "sent", "handling", "replied", "known", "lost"}

TypeOKRequests ==
    /\ cut \subseteq Line
    /\ on \in [Request -> Line \cup {NoLine}]
    /\ stage \in [Request -> Stage]
    /\ answer \in [Request -> Status \cup {NoAnswer}]

InitRequests ==
    /\ cut = {}
    /\ on = [r \in Request |-> NoLine]
    /\ stage = [r \in Request |-> "none"]
    /\ answer = [r \in Request |-> NoAnswer]

\* The service sends r on a line, unless it has none.
Send(r) ==
    /\ stage[r] = "none"
    /\ \/ \E l \in Line \ cut : /\ on' = [on EXCEPT ![r] = l]
                                /\ stage' = [stage EXCEPT ![r] = "sent"]
       \/ cut = Line /\ stage' = [stage EXCEPT ![r] = "lost"] /\ UNCHANGED on
    /\ UNCHANGED <<cut, answer>>

\* processMessage takes r and calls the handler.
Arrive(r) ==
    /\ stage[r] = "sent"
    /\ stage' = [stage EXCEPT ![r] = "handling"]
    /\ UNCHANGED <<cut, on>>

\* Mutated form of Answered: an answer takes the place of an earlier one.
AnsweredLast(a, r, s) == [a EXCEPT ![r] = s]

\* A handler ends its response: only the first "end" resolves the promise.
Answered(a, r, s) == IF a[r] = NoAnswer THEN [a EXCEPT ![r] = s] ELSE a

\* What is over needs no line.
Over(r, end) ==
    /\ stage' = [stage EXCEPT ![r] = end]
    /\ on' = [on EXCEPT ![r] = NoLine]

\* processMessage goes on with the response: it is sent on the line of the
\* request, and an error of the library is only logged.
Reply(r) ==
    /\ stage[r] = "handling" /\ answer[r] # NoAnswer
    /\ \/ on[r] \in cut /\ Over(r, "lost")
       \/ on[r] \notin cut /\ stage' = [stage EXCEPT ![r] = "replied"] /\ UNCHANGED on
    /\ UNCHANGED <<cut, answer>>

\* The service reads the reply.
Read(r) ==
    /\ stage[r] = "replied"
    /\ Over(r, "known")
    /\ UNCHANGED <<cut, answer>>

\* Lines go: what is on the way on them is lost, what is handled is not told.
CutLines(L) ==
    LET gone == {r \in Request : on[r] \in L /\ stage[r] \in {"sent", "replied"}} IN
    /\ cut' = cut \cup L
    /\ stage' = [r \in Request |-> IF r \in gone THEN "lost" ELSE stage[r]]
    /\ on' = [r \in Request |-> IF r \in gone THEN NoLine ELSE on[r]]
    /\ UNCHANGED answer
=============================================================================
