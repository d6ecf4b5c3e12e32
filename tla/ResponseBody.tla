---------------------------- MODULE ResponseBody ----------------------------
(***************************************************************************)
(* The body of one response that comes through the tunnel: the messages    *)
(* of the response, the readers AckEntity.write queues with setTimeout 0,  *)
(* the AsyncIterator they feed, and the caller's "for await" over it       *)
(* (sdk/server-proxies/src/utils.ts, TunnelConnection.invokeAsync,         *)
(* InprocessServerProxy.invoke).                                           *)
(*                                                                         *)
(* A timer callback and the microtasks it triggers run without a gap, so   *)
(* no other callback runs while the caller is "woken".                     *)
(***************************************************************************)
EXTENDS Integers, Sequences

CONSTANTS
    MaxParts,   \* bound on the messages of a response
    CanAbort    \* whether the caller passes an abort signal that may fire

ASSUME BodyAssumption ==
    /\ MaxParts \in Nat \ {0}
    /\ CanAbort \in BOOLEAN

Abort == 0      \* a queued reader with the error "aborted"; part n is n

VARIABLES
    total,     \* messages the service splits the response into
    arrived,   \* messages handled by processMessage
    known,     \* the ack id is in _ackMap
    aborted,   \* the abort signal has fired
    timers,    \* readers queued by AckEntity.write
    resolved,  \* firstResponse, and with it the promise of invokeAsync
    items,     \* AsyncIterator.items
    isClosed,  \* AsyncIterator.isClosed
    failed,    \* AsyncIterator.errorToThrow is set
    caller,    \* where the caller's loop is
    received,  \* the pieces it has got
    alive      \* FALSE once an uncaught error has ended the process

bodyVars == <<total, arrived, known, aborted, timers, resolved, items,
              isClosed, failed, caller, received, alive>>

\* away: not reading yet; idle: about to call next(); waiting: awaiting
\* resolveCurrent; woken: resolveCurrent was called.
CallerState == {"away", "idle", "waiting", "woken", "ended", "threw"}

TypeOK ==
    /\ total \in 1..MaxParts
    /\ arrived \in 0..total
    /\ known \in BOOLEAN
    /\ aborted \in BOOLEAN
    /\ timers \in Seq(0..MaxParts)
    /\ resolved \in BOOLEAN
    /\ items \in Seq(1..MaxParts)
    /\ isClosed \in BOOLEAN
    /\ failed \in BOOLEAN
    /\ caller \in CallerState
    /\ received \in Seq(1..MaxParts)
    /\ alive \in BOOLEAN

\* The request has been sent; the service has chosen how to split its answer.
Init ==
    /\ total \in 1..MaxParts
    /\ arrived = 0
    /\ known = TRUE
    /\ aborted = FALSE
    /\ timers = << >>
    /\ resolved = FALSE
    /\ items = << >>
    /\ isClosed = FALSE
    /\ failed = FALSE
    /\ caller = "away"
    /\ received = << >>
    /\ alive = TRUE

-----------------------------------------------------------------------------
\* Mutated form of Arrive: only the first message finds the ack entity.
ArriveOnce ==
    /\ alive
    /\ caller # "woken"
    /\ arrived < total
    /\ arrived' = arrived + 1
    /\ timers' = IF known THEN Append(timers, arrived') ELSE timers
    /\ known' = FALSE
    /\ UNCHANGED <<total, aborted, resolved, items, isClosed, failed, caller,
                   received, alive>>

\* processMessage, HttpResponse: the next message of the response.  The last
\* one removes the ack entity.
Arrive ==
    /\ alive
    /\ caller # "woken"
    /\ arrived < total
    /\ arrived' = arrived + 1
    /\ timers' = IF known THEN Append(timers, arrived') ELSE timers
    /\ known' = (known /\ arrived' < total)
    /\ UNCHANGED <<total, aborted, resolved, items, isClosed, failed, caller,
                   received, alive>>

\* The abort listener queues a reader too and leaves the ack entity in the map.
AbortFires ==
    /\ alive
    /\ CanAbort
    /\ caller # "woken"
    /\ ~aborted
    /\ aborted' = TRUE
    /\ timers' = Append(timers, Abort)
    /\ UNCHANGED <<total, arrived, known, resolved, items, isClosed, failed,
                   caller, received, alive>>

\* resolveCurrent, called and cleared by add, error and close.
Wake == caller' = IF caller = "waiting" THEN "woken" ELSE caller

\* Mutated form of ReadPart: add does not call resolveCurrent.
ReadPartSilently(n) ==
    /\ items' = Append(items, n)
    /\ isClosed' = (isClosed \/ n = total)
    /\ resolved' = TRUE
    /\ caller' = IF caller = "waiting" /\ n = total THEN "woken" ELSE caller
    /\ UNCHANGED <<failed, alive>>

\* The reader of invokeAsync given a message: add its content, close the body
\* with the last one, resolve the invocation with the first one.
ReadPart(n) ==
    /\ items' = Append(items, n)
    /\ isClosed' = (isClosed \/ n = total)
    /\ resolved' = TRUE
    /\ Wake
    /\ UNCHANGED <<failed, alive>>

\* The reader given "aborted": it gives the error to the body and then fails on
\* data!.Content, as there is no message; the body is not closed and the
\* invocation not settled.  The error is uncaught, in the callback of a timer:
\* it ends the process before the caller runs again, unless the application
\* listens for such errors.
ReadAbort ==
    /\ failed' = TRUE
    /\ Wake
    /\ alive' \in BOOLEAN
    /\ UNCHANGED <<items, isClosed, resolved>>

RunReader ==
    /\ alive
    /\ caller # "woken"
    /\ timers # << >>
    /\ timers' = Tail(timers)
    /\ IF Head(timers) = Abort THEN ReadAbort ELSE ReadPart(Head(timers))
    /\ UNCHANGED <<total, arrived, known, aborted, received>>

-----------------------------------------------------------------------------
\* The caller has its response and starts to iterate, a macrotask later.
StartReading ==
    /\ alive
    /\ resolved
    /\ caller = "away"
    /\ caller' = "idle"
    /\ UNCHANGED <<total, arrived, known, aborted, timers, resolved, items,
                   isClosed, failed, received, alive>>

\* AsyncIterator.next takes the first item, and the loop calls next again.
TakeItem ==
    /\ received' = Append(received, Head(items))
    /\ items' = Tail(items)
    /\ caller' = "idle"

\* Mutated form of CallNext: isClosed is looked at before items.
CallNextClosed ==
    /\ alive
    /\ caller = "idle"
    /\ IF failed
         THEN caller' = "threw" /\ UNCHANGED <<items, received>>
       ELSE IF isClosed
         THEN caller' = "ended" /\ UNCHANGED <<items, received>>
       ELSE IF items # << >>
         THEN TakeItem
       ELSE caller' = "waiting" /\ UNCHANGED <<items, received>>
    /\ UNCHANGED <<total, arrived, known, aborted, timers, resolved, isClosed,
                   failed, alive>>

\* next() up to its await: an error first, then items, then the end.
CallNext ==
    /\ alive
    /\ caller = "idle"
    /\ \/ /\ failed
          /\ caller' = "threw"
          /\ UNCHANGED <<items, received>>
       \/ /\ ~failed /\ items # << >>
          /\ TakeItem
       \/ /\ ~failed /\ items = << >>
          /\ caller' = IF isClosed THEN "ended" ELSE "waiting"
          /\ UNCHANGED <<items, received>>
    /\ UNCHANGED <<total, arrived, known, aborted, timers, resolved, isClosed,
                   failed, alive>>

\* next() after its await: without an item and an error it reports the end.
Resume ==
    /\ alive
    /\ caller = "woken"
    /\ \/ /\ failed
          /\ caller' = "threw"
          /\ UNCHANGED <<items, received>>
       \/ /\ ~failed /\ items # << >>
          /\ TakeItem
       \/ /\ ~failed /\ items = << >>
          /\ caller' = "ended"
          /\ UNCHANGED <<items, received>>
    /\ UNCHANGED <<total, arrived, known, aborted, timers, resolved, isClosed,
                   failed, alive>>

Next ==
    \/ Arrive
    \/ AbortFires
    \/ RunReader
    \/ StartReading
    \/ CallNext
    \/ Resume

\* Timers that are due run, and the caller reads its body to the end.  Nothing
\* forces the rest of a response to arrive.
Fairness ==
    /\ WF_bodyVars(RunReader)
    /\ WF_bodyVars(StartReading)
    /\ WF_bodyVars(CallNext)
    /\ WF_bodyVars(Resume)

Spec == Init /\ [][Next]_bodyVars /\ Fairness

-----------------------------------------------------------------------------
\* The caller never sleeps over something next() could return: an item, the end
\* or an error.
NoLostWakeup == caller = "waiting" => items = << >> /\ ~isClosed /\ ~failed

\* next() takes "woken without an item" for the end of the body: it is one.
WokenForAReason ==
    caller = "woken" => \/ failed
                        \/ items # << >>
                        \/ isClosed /\ Len(received) = total

\* The inductive invariant behind them.  The pieces are numbered: those the
\* caller and the iterator hold are 1..Added, queued readers hold the rest.
Added == Len(received) + Len(items)

InOrder ==
    /\ \A j \in 1..Len(received) : received[j] = j
    /\ \A j \in 1..Len(items) : items[j] = Len(received) + j

QueueInOrder ==
    /\ \A a, b \in 1..Len(timers) :
          a < b /\ timers[a] # Abort /\ timers[b] # Abort => timers[a] < timers[b]
    /\ \A a \in 1..Len(timers) :
          timers[a] # Abort => timers[a] \in (Added + 1)..arrived
    /\ \A n \in (Added + 1)..arrived : \E a \in 1..Len(timers) : timers[a] = n

AbortsKnown == \A a \in 1..Len(timers) : timers[a] = Abort => aborted

IInvBody ==
    /\ TypeOK
    /\ AbortsKnown
    /\ InOrder
    /\ QueueInOrder
    /\ Added <= arrived
    /\ known <=> arrived < total
    /\ isClosed <=> Added = total
    /\ failed => aborted
    /\ NoLostWakeup
    /\ WokenForAReason
    /\ caller = "threw" => failed
    /\ caller = "ended" => isClosed /\ items = << >>
    /\ ~alive => failed

\* A response that arrived completely is read to its end, unless the caller's
\* own abort is handed to the reader: that ends the process, or, where the
\* application survives such errors, the loop of the caller with the error.
BodyEnds ==
    arrived = total ~> \/ caller = "ended"
                       \/ caller = "threw" /\ aborted
                       \/ ~alive /\ aborted

\* Iterator, timers and messages together deliver what ByteStream promises: no
\* loss, no reordering, no end before the last piece, no error without abort.
\* A process that ended delivers no more.
Stream == INSTANCE ByteStream
    WITH Pieces <- 1..MaxParts,
         delivered <- Len(received),
         cancelled <- aborted,
         outcome <- CASE caller = "ended" -> "ended"
                      [] caller = "threw" -> "failed"
                      [] OTHER -> "open"

KeepsStream == Stream!Spec
=============================================================================
