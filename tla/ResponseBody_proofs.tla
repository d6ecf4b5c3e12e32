------------------------- MODULE ResponseBody_proofs -------------------------
(***************************************************************************)
(* Proofs about response bodies: the caller never sleeps over something to *)
(* read, and the iterator delivers the stream ByteStream promises, for     *)
(* responses of any length; and broadcastWithAck, which reads one, hands   *)
(* over every acknowledgement however the response is cut.                 *)
(***************************************************************************)
EXTENDS BroadcastAck, SequenceTheorems, FiniteSetTheorems, TLAPS

LEMMA InitIInvBody == Init => IInvBody
<1> SUFFICES ASSUME Init PROVE IInvBody
  OBVIOUS
<1>1. /\ MaxParts \in Nat /\ total \in 1..MaxParts /\ arrived = 0
      /\ timers = << >> /\ items = << >> /\ received = << >>
      /\ known = TRUE /\ aborted = FALSE /\ resolved = FALSE
      /\ isClosed = FALSE /\ failed = FALSE /\ caller = "away"
      /\ alive = TRUE
  BY BodyAssumption DEF Init
<1>2. TypeOK /\ Added = 0
  <2>1. Len(received) = 0 /\ Len(items) = 0
    BY <1>1
  <2>2. timers \in Seq(0..MaxParts) /\ items \in Seq(1..MaxParts) /\ received \in Seq(1..MaxParts)
    BY <1>1
  <2>3. known \in BOOLEAN /\ aborted \in BOOLEAN /\ resolved \in BOOLEAN
        /\ isClosed \in BOOLEAN /\ failed \in BOOLEAN /\ alive \in BOOLEAN
    BY <1>1, Zenon
  <2>4. arrived \in 0..total
    BY <1>1
  <2> QED
    BY <1>1, <2>1, <2>2, <2>3, <2>4 DEF TypeOK, CallerState, Added
<1>3. InOrder /\ AbortsKnown /\ NoLostWakeup /\ WokenForAReason
  BY <1>1 DEF InOrder, AbortsKnown, NoLostWakeup, WokenForAReason
<1>4. QueueInOrder
  BY <1>1, <1>2 DEF QueueInOrder
<1>5. (known <=> arrived < total) /\ (isClosed <=> Added = total)
  BY <1>1, <1>2
<1> QED
  BY <1>1, <1>2, <1>3, <1>4, <1>5 DEF IInvBody

\* The next message is queued behind its predecessors.
LEMMA ArriveIInvBody ==
    ASSUME IInvBody, Arrive
    PROVE  IInvBody'
<1>1. /\ total \in Nat /\ arrived \in Nat /\ arrived < total /\ total <= MaxParts
      /\ timers \in Seq(0..MaxParts) /\ MaxParts \in Nat
  BY BodyAssumption DEF Arrive, IInvBody, TypeOK
<1>2. /\ arrived' = arrived + 1 /\ timers' = Append(timers, arrived + 1)
      /\ known' <=> arrived + 1 < total
      /\ UNCHANGED <<total, aborted, resolved, items, isClosed, failed, caller,
                     received, alive>>
  <2>1. known
    BY <1>1 DEF IInvBody
  <2> QED
    BY <2>1 DEF Arrive
<1>3. /\ Len(timers') = Len(timers) + 1 /\ timers'[Len(timers) + 1] = arrived + 1
      /\ \A a \in 1..Len(timers) : timers'[a] = timers[a]
      /\ Len(timers) \in Nat
  BY <1>1, <1>2
<1>4. Added' = Added /\ Added \in Nat /\ Added <= arrived
  BY <1>2 DEF Added, IInvBody, TypeOK
<1>5. TypeOK'
  <2>1. known' \in BOOLEAN
    BY DEF Arrive
  <2>2. timers' \in Seq(0..MaxParts) /\ arrived' \in 0..total
    BY <1>1, <1>2
  <2> QED
    BY <1>2, <2>1, <2>2 DEF IInvBody, TypeOK
<1>6. QueueInOrder'
  <2>1. QueueInOrder
    BY DEF IInvBody
  <2>2. ASSUME NEW a \in 1..Len(timers'), NEW b \in 1..Len(timers'),
               a < b, timers'[a] # Abort, timers'[b] # Abort
        PROVE  timers'[a] < timers'[b]
    <3>1. a \in 1..Len(timers)
      BY <1>3, <2>2
    <3>2. CASE b = Len(timers) + 1
      BY <1>1, <1>3, <1>4, <2>1, <2>2, <3>1, <3>2 DEF QueueInOrder
    <3>3. CASE b \in 1..Len(timers)
      BY <1>3, <2>1, <2>2, <3>1, <3>3 DEF QueueInOrder
    <3> QED
      BY <1>3, <3>2, <3>3
  <2>3. ASSUME NEW a \in 1..Len(timers'), timers'[a] # Abort
        PROVE  timers'[a] \in (Added' + 1)..arrived'
    <3>1. CASE a = Len(timers) + 1
      BY <1>1, <1>2, <1>3, <1>4, <3>1
    <3>2. CASE a \in 1..Len(timers)
      BY <1>1, <1>2, <1>3, <1>4, <2>1, <2>3, <3>2 DEF QueueInOrder
    <3> QED
      BY <1>3, <3>1, <3>2
  <2>4. ASSUME NEW n \in (Added' + 1)..arrived'
        PROVE  \E a \in 1..Len(timers') : timers'[a] = n
    <3>1. CASE n = arrived + 1
      BY <1>3, <3>1
    <3>2. CASE n \in (Added + 1)..arrived
      <4>1. PICK a \in 1..Len(timers) : timers[a] = n
        BY <2>1, <3>2 DEF QueueInOrder
      <4> QED
        BY <1>3, <4>1
    <3> QED
      BY <1>1, <1>2, <1>4, <3>1, <3>2
  <2> QED
    BY <2>2, <2>3, <2>4 DEF QueueInOrder
<1>7. InOrder' /\ NoLostWakeup' /\ WokenForAReason'
  BY <1>2 DEF IInvBody, InOrder, NoLostWakeup, WokenForAReason
<1>8. AbortsKnown'
  BY <1>1, <1>2, <1>3 DEF IInvBody, AbortsKnown, Abort
<1> QED
  BY <1>1, <1>2, <1>4, <1>5, <1>6, <1>7, <1>8 DEF IInvBody

LEMMA AbortFiresIInvBody ==
    ASSUME IInvBody, AbortFires
    PROVE  IInvBody'
<1>1. /\ timers \in Seq(0..MaxParts) /\ MaxParts \in Nat
      /\ timers' = Append(timers, Abort) /\ aborted' = TRUE
      /\ UNCHANGED <<total, arrived, known, resolved, items, isClosed, failed,
                     caller, received, alive>>
  BY BodyAssumption DEF AbortFires, IInvBody, TypeOK
<1>2. /\ Len(timers') = Len(timers) + 1 /\ timers'[Len(timers) + 1] = Abort
      /\ \A a \in 1..Len(timers) : timers'[a] = timers[a]
      /\ Len(timers) \in Nat
  BY <1>1 DEF Abort
<1>3. TypeOK'
  BY <1>1 DEF IInvBody, TypeOK, Abort
<1>4. QueueInOrder'
  <2>1. QueueInOrder /\ Added' = Added
    BY <1>1 DEF IInvBody, Added
  <2>2. \A a \in 1..Len(timers') : timers'[a] # Abort => a \in 1..Len(timers)
    BY <1>2
  <2>3. 1..Len(timers) \subseteq 1..Len(timers')
    BY <1>2
  <2> QED
    BY <1>1, <1>2, <2>1, <2>2, <2>3 DEF QueueInOrder
<1>5. InOrder' /\ NoLostWakeup' /\ WokenForAReason'
  BY <1>1 DEF IInvBody, InOrder, NoLostWakeup, WokenForAReason
<1> QED
  BY <1>1, <1>3, <1>4, <1>5 DEF IInvBody, Added, AbortsKnown

\* The queue without its head, which is the next piece or the abort.
LEMMA HeadIsNext ==
    ASSUME IInvBody, timers # << >>
    PROVE  /\ Head(timers) # Abort => /\ Head(timers) = Added + 1
                                      /\ Added + 1 <= arrived
           /\ Tail(timers) \in Seq(0..MaxParts)
           /\ Len(timers) \in Nat \ {0}
           /\ Len(Tail(timers)) = Len(timers) - 1
           /\ \A a \in 1..Len(Tail(timers)) : Tail(timers)[a] = timers[a + 1]
           /\ Head(timers) = timers[1]
<1>1. timers \in Seq(0..MaxParts) /\ QueueInOrder /\ Added \in Nat /\ arrived \in Nat
  BY DEF IInvBody, TypeOK, Added
<1>2. /\ Tail(timers) \in Seq(0..MaxParts)
      /\ Len(timers) \in Nat \ {0}
      /\ Len(Tail(timers)) = Len(timers) - 1
      /\ \A a \in 1..Len(Tail(timers)) : Tail(timers)[a] = timers[a + 1]
      /\ Head(timers) = timers[1]
  BY <1>1
<1>3. ASSUME Head(timers) # Abort
      PROVE  Head(timers) = Added + 1 /\ Added + 1 <= arrived
  <2>1. timers[1] \in (Added + 1)..arrived
    BY <1>1, <1>2, <1>3 DEF QueueInOrder
  <2>2. PICK a \in 1..Len(timers) : timers[a] = Added + 1
    BY <1>1, <2>1 DEF QueueInOrder
  <2>3. a > 1 => timers[1] < timers[a]
    BY <1>1, <1>2, <1>3, <2>2 DEF QueueInOrder, Abort
  <2> QED
    BY <1>1, <1>2, <2>1, <2>2, <2>3
<1> QED
  BY <1>2, <1>3

LEMMA RunReaderIInvBody ==
    ASSUME IInvBody, RunReader
    PROVE  IInvBody'
<1> DEFINE n == Head(timers)
<1>1. /\ timers # << >> /\ timers' = Tail(timers) /\ caller # "woken"
      /\ UNCHANGED <<total, arrived, known, aborted, received>>
  BY DEF RunReader
<1>2. /\ n # Abort => n = Added + 1 /\ Added + 1 <= arrived
      /\ timers' \in Seq(0..MaxParts) /\ Len(timers) \in Nat \ {0}
      /\ Len(timers') = Len(timers) - 1
      /\ \A a \in 1..Len(timers') : timers'[a] = timers[a + 1]
      /\ n = timers[1]
  BY <1>1, HeadIsNext
<1>3. /\ total \in 1..MaxParts /\ arrived \in 0..total /\ MaxParts \in Nat
      /\ items \in Seq(1..MaxParts) /\ received \in Seq(1..MaxParts)
      /\ Added \in Nat /\ QueueInOrder /\ Added <= arrived
      /\ Len(items) \in Nat /\ Len(received) \in Nat
  BY BodyAssumption DEF IInvBody, TypeOK, Added
<1>4. ASSUME NEW m \in {Added, Added + 1}, Added' = m,
             n # Abort => m = Added + 1, n = Abort => m = Added
      PROVE  QueueInOrder'
  <2>1. \A a \in 1..Len(timers') : a + 1 \in 1..Len(timers)
    BY <1>2
  <2>2. ASSUME NEW a \in 1..Len(timers'), NEW b \in 1..Len(timers'),
               a < b, timers'[a] # Abort, timers'[b] # Abort
        PROVE  timers'[a] < timers'[b]
    <3>1. /\ a + 1 \in 1..Len(timers) /\ b + 1 \in 1..Len(timers) /\ a + 1 < b + 1
          /\ timers'[a] = timers[a + 1] /\ timers'[b] = timers[b + 1]
      BY <1>2, <2>1, <2>2
    <3> QED
      BY <1>3, <2>2, <3>1 DEF QueueInOrder
  <2>3. ASSUME NEW a \in 1..Len(timers'), timers'[a] # Abort
        PROVE  timers'[a] \in (m + 1)..arrived
    <3>1. timers[a + 1] \in (Added + 1)..arrived
      BY <1>2, <1>3, <2>1, <2>3 DEF QueueInOrder
    <3>2. n # Abort => n < timers[a + 1]
      <4>1. /\ 1 \in 1..Len(timers) /\ a + 1 \in 1..Len(timers) /\ 1 < a + 1
            /\ timers'[a] = timers[a + 1]
        BY <1>2, <2>1
      <4> QED
        BY <1>2, <1>3, <2>3, <4>1 DEF QueueInOrder
    <3> QED
      BY <1>2, <1>3, <1>4, <3>1, <3>2
  <2>4. ASSUME NEW q \in (m + 1)..arrived
        PROVE  \E a \in 1..Len(timers') : timers'[a] = q
    <3>1. PICK a \in 1..Len(timers) : timers[a] = q
      BY <1>3, <1>4, <2>4 DEF QueueInOrder
    <3>2. a # 1
      BY <1>2, <1>3, <1>4, <2>4, <3>1 DEF Abort
    <3>3. a - 1 \in 1..Len(timers') /\ timers'[a - 1] = timers[(a - 1) + 1]
      BY <1>2, <3>2
    <3> QED
      BY <3>1, <3>3
  <2> QED
    BY <1>1, <1>4, <2>2, <2>3, <2>4 DEF QueueInOrder
<1>7. AbortsKnown'
  <2>1. \A a \in 1..Len(timers') : a + 1 \in 1..Len(timers)
    BY <1>2
  <2> QED
    BY <1>1, <1>2, <2>1 DEF IInvBody, AbortsKnown
<1>5. CASE n = Abort
  <2>1. /\ failed' = TRUE /\ UNCHANGED <<items, isClosed, resolved>>
        /\ alive' \in BOOLEAN
        /\ caller' = IF caller = "waiting" THEN "woken" ELSE caller
    BY <1>5 DEF RunReader, ReadAbort, Wake
  <2>2. Added' = Added
    BY <1>1, <2>1 DEF Added
  <2>3. QueueInOrder'
    BY <1>4, <1>5, <2>2
  <2>4. aborted
    BY <1>2, <1>5 DEF IInvBody, AbortsKnown
  <2> QED
    BY <1>1, <1>2, <1>3, <1>7, <2>1, <2>2, <2>3, <2>4
    DEF IInvBody, TypeOK, CallerState, InOrder, NoLostWakeup, WokenForAReason
<1>6. CASE n # Abort
  <2>1. /\ items' = Append(items, n) /\ isClosed' = (isClosed \/ n = total)
        /\ resolved' = TRUE /\ failed' = failed /\ alive' = alive
        /\ caller' = IF caller = "waiting" THEN "woken" ELSE caller
    BY <1>6 DEF RunReader, ReadPart, Wake
  <2>2. n = Added + 1 /\ Added + 1 <= arrived /\ n \in 1..MaxParts
    BY <1>2, <1>3, <1>6
  <2>3. /\ Len(items') = Len(items) + 1 /\ items'[Len(items) + 1] = n
        /\ \A j \in 1..Len(items) : items'[j] = items[j]
        /\ items' \in Seq(1..MaxParts) /\ items' # << >>
    BY <1>3, <2>1, <2>2
  <2>4. Added' = Added + 1
    BY <1>1, <1>3, <2>3 DEF Added
  <2>5. QueueInOrder'
    BY <1>4, <1>6, <2>4
  <2>6. InOrder'
    <3>1. InOrder /\ received' = received /\ n = Len(received) + (Len(items) + 1)
      BY <1>1, <1>3, <2>2 DEF IInvBody, Added
    <3>2. \A j \in 1..Len(items') : j = Len(items) + 1 \/ j \in 1..Len(items)
      BY <1>3, <2>3
    <3> QED
      BY <2>3, <3>1, <3>2 DEF InOrder
  <2>7. isClosed' <=> Added' = total'
    <3>1. ~isClosed
      BY <1>3, <2>2 DEF IInvBody
    <3> QED
      BY <1>1, <2>1, <2>2, <2>4, <3>1
  <2>8. TypeOK'
    BY <1>1, <1>2, <1>3, <2>1, <2>3 DEF IInvBody, TypeOK, CallerState
  <2>9. NoLostWakeup' /\ WokenForAReason'
    BY <1>1, <2>1, <2>3 DEF NoLostWakeup, WokenForAReason
  <2>10. caller' # "ended"
    <3>1. ~isClosed
      BY <1>3, <2>2 DEF IInvBody
    <3> QED
      BY <2>1, <3>1 DEF IInvBody
  <2> QED
    BY <1>1, <1>3, <1>7, <2>1, <2>2, <2>4, <2>5, <2>6, <2>7, <2>8, <2>9, <2>10 DEF IInvBody
<1> QED
  BY <1>5, <1>6

-----------------------------------------------------------------------------
(* Steps of the caller: they never touch the queue.                        *)

\* Taking an item moves it from the iterator to the caller.
LEMMA TakeItemIInvBody ==
    ASSUME IInvBody, TakeItem, items # << >>, ~failed,
           caller \in {"idle", "woken"},
           UNCHANGED <<total, arrived, known, aborted, timers, resolved, isClosed,
                       failed, alive>>
    PROVE  IInvBody'
<1>1. /\ items \in Seq(1..MaxParts) /\ received \in Seq(1..MaxParts)
      /\ Len(items) \in Nat \ {0} /\ Len(received) \in Nat
  BY DEF IInvBody, TypeOK
<1>2. /\ items' = Tail(items) /\ received' = Append(received, Head(items))
      /\ caller' = "idle"
  BY DEF TakeItem
<1>3. /\ Len(items') = Len(items) - 1 /\ Len(received') = Len(received) + 1
      /\ \A j \in 1..Len(items') : items'[j] = items[j + 1]
      /\ \A j \in 1..Len(received) : received'[j] = received[j]
      /\ received'[Len(received) + 1] = items[1]
      /\ items' \in Seq(1..MaxParts) /\ received' \in Seq(1..MaxParts)
  <2>1. Head(items) = items[1] /\ items[1] \in 1..MaxParts
    <3>1. 1 \in 1..Len(items)
      BY <1>1
    <3>2. items[1] \in 1..MaxParts
      BY <1>1, <3>1, ElementOfSeq
    <3> QED
      BY <1>1, <3>2
  <2>2. /\ Len(items') = Len(items) - 1 /\ items' \in Seq(1..MaxParts)
        /\ \A j \in 1..Len(items') : items'[j] = items[j + 1]
    BY <1>1, <1>2
  <2>3. /\ Len(received') = Len(received) + 1 /\ received' \in Seq(1..MaxParts)
        /\ received'[Len(received) + 1] = items[1]
    BY <1>1, <1>2, <2>1
  <2>4. \A j \in 1..Len(received) : received'[j] = received[j]
    BY <1>1, <1>2, <2>1
  <2> QED
    BY <2>2, <2>3, <2>4
<1>4. Added' = Added
  BY <1>1, <1>3 DEF Added
<1>5. TypeOK'
  BY <1>2, <1>3 DEF IInvBody, TypeOK, CallerState
<1>6. InOrder'
  <2>1. /\ \A j \in 1..Len(received) : received[j] = j
        /\ \A j \in 1..Len(items) : items[j] = Len(received) + j
    BY DEF IInvBody, InOrder
  <2>2. ASSUME NEW j \in 1..Len(received')
        PROVE  received'[j] = j
    <3>1. j \in 1..Len(received) \/ j = Len(received) + 1
      BY <1>1, <1>3
    <3>2. CASE j \in 1..Len(received)
      BY <1>3, <2>1, <3>2
    <3>3. CASE j = Len(received) + 1
      <4>1. items[1] = Len(received) + 1
        BY <1>1, <2>1
      <4> QED
        BY <1>3, <3>3, <4>1
    <3> QED
      BY <3>1, <3>2, <3>3
  <2>3. ASSUME NEW j \in 1..Len(items')
        PROVE  items'[j] = Len(received') + j
    <3>1. j + 1 \in 1..Len(items)
      BY <1>1, <1>3
    <3> QED
      BY <1>1, <1>3, <2>1, <3>1
  <2> QED
    BY <2>2, <2>3 DEF InOrder
<1>7. QueueInOrder' /\ AbortsKnown'
  BY <1>4 DEF IInvBody, QueueInOrder, AbortsKnown
<1>8. NoLostWakeup' /\ WokenForAReason'
  BY <1>2 DEF NoLostWakeup, WokenForAReason
<1> QED
  BY <1>2, <1>4, <1>5, <1>6, <1>7, <1>8 DEF IInvBody

\* So do steps that only move the caller to where it may be.
LEMMA CallerIInvBody ==
    ASSUME IInvBody, caller' \in CallerState,
           UNCHANGED <<total, arrived, known, aborted, timers, resolved, items,
                       isClosed, failed, received, alive>>,
           caller' = "waiting" => items = << >> /\ ~isClosed /\ ~failed,
           caller' # "woken",
           caller' = "threw" => failed,
           caller' = "ended" => isClosed /\ items = << >>
    PROVE  IInvBody'
<1>1. Added' = Added
  BY DEF Added
<1>2. QueueInOrder' /\ AbortsKnown' /\ InOrder' /\ TypeOK'
  BY <1>1 DEF IInvBody, QueueInOrder, AbortsKnown, InOrder, TypeOK
<1>3. NoLostWakeup' /\ WokenForAReason'
  BY DEF NoLostWakeup, WokenForAReason
<1> QED
  BY <1>1, <1>2, <1>3 DEF IInvBody

LEMMA CallNextIInvBody ==
    ASSUME IInvBody, CallNext
    PROVE  IInvBody'
<1>1. CASE failed /\ caller' = "threw" /\ UNCHANGED <<items, received>>
  BY <1>1, CallerIInvBody DEF CallNext, CallerState
<1>2. CASE ~failed /\ items # << >> /\ TakeItem
  BY <1>2, TakeItemIInvBody DEF CallNext
<1>3. CASE /\ ~failed /\ items = << >>
           /\ caller' = IF isClosed THEN "ended" ELSE "waiting"
           /\ UNCHANGED <<items, received>>
  BY <1>3, CallerIInvBody DEF CallNext, CallerState
<1> QED
  BY <1>1, <1>2, <1>3 DEF CallNext

LEMMA ResumeIInvBody ==
    ASSUME IInvBody, Resume
    PROVE  IInvBody'
<1>1. CASE failed /\ caller' = "threw" /\ UNCHANGED <<items, received>>
  BY <1>1, CallerIInvBody DEF Resume, CallerState
<1>2. CASE ~failed /\ items # << >> /\ TakeItem
  BY <1>2, TakeItemIInvBody DEF Resume
<1>3. CASE ~failed /\ items = << >> /\ caller' = "ended" /\ UNCHANGED <<items, received>>
  <2>1. isClosed
    BY <1>3 DEF Resume, IInvBody, WokenForAReason
  <2> QED
    BY <1>3, <2>1, CallerIInvBody DEF Resume, CallerState
<1> QED
  BY <1>1, <1>2, <1>3 DEF Resume

LEMMA StartReadingIInvBody ==
    ASSUME IInvBody, StartReading
    PROVE  IInvBody'
BY CallerIInvBody DEF StartReading, CallerState

LEMMA NextIInvBody == IInvBody /\ [Next]_bodyVars => IInvBody'
<1> SUFFICES ASSUME IInvBody, [Next]_bodyVars PROVE IInvBody'
  OBVIOUS
<1>1. CASE Next
  BY <1>1, ArriveIInvBody, AbortFiresIInvBody, RunReaderIInvBody,
     StartReadingIInvBody, CallNextIInvBody, ResumeIInvBody DEF Next
<1>2. CASE UNCHANGED bodyVars
  BY <1>2 DEF bodyVars, IInvBody, TypeOK, InOrder, QueueInOrder, Added,
              AbortsKnown, NoLostWakeup, WokenForAReason
<1> QED
  BY <1>1, <1>2

\* Pieces are numbered through the caller, the iterator and the queued readers,
\* and the flags of the iterator say what they are taken for.
THEOREM BodyInvariance == Spec => []IInvBody
BY InitIInvBody, NextIInvBody, PTL DEF Spec

-----------------------------------------------------------------------------
(* The theorems.                                                           *)

\* A caller that awaits resolveCurrent is never left with something to read,
\* and one that is woken finds an item, an error or the true end.
THEOREM CallerIsWoken == Spec => [](NoLostWakeup /\ WokenForAReason)
<1>1. IInvBody => NoLostWakeup /\ WokenForAReason
  BY DEF IInvBody
<1> QED
  BY <1>1, BodyInvariance, PTL

\* Every step moves the stream of ByteStream on, or leaves it alone.
LEMMA StepKeepsStream ==
    IInvBody /\ [Next]_bodyVars => [Stream!Next]_(Stream!streamVars)
<1> SUFFICES ASSUME IInvBody, [Next]_bodyVars
             PROVE  Stream!Next \/ UNCHANGED Stream!streamVars
  OBVIOUS
<1>1. CASE Arrive \/ StartReading
  BY <1>1 DEF Arrive, StartReading, Stream!streamVars
<1>2. CASE AbortFires
  BY <1>2 DEF AbortFires, Stream!Next, Stream!Cancel
<1>3. CASE RunReader
  BY <1>3 DEF RunReader, ReadAbort, ReadPart, Wake, Stream!streamVars
<1>4. CASE CallNext \/ Resume
  <2>1. /\ UNCHANGED <<total, aborted>> /\ caller \in {"idle", "woken"}
        /\ received \in Seq(1..MaxParts) /\ items \in Seq(1..MaxParts)
        /\ total \in Nat /\ arrived \in Nat /\ arrived <= total
        /\ Len(received) \in Nat /\ Len(items) \in Nat
    BY <1>4 DEF CallNext, Resume, IInvBody, TypeOK
  <2>2. CASE failed /\ caller' = "threw" /\ UNCHANGED <<items, received>>
    BY <2>1, <2>2 DEF IInvBody, Stream!Next, Stream!Fail
  <2>3. CASE items # << >> /\ TakeItem
    <3>1. Len(items) > 0 /\ Len(received') = Len(received) + 1 /\ caller' = "idle"
      BY <2>1, <2>3 DEF TakeItem
    <3>2. Len(received) < total
      BY <2>1, <3>1 DEF IInvBody, Added
    <3> QED
      BY <2>1, <3>1, <3>2 DEF Stream!Next, Stream!Deliver
  <2>4. CASE /\ items = << >> /\ caller' = "ended" /\ UNCHANGED <<items, received>>
             /\ isClosed
    <3>1. Len(received) = total
      BY <2>1, <2>4 DEF IInvBody, Added
    <3> QED
      BY <2>1, <2>4, <3>1 DEF Stream!Next, Stream!End
  <2>5. CASE caller' = "waiting" /\ UNCHANGED <<items, received>>
    BY <2>1, <2>5 DEF Stream!streamVars
  <2> QED
    BY <1>4, <2>2, <2>3, <2>4, <2>5 DEF CallNext, Resume, IInvBody, WokenForAReason
<1>5. CASE UNCHANGED bodyVars
  BY <1>5 DEF bodyVars, Stream!streamVars
<1> QED
  BY <1>1, <1>2, <1>3, <1>4, <1>5 DEF Next

\* A response body is the stream its caller was promised: every piece once and
\* in order, the end only after the last one, an error only after an abort.
THEOREM BodyIsAStream == Spec => KeepsStream
<1>1. Init => Stream!Init
  BY DEF Init, Stream!Init
<1> QED
  BY <1>1, StepKeepsStream, BodyInvariance, PTL DEF Spec, KeepsStream, Stream!Spec

\* broadcastWithAck adds what it does with the pieces and the timeout of
\* Socket.IO, and leaves the body alone.
LEMMA BroadcastReadsBody == [NextAck]_allVars => [Next]_bodyVars
<1> SUFFICES ASSUME [NextAck]_allVars PROVE Next \/ UNCHANGED bodyVars
  OBVIOUS
<1>1. CASE NextAck
  BY <1>1 DEF NextAck, Next, TimesOut
<1>2. CASE UNCHANGED allVars
  BY <1>2 DEF allVars
<1> QED
  BY <1>1, <1>2

\* A broadcast, too, gets every piece of its response once and in order, and
\* counts its clients at the true end only.
THEOREM BroadcastsReadStreams == SpecAck => []IInvBody /\ KeepsStream
<1>1. InitAck => IInvBody /\ Stream!Init
  BY InitIInvBody DEF InitAck, Init, Stream!Init
<1> QED
  BY <1>1, BroadcastReadsBody, NextIInvBody, StepKeepsStream, PTL
  DEF SpecAck, KeepsStream, Stream!Spec

-----------------------------------------------------------------------------
(* The acknowledgements of a broadcast.                                   *)

\* How many lines of three bytes end within the first b bytes.
LEMMA DivThree ==
    ASSUME NEW b \in Nat
    PROVE  b \div 3 \in Nat /\ 3 * (b \div 3) <= b /\ b < 3 * (b \div 3) + 3
OBVIOUS

\* The i-th of the numbers behind a, up to b, is a + i.
LEMMA NthOfInterval ==
    ASSUME NEW a \in Nat, NEW b \in Nat, a <= b,
           NEW S, \A k : k \in S <=> k \in Nat /\ a < k /\ k <= b
    PROVE  /\ Cardinality(S) = b - a
           /\ \A i \in 1..(b - a) : NthOf(S, i) = a + i
<1>1. \A m, n \in Nat : m <= n => Cardinality((m + 1)..n) = n - m
  <2> SUFFICES ASSUME NEW m \in Nat, NEW n \in Nat, m <= n
               PROVE  Cardinality((m + 1)..n) = n - m
    OBVIOUS
  <2>1. Cardinality((m + 1)..n) = IF m + 1 > n THEN 0 ELSE n - (m + 1) + 1
    BY FS_Interval
  <2> QED
    BY <2>1
<1>2. S = (a + 1)..b
  <2>1. \A k : k \in S <=> k \in (a + 1)..b
    OBVIOUS
  <2> QED
    BY <2>1
<1>3. \A k \in S : Cardinality({j \in S : j <= k}) = k - a
  <2> SUFFICES ASSUME NEW k \in S PROVE Cardinality({j \in S : j <= k}) = k - a
    OBVIOUS
  <2>1. {j \in S : j <= k} = (a + 1)..k /\ k \in Nat /\ a <= k
    OBVIOUS
  <2> QED
    BY <1>1, <2>1
<1>4. Cardinality(S) = b - a
  BY <1>1, <1>2
<1>5. ASSUME NEW i \in 1..(b - a)
      PROVE  NthOf(S, i) = a + i
  <2>1. a + i \in S /\ Cardinality({j \in S : j <= a + i}) = i
    <3>1. a + i \in S /\ (a + i) - a = i
      OBVIOUS
    <3> QED
      BY <1>3, <3>1
  <2>2. \A k \in S : Cardinality({j \in S : j <= k}) = i => k = a + i
    <3> SUFFICES ASSUME NEW k \in S, Cardinality({j \in S : j <= k}) = i PROVE k = a + i
      OBVIOUS
    <3>1. k - a = i /\ k \in Nat
      BY <1>3
    <3> QED
      BY <3>1
  <2>3. NthOf(S, i) = CHOOSE k \in S : Cardinality({j \in S : j <= k}) = i
    BY DEF NthOf
  <2> QED
    BY <2>1, <2>2, <2>3
<1> QED
  BY <1>4, <1>5

\* What becomes of the character of a line: it is kept unless a cut went
\* through it.
Shape(k) == IF Torn(k) THEN "half" ELSE "char"

\* What the incomplete line has of it after b bytes.
HeldAt(b) == {<<k, Shape(k)>> : k \in {j \in 1..MaxAcks : 3 * j - 2 <= b /\ b < 3 * j}}

\* The bytes the caller has read.
Handed == bytesTo[Len(received)]

\* The inductive invariant behind EveryAckCounts.
IInvAck ==
    /\ TypeOKAck
    /\ \A i, j \in 0..total : i <= j => bytesTo[i] <= bytesTo[j]
    /\ bytesTo[0] = 0
    /\ Len(responses) = Handed \div 3
    /\ \A i \in DOMAIN responses :
          responses[i].client = i /\ (responses[i].intact <=> ~Torn(i))
    /\ held = HeldAt(Handed)
    /\ app = "answered" => caller = "ended"
    /\ caller = "ended" => app # "waiting"

\* What of a line is in the text of a piece: its end if the piece has it, and
\* its character, in its shape, if the piece has of it or completes the line.
LEMMA TextOf ==
    ASSUME IInvBody, IInvAck, NEW n \in 1..total, n = Len(received) + 1,
           NEW k \in 1..MaxAcks, NEW text, text = held \cup Decoded(n),
           NEW lo, lo = bytesTo[n - 1], NEW hi, hi = bytesTo[n]
    PROVE  /\ <<k, "end">> \in text <=> lo < 3 * k /\ 3 * k <= hi
           /\ <<k, "char">> \in text <=> lo < 3 * k /\ 3 * k - 2 <= hi /\ ~Torn(k)
           /\ <<k, "half">> \in text <=> lo < 3 * k /\ 3 * k - 2 <= hi /\ Torn(k)
<1>1. /\ total \in Nat /\ bytesTo \in [0..total -> 0..3 * MaxAcks] /\ MaxAcks \in Nat
      /\ k \in Nat /\ n \in 0..total /\ n - 1 \in 0..total /\ Len(received) = n - 1
  <2>1. total \in 1..MaxParts /\ MaxParts \in Nat /\ received \in Seq(1..MaxParts)
    BY BodyAssumption DEF IInvBody, TypeOK
  <2>2. Len(received) \in Nat
    BY <2>1, LenProperties
  <2>3. bytesTo \in [0..total -> 0..3 * MaxAcks] /\ MaxAcks \in Nat
    BY AcksAssumption DEF IInvAck, TypeOKAck
  <2> QED
    BY <2>1, <2>2, <2>3
<1>2. lo \in Nat /\ hi \in Nat /\ lo <= hi
  BY <1>1 DEF IInvAck
<1>3. held = HeldAt(lo)
  BY <1>1 DEF IInvAck, Handed
<1>4. /\ <<k, "end">> \notin held
      /\ <<k, "char">> \in held <=> 3 * k - 2 <= lo /\ lo < 3 * k /\ ~Torn(k)
      /\ <<k, "half">> \in held <=> 3 * k - 2 <= lo /\ lo < 3 * k /\ Torn(k)
  BY <1>3 DEF HeldAt, Shape
<1>5. /\ <<k, "end">> \in Decoded(n) <=> lo < 3 * k /\ 3 * k <= hi
      /\ <<k, "char">> \in Decoded(n) <=> lo < 3 * k - 2 /\ 3 * k - 1 <= hi
      /\ <<k, "half">> \in Decoded(n) <=>
            \/ lo < 3 * k - 2 /\ 3 * k - 2 <= hi /\ ~(lo < 3 * k - 1 /\ 3 * k - 1 <= hi)
            \/ lo < 3 * k - 1 /\ 3 * k - 1 <= hi /\ ~(lo < 3 * k - 2 /\ 3 * k - 2 <= hi)
  <2>1. /\ <<k, "end">> \in Units /\ <<k, "char">> \in Units /\ <<k, "half">> \in Units
        /\ (3 * k - 2) + 1 = 3 * k - 1 /\ (3 * k - 2) + 2 = 3 * k
    BY <1>1 DEF Units
  <2>2. <<k, "end">> \in Decoded(n) <=> lo < 3 * k /\ 3 * k <= hi
    BY <1>1, <2>1 DEF Decoded
  <2>3. <<k, "char">> \in Decoded(n) <=> lo < 3 * k - 2 /\ 3 * k - 1 <= hi
    <3>1. <<k, "char">> \in Decoded(n) <=>
             /\ lo < 3 * k - 2 /\ 3 * k - 2 <= hi
             /\ lo < 3 * k - 1 /\ 3 * k - 1 <= hi
      BY <1>1, <2>1 DEF Decoded
    <3> QED
      BY <1>1, <1>2, <3>1
  <2>4. <<k, "half">> \in Decoded(n) <=>
            \/ lo < 3 * k - 2 /\ 3 * k - 2 <= hi /\ ~(lo < 3 * k - 1 /\ 3 * k - 1 <= hi)
            \/ lo < 3 * k - 1 /\ 3 * k - 1 <= hi /\ ~(lo < 3 * k - 2 /\ 3 * k - 2 <= hi)
    BY <1>1, <2>1 DEF Decoded
  <2> QED
    BY <2>2, <2>3, <2>4
<1>6. 3 * k - 2 = lo \/ 3 * k - 2 = hi => Torn(k)
  BY <1>1 DEF Torn
<1>7. lo < 3 * k - 2 /\ 3 * k - 2 < hi => ~Torn(k)
  <2> SUFFICES ASSUME lo < 3 * k - 2, 3 * k - 2 < hi, NEW m \in 0..total,
                      bytesTo[m] = 3 * k - 2
               PROVE  FALSE
    BY <1>1 DEF Torn
  <2>1. m <= n - 1 \/ n <= m
    BY <1>1
  <2>2. m <= n - 1 => bytesTo[m] <= lo
    BY <1>1 DEF IInvAck
  <2>3. n <= m => hi <= bytesTo[m]
    BY <1>1 DEF IInvAck
  <2> QED
    BY <1>1, <1>2, <2>1, <2>2, <2>3
<1>8. /\ (<<k, "end">> \in text) <=> lo < 3 * k /\ 3 * k <= hi
      /\ (<<k, "char">> \in text) <=> (<<k, "char">> \in held \/ <<k, "char">> \in Decoded(n))
      /\ (<<k, "half">> \in text) <=> (<<k, "half">> \in held \/ <<k, "half">> \in Decoded(n))
  BY <1>4, <1>5
<1>9. CASE 3 * k - 2 <= lo
  <2>1. 3 * k - 2 <= hi /\ ~(lo < 3 * k - 2)
    BY <1>1, <1>2, <1>9
  <2>2. <<k, "char">> \notin Decoded(n)
    BY <1>5, <2>1
  <2>3. <<k, "half">> \in Decoded(n) => lo < 3 * k /\ Torn(k)
    <3>1. lo < 3 * k - 1 => lo < 3 * k /\ 3 * k - 2 = lo
      BY <1>1, <1>2, <1>9
    <3> QED
      BY <1>5, <1>6, <2>1, <3>1
  <2> QED
    BY <1>4, <1>8, <1>9, <2>1, <2>2, <2>3
<1>10. CASE lo < 3 * k - 2
  <2>1. lo < 3 * k /\ lo < 3 * k - 1 /\ ~(3 * k - 2 <= lo)
    BY <1>1, <1>2, <1>10
  <2>2. <<k, "char">> \notin held /\ <<k, "half">> \notin held
    BY <1>4, <2>1
  <2>3. <<k, "char">> \in Decoded(n) <=> 3 * k - 2 < hi
    BY <1>1, <1>2, <1>5, <1>10
  <2>4. <<k, "half">> \in Decoded(n) <=> 3 * k - 2 = hi
    <3>1. 3 * k - 2 <= hi /\ ~(3 * k - 1 <= hi) <=> 3 * k - 2 = hi
      BY <1>1, <1>2
    <3>2. 3 * k - 1 <= hi => 3 * k - 2 <= hi
      BY <1>1, <1>2
    <3> QED
      BY <1>5, <1>10, <2>1, <3>1, <3>2
  <2>5. 3 * k - 2 <= hi <=> 3 * k - 2 < hi \/ 3 * k - 2 = hi
    BY <1>1, <1>2
  <2>6. 3 * k - 2 < hi => 3 * k - 2 # hi
    BY <1>1, <1>2
  <2> QED
    BY <1>6, <1>7, <1>8, <1>10, <2>1, <2>2, <2>3, <2>4, <2>5, <2>6
<1> QED
  BY <1>1, <1>2, <1>9, <1>10
\* The acknowledgements of the lines behind the first a, up to b.
NextAcks(new, a, b) ==
    /\ DOMAIN new = 1..(b - a)
    /\ new \in Seq([client : 1..MaxAcks, intact : BOOLEAN])
    /\ \A i \in 1..(b - a) : new[i].client = a + i /\ (new[i].intact <=> ~Torn(a + i))

\* The lines that end in a piece are the next ones, in order.
LEMMA LinesOf ==
    ASSUME IInvBody, IInvAck, NEW n \in 1..total, n = Len(received) + 1,
           NEW text, text = held \cup Decoded(n),
           NEW a \in Nat, 3 * a <= bytesTo[n - 1], bytesTo[n - 1] < 3 * a + 3,
           NEW b \in Nat, 3 * b <= bytesTo[n], bytesTo[n] < 3 * b + 3
    PROVE  a <= b /\ b <= MaxAcks /\ NextAcks(Lines(text), a, b)
<1> DEFINE lo == bytesTo[n - 1]
           hi == bytesTo[n]
           complete == {k \in 1..MaxAcks : <<k, "end">> \in text
                                            /\ {<<k, "char">>, <<k, "half">>} \cap text # {}}
<1>1. /\ lo \in 0..3 * MaxAcks /\ hi \in 0..3 * MaxAcks /\ MaxAcks \in Nat /\ lo <= hi
  <2>1. total \in Nat /\ received \in Seq(1..MaxParts)
    BY BodyAssumption DEF IInvBody, TypeOK
  <2>2. Len(received) = n - 1 /\ n - 1 \in 0..total /\ n \in 0..total /\ n - 1 <= n
    BY <2>1, LenProperties
  <2>3. bytesTo \in [0..total -> 0..3 * MaxAcks] /\ MaxAcks \in Nat
    BY AcksAssumption DEF IInvAck, TypeOKAck
  <2> QED
    BY <2>2, <2>3 DEF IInvAck
<1>13. \A k \in 1..MaxAcks :
         /\ <<k, "end">> \in text <=> lo < 3 * k /\ 3 * k <= hi
         /\ <<k, "char">> \in text <=> lo < 3 * k /\ 3 * k - 2 <= hi /\ ~Torn(k)
         /\ <<k, "half">> \in text <=> lo < 3 * k /\ 3 * k - 2 <= hi /\ Torn(k)
  BY TextOf
<1>2. \A k \in 1..MaxAcks :
        /\ k \in complete <=> lo < 3 * k /\ 3 * k <= hi
        /\ <<k, "char">> \in text <=> lo < 3 * k /\ 3 * k - 2 <= hi /\ ~Torn(k)
  <2> TAKE k \in 1..MaxAcks
  <2>1. /\ <<k, "end">> \in text <=> lo < 3 * k /\ 3 * k <= hi
        /\ <<k, "char">> \in text <=> lo < 3 * k /\ 3 * k - 2 <= hi /\ ~Torn(k)
        /\ <<k, "half">> \in text <=> lo < 3 * k /\ 3 * k - 2 <= hi /\ Torn(k)
    BY <1>13
  <2>2. 3 * k <= hi => 3 * k - 2 <= hi
    BY <1>1
  <2>3. lo < 3 * k /\ 3 * k <= hi => {<<k, "char">>, <<k, "half">>} \cap text # {}
    BY <2>1, <2>2
  <2> QED
    BY <2>1, <2>3
<1>3. 3 * a <= lo /\ lo < 3 * a + 3 /\ 3 * b <= hi /\ hi < 3 * b + 3
  OBVIOUS
<1> HIDE DEF lo, hi
<1>4. a <= b /\ b <= MaxAcks
  BY <1>1, <1>3
<1>5. \A k : k \in complete <=> k \in Nat /\ a < k /\ k <= b
  <2>1. complete \subseteq 1..MaxAcks
    OBVIOUS
  <2>2. \A k \in 1..MaxAcks : lo < 3 * k /\ 3 * k <= hi <=> a < k /\ k <= b
    BY <1>1, <1>3
  <2>3. \A k \in Nat : a < k /\ k <= b => k \in 1..MaxAcks
    BY <1>1, <1>4
  <2> HIDE DEF complete
  <2>4. \A k \in complete : k \in Nat /\ a < k /\ k <= b
    <3> TAKE k \in complete
    <3>1. k \in 1..MaxAcks
      BY <2>1
    <3>2. lo < 3 * k /\ 3 * k <= hi
      BY <1>2, <3>1
    <3> QED
      BY <1>1, <2>2, <3>1, <3>2
  <2>5. \A k \in Nat : a < k /\ k <= b => k \in complete
    BY <1>2, <2>2, <2>3
  <2> QED
    BY <2>4, <2>5
<1>6. Lines(text) = [i \in 1..Cardinality(complete) |->
                        [client |-> NthOf(complete, i),
                         intact |-> <<NthOf(complete, i), "char">> \in text]]
  BY DEF Lines
<1>7. \A k \in complete : <<k, "char">> \in text <=> ~Torn(k)
  <2> TAKE k \in complete
  <2>1. k \in 1..MaxAcks /\ lo < 3 * k /\ 3 * k <= hi
    BY <1>2
  <2>2. <<k, "char">> \in text <=> lo < 3 * k /\ 3 * k - 2 <= hi /\ ~Torn(k)
    BY <1>2, <2>1
  <2>3. 3 * k - 2 <= hi
    BY <1>1, <2>1
  <2> QED
    BY <2>1, <2>2, <2>3
<1> HIDE DEF complete
<1>8. /\ Cardinality(complete) = b - a
      /\ \A i \in 1..(b - a) : NthOf(complete, i) = a + i
  BY <1>3, <1>4, <1>5, NthOfInterval
<1>9. \A i \in 1..(b - a) : a + i \in complete
  BY <1>3, <1>5
<1>10. /\ DOMAIN Lines(text) = 1..(b - a)
       /\ \A i \in 1..(b - a) : /\ Lines(text)[i].client = a + i
                                /\ Lines(text)[i].intact <=> <<a + i, "char">> \in text
                                /\ Lines(text)[i] \in [client : 1..MaxAcks, intact : BOOLEAN]
  <2>1. Lines(text) = [i \in 1..(b - a) |->
                        [client |-> NthOf(complete, i),
                         intact |-> <<NthOf(complete, i), "char">> \in text]]
    BY <1>6, <1>8
  <2>2. DOMAIN Lines(text) = 1..(b - a)
    BY <2>1
  <2>3. ASSUME NEW i \in 1..(b - a)
        PROVE  /\ Lines(text)[i].client = a + i
               /\ Lines(text)[i].intact <=> <<a + i, "char">> \in text
               /\ Lines(text)[i] \in [client : 1..MaxAcks, intact : BOOLEAN]
    <3>1. NthOf(complete, i) = a + i /\ a + i \in 1..MaxAcks
      BY <1>1, <1>4, <1>8
    <3> DEFINE whole == <<a + i, "char">> \in text
    <3>2. Lines(text)[i] = [client |-> a + i, intact |-> whole]
      BY <2>1, <3>1
    <3>3. whole \in BOOLEAN
      OBVIOUS
    <3> HIDE DEF whole
    <3>4. Lines(text)[i].client = a + i
      BY <3>2
    <3>5. Lines(text)[i].intact <=> <<a + i, "char">> \in text
      <4>1. Lines(text)[i].intact = whole
        BY <3>2
      <4> QED
        BY <4>1 DEF whole
    <3>6. Lines(text)[i] \in [client : 1..MaxAcks, intact : BOOLEAN]
      BY <3>1, <3>2, <3>3
    <3> QED
      BY <3>4, <3>5, <3>6
  <2> QED
    BY <2>2, <2>3
<1>12. Lines(text) \in Seq([client : 1..MaxAcks, intact : BOOLEAN])
  <2>1. Lines(text) = [i \in 1..(b - a) |-> Lines(text)[i]]
    BY <1>6, <1>8
  <2> DEFINE all == Lines(text)
             Ack == [client : 1..MaxAcks, intact : BOOLEAN]
  <2>2. all = [i \in 1..(b - a) |-> all[i]]
    BY <2>1
  <2>5. \A i \in 1..(b - a) : all[i] \in Ack
    BY <1>10, Zenon
  <2> SUFFICES all \in Seq(Ack)
    OBVIOUS
  <2> HIDE DEF all, Ack
  <2>3. all \in [1..(b - a) -> Ack]
    BY <2>2, <2>5
  <2>4. b - a \in Nat
    BY <1>4
  <2> QED
    BY <2>3, <2>4, SeqDef
<1>11. \A i \in 1..(b - a) : /\ Lines(text)[i].client = a + i
                             /\ Lines(text)[i].intact <=> ~Torn(a + i)
  <2> TAKE i \in 1..(b - a)
  <2>1. <<a + i, "char">> \in text <=> ~Torn(a + i)
    BY <1>7, <1>9
  <2>2. Lines(text)[i].intact <=> <<a + i, "char">> \in text
    BY <1>10, Zenon
  <2>3. Lines(text)[i].client = a + i
    BY <1>10, Zenon
  <2> QED
    BY <2>1, <2>2, <2>3, Zenon
<1> QED
  <2>1. NextAcks(Lines(text), a, b)
    BY <1>10, <1>11, <1>12, Zenon DEF NextAcks
  <2> QED
    BY <1>4, <2>1

\* What is kept after a piece is what the incomplete line has then.
LEMMA KeptOf ==
    ASSUME IInvBody, IInvAck, NEW n \in 1..total, n = Len(received) + 1,
           NEW text, text = held \cup Decoded(n)
    PROVE  {u \in text : <<u[1], "end">> \notin text} = HeldAt(bytesTo[n])
<1> DEFINE lo == bytesTo[n - 1]
           hi == bytesTo[n]
           kept == {u \in text : <<u[1], "end">> \notin text}
<1>1. /\ lo \in 0..3 * MaxAcks /\ hi \in 0..3 * MaxAcks /\ MaxAcks \in Nat /\ lo <= hi
      /\ text \subseteq Units
  <2>1. total \in Nat /\ received \in Seq(1..MaxParts)
    BY BodyAssumption DEF IInvBody, TypeOK
  <2>2. Len(received) = n - 1 /\ n - 1 \in 0..total /\ n \in 0..total /\ n - 1 <= n
    BY <2>1, LenProperties
  <2>3. bytesTo \in [0..total -> 0..3 * MaxAcks] /\ MaxAcks \in Nat /\ held \subseteq Units
    BY AcksAssumption DEF IInvAck, TypeOKAck
  <2>4. Decoded(n) \subseteq Units
    BY DEF Decoded
  <2> QED
    BY <2>2, <2>3, <2>4 DEF IInvAck
<1>2. \A k \in 1..MaxAcks :
        /\ <<k, "end">> \in text <=> lo < 3 * k /\ 3 * k <= hi
        /\ <<k, "char">> \in text <=> lo < 3 * k /\ 3 * k - 2 <= hi /\ ~Torn(k)
        /\ <<k, "half">> \in text <=> lo < 3 * k /\ 3 * k - 2 <= hi /\ Torn(k)
  BY TextOf
<1> HIDE DEF lo, hi
<1>3. \A k \in 1..MaxAcks : \A c \in {"char", "half", "end"} :
        <<k, c>> \in text /\ <<k, "end">> \notin text
          <=> /\ 3 * k - 2 <= hi /\ hi < 3 * k
              /\ c = Shape(k)
  <2> TAKE k \in 1..MaxAcks
  <2> TAKE c \in {"char", "half", "end"}
  <2>1. /\ 3 * k \in Int /\ lo \in Int /\ hi \in Int
        /\ ~(3 * k <= hi) <=> hi < 3 * k
        /\ hi < 3 * k => lo < 3 * k
    BY <1>1
  <2>2. ~(lo < 3 * k) => ~(hi < 3 * k /\ lo < 3 * k)
    OBVIOUS
  <2>3. CASE c = "end"
    BY <2>3 DEF Shape
  <2>4. CASE c = "char"
    BY <1>2, <2>1, <2>4 DEF Shape
  <2>5. CASE c = "half"
    BY <1>2, <2>1, <2>5 DEF Shape
  <2> QED
    BY <2>3, <2>4, <2>5
<1>4. HeldAt(hi) = {<<k, Shape(k)>> : k \in {j \in 1..MaxAcks : 3 * j - 2 <= hi /\ hi < 3 * j}}
  BY DEF HeldAt
<1>5. ASSUME NEW u \in kept PROVE u \in HeldAt(hi)
  <2>1. PICK k \in 1..MaxAcks, c \in {"char", "half", "end"} : u = <<k, c>>
    BY <1>1 DEF Units
  <2>2. <<k, c>> \in text /\ <<k, "end">> \notin text
    BY <2>1
  <2>3. 3 * k - 2 <= hi /\ hi < 3 * k /\ c = Shape(k)
    BY <1>3, <2>2
  <2> QED
    BY <1>4, <2>1, <2>3
<1>6. ASSUME NEW u \in HeldAt(hi) PROVE u \in kept
  <2>1. PICK k \in 1..MaxAcks : 3 * k - 2 <= hi /\ hi < 3 * k /\ u = <<k, Shape(k)>>
    BY <1>4
  <2>2. Shape(k) \in {"char", "half", "end"}
    BY DEF Shape
  <2>3. <<k, Shape(k)>> \in text /\ <<k, "end">> \notin text
    BY <1>3, <2>1, <2>2
  <2> QED
    BY <2>1, <2>3
<1> QED
  BY <1>5, <1>6 DEF hi

\* A piece is handled: its lines are given to ack, the rest is kept.
LEMMA ChunkIInvAck ==
    ASSUME IInvBody, IInvAck, NEW n \in 1..total, n = Len(received) + 1, HandleChunk(n),
           UNCHANGED <<bytesTo, total>>, Len(received') = n,
           caller # "ended", caller' # "ended"
    PROVE  IInvAck'
<1> DEFINE Ack == [client : 1..MaxAcks, intact : BOOLEAN]
           text == held \cup Decoded(n)
           a == bytesTo[n - 1] \div 3
           b == bytesTo[n] \div 3
           new == Lines(text)
<1>1. /\ responses' = responses \o new /\ app' = app
      /\ held' = {u \in text : <<u[1], "end">> \notin text}
  BY DEF HandleChunk
<1>13. /\ a \in Nat /\ 3 * a <= bytesTo[n - 1] /\ bytesTo[n - 1] < 3 * a + 3
       /\ b \in Nat /\ 3 * b <= bytesTo[n] /\ bytesTo[n] < 3 * b + 3
       /\ a = Len(responses)
  <2>1. total \in Nat /\ received \in Seq(1..MaxParts)
    BY BodyAssumption DEF IInvBody, TypeOK
  <2>2. Len(received) = n - 1 /\ n - 1 \in 0..total /\ n \in 0..total
    BY <2>1, LenProperties
  <2>3. bytesTo[n - 1] \in Nat /\ bytesTo[n] \in Nat
    BY <2>2, AcksAssumption DEF IInvAck, TypeOKAck
  <2>4. a = Len(responses)
    BY <2>2 DEF IInvAck, Handed
  <2> QED
    BY <2>3, <2>4, DivThree
<1> HIDE DEF a, b
<1> HIDE DEF text, Ack
<1>2. /\ a <= b /\ b <= MaxAcks
      /\ DOMAIN new = 1..(b - a) /\ new \in Seq(Ack)
      /\ \A i \in 1..(b - a) : /\ new[i].client = a + i
                               /\ new[i].intact <=> ~Torn(a + i)
  <2>1. text = held \cup Decoded(n)
    BY DEF text
  <2>2. a <= b /\ b <= MaxAcks /\ NextAcks(new, a, b)
    BY <1>13, <2>1, LinesOf
  <2> QED
    BY <2>2, Zenon DEF NextAcks, Ack
<1>3. held' = HeldAt(bytesTo[n])
  BY <1>1, KeptOf DEF text
<1> HIDE DEF new
<1>4. MaxAcks \in Nat /\ responses \in Seq(Ack)
  BY AcksAssumption DEF IInvAck, TypeOKAck, Ack
<1>5. new \in Seq(Ack) /\ Len(new) = b - a
  <2>1. b - a \in Nat
    BY <1>2, <1>13
  <2>2. Len(new) \in Nat /\ DOMAIN new = 1..Len(new)
    BY <1>2, LenProperties
  <2> QED
    BY <1>2, <2>1, <2>2
<1>6. /\ responses' \in Seq(Ack) /\ Len(responses') = b
      /\ \A i \in 1..b : responses'[i] = IF i <= a THEN responses[i] ELSE new[i - a]
  <2>1. /\ responses \o new \in Seq(Ack) /\ Len(responses \o new) = Len(responses) + Len(new)
        /\ \A i \in 1..(Len(responses) + Len(new)) :
             (responses \o new)[i] = IF i <= Len(responses) THEN responses[i]
                                     ELSE new[i - Len(responses)]
    BY <1>4, <1>5, ConcatProperties
  <2>2. Len(responses) + Len(new) = b
    BY <1>2, <1>5, <1>13
  <2> QED
    BY <1>1, <1>13, <2>1, <2>2
<1>7. \A i \in DOMAIN responses' :
        responses'[i].client = i /\ (responses'[i].intact <=> ~Torn(i))
  <2>1. DOMAIN responses' = 1..b /\ DOMAIN responses = 1..a
    BY <1>4, <1>6, <1>13, LenProperties
  <2> SUFFICES ASSUME NEW i \in 1..b
               PROVE  responses'[i].client = i /\ (responses'[i].intact <=> ~Torn(i))
    BY <2>1
  <2>2. CASE i <= a
    <3>1. i \in DOMAIN responses
      BY <1>13, <2>1, <2>2
    <3>2. responses'[i] = responses[i]
      BY <1>6, <2>2
    <3> QED
      BY <3>1, <3>2, Zenon DEF IInvAck
  <2>3. CASE ~(i <= a)
    <3>1. i - a \in 1..(b - a) /\ a + (i - a) = i
      BY <1>13, <2>3
    <3>2. responses'[i] = new[i - a]
      BY <1>6, <2>3
    <3>3. new[i - a].client = a + (i - a) /\ (new[i - a].intact <=> ~Torn(a + (i - a)))
      BY <1>2, <3>1, Zenon
    <3> QED
      BY <3>1, <3>2, <3>3, Zenon
  <2> QED
    BY <2>2, <2>3
<1>8. Handed' = bytesTo[n] /\ b = bytesTo[n] \div 3
  BY DEF Handed, b
<1>9. HeldAt(bytesTo[n])' = HeldAt(bytesTo[n]) /\ \A i : Torn(i)' = Torn(i)
  BY DEF HeldAt, Shape, Torn
<1>10. HeldAt(Handed)' = HeldAt(bytesTo[n])
  BY <1>8, <1>9 DEF HeldAt, Shape, Torn
<1>11. TypeOKAck'
  <2>1. held' \subseteq Units
    <3>1. text \subseteq Units
      BY DEF text, Decoded, IInvAck, TypeOKAck
    <3> QED
      BY <1>1, <3>1
  <2> QED
    BY <1>1, <1>6, <2>1 DEF IInvAck, TypeOKAck, Ack
<1>12. app' # "answered"
  BY <1>1 DEF IInvAck
<1> QED
  BY <1>3, <1>6, <1>7, <1>8, <1>9, <1>10, <1>11, <1>12 DEF IInvAck

\* Whatever neither reads a piece nor ends the body.
LEMMA SameIInvAck ==
    ASSUME IInvAck, UNCHANGED <<bytesTo, total, received, held, responses>>,
           app' \in {"waiting", "answered", "timedout"},
           app' = "answered" => caller' = "ended",
           caller' = "ended" => app' # "waiting"
    PROVE  IInvAck'
<1>1. TypeOKAck'
  BY DEF IInvAck, TypeOKAck
<1>2. HeldAt(Handed)' = HeldAt(Handed) /\ Handed' = Handed
  BY DEF HeldAt, Handed, Shape, Torn
<1>3. \A i : Torn(i)' = Torn(i)
  BY DEF Torn
<1> QED
  BY <1>1, <1>2, <1>3 DEF IInvAck

\* At first nothing is read and nothing kept.
LEMMA InitIInvAck == InitAck => IInvAck
<1> SUFFICES ASSUME InitAck PROVE IInvAck
  OBVIOUS
<1>1. /\ MaxAcks \in Nat /\ total \in 1..MaxParts /\ MaxParts \in Nat
      /\ received = << >> /\ caller = "away"
      /\ held = {} /\ responses = << >> /\ app = "waiting"
  BY AcksAssumption, BodyAssumption DEF InitAck, Init
<1>2. PICK n \in 0..MaxAcks :
        bytesTo \in {f \in [0..total -> 0..3 * n] :
                       /\ f[0] = 0 /\ f[total] = 3 * n
                       /\ \A i, j \in 0..total : i <= j => f[i] <= f[j]}
  BY DEF InitAck
<1>3. /\ bytesTo \in [0..total -> 0..3 * MaxAcks] /\ bytesTo[0] = 0
      /\ \A i, j \in 0..total : i <= j => bytesTo[i] <= bytesTo[j]
  <2>1. 0..3 * n \subseteq 0..3 * MaxAcks
    BY <1>1
  <2> QED
    BY <1>2, <2>1
<1>4. Handed = 0
  BY <1>1, <1>3, EmptySeq DEF Handed
<1>5. HeldAt(0) = {}
  BY <1>1 DEF HeldAt
<1>6. Len(responses) = 0 /\ DOMAIN responses = {} /\ 0 \div 3 = 0
  BY <1>1
<1>7. TypeOKAck
  BY <1>1, <1>3 DEF TypeOKAck
<1> QED
  BY <1>1, <1>3, <1>4, <1>5, <1>6, <1>7 DEF IInvAck

\* The caller reads a piece, or it does not.
LEMMA ReadsPiece ==
    ASSUME IInvBody, CallNext \/ Resume
    PROVE  /\ caller # "ended" /\ total' = total
           /\ received' = received
              \/ /\ Len(received) + 1 \in 1..total
                 /\ Last(received') = Len(received) + 1
                 /\ Len(received') = Len(received) + 1
                 /\ received' # received /\ caller' = "idle"
<1>1. /\ total \in Nat /\ arrived \in Nat /\ arrived <= total
      /\ received \in Seq(1..MaxParts) /\ items \in Seq(1..MaxParts)
      /\ Len(received) \in Nat /\ Len(items) \in Nat
      /\ Len(received) + Len(items) <= arrived
  BY BodyAssumption, LenProperties DEF IInvBody, TypeOK, Added
<1>2. caller \in {"idle", "woken"} /\ total' = total
  BY DEF CallNext, Resume
<1>3. CASE items # << >> /\ TakeItem
  <2>1. Len(items) > 0 /\ Head(items) = items[1]
    BY <1>1, <1>3
  <2>2. items[1] = Len(received) + 1
    BY <1>1, <2>1 DEF IInvBody, InOrder
  <2>3. received' = Append(received, Len(received) + 1) /\ caller' = "idle"
    BY <1>3, <2>1, <2>2 DEF TakeItem
  <2>4. Len(received) + 1 \in 1..total
    BY <1>1, <2>1
  <2>5. Len(received') = Len(received) + 1 /\ received'[Len(received) + 1] = Len(received) + 1
    BY <1>1, <2>3
  <2>6. received' # received
    BY <1>1, <2>5
  <2> QED
    BY <1>2, <2>3, <2>4, <2>5, <2>6 DEF Last
<1>4. CASE received' = received
  BY <1>2, <1>4
<1> QED
  BY <1>3, <1>4 DEF CallNext, Resume

\* The invariant is kept by every step.
LEMMA StepIInvAck == IInvBody /\ IInvAck /\ [NextAck]_allVars => IInvAck'
<1> SUFFICES ASSUME IInvBody, IInvAck, [NextAck]_allVars PROVE IInvAck'
  OBVIOUS
<1>1. /\ app \in {"waiting", "answered", "timedout"}
      /\ app = "answered" => caller = "ended"
      /\ caller = "ended" => app # "waiting"
  BY DEF IInvAck, TypeOKAck
<1>2. ASSUME Arrive \/ AbortFires \/ RunReader \/ StartReading, UNCHANGED ackVars
      PROVE  IInvAck'
  <2>1. /\ UNCHANGED <<bytesTo, total, received, held, responses, app>>
        /\ caller' = "ended" <=> caller = "ended"
    BY <1>2 DEF Arrive, AbortFires, RunReader, ReadPart, ReadAbort, Wake, StartReading, ackVars
  <2> QED
    BY <1>1, <2>1, SameIInvAck
<1>3. ASSUME CallNext \/ Resume, BodyHandler PROVE IInvAck'
  <2>1. /\ caller # "ended" /\ total' = total /\ bytesTo' = bytesTo
        /\ received' = received
           \/ /\ Len(received) + 1 \in 1..total
              /\ Last(received') = Len(received) + 1
              /\ Len(received') = Len(received) + 1
              /\ received' # received /\ caller' = "idle"
    BY <1>3, ReadsPiece DEF BodyHandler
  <2>2. CASE received' # received
    <3>1. HandleChunk(Len(received) + 1)
      BY <1>3, <2>1, <2>2 DEF BodyHandler
    <3> QED
      BY <2>1, <2>2, <3>1, ChunkIInvAck
  <2>3. CASE received' = received /\ caller' = "ended"
    <3>1. /\ app' = IF app = "waiting" THEN "answered" ELSE app
          /\ UNCHANGED <<held, responses>>
      BY <1>3, <2>3 DEF BodyHandler, CountClients
    <3>2. app' \in {"waiting", "answered", "timedout"} /\ app' # "waiting"
      BY <1>1, <3>1
    <3> QED
      BY <2>1, <2>3, <3>1, <3>2, SameIInvAck
  <2>4. CASE received' = received /\ caller' # "ended"
    <3>1. UNCHANGED <<held, responses, app>>
      BY <1>3, <2>4 DEF BodyHandler
    <3> QED
      BY <1>1, <2>1, <2>4, <3>1, SameIInvAck
  <2> QED
    BY <2>2, <2>3, <2>4
<1>4. ASSUME TimesOut PROVE IInvAck'
  <2>1. /\ UNCHANGED <<bytesTo, total, received, held, responses, caller>>
        /\ app' = "timedout"
    BY <1>4 DEF TimesOut, bodyVars
  <2> QED
    BY <1>1, <2>1, SameIInvAck
<1>5. ASSUME UNCHANGED allVars PROVE IInvAck'
  <2>1. UNCHANGED <<bytesTo, total, received, held, responses, caller, app>>
    BY <1>5 DEF allVars, bodyVars, ackVars
  <2> QED
    BY <1>1, <2>1, SameIInvAck
<1> QED
  BY <1>2, <1>3, <1>4, <1>5 DEF NextAck

\* EveryAckCounts: however the response of broadcastWithAck is cut into pieces
\* and whenever Socket.IO gives up, every client's acknowledgement is handed
\* over once, in order, and whole unless a cut went through its character; an
\* application that is answered has them all.
THEOREM AcksAreCounted == SpecAck => []EveryAckCounts
<1> DEFINE IInv == IInvBody /\ IInvAck
<1>1. InitAck => IInv
  BY InitIInvBody, InitIInvAck DEF InitAck
<1>2. IInv /\ [NextAck]_allVars => IInv'
  BY BroadcastReadsBody, NextIInvBody, StepIInvAck
<1>3. IInv => EveryAckCounts
  <2> SUFFICES ASSUME IInv PROVE EveryAckCounts
    OBVIOUS
  <2>1. \A i \in DOMAIN responses :
          responses[i].client = i /\ (responses[i].intact <=> ~Torn(i))
    BY DEF IInvAck
  <2>2. caller = "ended" => Len(responses) = Acks
    <3> HAVE caller = "ended"
    <3>1. Added = total /\ items = << >> /\ received \in Seq(1..MaxParts)
      BY DEF IInvBody, TypeOK
    <3>2. Len(received) = total
      BY <3>1, EmptySeq, LenProperties DEF Added
    <3> QED
      BY <3>2 DEF IInvAck, Handed, Acks
  <2> QED
    BY <2>1, <2>2 DEF IInvAck, EveryAckCounts
<1> QED
  BY <1>1, <1>2, <1>3, PTL DEF SpecAck
=============================================================================
