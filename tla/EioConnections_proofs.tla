----------------------- MODULE EioConnections_proofs -----------------------
(***************************************************************************)
(* Proofs about EioConnections, for any number of connections and lines:   *)
(* the invariant IInvConn is inductive, and with it an accepted connection *)
(* is served, ids stay with their connections, what is known is owed to an *)
(* event, and error events are for refused connections.  That a connect    *)
(* event is answered in the end is left to TLC.                            *)
(***************************************************************************)
EXTENDS EioConnections, TLAPS

\* What IInvConn says of one connection.
Live(c) ==
    c \in known /\ peer[c] = "gone" =>
        \/ stage[<<c, "connect">>] = "lost"
        \/ stage[<<c, "disconnected">>] \in {"sent", "lost"}
Own(c) == Events(c) /\ Untouched(c) /\ Agreement(c) /\ Live(c) /\ sid[c] \subseteq {c}

Parts == TypeOK /\ candidates = << >> /\ \A c \in Conn : Own(c)

LEMMA PartsOfIInv == IInvConn <=> Parts
<1>1. TypeOK => (KnownMeansLive <=> \A c \in Conn : Live(c))
  BY DEF TypeOK, KnownMeansLive, Live
<1> QED
  BY <1>1 DEF IInvConn, Parts, Own, OwnSid

LEMMA PartsInit == Init => Parts
<1> SUFFICES ASSUME Init PROVE Parts
  OBVIOUS
<1> USE ConnectionAssumption, RequestAssumption
<1>1. TypeOKRequests
  BY DEF Init, InitRequests, TypeOKRequests, Stage
<1>2. TypeOK
  <2>1. candidates \in Seq(Conn)
    BY DEF Init
  <2>2. /\ sid \in [Conn -> SUBSET Conn] /\ shake \in [Conn -> Shake] /\ errors \in [Conn -> Nat]
        /\ peer \in [Conn -> {"new", "connecting", "connected", "gone"}]
    BY DEF Init, Shake
  <2>3. {known, clients, bound, responded, timers, opening, ended} \subseteq SUBSET Conn
    BY DEF Init
  <2> QED
    BY <1>1, <2>1, <2>2, <2>3 DEF Init, TypeOK
<1>3. ASSUME NEW c \in Conn PROVE Own(c)
  <2>1. \A e \in Event : stage[<<c, e>>] = "none" /\ answer[<<c, e>>] = NoAnswer
    BY DEF Init, InitRequests
  <2> QED
    BY <2>1 DEF Init, Own, Events, Untouched, Agreement, Live, Event
<1> QED
  BY <1>2, <1>3 DEF Parts, Init

-----------------------------------------------------------------------------
(* Frames.                                                                 *)

\* The manager and Engine.IO see the same of a connection as before.
Unmoved(c) ==
    /\ (c \in known' <=> c \in known) /\ (c \in clients' <=> c \in clients)
    /\ (c \in bound' <=> c \in bound) /\ (c \in responded' <=> c \in responded)
    /\ (c \in timers' <=> c \in timers) /\ (c \in opening' <=> c \in opening)
    /\ (c \in ended' <=> c \in ended)
    /\ sid'[c] = sid[c] /\ shake'[c] = shake[c] /\ errors'[c] = errors[c]
    /\ answer'[<<c, "connect">>] = answer[<<c, "connect">>]
\* So does the service.
SameEvents(c) == peer'[c] = peer[c] /\ \A e \in Event : stage'[<<c, e>>] = stage[<<c, e>>]

LEMMA SameConnection ==
  ASSUME NEW c \in Conn, Own(c), Unmoved(c), SameEvents(c)
  PROVE  Own(c)'
<1>1. Events(c)'
  BY DEF Own, Unmoved, SameEvents, Events, Event
<1>2. Untouched(c)'
  BY DEF Own, Unmoved, Untouched
<1>3. Agreement(c)'
  BY DEF Own, Unmoved, SameEvents, Agreement
<1>4. Live(c)' /\ (sid[c] \subseteq {c})'
  BY DEF Own, Unmoved, SameEvents, Live, Event
<1> QED
  BY <1>1, <1>2, <1>3, <1>4 DEF Own

LEMMA Split ==
  ASSUME Parts, NEW c \in Conn, TypeOK', candidates' = << >>, Own(c)',
         \A d \in Conn \ {c} : Unmoved(d) /\ SameEvents(d)
  PROVE  Parts'
BY SameConnection DEF Parts

\* Only the stages and the service's view change.
LEMMA Managed ==
  ASSUME TypeOK, TypeOKRequests', UNCHANGED <<managerVars>>, closed' \in BOOLEAN,
         peer' \in [Conn -> {"new", "connecting", "connected", "gone"}]
  PROVE  TypeOK' /\ candidates' = candidates
BY DEF TypeOK, managerVars

LEMMA RequestIds ==
  ASSUME NEW c \in Conn, NEW e \in Event
  PROVE  <<c, e>> \in Request
BY ConnectionAssumption

\* The pairs of different connections or events are different.
LEMMA Pairs ==
  ASSUME NEW c \in Conn, NEW d \in Conn, NEW e, NEW f, <<c, e>> = <<d, f>>
  PROVE  c = d /\ e = f
OBVIOUS

-----------------------------------------------------------------------------
(* Requests.                                                               *)

LEMMA SendTypes ==
  ASSUME TypeOKRequests, NEW r \in Request, Send(r)
  PROVE  /\ TypeOKRequests' /\ answer' = answer
         /\ stage[r] = "none" /\ stage'[r] \in {"sent", "lost"}
         /\ \A q \in Request \ {r} : stage'[q] = stage[q]
BY DEF Send, TypeOKRequests, Stage

LEMMA ReplyTypes ==
  ASSUME TypeOKRequests, NEW r \in Request, Reply(r) \/ Read(r)
  PROVE  /\ TypeOKRequests' /\ answer' = answer
         /\ \/ stage[r] = "handling" /\ answer[r] # NoAnswer /\ stage'[r] \in {"replied", "lost"}
            \/ stage[r] = "replied" /\ stage'[r] = "known"
         /\ \A q \in Request \ {r} : stage'[q] = stage[q]
<1>1. CASE Reply(r)
  BY <1>1 DEF Reply, Over, TypeOKRequests, Stage
<1>2. CASE Read(r)
  BY <1>2 DEF Read, Over, TypeOKRequests, Stage
<1> QED
  BY <1>1, <1>2

LEMMA CutTypes ==
  ASSUME TypeOKRequests, NEW L \in SUBSET Line, CutLines(L)
  PROVE  /\ TypeOKRequests' /\ answer' = answer
         /\ \A q \in Request : \/ stage'[q] = stage[q]
                               \/ stage[q] \in {"sent", "replied"} /\ stage'[q] = "lost"
<1>1. stage' \in [Request -> Stage] /\ on' \in [Request -> Line \cup {NoLine}]
  BY DEF TypeOKRequests, CutLines, Stage
<1> QED
  BY <1>1 DEF CutLines, TypeOKRequests

LEMMA ArriveTypes ==
  ASSUME TypeOKRequests, NEW r \in Request, Arrive(r),
         answer' \in [Request -> Status \cup {NoAnswer}]
  PROVE  /\ TypeOKRequests'
         /\ stage[r] = "sent" /\ stage'[r] = "handling"
         /\ \A q \in Request \ {r} : stage'[q] = stage[q]
BY DEF Arrive, TypeOKRequests, Stage

\* The connect events of C are answered, the others are not.
LEMMA AnswerTypes ==
  ASSUME TypeOKRequests, NEW C \in SUBSET Conn, NEW s \in Status, AnswerConnect(C, s)
  PROVE  /\ answer' \in [Request -> Status \cup {NoAnswer}]
         /\ \A c \in Conn : answer'[<<c, "connect">>] =
               IF c \in C /\ answer[<<c, "connect">>] = NoAnswer THEN s ELSE answer[<<c, "connect">>]
<1> USE ConnectionAssumption
<1>1. \A r \in Request : answer'[r] = IF r \in C \X {"connect"} /\ answer[r] = NoAnswer THEN s ELSE answer[r]
  <2> SUFFICES ASSUME NEW r \in Request
               PROVE  answer'[r] = IF r \in C \X {"connect"} /\ answer[r] = NoAnswer THEN s ELSE answer[r]
    OBVIOUS
  <2>1. Answered(answer, r, s)[r] = IF answer[r] = NoAnswer THEN s ELSE answer[r]
    BY DEF Answered, TypeOKRequests
  <2> QED
    BY <2>1 DEF AnswerConnect
<1>2. answer' \in [Request -> Status \cup {NoAnswer}]
  <2>1. DOMAIN answer' = Request /\ answer' = [r \in Request |-> answer'[r]]
    BY DEF AnswerConnect
  <2>2. \A r \in Request : answer'[r] \in Status \cup {NoAnswer}
    BY <1>1 DEF TypeOKRequests
  <2> QED
    BY <2>1, <2>2
<1>3. \A c \in Conn : <<c, "connect">> \in Request /\ (<<c, "connect">> \in C \X {"connect"} <=> c \in C)
  BY DEF Event
<1> QED
  BY <1>1, <1>2, <1>3

LEMMA AnswerOne ==
  ASSUME TypeOKRequests, NEW c \in Conn, NEW s \in Status, AnswerConnect({c}, s)
  PROVE  /\ answer' \in [Request -> Status \cup {NoAnswer}]
         /\ \A d \in Conn : answer'[<<d, "connect">>] =
               IF d = c /\ answer[<<d, "connect">>] = NoAnswer THEN s ELSE answer[<<d, "connect">>]
<1>1. {c} \in SUBSET Conn
  OBVIOUS
<1>2. /\ answer' \in [Request -> Status \cup {NoAnswer}]
      /\ \A d \in Conn : answer'[<<d, "connect">>] =
            IF d \in {c} /\ answer[<<d, "connect">>] = NoAnswer THEN s ELSE answer[<<d, "connect">>]
  BY <1>1, AnswerTypes
<1> QED
  BY <1>2

-----------------------------------------------------------------------------
(* The service and the lines.                                              *)

LEMMA ServicePart ==
  ASSUME Parts, NEW c \in Conn, ServiceStep(c)
  PROVE  Parts'
<1> USE DEF Parts
<1>1. UNCHANGED <<managerVars, closed>> /\ Own(c) /\ TypeOK /\ TypeOKRequests
  BY DEF ServiceStep, ClientArrives, ConnectEnds, ClientSends, ClientLeaves, TypeOK
<1>2. /\ <<c, "connect">> \in Request /\ <<c, "message">> \in Request /\ <<c, "disconnected">> \in Request
      /\ \A d \in Conn \ {c}, e, f \in Event : <<d, e>> \in Request /\ <<d, e>> # <<c, f>>
  BY ConnectionAssumption DEF Event
<1>3. /\ TypeOKRequests' /\ answer' = answer
      /\ peer' \in [Conn -> {"new", "connecting", "connected", "gone"}]
      /\ \A d \in Conn \ {c} : SameEvents(d)
  <2>1. CASE ConnectEnds(c)
    BY <1>1, <1>2, <2>1 DEF ConnectEnds, TypeOK, TypeOKRequests, requestVars, SameEvents
  <2>2. CASE ClientArrives(c)
    BY <1>1, <1>2, <2>2, SendTypes DEF ClientArrives, TypeOK, SameEvents, Event
  <2>3. CASE ClientSends(c)
    BY <1>1, <1>2, <2>3, SendTypes DEF ClientSends, TypeOK, SameEvents, Event
  <2>4. CASE ClientLeaves(c)
    BY <1>1, <1>2, <2>4, SendTypes DEF ClientLeaves, TypeOK, SameEvents, Event
  <2> QED
    BY <2>1, <2>2, <2>3, <2>4 DEF ServiceStep
<1>4. TypeOK' /\ candidates' = << >>
  BY <1>1, <1>3, Managed DEF TypeOK
<1>5. \A d \in Conn : Unmoved(d)
  BY <1>1, <1>3 DEF Unmoved, managerVars
<1>6. Own(c)'
  <2>1. Untouched(c)' /\ (sid[c] \subseteq {c})'
    BY <1>1, <1>5 DEF Own, Untouched, Unmoved
  <2>2. CASE ClientArrives(c)
    <3>1. /\ peer[c] = "new" /\ peer'[c] = "connecting" /\ stage'[<<c, "connect">>] \in {"sent", "lost"}
          /\ stage[<<c, "connect">>] = "none"
          /\ stage'[<<c, "disconnected">>] = stage[<<c, "disconnected">>]
      BY <1>1, <1>2, <2>2, SendTypes DEF ClientArrives, TypeOK
    <3>2. Events(c)' /\ Live(c)'
      BY <1>1, <1>5, <3>1 DEF Own, Events, Event, Live, Unmoved, Untouched
    <3>3. Agreement(c)'
      BY <1>1, <1>5, <3>1 DEF Own, Agreement, Unmoved
    <3> QED
      BY <2>1, <3>2, <3>3 DEF Own
  <2>3. CASE ConnectEnds(c)
    <3>1. /\ peer[c] = "connecting" /\ UNCHANGED stage /\ stage[<<c, "connect">>] \in {"known", "lost"}
          /\ peer'[c] = IF stage[<<c, "connect">>] = "known" /\ answer[<<c, "connect">>] = "ok"
                          THEN "connected" ELSE "gone"
      BY <2>3 DEF ConnectEnds, requestVars, TypeOK
    <3>2. Events(c)'
      BY <1>1, <1>3, <3>1 DEF Own, Events, Event
    <3>3. answer[<<c, "connect">>] \in {"ok", "refused", "failed", NoAnswer}
      BY <1>1, <1>2, ConnectionAssumption DEF TypeOKRequests
    <3>4. Live(c)'
      BY <1>1, <1>5, <3>1, <3>3 DEF Own, Events, Live, Agreement, Unmoved
    <3>5. Agreement(c)'
      BY <1>1, <1>5, <3>1 DEF Own, Agreement, Unmoved
    <3> QED
      BY <2>1, <3>2, <3>4, <3>5 DEF Own
  <2>4. CASE ClientSends(c)
    <3>1. /\ peer[c] = "connected" /\ peer'[c] = "connected"
          /\ \A e \in {"connect", "disconnected"} : stage'[<<c, e>>] = stage[<<c, e>>]
      BY <1>1, <1>2, <2>4, SendTypes DEF ClientSends
    <3>2. Events(c)' /\ Live(c)'
      BY <1>1, <1>5, <3>1 DEF Own, Events, Event, Live, Unmoved
    <3>3. Agreement(c)'
      BY <1>1, <1>5, <3>1 DEF Own, Agreement, Unmoved
    <3> QED
      BY <2>1, <3>2, <3>3 DEF Own
  <2>5. CASE ClientLeaves(c)
    <3>1. /\ peer[c] = "connected" /\ peer'[c] = "gone"
          /\ stage'[<<c, "disconnected">>] \in {"sent", "lost"}
          /\ stage'[<<c, "connect">>] = stage[<<c, "connect">>]
      BY <1>1, <1>2, <2>5, SendTypes DEF ClientLeaves, TypeOK
    <3>2. Events(c)' /\ Live(c)'
      BY <1>1, <1>5, <3>1 DEF Own, Events, Event, Live, Unmoved
    <3>3. Agreement(c)'
      BY <1>1, <1>5, <3>1 DEF Own, Agreement, Unmoved
    <3> QED
      BY <2>1, <3>2, <3>3 DEF Own
  <2> QED
    BY <2>2, <2>3, <2>4, <2>5 DEF ServiceStep
<1> QED
  BY <1>3, <1>4, <1>5, <1>6, Split

\* Stages go on as replies and cuts make them go on.
LEMMA StagePart ==
  ASSUME Parts, TypeOKRequests', answer' = answer, UNCHANGED <<peer, managerVars>>, closed' \in BOOLEAN,
         \A c \in Conn, e \in Event : LET r == <<c, e>> IN
            \/ stage'[r] = stage[r]
            \/ stage[r] = "handling" /\ answer[r] # NoAnswer /\ stage'[r] \in {"replied", "lost"}
            \/ stage[r] = "replied" /\ stage'[r] = "known"
            \/ stage[r] \in {"sent", "replied"} /\ stage'[r] = "lost"
  PROVE  Parts'
<1> USE DEF Parts
<1>1. TypeOK' /\ candidates' = << >>
  BY Managed DEF TypeOK
<1>2. \A d \in Conn : Unmoved(d)
  BY DEF Unmoved, managerVars
<1>3. ASSUME NEW c \in Conn PROVE Own(c)'
  <2>1. Untouched(c)' /\ (sid[c] \subseteq {c})'
    BY <1>2 DEF Own, Untouched, Unmoved
  <2>2. Agreement(c)'
    BY <1>2 DEF Own, Agreement, Unmoved
  <2>3. Events(c)'
    BY <1>2 DEF Own, Events, Event, Unmoved
  <2>4. Live(c)'
    BY <1>2 DEF Own, Live, Event, Unmoved
  <2> QED
    BY <2>1, <2>2, <2>3, <2>4 DEF Own
<1> QED
  BY <1>1, <1>3

LEMMA LinesPart ==
  ASSUME Parts, (\E r \in Request : Replies(r)) \/ (\E l \in Line : Cut(l)) \/ StopTunnel
  PROVE  Parts'
<1> USE DEF Parts
<1>1. \A c \in Conn, e \in Event : <<c, e>> \in Request
  BY ConnectionAssumption
<1>2. ASSUME NEW r \in Request, Replies(r) PROVE Parts'
  <2>1. UNCHANGED <<peer, managerVars, closed>> /\ closed' \in BOOLEAN
    BY <1>2 DEF Replies, TypeOK
  <2> QED
    BY <1>1, <1>2, <2>1, ReplyTypes, StagePart DEF Replies, TypeOK
<1>3. ASSUME NEW L \in SUBSET Line, CutLines(L), UNCHANGED <<peer, managerVars, closed>> PROVE Parts'
  BY <1>1, <1>3, CutTypes, StagePart DEF TypeOK
<1>4. ASSUME NEW l \in Line, Cut(l) PROVE Parts'
  BY <1>3, <1>4 DEF Cut
<1>5. CASE StopTunnel
  BY <1>3, <1>5 DEF StopTunnel
<1> QED
  BY <1>2, <1>4, <1>5

-----------------------------------------------------------------------------
(* The connect event.                                                      *)

\* The types that actions of the manager keep.
Typed ==
    /\ TypeOKRequests' /\ peer' \in [Conn -> {"new", "connecting", "connected", "gone"}]
    /\ {known', clients', bound', responded', timers', opening', ended'} \subseteq SUBSET Conn
    /\ sid' \in [Conn -> SUBSET Conn] /\ shake' \in [Conn -> Shake]
    /\ errors' \in [Conn -> Nat] /\ closed' \in BOOLEAN

LEMMA TypedOK ==
  ASSUME Typed, candidates' = << >>
  PROVE  TypeOK'
<1>1. << >> \in Seq(Conn)
  OBVIOUS
<1> QED
  BY <1>1 DEF Typed, TypeOK

\* A cleanup that finds nothing in the queue.
LEMMA CleanupStep ==
  ASSUME TypeOK, NEW C \in SUBSET Conn, Cleanup(C, << >>)
  PROVE  /\ known' = known \ C /\ candidates' = << >>
         /\ errors' \in [Conn -> Nat]
         /\ \A c \in Conn : errors'[c] = IF c \in C THEN errors[c] + 1 ELSE errors[c]
BY DEF Cleanup, TypeOK

LEMMA OneCandidate ==
  ASSUME NEW c \in Conn
  PROVE  LET q == Append(<< >>, c) IN
         q # << >> /\ q[Len(q)] = c /\ Head(q) = c /\ Tail(q) = << >>
OBVIOUS

LEMMA ConnectPart ==
  ASSUME Parts, NEW c \in Conn, Connect(c)
  PROVE  Parts'
<1> USE DEF Parts
<1> DEFINE r == <<c, "connect">>
<1>1. TypeOK /\ TypeOKRequests /\ Own(c) /\ r \in Request
  BY ConnectionAssumption DEF TypeOK, Event
<1>2. /\ TypeOKRequests' /\ answer' = answer /\ stage[r] = "sent" /\ stage'[r] = "handling"
      /\ \A q \in Request \ {r} : stage'[q] = stage[q]
  BY <1>1, ArriveTypes DEF Connect, TypeOKRequests
<1>3. \A d \in Conn, e \in Event : <<d, e>> \in Request /\ (<<d, e>> = r => d = c /\ e = "connect")
  BY ConnectionAssumption
<1>4. candidates' = << >> /\ sid' = [sid EXCEPT ![c] = {c}]
  BY <1>1, OneCandidate DEF Connect
<1>5. Typed
  BY <1>1, <1>2, <1>4 DEF Connect, TypeOK, Typed, Shake
<1>6. \A d \in Conn \ {c} : Unmoved(d) /\ SameEvents(d)
  BY <1>1, <1>2, <1>3, <1>4 DEF Connect, Unmoved, SameEvents, TypeOK, Event
<1>7. Own(c)'
  <2>1. /\ shake[c] = "none" /\ shake'[c] = "shaking" /\ c \in known' /\ sid'[c] = {c}
        /\ c \notin known \cup clients \cup opening \cup bound \cup responded \cup timers \cup ended
        /\ answer'[r] = NoAnswer /\ errors'[c] = 0 /\ peer'[c] = peer[c]
        /\ UNCHANGED <<clients, opening, bound, responded, ended>>
    BY <1>1, <1>2, <1>4 DEF Connect, Own, Events, Untouched, TypeOK
  <2>2. \A e \in Event \ {"connect"} : stage'[<<c, e>>] = stage[<<c, e>>]
    BY <1>2, <1>3
  <2>3. Events(c)'
    BY <1>1, <1>2, <2>1, <2>2 DEF Own, Events, Event
  <2>4. Untouched(c)' /\ (sid[c] \subseteq {c})'
    BY <2>1 DEF Untouched
  <2>5. Agreement(c)'
    BY <2>1, RequestAssumption, ConnectionAssumption DEF Agreement
  <2>6. Live(c)'
    BY <1>1, <1>2, <2>1 DEF Own, Events, Live
  <2> QED
    BY <2>3, <2>4, <2>5, <2>6 DEF Own
<1> QED
  BY <1>4, <1>5, <1>6, <1>7, TypedOK, Split

LEMMA RefusePart ==
  ASSUME Parts, NEW c \in Conn, Refuse(c)
  PROVE  Parts'
<1> USE DEF Parts
<1> DEFINE r == <<c, "connect">>
<1>1. TypeOK /\ TypeOKRequests /\ Own(c) /\ r \in Request /\ "refused" \in Status
  BY ConnectionAssumption DEF TypeOK, Event
<1>2. /\ answer' \in [Request -> Status \cup {NoAnswer}]
      /\ \A d \in Conn : answer'[<<d, "connect">>] =
            IF d = c /\ answer[<<d, "connect">>] = NoAnswer THEN "refused" ELSE answer[<<d, "connect">>]
  BY <1>1, AnswerOne DEF Refuse
<1>3. /\ TypeOKRequests' /\ stage[r] = "sent" /\ stage'[r] = "handling"
      /\ \A q \in Request \ {r} : stage'[q] = stage[q]
  BY <1>1, <1>2, ArriveTypes DEF Refuse
<1>4. \A d \in Conn, e \in Event : <<d, e>> \in Request /\ (<<d, e>> = r => d = c /\ e = "connect")
  BY ConnectionAssumption
<1>5. /\ candidates' = << >> /\ known' = known \ {c} /\ errors' \in [Conn -> Nat]
      /\ \A d \in Conn : errors'[d] = IF d = c THEN errors[d] + 1 ELSE errors[d]
  BY <1>1, OneCandidate DEF Refuse, Cleanup, TypeOK
<1>6. Typed
  BY <1>1, <1>3, <1>5 DEF Refuse, TypeOK, Typed, Shake
<1>7. \A d \in Conn \ {c} : Unmoved(d) /\ SameEvents(d)
  BY <1>1, <1>2, <1>3, <1>4, <1>5 DEF Refuse, Unmoved, SameEvents, TypeOK, Event
<1>8. Own(c)'
  <2>1. /\ shake[c] = "none" /\ shake'[c] = "refused" /\ c \notin known' /\ sid'[c] = {}
        /\ c \notin clients \cup opening \cup bound \cup ended
        /\ answer'[r] = "refused" /\ peer'[c] = peer[c]
        /\ UNCHANGED <<clients, opening, bound, ended>>
    BY <1>1, <1>2, <1>3 DEF Refuse, Own, Events, Untouched, TypeOK, Cleanup
  <2>2. \A e \in Event \ {"connect"} : stage'[<<c, e>>] = stage[<<c, e>>]
    BY <1>3, <1>4
  <2>3. Events(c)'
    BY <1>1, <1>3, <2>1, <2>2 DEF Own, Events, Event
  <2>4. Untouched(c)' /\ (sid[c] \subseteq {c})' /\ Live(c)'
    BY <2>1 DEF Untouched, Live
  <2>5. Agreement(c)'
    BY <2>1, <1>1, RequestAssumption DEF Agreement
  <2> QED
    BY <2>3, <2>4, <2>5 DEF Own
<1> QED
  BY <1>5, <1>6, <1>7, <1>8, TypedOK, Split

\* Actions that leave the stages and the service's view of everything alone.
Within ==
    /\ UNCHANGED <<cut, on, stage, peer>>
    /\ answer' \in [Request -> Status \cup {NoAnswer}]

LEMMA WithinTypes ==
  ASSUME TypeOK, Within
  PROVE  /\ TypeOKRequests' /\ peer' \in [Conn -> {"new", "connecting", "connected", "gone"}]
         /\ \A d \in Conn : SameEvents(d)
BY DEF TypeOK, Within, TypeOKRequests, SameEvents

LEMMA MakeClientPart ==
  ASSUME Parts, NEW c \in Conn, MakeClient(c)
  PROVE  Parts'
<1> USE DEF Parts
<1>1. TypeOK /\ TypeOKRequests /\ Own(c) /\ Within
  BY DEF MakeClient, TypeOK, TypeOKRequests, Within, requestVars
<1>2. shake[c] = "shaking" /\ sid[c] = {c} /\ answer[<<c, "connect">>] \in {NoAnswer, "failed"} /\ c \notin ended
  BY <1>1 DEF MakeClient, Own, Agreement
<1>3. Typed
  BY <1>1, <1>2, WithinTypes DEF MakeClient, TypeOK, Typed, Shake
<1>4. \A d \in Conn \ {c} : Unmoved(d) /\ SameEvents(d)
  BY <1>1, <1>2, WithinTypes DEF MakeClient, Unmoved, TypeOK, requestVars
<1>5. Own(c)'
  <2>1. /\ shake'[c] = "made" /\ c \in clients' /\ c \in opening'
        /\ UNCHANGED <<stage, answer, peer, known, sid, bound, responded, timers, errors, ended>>
    BY <1>1, <1>2 DEF MakeClient, TypeOK, requestVars
  <2>2. Events(c)' /\ Untouched(c)' /\ Live(c)' /\ (sid[c] \subseteq {c})'
    BY <1>1, <1>2, <2>1 DEF Own, Events, Untouched, Live
  <2>3. Agreement(c)'
    BY <1>1, <1>2, <2>1, RequestAssumption, ConnectionAssumption DEF Own, Agreement
  <2> QED
    BY <2>2, <2>3 DEF Own
<1>6. candidates' = << >>
  BY DEF MakeClient
<1> QED
  BY <1>3, <1>4, <1>5, <1>6, TypedOK, Split

LEMMA AcceptPart ==
  ASSUME Parts, NEW c \in Conn, Accept(c)
  PROVE  Parts'
<1> USE DEF Parts
<1>1. TypeOK /\ TypeOKRequests /\ Own(c) /\ "ok" \in Status
  BY ConnectionAssumption DEF TypeOK
<1>2. /\ answer' \in [Request -> Status \cup {NoAnswer}]
      /\ \A d \in Conn : answer'[<<d, "connect">>] =
            IF d = c /\ answer[<<d, "connect">>] = NoAnswer THEN "ok" ELSE answer[<<d, "connect">>]
  BY <1>1, AnswerOne DEF Accept
<1>3. Within /\ candidates' = << >>
  BY <1>2 DEF Accept, Within
<1>4. Typed
  BY <1>1, <1>3, WithinTypes DEF Accept, TypeOK, Typed
<1>5. \A d \in Conn \ {c} : Unmoved(d) /\ SameEvents(d)
  BY <1>1, <1>2, <1>3, WithinTypes DEF Accept, Unmoved
<1>6. Own(c)'
  <2>1. /\ c \in opening /\ c \notin opening'
        /\ responded \subseteq responded'
        /\ answer[<<c, "connect">>] = NoAnswer => c \in responded' /\ answer'[<<c, "connect">>] = "ok"
        /\ answer[<<c, "connect">>] # NoAnswer => answer'[<<c, "connect">>] = answer[<<c, "connect">>]
        /\ UNCHANGED <<stage, peer, known, sid, clients, shake, bound, timers, errors, ended>>
    BY <1>1, <1>2 DEF Accept
  <2>2. Events(c)' /\ Live(c)' /\ (sid[c] \subseteq {c})'
    BY <1>1, <2>1, RequestAssumption, ConnectionAssumption DEF Own, Events, Live
  <2>3. Untouched(c)'
    BY <1>1, <2>1 DEF Own, Agreement, Untouched
  <2>4. CASE answer[<<c, "connect">>] = NoAnswer
    BY <1>1, <2>1, <2>2, <2>3, <2>4, RequestAssumption, ConnectionAssumption DEF Own, Agreement
  <2>5. CASE answer[<<c, "connect">>] # NoAnswer
    BY <1>1, <2>1, <2>2, <2>3, <2>5, RequestAssumption, ConnectionAssumption DEF Own, Agreement
  <2> QED
    BY <2>4, <2>5
<1> QED
  BY <1>3, <1>4, <1>5, <1>6, TypedOK, Split

LEMMA GoesOnPart ==
  ASSUME Parts, NEW c \in Conn, GoesOn(c)
  PROVE  Parts'
<1> USE DEF Parts
<1>1. TypeOK /\ TypeOKRequests /\ Own(c) /\ "failed" \in Status
  BY ConnectionAssumption DEF TypeOK
<1>2. CASE c \in clients /\ bound' = bound \cup {c} /\ UNCHANGED <<answer, known, candidates, errors, timers>>
  <2>1. Within /\ candidates' = << >>
    BY <1>1, <1>2 DEF GoesOn, Within, TypeOKRequests
  <2>2. Typed
    BY <1>1, <1>2, <2>1, WithinTypes DEF GoesOn, TypeOK, Typed, Shake
  <2>3. \A d \in Conn \ {c} : Unmoved(d) /\ SameEvents(d)
    BY <1>1, <1>2, <2>1, WithinTypes DEF GoesOn, Unmoved, TypeOK
  <2>4. Own(c)'
    <3>1. /\ shake[c] \in {"refused", "made"} /\ shake'[c] = "over" /\ c \in bound'
          /\ UNCHANGED <<stage, answer, peer, known, sid, clients, responded, timers, opening, errors, ended>>
      BY <1>1, <1>2 DEF GoesOn, TypeOK
    <3>2. Events(c)' /\ Live(c)' /\ (sid[c] \subseteq {c})' /\ Untouched(c)'
      BY <1>1, <3>1 DEF Own, Events, Live, Untouched
    <3>3. Agreement(c)'
      BY <1>1, <1>2, <3>1, RequestAssumption, ConnectionAssumption DEF Own, Agreement
    <3> QED
      BY <3>2, <3>3 DEF Own
  <2> QED
    BY <2>1, <2>2, <2>3, <2>4, TypedOK, Split
<1>3. CASE /\ c \notin clients /\ timers' = timers \ {c} /\ Cleanup({c}, candidates)
           /\ AnswerConnect({c}, "failed") /\ UNCHANGED bound
  <2>1. /\ answer' \in [Request -> Status \cup {NoAnswer}]
        /\ \A d \in Conn : answer'[<<d, "connect">>] =
              IF d = c /\ answer[<<d, "connect">>] = NoAnswer THEN "failed" ELSE answer[<<d, "connect">>]
    BY <1>1, <1>3, AnswerOne
  <2>2. /\ candidates' = << >> /\ known' = known \ {c} /\ errors' \in [Conn -> Nat]
        /\ \A d \in Conn : errors'[d] = IF d = c THEN errors[d] + 1 ELSE errors[d]
    BY <1>1, <1>3, CleanupStep
  <2>3. Within
    BY <2>1 DEF GoesOn, Within
  <2>4. Typed
    BY <1>1, <1>3, <2>2, <2>3, WithinTypes DEF GoesOn, TypeOK, Typed, Shake
  <2>5. \A d \in Conn \ {c} : Unmoved(d) /\ SameEvents(d)
    BY <1>1, <1>3, <2>1, <2>2, <2>3, WithinTypes DEF GoesOn, Unmoved, TypeOK
  <2>6. Own(c)'
    <3>1. /\ shake[c] \in {"refused", "made"} /\ shake'[c] = "over" /\ c \notin known' /\ c \notin clients
          /\ answer[<<c, "connect">>] = NoAnswer => answer'[<<c, "connect">>] = "failed"
          /\ answer[<<c, "connect">>] # NoAnswer => answer'[<<c, "connect">>] = answer[<<c, "connect">>]
          /\ UNCHANGED <<stage, peer, sid, clients, responded, opening, bound, ended>>
      BY <1>1, <1>3, <2>1, <2>2 DEF GoesOn, TypeOK
    <3>2. Events(c)' /\ Live(c)' /\ (sid[c] \subseteq {c})' /\ Untouched(c)'
      BY <1>1, <3>1, RequestAssumption, ConnectionAssumption DEF Own, Events, Live, Untouched
    <3>3. shake[c] = "made" => c \in ended
      BY <1>1, <3>1 DEF Own, Agreement
    <3>4. Agreement(c)'
      BY <1>1, <3>1, <3>3, RequestAssumption, ConnectionAssumption DEF Own, Agreement
    <3> QED
      BY <3>2, <3>4 DEF Own
  <2> QED
    BY <2>2, <2>4, <2>5, <2>6, TypedOK, Split
<1> QED
  BY <1>2, <1>3 DEF GoesOn

LEMMA TimeoutPart ==
  ASSUME Parts, NEW c \in Conn, Timeout(c)
  PROVE  Parts'
<1> USE DEF Parts
<1>1. TypeOK /\ TypeOKRequests /\ Own(c) /\ "failed" \in Status
  BY ConnectionAssumption DEF TypeOK
<1>2. CASE UNCHANGED <<answer, known, candidates, errors>>
  <2>1. Within /\ candidates' = << >>
    BY <1>1, <1>2 DEF Timeout, Within, TypeOKRequests
  <2>2. Typed
    BY <1>1, <1>2, <2>1, WithinTypes DEF Timeout, TypeOK, Typed
  <2>3. \A d \in Conn \ {c} : Unmoved(d) /\ SameEvents(d)
    BY <1>1, <1>2, <2>1, WithinTypes DEF Timeout, Unmoved
  <2>4. Own(c)'
    BY <1>1, <1>2 DEF Timeout, Own, Events, Untouched, Agreement, Live
  <2> QED
    BY <2>1, <2>2, <2>3, <2>4, TypedOK, Split
<1>3. CASE c \notin responded /\ Cleanup({c}, candidates) /\ AnswerConnect({c}, "failed")
  <2>1. /\ answer' \in [Request -> Status \cup {NoAnswer}]
        /\ \A d \in Conn : answer'[<<d, "connect">>] =
              IF d = c /\ answer[<<d, "connect">>] = NoAnswer THEN "failed" ELSE answer[<<d, "connect">>]
    BY <1>1, <1>3, AnswerOne
  <2>2. /\ candidates' = << >> /\ known' = known \ {c} /\ errors' \in [Conn -> Nat]
        /\ \A d \in Conn : errors'[d] = IF d = c THEN errors[d] + 1 ELSE errors[d]
    BY <1>1, <1>3, CleanupStep
  <2>3. Within
    BY <2>1 DEF Timeout, Within
  <2>4. Typed
    BY <1>1, <2>2, <2>3, WithinTypes DEF Timeout, TypeOK, Typed
  <2>5. \A d \in Conn \ {c} : Unmoved(d) /\ SameEvents(d)
    BY <1>1, <2>1, <2>2, <2>3, WithinTypes DEF Timeout, Unmoved
  <2>6. Own(c)'
    <3>1. /\ c \in timers /\ c \notin known'
          /\ answer[<<c, "connect">>] = NoAnswer => answer'[<<c, "connect">>] = "failed"
          /\ answer[<<c, "connect">>] # NoAnswer => answer'[<<c, "connect">>] = answer[<<c, "connect">>]
          /\ timers' = timers \ {c} /\ c \notin responded
          /\ UNCHANGED <<stage, peer, sid, clients, shake, responded, opening, bound, ended>>
      BY <1>1, <1>3, <2>1, <2>2 DEF Timeout
    <3>2. Events(c)' /\ Live(c)' /\ (sid[c] \subseteq {c})' /\ Untouched(c)'
      BY <1>1, <3>1, RequestAssumption, ConnectionAssumption DEF Own, Events, Live, Untouched
    <3>3. answer[<<c, "connect">>] = "ok" => c \in ended
      BY <1>1, <3>1 DEF Own, Agreement
    <3>4. Agreement(c)'
      BY <1>1, <3>1, <3>3, RequestAssumption, ConnectionAssumption DEF Own, Agreement
    <3> QED
      BY <3>2, <3>4 DEF Own
  <2> QED
    BY <2>2, <2>4, <2>5, <2>6, TypedOK, Split
<1> QED
  BY <1>2, <1>3 DEF Timeout

-----------------------------------------------------------------------------
(* The other events.                                                       *)

\* An event that is neither first nor last changes nothing of its connection.
LEMMA MessagePart ==
  ASSUME Parts, NEW c \in Conn, Message(c) \/ Decoded(c)
  PROVE  Parts'
<1> USE DEF Parts
<1> DEFINE r == <<c, "message">>
<1>1. TypeOK /\ TypeOKRequests /\ r \in Request /\ {"refused", "failed", "ok"} \subseteq Status
  BY ConnectionAssumption DEF TypeOK, Event
<1>2. \A s \in Status : /\ Answered(answer, r, s) \in [Request -> Status \cup {NoAnswer}]
                         /\ \A q \in Request \ {r} : Answered(answer, r, s)[q] = answer[q]
  BY <1>1 DEF Answered, TypeOKRequests
<1>3. /\ answer' \in [Request -> Status \cup {NoAnswer}]
      /\ \A q \in Request \ {r} : answer'[q] = answer[q]
  <2>1. CASE Message(c)
    BY <1>1, <1>2, <2>1 DEF Message, TypeOKRequests
  <2>2. CASE Decoded(c)
    BY <1>1, <1>2, <2>2 DEF Decoded
  <2> QED
    BY <2>1, <2>2
<1>4. /\ TypeOKRequests' /\ UNCHANGED <<peer, managerVars, closed>>
      /\ stage'[r] # stage[r] => stage[r] = "sent" /\ stage'[r] = "handling"
      /\ \A q \in Request \ {r} : stage'[q] = stage[q]
  <2>1. CASE Message(c)
    BY <1>1, <1>3, <2>1, ArriveTypes DEF Message
  <2>2. CASE Decoded(c)
    BY <1>1, <1>3, <2>2 DEF Decoded, TypeOKRequests
  <2> QED
    BY <2>1, <2>2
<1>5. TypeOK' /\ candidates' = << >>
  BY <1>1, <1>4, Managed DEF TypeOK
<1>6. \A d \in Conn, e \in Event : <<d, e>> \in Request /\ (<<d, e>> = r => d = c /\ e = "message")
  BY ConnectionAssumption
<1>7. \A d \in Conn : /\ Unmoved(d) /\ peer'[d] = peer[d]
                      /\ stage'[<<d, "connect">>] = stage[<<d, "connect">>]
                      /\ stage'[<<d, "disconnected">>] = stage[<<d, "disconnected">>]
                      /\ answer'[<<d, "connect">>] = answer[<<d, "connect">>]
  BY <1>3, <1>4, <1>6 DEF Unmoved, managerVars, Event
<1>8. \A d \in Conn \ {c} : SameEvents(d)
  BY <1>4, <1>6 DEF SameEvents
<1>9. Own(c)'
  <2>1. Own(c)
    OBVIOUS
  <2>2. Events(c)'
    <3>1. peer[c] = "new" => stage'[r] = stage[r]
      BY <1>4, <2>1 DEF Own, Events, Event
    <3> QED
      BY <1>7, <2>1, <3>1 DEF Own, Events, Unmoved, Event
  <2>3. Untouched(c)' /\ (sid[c] \subseteq {c})' /\ Live(c)'
    BY <1>7, <2>1 DEF Own, Untouched, Unmoved, Live
  <2>4. Agreement(c)'
    BY <1>7, <2>1 DEF Own, Agreement, Unmoved
  <2> QED
    BY <2>2, <2>3, <2>4 DEF Own
<1> QED
  BY <1>5, <1>7, <1>8, <1>9, Split

LEMMA DisconnectedPart ==
  ASSUME Parts, NEW c \in Conn, Disconnected(c)
  PROVE  Parts'
<1> USE DEF Parts
<1> DEFINE r == <<c, "disconnected">>
<1>1. TypeOK /\ TypeOKRequests /\ r \in Request /\ "ok" \in Status /\ Own(c)
  BY ConnectionAssumption DEF TypeOK, Event
<1>2. /\ answer' \in [Request -> Status \cup {NoAnswer}]
      /\ \A q \in Request \ {r} : answer'[q] = answer[q]
  BY <1>1 DEF Disconnected, Answered, TypeOKRequests
<1>3. /\ TypeOKRequests' /\ stage[r] = "sent" /\ stage'[r] = "handling"
      /\ \A q \in Request \ {r} : stage'[q] = stage[q]
  BY <1>1, <1>2, ArriveTypes DEF Disconnected
<1>4. candidates' = << >>
  BY DEF Disconnected
<1>5. Typed
  BY <1>1, <1>3 DEF Disconnected, TypeOK, Typed
<1>6. \A d \in Conn, e \in Event : <<d, e>> \in Request /\ (<<d, e>> = r => d = c /\ e = "disconnected")
  BY ConnectionAssumption
<1>7. \A d \in Conn \ {c} : Unmoved(d) /\ SameEvents(d)
  BY <1>2, <1>3, <1>6 DEF Disconnected, Unmoved, SameEvents, Event
<1>8. Own(c)'
  <2>1. /\ peer[c] = "gone" /\ peer'[c] = "gone" /\ c \notin known' /\ clients' \subseteq clients
        /\ stage'[<<c, "connect">>] = stage[<<c, "connect">>]
        /\ answer'[<<c, "connect">>] = answer[<<c, "connect">>]
        /\ UNCHANGED <<sid, shake, bound, responded, timers, opening, errors, ended>>
    <3>1. peer[c] \in {"new", "connecting", "connected", "gone"}
      BY <1>1 DEF TypeOK
    <3>2. peer[c] = "gone"
      BY <1>1, <1>3, <3>1 DEF Own, Events, Event
    <3>3. <<c, "connect">> \in Request \ {r}
      BY <1>6 DEF Event
    <3> QED
      BY <1>2, <1>3, <3>2, <3>3 DEF Disconnected
  <2>2. Events(c)' /\ Untouched(c)' /\ Live(c)' /\ (sid[c] \subseteq {c})'
    BY <1>1, <1>3, <2>1 DEF Own, Events, Untouched, Live
  <2>3. Agreement(c)'
    <3>1. c \notin opening /\ shake[c] \notin {"refused", "made"}
      BY DEF Disconnected, Quiet
    <3>2. answer[<<c, "connect">>] = "ok"
      BY <1>1, <1>3 DEF Own, Events
    <3> QED
      BY <1>1, <2>1, <3>1, <3>2, RequestAssumption, ConnectionAssumption DEF Own, Agreement
  <2> QED
    BY <2>2, <2>3 DEF Own
<1> QED
  BY <1>4, <1>5, <1>7, <1>8, TypedOK, Split

-----------------------------------------------------------------------------
(* Engine.IO ends connections.                                             *)

LEMMA EndPart ==
  ASSUME Parts, NEW S \in SUBSET Conn, S \subseteq clients, EndClients(S), closed' \in BOOLEAN
  PROVE  Parts'
<1> USE DEF Parts
<1> DEFINE C == S \cap opening
<1>1. TypeOK /\ TypeOKRequests /\ "refused" \in Status /\ C \in SUBSET Conn
  BY ConnectionAssumption DEF TypeOK
<1>2. /\ answer' \in [Request -> Status \cup {NoAnswer}]
      /\ \A d \in Conn : answer'[<<d, "connect">>] =
            IF d \in C /\ answer[<<d, "connect">>] = NoAnswer THEN "refused" ELSE answer[<<d, "connect">>]
  BY <1>1, AnswerTypes DEF EndClients
<1>3. /\ known' = known \ C /\ candidates' = << >> /\ errors' \in [Conn -> Nat]
      /\ \A d \in Conn : errors'[d] = IF d \in C THEN errors[d] + 1 ELSE errors[d]
  BY <1>1, CleanupStep DEF EndClients
<1>4. Within
  BY <1>2 DEF EndClients, Within
<1>5. Typed
  BY <1>1, <1>3, <1>4, WithinTypes DEF EndClients, TypeOK, Typed
<1>6. ASSUME NEW c \in Conn PROVE Own(c)'
  <2>1. CASE c \notin S
    <3>1. Unmoved(c)
      BY <1>2, <1>3, <2>1 DEF EndClients, Unmoved
    <3> QED
      BY <1>1, <1>4, <3>1, WithinTypes, SameConnection
  <2>2. CASE c \in S
    <3>1. /\ c \in clients /\ c \notin clients' /\ c \in ended' /\ shake[c] # "none" /\ Own(c)
          /\ UNCHANGED <<stage, peer, sid, shake, bound, timers, opening>>
      BY <2>2 DEF EndClients, Own, Untouched
    <3>2. CASE c \notin opening
      <4>1. /\ c \notin C /\ answer'[<<c, "connect">>] = answer[<<c, "connect">>] /\ errors'[c] = errors[c]
            /\ (c \in known' <=> c \in known) /\ (c \in responded' <=> c \in responded)
        BY <1>2, <1>3, <3>2 DEF EndClients
      <4>2. Events(c)' /\ Untouched(c)' /\ Live(c)' /\ (sid[c] \subseteq {c})'
        BY <3>1, <4>1 DEF Own, Events, Untouched, Live
      <4>3. shake[c] # "shaking"
        BY <3>1 DEF Own, Agreement
      <4>4. Agreement(c)'
        BY <3>1, <3>2, <4>1, <4>3, RequestAssumption, ConnectionAssumption DEF Own, Agreement
      <4> QED
        BY <4>2, <4>4 DEF Own
    <3>3. CASE c \in opening
      <4>1. /\ c \in C /\ c \notin known'
            /\ answer[<<c, "connect">>] = NoAnswer => answer'[<<c, "connect">>] = "refused"
            /\ answer[<<c, "connect">>] # NoAnswer => answer'[<<c, "connect">>] = answer[<<c, "connect">>]
            /\ shake[c] \in {"made", "over"} /\ sid[c] = {c}
        BY <1>2, <1>3, <2>2, <3>1, <3>3 DEF Own, Agreement
      <4>2. Events(c)'
        BY <3>1, <4>1, RequestAssumption, ConnectionAssumption DEF Own, Events
      <4>3. Untouched(c)' /\ Live(c)' /\ (sid[c] \subseteq {c})'
        BY <3>1, <4>1 DEF Own, Untouched, Live
      <4>4. Agreement(c)'
        BY <3>1, <4>1, RequestAssumption, ConnectionAssumption DEF Own, Agreement
      <4> QED
        BY <4>2, <4>3, <4>4 DEF Own
    <3> QED
      BY <3>2, <3>3
  <2> QED
    BY <2>1, <2>2
<1> QED
  BY <1>3, <1>5, <1>6, TypedOK

LEMMA EndsPart ==
  ASSUME Parts, (\E c \in Conn : ClientEnds(c)) \/ Close
  PROVE  Parts'
<1>1. TypeOK /\ clients \in SUBSET Conn /\ closed \in BOOLEAN
  BY DEF Parts, TypeOK
<1>2. ASSUME NEW c \in Conn, ClientEnds(c) PROVE Parts'
  <2>1. {c} \in SUBSET Conn /\ {c} \subseteq clients /\ EndClients({c}) /\ closed' \in BOOLEAN
    BY <1>1, <1>2 DEF ClientEnds
  <2> QED
    BY <2>1, EndPart
<1>3. CASE Close
  BY <1>1, <1>3, EndPart DEF Close
<1> QED
  BY <1>2, <1>3

-----------------------------------------------------------------------------
LEMMA PartsStep == Parts /\ [Next]_vars => Parts'
<1> SUFFICES ASSUME Parts, [Next]_vars PROVE Parts'
  OBVIOUS
<1>1. CASE UNCHANGED vars
  <2>1. TypeOK' /\ candidates' = << >>
    BY <1>1 DEF Parts, TypeOK, TypeOKRequests, vars, requestVars, managerVars
  <2>2. \A c \in Conn : Unmoved(c) /\ SameEvents(c)
    BY <1>1 DEF vars, requestVars, managerVars, Unmoved, SameEvents
  <2> QED
    BY <2>1, <2>2, SameConnection DEF Parts
<1>2. ASSUME NEW c \in Conn, ServerStep(c) PROVE Parts'
  BY <1>2, ConnectPart, RefusePart, MakeClientPart, AcceptPart, GoesOnPart, TimeoutPart,
     MessagePart, DisconnectedPart, EndsPart DEF ServerStep
<1> QED
  BY <1>1, <1>2, ServicePart, LinesPart, EndsPart DEF Next

LEMMA Invariance == Spec => []Parts
BY PartsInit, PartsStep, PTL DEF Spec

\* The answer to a connect event, what the manager keeps and what Engine.IO has
\* agree in every reachable state.
THEOREM AnswersAgree == Spec => []IInvConn
<1>1. Parts => IInvConn
  BY PartsOfIInv
<1> QED
  BY <1>1, Invariance, PTL

\* A connection that was let in is served until its disconnected event or an end
\* by Engine.IO.
THEOREM AcceptedIsServed == Spec => []AcceptedServed
<1>1. Parts => AcceptedServed
  <2> SUFFICES ASSUME Parts, NEW c \in Conn \ ended, peer[c] = "connected"
               PROVE  c \in known /\ c \in clients /\ (shake[c] = "over" => c \in bound)
    BY DEF AcceptedServed
  <2>1. answer[<<c, "connect">>] = "ok" /\ Agreement(c)
    BY DEF Parts, Own, Events
  <2> QED
    BY <2>1 DEF Agreement
<1> QED
  BY <1>1, Invariance, PTL

\* Ids stay with their connections.
THEOREM SidsAreOwn == Spec => []OwnSid
<1>1. Parts => OwnSid
  BY PartsOfIInv DEF IInvConn
<1> QED
  BY <1>1, Invariance, PTL

\* What is known of a connection that is gone is owed to an event.
THEOREM KnownAreLive == Spec => []KnownMeansLive
<1>1. Parts => KnownMeansLive
  BY PartsOfIInv DEF IInvConn
<1> QED
  BY <1>1, Invariance, PTL

\* Error events are emitted for connections that are refused.
THEOREM ErrorsAreRefusals == Spec => []ErrorMeansRefused
<1>1. Parts => ErrorMeansRefused
  <2> SUFFICES ASSUME Parts, NEW c \in Conn \ ended, errors[c] > 0
               PROVE  answer[<<c, "connect">>] \notin {NoAnswer, "ok"}
    BY DEF ErrorMeansRefused
  <2>1. Agreement(c) /\ Untouched(c)
    BY DEF Parts, Own
  <2> QED
    BY <2>1 DEF Agreement, Untouched
<1> QED
  BY <1>1, Invariance, PTL
=============================================================================
