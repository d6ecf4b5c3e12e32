------------------------ MODULE LocalTunnel_proofs ------------------------
(***************************************************************************)
(* Proofs about LocalTunnel, for any number of requests, lines and rows:   *)
(* the invariant IInvLocal, and from it that the view shows the hub's      *)
(* fields, that responses keep to their requests, that what is forwarded   *)
(* is recorded and that the embedded server is known; and from HistInv,    *)
(* that the history is shown.  What must happen in the end is left to TLC. *)
(***************************************************************************)
EXTENDS LocalTunnel, FiniteSetTheorems, TLAPS

\* IInvLocal in parts that different actions disturb.
PortInv == UpstreamKnown /\ (starting => listening /\ ~hub.upstream)
FieldInv ==
    phase \in {"read", "selected", "ready"} =>
        \A f \in DOMAIN hub : model.fields[f] # hub[f] => f \in missed
ItemInv == ResponsesMatch /\ RecordedFirst /\ \A r \in Request : Progress(r)
Parts == TypeOK /\ PortInv /\ FieldInv /\ ItemInv

LEMMA PartsOfIInv == IInvLocal <=> Parts
BY DEF IInvLocal, Parts, PortInv, FieldInv, ItemInv, FieldsShown, Fetching

LEMMA PartsInit == Init => Parts
<1> SUFFICES ASSUME Init PROVE Parts
  OBVIOUS
<1> USE LocalAssumption, RequestAssumption
<1>1. TypeOK
  <2>1. TypeOKRequests
    BY DEF Init, InitRequests, TypeOKRequests, Stage
  <2>2. model \in [fields : Fields, items : Seq(Item)] /\ hub \in Fields
    BY DEF Init, Fields
  <2> QED
    BY <2>1, <2>2 DEF Init, TypeOK
<1>2. PortInv /\ FieldInv
  BY DEF Init, PortInv, UpstreamKnown, FieldInv
<1>3. ItemInv
  BY DEF Init, InitRequests, ItemInv, ResponsesMatch, RecordedFirst, Progress, ToSet
<1> QED
  BY <1>1, <1>2, <1>3 DEF Parts

-----------------------------------------------------------------------------
(* Frames: what the parts do not look at.                                  *)

\* The stages of requests only leave their beginning.
Onward == \A r \in Request : stage'[r] \in {"none", "sent"} => stage[r] \in {"none", "sent"}

LEMMA ItemsFrame ==
  ASSUME ItemInv, Onward, UNCHANGED <<answer, rows, lastId, work, id>>,
         model'.items = model.items
  PROVE  ItemInv'
BY DEF ItemInv, Onward, ResponsesMatch, Matches, RecordedFirst, Progress

LEMMA FieldsFrame ==
  ASSUME FieldInv, UNCHANGED <<hub, missed>>, model'.fields = model.fields,
         phase' \in {"read", "selected", "ready"} => phase \in {"read", "selected", "ready"}
  PROVE  FieldInv'
BY DEF FieldInv

LEMMA PortFrame ==
  ASSUME PortInv, UNCHANGED <<hub, listening, starting>>
  PROVE  PortInv'
BY DEF PortInv, UpstreamKnown

LEMMA SameTypes ==
  ASSUME TypeOK, TypeOKRequests', UNCHANGED <<hubVars, itemVars, phase, connected, model>>,
         plan' \in Budget, died' \in {"no", "db", "port"}
  PROVE  TypeOK'
BY DEF TypeOK, hubVars, itemVars

\* Nothing but the requests changes.
LEMMA Elsewhere ==
  ASSUME Parts, TypeOKRequests', Onward, UNCHANGED <<answer, hubVars, itemVars, phase, connected, model>>,
         plan' \in Budget, died' \in {"no", "db", "port"}
  PROVE  Parts'
BY SameTypes, ItemsFrame, FieldsFrame, PortFrame DEF Parts, hubVars, itemVars

LEMMA Spent ==
  ASSUME plan \in Budget, NEW what \in {"requests", "cuts", "clears", "starts", "stops", "drops", "fails"},
         Spend(what)
  PROVE  plan' \in Budget
BY DEF Spend, Budget

-----------------------------------------------------------------------------
(* Requests.                                                               *)

LEMMA CutTypes ==
  ASSUME TypeOKRequests, NEW L \in SUBSET Line, CutLines(L)
  PROVE  TypeOKRequests' /\ Onward /\ UNCHANGED answer
<1>1. Onward
  BY DEF TypeOKRequests, CutLines, Onward
<1>2. stage' \in [Request -> Stage] /\ on' \in [Request -> Line \cup {NoLine}]
  BY DEF TypeOKRequests, CutLines, Stage
<1> QED
  BY <1>1, <1>2 DEF CutLines, TypeOKRequests

LEMMA ServiceTypes ==
  ASSUME TypeOKRequests, NEW r \in Request, Send(r) \/ Reply(r) \/ Read(r)
  PROVE  TypeOKRequests' /\ Onward /\ UNCHANGED answer
<1>1. CASE Send(r)
  BY <1>1 DEF Send, TypeOKRequests, Stage, Onward
<1>2. CASE Reply(r)
  BY <1>2 DEF Reply, Over, TypeOKRequests, Stage, Onward
<1>3. CASE Read(r)
  BY <1>3 DEF Read, Over, TypeOKRequests, Stage, Onward
<1> QED
  BY <1>1, <1>2, <1>3

LEMMA DieStep ==
  ASSUME Parts, NEW why \in {"db", "port"}, Die(why), plan' \in Budget
  PROVE  Parts'
<1>1. TypeOKRequests' /\ Onward /\ UNCHANGED answer
  BY CutTypes DEF Parts, TypeOK, Die
<1> QED
  BY <1>1, Elsewhere DEF Die

-----------------------------------------------------------------------------
(* Fields.                                                                 *)

\* A field is reported.
LEMMA ReportStep ==
  ASSUME Parts, NEW f \in DOMAIN hub, NEW v, [hub EXCEPT ![f] = v] \in Fields, Report(f, v),
         UNCHANGED <<phase, connected>>
  PROVE  /\ hub' \in Fields /\ missed' \subseteq DOMAIN hub'
         /\ model' \in [fields : Fields, items : Seq(Item)]
         /\ model'.items = model.items
         /\ FieldInv'
<1>1. hub' \in Fields /\ DOMAIN hub' = DOMAIN hub /\ missed' \subseteq DOMAIN hub'
  BY DEF Parts, TypeOK, Report
<1>2. DOMAIN model.fields = DOMAIN hub /\ model.fields \in Fields /\ model.items \in Seq(Item)
  BY DEF Parts, TypeOK, Fields
<1>3. hub \in Fields /\ model \in [fields : Fields, items : Seq(Item)]
  BY DEF Parts, TypeOK
<1>4. /\ model' \in [fields : Fields, items : Seq(Item)]
      /\ model'.items = model.items
  <2>1. CASE ~Shows
    BY <2>1, <1>3 DEF Report
  <2>2. CASE Shows
    <3>1. [model.fields EXCEPT ![f] = v] \in Fields
      BY <1>2, <1>3 DEF Fields
    <3> QED
      BY <2>2, <1>3, <3>1 DEF Report
  <2> QED
    BY <2>1, <2>2
<1>5. FieldInv'
  <2> SUFFICES ASSUME phase \in {"read", "selected", "ready"}, NEW g \in DOMAIN hub,
                      model'.fields[g] # hub'[g]
               PROVE  g \in missed'
    BY <1>1 DEF FieldInv
  <2>1. model.fields[g] # hub[g] => g \in missed
    BY DEF Parts, FieldInv
  <2>2. CASE Shows
    <3>1. model'.fields = [model.fields EXCEPT ![f] = v]
      BY <2>2, <1>3 DEF Report
    <3>2. g # f
      BY <3>1, <1>2 DEF Report
    <3>3. model'.fields[g] = model.fields[g] /\ hub'[g] = hub[g]
      BY <3>1, <3>2, <1>2 DEF Report
    <3> QED
      BY <2>1, <2>2, <3>2, <3>3 DEF Report
  <2>3. CASE ~Shows
    <3>1. Fetching \/ ~connected
      BY <2>3 DEF Shows, Fetching
    <3>2. model' = model /\ missed' = missed \cup {f}
      BY <2>3, <3>1 DEF Report
    <3>3. g # f => hub'[g] = hub[g]
      BY DEF Report
    <3> QED
      BY <2>1, <3>2, <3>3
  <2> QED
    BY <2>2, <2>3
<1> QED
  BY <1>1, <1>4, <1>5

\* Reports that leave the server alone.
LEMMA ReportsStep ==
  ASSUME Parts, \/ \E s \in {"connected", "disconnected"} : TunnelStarts(s)
                \/ Configured
  PROVE  Parts'
<1> USE DEF Parts
<1>1. PICK f \in {"tunnel", "config"}, v \in {"connected", "disconnected", TRUE} :
         /\ [hub EXCEPT ![f] = v] \in Fields /\ Report(f, v)
         /\ UNCHANGED <<requestVars, itemVars, plan, died, listening, starting, phase, connected>>
  <2>1. CASE Configured
    BY <2>1 DEF Configured, TypeOK, Fields
  <2>2. CASE \E s \in {"connected", "disconnected"} : TunnelStarts(s)
    BY <2>2 DEF TunnelStarts, TypeOK, Fields
  <2> QED
    BY <2>1, <2>2
<1>2. f \in DOMAIN hub
  BY <1>1 DEF TypeOK, Fields
<1>3. /\ hub' \in Fields /\ missed' \subseteq DOMAIN hub' /\ FieldInv'
      /\ model' \in [fields : Fields, items : Seq(Item)] /\ model'.items = model.items
  BY <1>1, <1>2, ReportStep
<1>4. ItemInv'
  BY <1>1, <1>3, ItemsFrame DEF Onward, requestVars, itemVars
<1>5. hub'.upstream = hub.upstream
  BY <1>1 DEF Report, TypeOK, Fields
<1>6. PortInv'
  BY <1>1, <1>5 DEF PortInv, UpstreamKnown
<1>7. TypeOK'
  BY <1>1, <1>3 DEF TypeOK, TypeOKRequests, requestVars, itemVars
<1> QED
  BY <1>3, <1>4, <1>6, <1>7

\* Starts and stops of the embedded server.
LEMMA ServerStartStop ==
  ASSUME Parts, StartUpstream \/ StartThrows \/ Started \/ StopUpstream
  PROVE  Parts'
<1> USE DEF Parts
<1>1. CASE StartUpstream
  <2>1. plan' \in Budget
    BY <1>1, Spent DEF StartUpstream, TypeOK
  <2>2. CASE Die("port")
    BY <2>1, <2>2, DieStep
  <2>3. CASE /\ listening' = TRUE /\ starting' = TRUE
             /\ UNCHANGED <<requestVars, itemVars, died, hub, missed, phase, connected, model>>
    <3>1. PortInv'
      BY <1>1, <2>3 DEF StartUpstream, PortInv, UpstreamKnown
    <3>2. ItemInv' /\ FieldInv'
      BY <2>3, ItemsFrame, FieldsFrame DEF Onward, requestVars, itemVars
    <3>3. TypeOK'
      BY <2>1, <2>3 DEF TypeOK, TypeOKRequests, requestVars, itemVars
    <3> QED
      BY <3>1, <3>2, <3>3
  <2> QED
    BY <1>1, <2>2, <2>3 DEF StartUpstream
<1>2. CASE StartThrows \/ Started \/ StopUpstream
  <2>1. plan' \in Budget /\ UNCHANGED <<requestVars, itemVars, died, phase, connected>>
    BY <1>2, Spent DEF StartThrows, Started, StopUpstream, TypeOK
  <2>2. PICK v \in BOOLEAN : /\ Report("upstream", v)
                             /\ v = TRUE => Started
                             /\ v = FALSE => StopUpstream \/ StartThrows
    <3>1. CASE StartThrows
      <4>1. Report("upstream", hub.upstream) /\ hub.upstream = FALSE
        BY <3>1 DEF StartThrows, TypeOK, Fields
      <4>2. Report("upstream", FALSE)
        BY <4>1
      <4> QED
        BY <3>1, <4>2
    <3>2. CASE Started
      BY <3>2 DEF Started
    <3>3. CASE StopUpstream
      BY <3>3 DEF StopUpstream
    <3> QED
      BY <1>2, <3>1, <3>2, <3>3
  <2>3. "upstream" \in DOMAIN hub /\ [hub EXCEPT !["upstream"] = v] \in Fields
    BY DEF TypeOK, Fields
  <2>4. /\ hub' \in Fields /\ missed' \subseteq DOMAIN hub' /\ FieldInv'
        /\ model' \in [fields : Fields, items : Seq(Item)] /\ model'.items = model.items
    BY <2>1, <2>2, <2>3, ReportStep
  <2>5. ItemInv'
    BY <2>1, <2>4, ItemsFrame DEF Onward, requestVars, itemVars
  <2>6. hub'.upstream = v
    BY <2>2, <2>3 DEF Report
  <2>7. PortInv' /\ listening' \in BOOLEAN /\ starting' \in BOOLEAN
    <3>1. CASE v = TRUE
      BY <3>1, <2>2, <2>6 DEF Started, PortInv, UpstreamKnown, TypeOK
    <3>2. CASE StopUpstream /\ v = FALSE
      BY <3>2, <2>6 DEF StopUpstream, PortInv, UpstreamKnown, TypeOK, Fields
    <3>3. CASE StartThrows /\ v = FALSE
      BY <3>3, <2>6 DEF StartThrows, PortInv, UpstreamKnown, TypeOK, Fields
    <3> QED
      BY <3>1, <3>2, <3>3, <2>2
  <2>8. TypeOK'
    BY <2>1, <2>4, <2>7 DEF TypeOK, TypeOKRequests, requestVars, itemVars
  <2> QED
    BY <2>4, <2>5, <2>7, <2>8
<1> QED
  BY <1>1, <1>2

-----------------------------------------------------------------------------
(* The life of an item.                                                    *)

\* What these actions leave alone.
ItemsOnly == UNCHANGED <<hub, listening, starting, missed, died, phase, connected>>

LEMMA ItemTypes ==
  ASSUME TypeOK, ItemsOnly, TypeOKRequests', plan' \in Budget, mixed' \in BOOLEAN,
         rows' \subseteq Item, lastId' \in Nat, clearing' \in {"no", "issued", "effect"},
         work' \in [Request -> {"none", "inserting", "inserted", "forwarded", "updating",
                               "updated", "done", "failed"}],
         id' \in [Request -> Nat], model' \in [fields : Fields, items : Seq(Item)]
  PROVE  TypeOK'
BY DEF TypeOK, ItemsOnly

LEMMA ItemsAlone ==
  ASSUME Parts, ItemsOnly, TypeOK', ItemInv', model'.fields = model.fields
  PROVE  Parts'
BY FieldsFrame, PortFrame DEF Parts, ItemsOnly

\* A change of the items that is emitted.
LEMMA SeenStep ==
  ASSUME Parts, NEW items \in Seq(Item), SeesItems(items),
         \A i \in DOMAIN items : Matches(items[i])
  PROVE  /\ model' \in [fields : Fields, items : Seq(Item)] /\ model'.fields = model.fields
         /\ mixed' \in BOOLEAN
         /\ \A i \in DOMAIN model'.items : Matches(model'.items[i])
<1>1. /\ model \in [fields : Fields, items : Seq(Item)]
      /\ \A i \in DOMAIN model.items : Matches(model.items[i])
  BY DEF Parts, TypeOK, ItemInv, ResponsesMatch, ToSet
<1>2. mixed' \in BOOLEAN
  BY DEF SeesItems, Parts, TypeOK
<1> QED
  BY <1>1, <1>2 DEF SeesItems

LEMMA HandleStep ==
  ASSUME Parts, NEW r \in Request, Handle(r)
  PROVE  Parts'
<1> USE DEF Parts
<1>1. ItemsOnly /\ plan' \in Budget /\ UNCHANGED <<answer, rows, lastId, id, clearing, model>>
  BY DEF Handle, ItemsOnly, hubVars, TypeOK
<1>2. TypeOKRequests' /\ stage[r] = "sent"
  BY DEF Handle, Arrive, TypeOK, TypeOKRequests, Stage
<1>3. TypeOK'
  BY <1>1, <1>2, ItemTypes DEF Handle, TypeOK
<1>4. \A q \in Request : /\ work'[q] = IF q = r THEN "inserting" ELSE work[q]
                         /\ stage'[q] = IF q = r THEN "handling" ELSE stage[q]
  BY DEF Handle, Arrive, TypeOK, TypeOKRequests
<1>5. work[r] = "none"
  BY <1>2 DEF ItemInv, Progress
<1>6. ResponsesMatch'
  BY <1>1 DEF ItemInv, ResponsesMatch, Matches
<1>7. RecordedFirst' /\ \A q \in Request : Progress(q)'
  BY <1>1, <1>4, <1>5 DEF ItemInv, RecordedFirst, Progress
<1> QED
  BY <1>1, <1>3, <1>6, <1>7, ItemsAlone DEF ItemInv

LEMMA InsertedStep ==
  ASSUME Parts, NEW r \in Request, Inserted(r)
  PROVE  Parts'
<1> USE DEF Parts
<1>1. ItemsOnly /\ plan' \in Budget /\ UNCHANGED <<stage, answer, clearing, model, mixed>> /\ TypeOKRequests'
  BY DEF Inserted, Insert, ItemsOnly, hubVars, TypeOK, TypeOKRequests, requestVars
<1>2. /\ lastId' = lastId + 1 /\ work[r] = "inserting"
      /\ rows' = rows \cup {[id |-> lastId + 1, req |-> r, resp |-> NoAnswer]}
      /\ \A q \in Request : /\ work'[q] = IF q = r THEN "inserted" ELSE work[q]
                            /\ id'[q] = IF q = r THEN lastId + 1 ELSE id[q]
  BY DEF Inserted, Insert, TypeOK
<1>3. lastId \in Nat /\ id[r] = 0 /\ answer[r] = NoAnswer
  BY <1>2 DEF TypeOK, ItemInv, Progress
<1>4. TypeOK'
  <2>1. [id |-> lastId + 1, req |-> r, resp |-> NoAnswer] \in Item
    BY <1>3 DEF Item
  <2>2. rows' \subseteq Item
    BY <1>2, <2>1 DEF TypeOK
  <2>3. /\ work' \in [Request -> {"none", "inserting", "inserted", "forwarded", "updating",
                               "updated", "done", "failed"}]
        /\ id' \in [Request -> Nat]
    BY <1>3 DEF Inserted, Insert, TypeOK
  <2> QED
    BY <1>1, <1>2, <1>3, <2>2, <2>3, ItemTypes DEF TypeOK
<1>5. ResponsesMatch'
  <2>1. \A w \in rows \cup ToSet(model.items) : w \in Item /\ Matches(w)
    BY DEF TypeOK, ItemInv, ResponsesMatch, ToSet
  <2>2. \A w \in rows \cup ToSet(model.items) : Matches(w)'
    BY <1>1, <1>2, <1>3, <2>1 DEF Item, Matches
  <2>3. \A w \in rows' \ rows : Matches(w)'
    BY <1>1, <1>2, <1>3 DEF Matches
  <2> QED
    BY <1>1, <1>2, <2>2, <2>3 DEF ResponsesMatch
<1>6. \A q \in Request : id[q] \in Nat /\ id[q] <= lastId
  BY DEF TypeOK, ItemInv, Progress
<1>7. RecordedFirst' /\ \A q \in Request : Progress(q)'
  BY <1>1, <1>2, <1>3, <1>6 DEF ItemInv, RecordedFirst, Progress
<1> QED
  BY <1>1, <1>4, <1>5, <1>7, ItemsAlone DEF ItemInv

LEMMA InsertFailsStep ==
  ASSUME Parts, NEW r \in Request, InsertFails(r)
  PROVE  Parts'
<1> USE DEF Parts
<1>1. /\ ItemsOnly /\ UNCHANGED <<stage, answer, rows, lastId, id, clearing, model, mixed>>
      /\ TypeOKRequests'
  BY DEF InsertFails, ItemsOnly, hubVars, TypeOK, TypeOKRequests, requestVars, Spend
<1>2. plan' \in Budget
  BY Spent DEF InsertFails, TypeOK
<1>3. TypeOK'
  BY <1>1, <1>2, ItemTypes DEF InsertFails, TypeOK
<1>4. /\ work[r] = "inserting"
      /\ \A q \in Request : work'[q] = IF q = r THEN "failed" ELSE work[q]
  BY DEF InsertFails, TypeOK
<1>5. ItemInv'
  BY <1>1, <1>4 DEF ItemInv, ResponsesMatch, Matches, RecordedFirst, Progress
<1> QED
  BY <1>1, <1>3, <1>5, ItemsAlone

LEMMA AddedStep ==
  ASSUME Parts, NEW r \in Request, Added(r)
  PROVE  Parts'
<1> USE DEF Parts
<1>1. /\ ItemsOnly /\ UNCHANGED <<stage, answer, rows, lastId, id, clearing>>
      /\ TypeOKRequests' /\ plan' \in Budget
  BY DEF Added, ItemsOnly, hubVars, TypeOK, TypeOKRequests, requestVars
<1>2. /\ work[r] = "inserted"
      /\ \A q \in Request : work'[q] = IF q = r THEN "forwarded" ELSE work[q]
  BY DEF Added, TypeOK
<1>3. id[r] \in Nat \ {0} /\ id[r] <= lastId /\ lastId \in Nat
  BY <1>2 DEF TypeOK, ItemInv, Progress
<1> DEFINE new == [id |-> id[r], req |-> r, resp |-> NoAnswer]
           items == <<new>> \o model.items
<1>4. model.items \in Seq(Item) /\ \A i \in DOMAIN model.items : Matches(model.items[i])
  BY DEF TypeOK, ItemInv, ResponsesMatch, ToSet
<1>5. new \in Item /\ Matches(new)
  BY <1>3 DEF Item, Matches
<1>6. items \in Seq(Item) /\ \A i \in DOMAIN items : Matches(items[i])
  <2> HIDE DEF new
  <2>1. items \in Seq(Item) /\ DOMAIN items = 1..(Len(model.items) + 1)
    BY <1>4, <1>5
  <2>2. \A i \in 1..(Len(model.items) + 1) :
           items[i] = IF i = 1 THEN new ELSE model.items[i - 1]
    BY <1>4, <1>5
  <2> QED
    BY <1>4, <1>5, <2>1, <2>2
<1> HIDE DEF items
<1>7. SeesItems(items)
  BY DEF Added, items
<1>8. /\ model' \in [fields : Fields, items : Seq(Item)] /\ model'.fields = model.fields
      /\ mixed' \in BOOLEAN
      /\ \A i \in DOMAIN model'.items : Matches(model'.items[i])
  BY <1>6, <1>7, SeenStep
<1>9. TypeOK'
  BY <1>1, <1>8, ItemTypes DEF Added, TypeOK
<1>10. ResponsesMatch'
  BY <1>1, <1>8 DEF ItemInv, ResponsesMatch, Matches, ToSet
<1>11. RecordedFirst' /\ \A q \in Request : Progress(q)'
  BY <1>1, <1>2, <1>3 DEF ItemInv, RecordedFirst, Progress
<1> QED
  BY <1>1, <1>8, <1>9, <1>10, <1>11, ItemsAlone DEF ItemInv

\* The answer of the upstream server changes a field and the request.
LEMMA RespondsStep ==
  ASSUME Parts, NEW r \in Request, NEW s \in Status, Responds(r, s)
  PROVE  Parts'
<1> USE DEF Parts
<1>1. UNCHANGED <<cut, on, stage, rows, lastId, id, clearing, mixed, listening, starting, plan, died, phase, connected>>
  BY DEF Responds
<1>2. "local" \in DOMAIN hub /\ [hub EXCEPT !["local"] = s] \in Fields /\ Report("local", s)
  BY DEF Responds, TypeOK, Fields
<1>3. /\ hub' \in Fields /\ missed' \subseteq DOMAIN hub' /\ FieldInv'
      /\ model' \in [fields : Fields, items : Seq(Item)] /\ model'.items = model.items
  BY <1>1, <1>2, ReportStep
<1>4. work[r] = "forwarded" /\ answer[r] = NoAnswer /\ stage[r] \notin {"none", "sent"}
  BY DEF Responds, ItemInv, Progress
<1>5. \A q \in Request : /\ work'[q] = IF q = r THEN "updating" ELSE work[q]
                         /\ answer'[q] = IF q = r THEN s ELSE answer[q]
  BY <1>4 DEF Responds, Answered, TypeOK, TypeOKRequests
<1>6. answer' \in [Request -> Status \cup {NoAnswer}] /\ s # NoAnswer
  BY <1>4, RequestAssumption DEF Responds, Answered, TypeOK, TypeOKRequests
<1>7. TypeOK'
  <2>1. TypeOKRequests' /\ work' \in [Request -> {"none", "inserting", "inserted", "forwarded",
                                      "updating", "updated", "done", "failed"}]
    BY <1>1, <1>6 DEF Responds, TypeOK, TypeOKRequests
  <2> QED
    BY <1>1, <1>3, <2>1 DEF TypeOK
<1>8. PortInv'
  BY <1>1, <1>2 DEF Report, PortInv, UpstreamKnown, TypeOK, Fields
<1>9. ResponsesMatch'
  <2>1. \A w \in rows \cup ToSet(model.items) : w \in Item /\ Matches(w)
    BY DEF TypeOK, ItemInv, ResponsesMatch, ToSet
  <2>2. \A w \in rows \cup ToSet(model.items) : Matches(w)'
    BY <1>1, <1>4, <1>5, <2>1 DEF Item, Matches
  <2> QED
    BY <1>1, <1>3, <2>2 DEF ResponsesMatch
<1>10. RecordedFirst' /\ \A q \in Request : Progress(q)'
  BY <1>1, <1>4, <1>5, <1>6 DEF ItemInv, RecordedFirst, Progress
<1> QED
  BY <1>3, <1>7, <1>8, <1>9, <1>10 DEF ItemInv

LEMMA UpdatedStep ==
  ASSUME Parts, NEW r \in Request, Updated(r)
  PROVE  Parts'
<1> USE DEF Parts
<1>1. /\ ItemsOnly /\ UNCHANGED <<stage, answer, lastId, id, clearing, mixed, model>>
      /\ TypeOKRequests' /\ plan' \in Budget
  BY DEF Updated, ItemsOnly, hubVars, TypeOK, TypeOKRequests, requestVars
<1>2. /\ work[r] = "updating"
      /\ \A q \in Request : work'[q] = IF q = r THEN "updated" ELSE work[q]
  BY DEF Updated, TypeOK
<1>3. id[r] # 0 /\ \A q \in Request : id[q] = id[r] => q = r
  BY <1>2 DEF ItemInv, Progress
<1>4. \A w \in rows : w \in Item /\ Matches(w)
  BY DEF TypeOK, ItemInv, ResponsesMatch
<1>5. answer[r] \in Status \cup {NoAnswer}
  BY DEF TypeOK, TypeOKRequests
<1>6. \A v \in rows' : v \in Item /\ Matches(v)
  <2> SUFFICES ASSUME NEW w \in rows, NEW v,
                      v = IF w.id = id[r] THEN [w EXCEPT !.resp = answer[r]] ELSE w
               PROVE  v \in Item /\ Matches(v)
    BY DEF Updated
  <2>1. CASE w.id = id[r]
    <3>1. w.req = r /\ w \in Item /\ Matches(w)
      BY <1>3, <1>4, <2>1 DEF Matches, Item
    <3>2. v = [w EXCEPT !.resp = answer[r]]
      BY <2>1
    <3> QED
      BY <3>1, <3>2, <1>5 DEF Item, Matches
  <2>2. CASE w.id # id[r]
    BY <2>2, <1>4
  <2> QED
    BY <2>1, <2>2
<1>7. TypeOK'
  BY <1>1, <1>6, ItemTypes DEF Updated, TypeOK
<1>8. ResponsesMatch'
  BY <1>1, <1>6 DEF ItemInv, ResponsesMatch, Matches
<1>9. RecordedFirst' /\ \A q \in Request : Progress(q)'
  BY <1>1, <1>2 DEF ItemInv, RecordedFirst, Progress
<1> QED
  BY <1>1, <1>7, <1>8, <1>9, ItemsAlone DEF ItemInv

LEMMA UpdateSeenStep ==
  ASSUME Parts, NEW r \in Request, UpdateSeen(r)
  PROVE  Parts'
<1> USE DEF Parts
<1> DEFINE new == [id |-> id[r], req |-> r, resp |-> answer[r]]
           items == [i \in DOMAIN model.items |->
                        IF model.items[i].id = id[r] THEN new ELSE model.items[i]]
<1>1. /\ ItemsOnly /\ UNCHANGED <<stage, answer, rows, lastId, id, clearing>>
      /\ TypeOKRequests' /\ plan' \in Budget
  BY DEF UpdateSeen, ItemsOnly, hubVars, TypeOK, TypeOKRequests, requestVars
<1>2. /\ work[r] = "updated"
      /\ \A q \in Request : work'[q] = IF q = r THEN "done" ELSE work[q]
  BY DEF UpdateSeen, TypeOK
<1>3. id[r] \in Nat \ {0}
  BY <1>2 DEF TypeOK, ItemInv, Progress
<1>4. model.items \in Seq(Item) /\ \A i \in DOMAIN model.items : Matches(model.items[i])
  BY DEF TypeOK, ItemInv, ResponsesMatch, ToSet
<1>5. new \in Item /\ Matches(new)
  BY <1>3 DEF Item, Matches, TypeOK, TypeOKRequests
<1>6. SeesItems(items)
  BY DEF UpdateSeen
<1>7. items \in Seq(Item) /\ \A i \in DOMAIN items : Matches(items[i])
  <2> HIDE DEF new
  <2>1. DOMAIN model.items = 1..Len(model.items) /\ Len(model.items) \in Nat
    BY <1>4
  <2>2. \A i \in DOMAIN model.items : model.items[i] \in Item
    BY <1>4
  <2>3. \A i \in DOMAIN model.items : items[i] \in Item /\ Matches(items[i])
    BY <1>4, <1>5, <2>2
  <2>4. items \in [1..Len(model.items) -> Item]
    BY <2>1, <2>3
  <2>5. DOMAIN items = DOMAIN model.items
    OBVIOUS
  <2> HIDE DEF items
  <2>6. items \in Seq(Item)
    BY <2>1, <2>4
  <2> QED
    BY <2>3, <2>5, <2>6
<1> HIDE DEF items
<1>8. /\ model' \in [fields : Fields, items : Seq(Item)] /\ model'.fields = model.fields
      /\ mixed' \in BOOLEAN
      /\ \A i \in DOMAIN model'.items : Matches(model'.items[i])
  BY <1>6, <1>7, SeenStep
<1>9. TypeOK'
  BY <1>1, <1>8, ItemTypes DEF UpdateSeen, TypeOK
<1>10. ResponsesMatch'
  BY <1>1, <1>8 DEF ItemInv, ResponsesMatch, Matches, ToSet
<1>11. RecordedFirst' /\ \A q \in Request : Progress(q)'
  BY <1>1, <1>2 DEF ItemInv, RecordedFirst, Progress
<1> QED
  BY <1>1, <1>8, <1>9, <1>10, <1>11, ItemsAlone DEF ItemInv

LEMMA ClearStep ==
  ASSUME Parts, Clear \/ Cleared \/ ClearSeen
  PROVE  Parts'
<1> USE DEF Parts
<1>1. /\ ItemsOnly /\ UNCHANGED <<stage, answer, lastId, id, work>> /\ TypeOKRequests'
  BY DEF Clear, Cleared, ClearSeen, ItemsOnly, hubVars, TypeOK, TypeOKRequests, requestVars, Spend
<1>2. plan' \in Budget
  BY Spent DEF Clear, Cleared, ClearSeen, TypeOK
<1>3. /\ rows' \subseteq rows /\ clearing' \in {"no", "issued", "effect"}
      /\ mixed' \in BOOLEAN /\ model' \in [fields : Fields, items : Seq(Item)]
      /\ model'.fields = model.fields
      /\ \A i \in DOMAIN model'.items : Matches(model'.items[i])
  <2>1. CASE Clear \/ Cleared
    BY <2>1 DEF Clear, Cleared, TypeOK, ItemInv, ResponsesMatch, ToSet
  <2>2. CASE ClearSeen
    <3>1. << >> \in Seq(Item) /\ SeesItems(<< >>) /\ \A i \in DOMAIN << >> : Matches(<< >>[i])
      BY <2>2 DEF ClearSeen
    <3>2. /\ model' \in [fields : Fields, items : Seq(Item)] /\ model'.fields = model.fields
          /\ mixed' \in BOOLEAN /\ \A i \in DOMAIN model'.items : Matches(model'.items[i])
      BY <3>1, SeenStep
    <3> QED
      BY <2>2, <3>2 DEF ClearSeen
  <2> QED
    BY <2>1, <2>2
<1>4. TypeOK'
  BY <1>1, <1>2, <1>3, ItemTypes DEF TypeOK
<1>5. ItemInv'
  <2>1. ResponsesMatch'
    BY <1>1, <1>3 DEF ItemInv, ResponsesMatch, Matches, ToSet
  <2>2. RecordedFirst' /\ \A q \in Request : Progress(q)'
    BY <1>1 DEF ItemInv, RecordedFirst, Progress
  <2> QED
    BY <2>1, <2>2 DEF ItemInv
<1> QED
  BY <1>1, <1>3, <1>4, <1>5, ItemsAlone

-----------------------------------------------------------------------------
(* The web view.                                                           *)

LEMMA ViewStep ==
  ASSUME Parts, Ask \/ ReadFields \/ Select \/ Fetched \/ Drop \/ Reconnect
  PROVE  Parts'
<1> USE DEF Parts
<1>1. /\ UNCHANGED <<requestVars, hub, listening, starting, missed, rows, lastId, work, id, clearing, died>>
      /\ TypeOKRequests'
  BY DEF Ask, ReadFields, Select, Fetched, Drop, Reconnect, hubVars, itemVars, TypeOK,
         TypeOKRequests, requestVars, Spend
<1>2. plan' \in Budget
  BY Spent DEF Ask, ReadFields, Select, Fetched, Drop, Reconnect, TypeOK
<1>3. /\ phase' \in {"new", "asked", "read", "selected", "ready", "lost"}
      /\ connected' \in BOOLEAN /\ mixed' \in BOOLEAN
  BY DEF Ask, ReadFields, Select, Fetched, Drop, Reconnect, itemVars, TypeOK
<1>4. /\ model' \in [fields : Fields, items : Seq(Item)]
      /\ \A i \in DOMAIN model'.items : Matches(model'.items[i])
      /\ FieldInv'
  <2>1. /\ model \in [fields : Fields, items : Seq(Item)] /\ hub \in Fields /\ rows \subseteq Item
        /\ \A i \in DOMAIN model.items : Matches(model.items[i])
        /\ \A w \in rows : Matches(w)
    BY DEF TypeOK, ItemInv, ResponsesMatch, ToSet
  <2>2. CASE Ask \/ Fetched \/ Drop \/ Reconnect
    <3>1. model' = model /\ (phase' \in {"read", "selected", "ready"} => phase \in {"read", "selected", "ready"})
      BY <2>2 DEF Ask, Fetched, Drop, Reconnect
    <3> QED
      BY <1>1, <2>1, <3>1, FieldsFrame
  <2>3. CASE ReadFields
    BY <1>1, <2>1, <2>3 DEF ReadFields, FieldInv
  <2>4. CASE Select
    <3>1. PICK s \in Newest(Limit) : model' = [model EXCEPT !.items = s]
      BY <2>4 DEF Select
    <3>2. PICK k \in 0..Limit : s \in [1..k -> rows]
      BY <3>1 DEF Newest
    <3>3. s \in [1..k -> Item] /\ k \in Nat /\ \A i \in DOMAIN s : s[i] \in rows
      BY <2>1, <3>2, LocalAssumption
    <3>4. s \in Seq(Item) /\ \A i \in DOMAIN s : s[i] \in rows
      BY <3>3
    <3>5. model' \in [fields : Fields, items : Seq(Item)] /\ model'.items = s /\ model'.fields = model.fields
      BY <2>1, <3>1, <3>4
    <3>6. FieldInv'
      BY <1>1, <2>4, <3>5, FieldsFrame DEF Select
    <3> QED
      BY <2>1, <3>4, <3>5, <3>6
  <2> QED
    BY <2>2, <2>3, <2>4
<1>5. TypeOK'
  BY <1>1, <1>2, <1>3, <1>4 DEF TypeOK
<1>6. ItemInv'
  <2>1. ResponsesMatch'
    BY <1>1, <1>4 DEF ItemInv, ResponsesMatch, Matches, ToSet, requestVars
  <2>2. RecordedFirst' /\ \A q \in Request : Progress(q)'
    BY <1>1 DEF ItemInv, RecordedFirst, Progress, requestVars
  <2> QED
    BY <2>1, <2>2 DEF ItemInv
<1>7. PortInv'
  BY <1>1, PortFrame
<1> QED
  BY <1>4, <1>5, <1>6, <1>7

-----------------------------------------------------------------------------
LEMMA OtherStep ==
  ASSUME Parts,
         \/ \E r \in Request : Requests(r) \/ Replies(r)
         \/ \E l \in Line : Cut(l)
         \/ StatementFails
         \/ UNCHANGED vars
  PROVE  Parts'
<1>1. TypeOK /\ TypeOKRequests /\ plan \in Budget /\ died \in {"no", "db", "port"}
  BY DEF Parts, TypeOK
<1>2. ASSUME NEW r \in Request, Requests(r) \/ Replies(r) PROVE Parts'
  <2>1. TypeOKRequests' /\ Onward /\ UNCHANGED answer
    BY <1>1, <1>2, ServiceTypes DEF Requests, Replies
  <2> QED
    BY <1>1, <1>2, <2>1, Spent, Elsewhere DEF Requests, Replies
<1>3. ASSUME NEW l \in Line, Cut(l) PROVE Parts'
  <2>1. TypeOKRequests' /\ Onward /\ UNCHANGED answer
    BY <1>1, <1>3, CutTypes DEF Cut
  <2> QED
    BY <1>1, <1>3, <2>1, Spent, Elsewhere DEF Cut
<1>4. CASE StatementFails
  <2>1. plan' \in Budget
    BY <1>1, <1>4, Spent DEF StatementFails
  <2> QED
    BY <1>4, <2>1, DieStep DEF StatementFails
<1>5. CASE UNCHANGED vars
  <2>1. TypeOKRequests' /\ Onward
    BY <1>1, <1>5 DEF vars, requestVars, TypeOKRequests, Onward
  <2> QED
    BY <1>1, <1>5, <2>1, Elsewhere DEF vars, requestVars
<1> QED
  BY <1>2, <1>3, <1>4, <1>5

LEMMA PartsStep == Parts /\ [Next]_vars => Parts'
<1> SUFFICES ASSUME Parts, [Next]_vars PROVE Parts'
  OBVIOUS
<1>1. ASSUME NEW r \in Request, ServerStep(r) \/ InsertFails(r) PROVE Parts'
  BY <1>1, HandleStep, InsertedStep, AddedStep, UpdatedStep, UpdateSeenStep, InsertFailsStep DEF ServerStep
<1>2. ASSUME NEW r \in Request, NEW s \in Status, Responds(r, s) PROVE Parts'
  BY <1>2, RespondsStep
<1> QED
  BY <1>1, <1>2, ReportsStep, ServerStartStop, ClearStep, ViewStep, OtherStep DEF Next

\* Ids, answers, fields and the port agree in every reachable state.
THEOREM ItemsAgree == Spec => []IInvLocal
<1>1. Init => Parts
  BY PartsInit
<1>2. Parts /\ [Next]_vars => Parts'
  BY PartsStep
<1>3. Parts => IInvLocal
  BY PartsOfIInv
<1> QED
  BY <1>1, <1>2, <1>3, PTL DEF Spec

\* A response is never recorded or shown under another request's item.
THEOREM ResponsesKeepToRequests == Spec => []ResponsesMatch
<1>1. IInvLocal => ResponsesMatch
  BY DEF IInvLocal
<1> QED
  BY <1>1, ItemsAgree, PTL

\* A view lacks only what changed while it fetched its model or was away.
THEOREM FieldsAreShown == Spec => []FieldsShown
<1>1. IInvLocal => FieldsShown
  BY DEF IInvLocal
<1> QED
  BY <1>1, ItemsAgree, PTL

\* Nothing is forwarded before it is recorded.
THEOREM ForwardedIsRecorded == Spec => []RecordedFirst
<1>1. IInvLocal => RecordedFirst
  BY DEF IInvLocal
<1> QED
  BY <1>1, ItemsAgree, PTL

\* The hub knows whether its embedded server holds the port.
THEOREM ServerIsKnown == Spec => []UpstreamKnown
<1>1. IInvLocal => UpstreamKnown
  BY DEF IInvLocal
<1> QED
  BY <1>1, ItemsAgree, PTL

\* The embedded server ends the process only when its port is taken by another
\* program, or twice by starts that overlap.
THEOREM ServerStaysUp == Spec => StaysUp
<1>1. ASSUME Parts, [Next]_vars, Alive, died' = "port"
      PROVE  plan.port = "taken" \/ starting
  <2>1. StartUpstream
    BY <1>1 DEF StartThrows, Next, Alive, vars, Requests, Replies, ServerStep, Handle, Inserted, Insert, Added,
       Updated, UpdateSeen, InsertFails, Responds, TunnelStarts, Cut, Configured, Started,
       StopUpstream, Clear, Cleared, ClearSeen, StatementFails, Die, Ask, ReadFields, Select,
       Fetched, Drop, Reconnect
  <2>2. listening \/ plan.port = "taken"
    BY <1>1, <2>1 DEF StartUpstream, Alive
  <2> QED
    BY <1>1, <2>1, <2>2 DEF StartUpstream, Parts, PortInv, UpstreamKnown
<1>2. Parts /\ [Next]_vars => [Alive /\ died' = "port" => plan.port = "taken" \/ starting]_vars
  BY <1>1
<1>3. Init => Parts
  BY PartsInit
<1>4. Parts /\ [Next]_vars => Parts'
  BY PartsStep
<1> QED
  BY <1>2, <1>3, <1>4, PTL DEF Spec, StaysUp

-----------------------------------------------------------------------------
(* The history.  What a view shows depends on the statements under way:    *)
(* what was inserted and is not emitted yet, what was updated and is not   *)
(* emitted yet, and a clear that has taken effect.                         *)

\* The response a row has once the statements of its request have taken effect.
Due(r) == IF work[r] \in {"updated", "done"} THEN answer[r] ELSE NoAnswer
RowInv == IsFiniteSet(rows) /\ \A w \in rows : w.resp = Due(w.req)

\* Unless changes have crossed, nothing is inserted while the history is cleared,
\* and what was inserted keeps its row until it is emitted.
CrossInv ==
    ~mixed =>
        /\ clearing # "no" => \A r \in Request : work[r] \notin {"inserting", "inserted"}
        /\ clearing = "effect" => rows = {}
        /\ \A r \in Request : work[r] = "inserted" => \E w \in rows : w.req = r

\* An item that is shown was emitted, or selected, after its row was added; it has
\* the response of the row but for an update that is not emitted yet.
Backed(v) ==
    /\ work[v.req] # "inserted"
    /\ work[v.req] # "updated" => v.resp = Due(v.req)
    /\ clearing # "effect" => \E w \in rows : w.req = v.req
\* A row the view was not given and will not be: the history was full without it.
Beyond(u) ==
    /\ work[u.req] # "inserted"
    /\ \A i \in DOMAIN model.items : model.items[i].req # u.req
ViewInv ==
    ~mixed /\ phase \in {"selected", "ready"} =>
        /\ \A i, j \in DOMAIN model.items : model.items[i].req = model.items[j].req => i = j
        /\ \A i \in DOMAIN model.items : Backed(model.items[i])
        /\ \A u \in rows : Beyond(u) =>
              /\ Len(model.items) >= Limit
              /\ \A i \in DOMAIN model.items : u.id < model.items[i].id
              /\ \A w \in rows : work[w.req] = "inserted" => u.id < w.id
HistInv == RowInv /\ CrossInv /\ ViewInv

\* What Parts says of rows and items.
LEMMA RowsAndItems ==
  ASSUME Parts
  PROVE  /\ rows \subseteq Item /\ model \in [fields : Fields, items : Seq(Item)]
         /\ \A w \in rows : w \in Item /\ w.req \in Request /\ w.id \in Nat /\ w.id = id[w.req]
         /\ \A i \in DOMAIN model.items :
               /\ model.items[i] \in Item
               /\ model.items[i].req \in Request /\ model.items[i].id \in Nat
               /\ model.items[i].id = id[model.items[i].req]
         /\ \A q \in Request : id[q] \in Nat /\ id[q] <= lastId
         /\ \A q, r \in Request : id[q] = id[r] /\ id[q] # 0 => q = r
         /\ lastId \in Nat
<1>1. rows \subseteq Item /\ model \in [fields : Fields, items : Seq(Item)] /\ lastId \in Nat
      /\ id \in [Request -> Nat]
  BY DEF Parts, TypeOK
<1>2. \A w \in rows : w \in Item /\ Matches(w)
  BY <1>1 DEF Parts, ItemInv, ResponsesMatch
<1>3. \A i \in DOMAIN model.items : model.items[i] \in Item /\ Matches(model.items[i])
  <2>1. \A i \in DOMAIN model.items : model.items[i] \in Item
    BY <1>1
  <2> QED
    BY <2>1 DEF Parts, ItemInv, ResponsesMatch, ToSet
<1>4. \A w \in rows : w \in Item /\ w.req \in Request /\ w.id \in Nat /\ w.id = id[w.req]
  BY <1>2 DEF Item, Matches
<1>5. \A i \in DOMAIN model.items :
               /\ model.items[i] \in Item
               /\ model.items[i].req \in Request /\ model.items[i].id \in Nat
               /\ model.items[i].id = id[model.items[i].req]
  BY <1>3 DEF Item, Matches
<1>6. /\ \A q \in Request : id[q] \in Nat /\ id[q] <= lastId
      /\ \A q, r \in Request : id[q] = id[r] /\ id[q] # 0 => q = r
  BY <1>1 DEF Parts, ItemInv, Progress
<1> QED
  BY <1>1, <1>4, <1>5, <1>6

LEMMA HistInit == Init => HistInv
<1> SUFFICES ASSUME Init PROVE HistInv
  OBVIOUS
<1>1. RowInv
  BY FS_EmptySet DEF Init, RowInv
<1> QED
  BY <1>1 DEF Init, HistInv, CrossInv, ViewInv

\* Requests go on, and nothing is emitted, inserted or updated.
LEMMA HistFrame ==
  ASSUME Parts, HistInv, UNCHANGED <<rows, clearing>>, model'.items = model.items,
         phase' \in {"selected", "ready"} => phase \in {"selected", "ready"},
         mixed => mixed',
         \A q \in Request :
            /\ work'[q] = "inserted" <=> work[q] = "inserted"
            /\ work'[q] = "updated" <=> work[q] = "updated"
            /\ Due(q)' = Due(q)
            /\ work'[q] = "inserting" /\ work[q] # "inserting" => clearing = "no" \/ mixed'
  PROVE  HistInv'
<1>1. \A w \in rows : w.req \in Request
  BY RowsAndItems
<1>2. \A i \in DOMAIN model.items : model.items[i].req \in Request
  BY RowsAndItems
<1>3. RowInv'
  BY <1>1 DEF HistInv, RowInv
<1>4. CrossInv'
  BY DEF HistInv, CrossInv
<1>5. ViewInv'
  <2> SUFFICES ASSUME ~mixed, phase \in {"selected", "ready"}
               PROVE  ViewInv'
    BY DEF ViewInv
  <2>1. \A i \in DOMAIN model.items : Backed(model.items[i])'
    BY <1>2 DEF HistInv, ViewInv, Backed
  <2>2. \A u \in rows : Beyond(u)' => Beyond(u)
    BY <1>1 DEF Beyond
  <2> QED
    BY <1>1, <2>1, <2>2 DEF HistInv, ViewInv
<1> QED
  BY <1>3, <1>4, <1>5 DEF HistInv

\* Neither requests nor items change.
LEMMA HistSame ==
  ASSUME Parts, HistInv, UNCHANGED <<answer, itemVars>>, model'.items = model.items,
         phase' \in {"selected", "ready"} => phase \in {"selected", "ready"}
  PROVE  HistInv'
BY HistFrame DEF itemVars, Due

-----------------------------------------------------------------------------
(* Statements and emissions.                                               *)

LEMMA HistHandle ==
  ASSUME Parts, HistInv, NEW r \in Request, Handle(r) \/ InsertFails(r)
  PROVE  HistInv'
<1>1. /\ UNCHANGED <<answer, rows, clearing, phase, model>>
      /\ \A q \in Request : q # r => work'[q] = work[q]
      /\ work'[r] \in {"inserting", "failed"} /\ (work'[r] = "inserting" => mixed' = (mixed \/ clearing # "no"))
      /\ mixed => mixed'
  BY DEF Handle, InsertFails, Arrive, Parts, TypeOK, requestVars
<1>2. work[r] \in {"none", "inserting"}
  BY DEF Handle, Arrive, InsertFails, Parts, ItemInv, Progress
<1>3. \A q \in Request :
            /\ work'[q] = "inserted" <=> work[q] = "inserted"
            /\ work'[q] = "updated" <=> work[q] = "updated"
            /\ Due(q)' = Due(q)
            /\ work'[q] = "inserting" /\ work[q] # "inserting" => clearing = "no" \/ mixed'
  BY <1>1, <1>2 DEF Due
<1> QED
  BY <1>1, <1>3, HistFrame

LEMMA HistResponds ==
  ASSUME Parts, HistInv, NEW r \in Request, NEW s \in Status, Responds(r, s)
  PROVE  HistInv'
<1>1. UNCHANGED <<rows, clearing, mixed, phase>> /\ model'.items = model.items
  BY DEF Responds, Report, Parts, TypeOK
<1>2. work[r] = "forwarded" /\ answer[r] = NoAnswer
  BY DEF Responds, Parts, ItemInv, Progress
<1>3. \A q \in Request : /\ work'[q] = IF q = r THEN "updating" ELSE work[q]
                         /\ q # r => answer'[q] = answer[q]
  BY <1>2 DEF Responds, Answered, Parts, TypeOK, TypeOKRequests
<1> QED
  BY <1>1, <1>2, <1>3, HistFrame DEF Due

LEMMA HistInserted ==
  ASSUME Parts, HistInv, NEW r \in Request, Inserted(r)
  PROVE  HistInv'
<1> DEFINE row == [id |-> lastId + 1, req |-> r, resp |-> NoAnswer]
<1>1. /\ UNCHANGED <<answer, clearing, phase, model, mixed>>
      /\ work[r] = "inserting" /\ rows' = rows \cup {row}
      /\ \A q \in Request : work'[q] = IF q = r THEN "inserted" ELSE work[q]
  BY DEF Inserted, Insert, Parts, TypeOK, requestVars
<1>2. row.req = r /\ row.id = lastId + 1 /\ row.resp = NoAnswer
  OBVIOUS
<1> HIDE DEF row
<1>3. \A q \in Request : Due(q)' = Due(q) /\ (work[q] = "inserting" => Due(q) = NoAnswer)
  BY <1>1 DEF Due
<1>4. \A w \in rows : w.req \in Request /\ w.id \in Nat /\ w.id <= lastId
  BY RowsAndItems
<1>5. \A i \in DOMAIN model.items : model.items[i].req \in Request
  BY RowsAndItems
<1>6. \A w \in rows : w.req # r
  BY <1>1, RowsAndItems DEF Parts, TypeOK, ItemInv, Progress, Item
<1>7. \A i \in DOMAIN model.items : model.items[i].req # r
  BY <1>1, RowsAndItems DEF Parts, TypeOK, ItemInv, Progress, Item
<1>8. RowInv'
  <2>1. IsFiniteSet(rows')
    BY <1>1, FS_AddElement DEF HistInv, RowInv
  <2>2. \A w \in rows' : w.resp = Due(w.req)'
    BY <1>1, <1>2, <1>3, <1>4 DEF HistInv, RowInv
  <2> QED
    BY <2>1, <2>2 DEF RowInv
<1>9. CrossInv'
  BY <1>1, <1>2 DEF HistInv, CrossInv
<1>10. ViewInv'
  <2> SUFFICES ASSUME ~mixed, phase \in {"selected", "ready"}
               PROVE  ViewInv'
    BY <1>1 DEF ViewInv
  <2>1. \A i \in DOMAIN model.items : Backed(model.items[i])'
    BY <1>1, <1>3, <1>5, <1>7 DEF HistInv, ViewInv, Backed
  <2>2. \A u \in rows' : Beyond(u)' => u \in rows /\ Beyond(u)
    BY <1>1, <1>2, <1>4, <1>6 DEF Beyond
  <2>3. \A u \in rows : Beyond(u) =>
              /\ Len(model.items) >= Limit
              /\ \A i \in DOMAIN model.items : u.id < model.items[i].id
              /\ \A w \in rows : work[w.req] = "inserted" => u.id < w.id
    BY DEF HistInv, ViewInv
  <2>4. ASSUME NEW u \in rows, Beyond(u), NEW w \in rows', work'[w.req] = "inserted"
        PROVE  u.id < w.id
    <3>1. CASE w = row
      BY <1>2, <1>4, <3>1, RowsAndItems
    <3>2. CASE w \in rows
      BY <1>1, <1>4, <1>6, <2>3, <2>4, <3>2
    <3> QED
      BY <1>1, <3>1, <3>2
  <2>5. \A i, j \in DOMAIN model.items : model.items[i].req = model.items[j].req => i = j
    BY DEF HistInv, ViewInv
  <2> QED
    BY <1>1, <2>1, <2>2, <2>3, <2>4, <2>5 DEF ViewInv
<1> QED
  BY <1>8, <1>9, <1>10 DEF HistInv

\* What is emitted is shown, or changes have crossed, or there is no view yet.
LEMMA Shown ==
  ASSUME Parts, NEW items, SeesItems(items), UNCHANGED phase,
         ~mixed', phase' \in {"selected", "ready"}
  PROVE  ~mixed /\ phase = "ready" /\ model'.items = items
BY RowsAndItems DEF SeesItems, Shows, Parts, TypeOK

LEMMA HistAdded ==
  ASSUME Parts, HistInv, NEW r \in Request, Added(r)
  PROVE  HistInv'
<1> DEFINE new == [id |-> id[r], req |-> r, resp |-> NoAnswer]
           items == <<new>> \o model.items
<1>1. /\ UNCHANGED <<answer, rows, id, clearing, phase>>
      /\ work[r] = "inserted" /\ (mixed => mixed')
      /\ \A q \in Request : work'[q] = IF q = r THEN "forwarded" ELSE work[q]
      /\ SeesItems(items)
  BY DEF Added, SeesItems, Parts, TypeOK, requestVars
<1>2. /\ model.items \in Seq(Item)
      /\ \A w \in rows : w.req \in Request /\ w.id = id[w.req]
      /\ \A i \in DOMAIN model.items : model.items[i].req \in Request
  BY RowsAndItems
<1>3. \A q \in Request : Due(q)' = Due(q)
  BY <1>1 DEF Due
<1>4. RowInv'
  BY <1>1, <1>2, <1>3 DEF HistInv, RowInv
<1>5. CrossInv'
  BY <1>1 DEF HistInv, CrossInv
<1>6. ViewInv'
  <2> SUFFICES ASSUME ~mixed', phase' \in {"selected", "ready"}
               PROVE  ViewInv'
    BY DEF ViewInv
  <2>1. ~mixed /\ phase = "ready" /\ model'.items = items
    BY <1>1, Shown
  <2>2. /\ items \in Seq(Item \cup {new}) /\ DOMAIN items = 1..(Len(model.items) + 1)
        /\ Len(items) = Len(model.items) + 1 /\ Len(model.items) \in Nat
        /\ DOMAIN model.items = 1..Len(model.items)
    <3> HIDE DEF new
    <3> QED
      BY <1>2
  <2>3. /\ items[1] = new
        /\ \A i \in DOMAIN items : i # 1 => i - 1 \in DOMAIN model.items /\ items[i] = model.items[i - 1]
        /\ \A i \in DOMAIN model.items : i + 1 \in DOMAIN items /\ items[i + 1] = model.items[i]
    <3> HIDE DEF new
    <3> QED
      BY <1>2, <2>2
  <2>4. new.req = r /\ new.id = id[r] /\ new.resp = NoAnswer
    OBVIOUS
  <2> HIDE DEF items, new
  <2>5. /\ \A i, j \in DOMAIN model.items : model.items[i].req = model.items[j].req => i = j
        /\ \A i \in DOMAIN model.items : Backed(model.items[i])
        /\ \A u \in rows : Beyond(u) =>
              /\ Len(model.items) >= Limit
              /\ \A i \in DOMAIN model.items : u.id < model.items[i].id
              /\ \A w \in rows : work[w.req] = "inserted" => u.id < w.id
    BY <2>1 DEF HistInv, ViewInv
  <2>6. \A i \in DOMAIN model.items : model.items[i].req # r
    BY <1>1, <2>5 DEF Backed
  <2>7. PICK row \in rows : row.req = r /\ row.id = id[r]
    BY <1>1, <1>2, <2>1 DEF HistInv, CrossInv
  <2>8. ASSUME NEW i \in DOMAIN items, NEW j \in DOMAIN items, items[i].req = items[j].req
        PROVE  i = j
    <3>1. CASE i = 1 \/ j = 1
      BY <2>3, <2>4, <2>6, <2>8, <3>1
    <3>2. CASE i # 1 /\ j # 1
      <4>1. i - 1 = j - 1
        BY <2>3, <2>5, <2>8, <3>2
      <4> QED
        BY <2>2, <4>1
    <3> QED
      BY <3>1, <3>2
  <2>9. ASSUME NEW i \in DOMAIN items PROVE Backed(model.items[i])'
    <3>1. CASE i = 1
      <4>1. Due(r) = NoAnswer
        BY <1>1 DEF Due
      <4>2. model'.items[i] = new /\ Due(r)' = NoAnswer /\ work'[r] = "forwarded"
        BY <1>1, <1>3, <2>1, <2>3, <3>1, <4>1
      <4>3. row \in rows' /\ row.req = r
        BY <1>1, <2>7
      <4> QED
        BY <2>4, <4>2, <4>3 DEF Backed
    <3>2. CASE i # 1
      <4>1. Backed(items[i]) /\ items[i].req \in Request /\ items[i].req # r
        BY <1>2, <2>3, <2>5, <2>6, <3>2
      <4> QED
        BY <1>1, <1>3, <2>1, <4>1 DEF Backed
    <3> QED
      BY <3>1, <3>2
  <2>10. ASSUME NEW u \in rows, Beyond(u)'
         PROVE  /\ Len(items) >= Limit
                /\ \A i \in DOMAIN items : u.id < items[i].id
                /\ \A w \in rows : work'[w.req] = "inserted" => u.id < w.id
    <3>1. u.req # r
      BY <2>1, <2>2, <2>3, <2>4, <2>10 DEF Beyond
    <3>2. \A i \in DOMAIN model.items : model.items[i].req # u.req
      BY <2>1, <2>3, <2>10 DEF Beyond
    <3>3. Beyond(u)
      BY <1>1, <1>2, <2>10, <3>1, <3>2 DEF Beyond
    <3>4. u.id < id[r]
      BY <1>1, <2>5, <2>7, <3>3
    <3>5. \A i \in DOMAIN items : u.id < items[i].id
      BY <2>3, <2>4, <2>5, <3>3, <3>4
    <3>6. Len(items) >= Limit
      BY <2>2, <2>5, <3>3, LocalAssumption
    <3>7. \A w \in rows : work'[w.req] = "inserted" => u.id < w.id
      BY <1>1, <1>2, <2>5, <3>3
    <3> QED
      BY <3>5, <3>6, <3>7
  <2> QED
    BY <1>1, <2>1, <2>8, <2>9, <2>10 DEF ViewInv
<1> QED
  BY <1>4, <1>5, <1>6 DEF HistInv

LEMMA HistUpdated ==
  ASSUME Parts, HistInv, NEW r \in Request, Updated(r)
  PROVE  HistInv'
<1> DEFINE Renewed(w) == IF w.id = id[r] THEN [w EXCEPT !.resp = answer[r]] ELSE w
<1>1. /\ UNCHANGED <<answer, clearing, phase, model, mixed>>
      /\ work[r] = "updating" /\ rows' = {Renewed(w) : w \in rows}
      /\ \A q \in Request : work'[q] = IF q = r THEN "updated" ELSE work[q]
  BY DEF Updated, Parts, TypeOK, requestVars
<1>2. /\ \A w \in rows : w \in Item /\ w.req \in Request /\ (w.id = id[r] <=> w.req = r)
      /\ \A i \in DOMAIN model.items : model.items[i].req \in Request
  <2>1. id[r] # 0
    BY <1>1 DEF Parts, ItemInv, Progress
  <2> QED
    BY <2>1, RowsAndItems
<1>3. \A w \in rows : /\ Renewed(w).id = w.id /\ Renewed(w).req = w.req
                      /\ Renewed(w).resp = IF w.req = r THEN answer[r] ELSE w.resp
  BY <1>2 DEF Item
<1>4. IsFiniteSet(rows')
  <2> DEFINE f == [w \in rows |-> Renewed(w)]
  <2>1. f \in Surjection(rows, rows')
    BY <1>1 DEF Surjection
  <2>2. IsFiniteSet(rows)
    BY DEF HistInv, RowInv
  <2> HIDE DEF f
  <2> QED
    BY <2>1, <2>2, FS_Surjection
<1> HIDE DEF Renewed
<1>5. /\ \A v \in rows' : \E w \in rows : /\ v.id = w.id /\ v.req = w.req
                                          /\ v.resp = IF w.req = r THEN answer[r] ELSE w.resp
      /\ \A w \in rows : \E v \in rows' : v.req = w.req
  BY <1>1, <1>3
<1>6. /\ \A q \in Request : q # r => Due(q)' = Due(q)
      /\ Due(r)' = answer[r]
  BY <1>1 DEF Due
<1>7. RowInv'
  BY <1>2, <1>4, <1>5, <1>6 DEF HistInv, RowInv
<1>8. CrossInv'
  <2> SUFFICES ASSUME ~mixed PROVE CrossInv'
    BY <1>1 DEF CrossInv
  <2>1. \A q \in Request : work'[q] \in {"inserting", "inserted"} => work[q] = work'[q]
    BY <1>1
  <2>2. rows = {} => rows' = {}
    BY <1>1
  <2>3. /\ clearing # "no" => \A q \in Request : work[q] \notin {"inserting", "inserted"}
        /\ clearing = "effect" => rows = {}
        /\ \A q \in Request : work[q] = "inserted" => \E w \in rows : w.req = q
    BY DEF HistInv, CrossInv
  <2>4. \A q \in Request : work'[q] = "inserted" => \E w \in rows' : w.req = q
    BY <1>5, <2>1, <2>3
  <2> QED
    BY <1>1, <2>1, <2>2, <2>3, <2>4 DEF CrossInv
<1>9. ViewInv'
  <2> SUFFICES ASSUME ~mixed, phase \in {"selected", "ready"}
               PROVE  ViewInv'
    BY <1>1 DEF ViewInv
  <2>1. ASSUME NEW i \in DOMAIN model.items PROVE Backed(model.items[i])'
    <3>1. Backed(model.items[i])
      BY DEF HistInv, ViewInv
    <3> QED
      BY <1>1, <1>2, <1>5, <1>6, <3>1 DEF Backed
  <2>2. \A v \in rows' : Beyond(v)' =>
              /\ Len(model.items) >= Limit
              /\ \A i \in DOMAIN model.items : v.id < model.items[i].id
              /\ \A w \in rows' : work'[w.req] = "inserted" => v.id < w.id
    <3> SUFFICES ASSUME NEW v \in rows', Beyond(v)'
                 PROVE  /\ Len(model.items) >= Limit
                        /\ \A i \in DOMAIN model.items : v.id < model.items[i].id
                        /\ \A w \in rows' : work'[w.req] = "inserted" => v.id < w.id
      OBVIOUS
    <3>1. PICK u \in rows : v.id = u.id /\ v.req = u.req
      BY <1>5
    <3>2. Beyond(u)
      BY <1>1, <1>2, <3>1 DEF Beyond
    <3>3. /\ Len(model.items) >= Limit
          /\ \A i \in DOMAIN model.items : u.id < model.items[i].id
          /\ \A w \in rows : work[w.req] = "inserted" => u.id < w.id
      BY <3>2 DEF HistInv, ViewInv
    <3>4. ASSUME NEW w \in rows', work'[w.req] = "inserted" PROVE v.id < w.id
      <4>1. PICK x \in rows : w.id = x.id /\ w.req = x.req
        BY <1>5
      <4>2. work[x.req] = "inserted"
        BY <1>1, <1>2, <3>4, <4>1
      <4> QED
        BY <3>1, <3>3, <4>1, <4>2
    <3> QED
      BY <3>1, <3>3, <3>4
  <2>3. \A i, j \in DOMAIN model.items : model.items[i].req = model.items[j].req => i = j
    BY DEF HistInv, ViewInv
  <2> QED
    BY <1>1, <2>1, <2>2, <2>3 DEF ViewInv
<1> QED
  BY <1>7, <1>8, <1>9 DEF HistInv

LEMMA HistUpdateSeen ==
  ASSUME Parts, HistInv, NEW r \in Request, UpdateSeen(r)
  PROVE  HistInv'
<1> DEFINE new == [id |-> id[r], req |-> r, resp |-> answer[r]]
           items == [i \in DOMAIN model.items |->
                        IF model.items[i].id = id[r] THEN new ELSE model.items[i]]
<1>1. /\ UNCHANGED <<answer, rows, clearing, phase>>
      /\ work[r] = "updated" /\ (mixed => mixed')
      /\ \A q \in Request : work'[q] = IF q = r THEN "done" ELSE work[q]
      /\ SeesItems(items)
  BY DEF UpdateSeen, SeesItems, Parts, TypeOK, requestVars
<1>2. /\ model.items \in Seq(Item)
      /\ \A w \in rows : w.req \in Request
      /\ \A i \in DOMAIN model.items : /\ model.items[i].req \in Request
                                       /\ model.items[i].id = id[r] <=> model.items[i].req = r
  <2>1. id[r] # 0
    BY <1>1 DEF Parts, ItemInv, Progress
  <2> QED
    BY <2>1, RowsAndItems
<1>3. \A q \in Request : Due(q)' = Due(q)
  BY <1>1 DEF Due
<1>4. RowInv'
  BY <1>1, <1>2, <1>3 DEF HistInv, RowInv
<1>5. CrossInv'
  BY <1>1 DEF HistInv, CrossInv
<1>6. ViewInv'
  <2> SUFFICES ASSUME ~mixed', phase' \in {"selected", "ready"}
               PROVE  ViewInv'
    BY DEF ViewInv
  <2>1. ~mixed /\ phase = "ready" /\ model'.items = items
    BY <1>1, Shown
  <2>2. new.req = r /\ new.id = id[r] /\ new.resp = answer[r]
    OBVIOUS
  <2> HIDE DEF new
  <2>3. /\ DOMAIN items = DOMAIN model.items
        /\ \A i \in DOMAIN items : /\ items[i].req = model.items[i].req
                                   /\ items[i].id = model.items[i].id
                                   /\ items[i].resp = IF items[i].req = r THEN answer[r]
                                                      ELSE model.items[i].resp
    BY <1>2, <2>2
  <2>4. Len(items) = Len(model.items)
    BY <1>2, <2>3
  <2> HIDE DEF items
  <2>5. /\ \A i, j \in DOMAIN model.items : model.items[i].req = model.items[j].req => i = j
        /\ \A i \in DOMAIN model.items : Backed(model.items[i])
        /\ \A u \in rows : Beyond(u) =>
              /\ Len(model.items) >= Limit
              /\ \A i \in DOMAIN model.items : u.id < model.items[i].id
              /\ \A w \in rows : work[w.req] = "inserted" => u.id < w.id
    BY <2>1 DEF HistInv, ViewInv
  <2>6. ASSUME NEW i \in DOMAIN items PROVE Backed(model.items[i])'
    <3>1. Backed(model.items[i]) /\ model.items[i].req \in Request
      BY <1>2, <2>3, <2>5
    <3>2. Due(r)' = answer[r]
      BY <1>1 DEF Due
    <3> QED
      BY <1>1, <1>3, <2>1, <2>3, <3>1, <3>2 DEF Backed
  <2>7. \A u \in rows : Beyond(u)' => Beyond(u)
    BY <1>1, <1>2, <2>1, <2>3 DEF Beyond
  <2>8. \A w \in rows : work'[w.req] = "inserted" => work[w.req] = "inserted"
    BY <1>1, <1>2
  <2> QED
    BY <1>1, <2>1, <2>3, <2>4, <2>5, <2>6, <2>7, <2>8 DEF ViewInv
<1> QED
  BY <1>4, <1>5, <1>6 DEF HistInv

LEMMA HistClear ==
  ASSUME Parts, HistInv, Clear \/ Cleared \/ ClearSeen
  PROVE  HistInv'
<1>1. UNCHANGED <<answer, work, phase>> /\ (mixed => mixed')
  <2>1. UNCHANGED <<answer, work, phase>>
    BY DEF Clear, Cleared, ClearSeen, requestVars
  <2>2. mixed => mixed'
    BY DEF Clear, Cleared, ClearSeen, SeesItems
  <2> QED
    BY <2>1, <2>2
<1>2. \A q : Due(q)' = Due(q)
  BY <1>1 DEF Due
<1>3. CASE Clear
  <2>1. UNCHANGED <<rows, model>> /\ clearing = "no" /\ clearing' = "issued"
        /\ (~mixed' => \A q \in Request : work[q] \notin {"inserting", "inserted"})
    BY <1>3 DEF Clear
  <2>2. RowInv' /\ CrossInv'
    BY <1>1, <1>2, <2>1 DEF HistInv, RowInv, CrossInv
  <2>3. ViewInv'
    BY <1>1, <1>2, <2>1 DEF HistInv, ViewInv, Backed, Beyond
  <2> QED
    BY <2>2, <2>3 DEF HistInv
<1>4. CASE Cleared
  <2>1. /\ UNCHANGED <<mixed, model>> /\ clearing = "issued" /\ clearing' = "effect"
        /\ rows' = {}
    BY <1>4 DEF Cleared
  <2>2. RowInv' /\ CrossInv'
    BY <1>1, <1>2, <2>1, FS_EmptySet DEF HistInv, RowInv, CrossInv
  <2>3. ViewInv'
    BY <1>1, <1>2, <2>1 DEF HistInv, ViewInv, Backed
  <2> QED
    BY <2>2, <2>3 DEF HistInv
<1>5. CASE ClearSeen
  <2>1. UNCHANGED rows /\ clearing = "effect" /\ clearing' = "no" /\ SeesItems(<< >>)
    BY <1>5 DEF ClearSeen
  <2>2. RowInv' /\ CrossInv'
    BY <1>1, <1>2, <2>1 DEF HistInv, RowInv, CrossInv
  <2>3. ASSUME ~mixed', phase' \in {"selected", "ready"}
        PROVE  ~mixed /\ model'.items = << >> /\ rows' = {}
    BY <1>1, <2>1, <2>3, Shown DEF HistInv, CrossInv
  <2>4. ViewInv'
    BY <2>3 DEF ViewInv
  <2> QED
    BY <2>2, <2>4 DEF HistInv
<1> QED
  BY <1>3, <1>4, <1>5

LEMMA HistSelect ==
  ASSUME Parts, HistInv, Select
  PROVE  HistInv'
<1>1. /\ UNCHANGED <<answer, rows, work, clearing>>
      /\ mixed' = (mixed \/ clearing = "effect" \/ \E r \in Request : work[r] = "inserted")
  BY DEF Select, requestVars
<1>2. \A q : Due(q)' = Due(q)
  BY <1>1 DEF Due
<1>3. RowInv' /\ CrossInv'
  BY <1>1, <1>2 DEF HistInv, RowInv, CrossInv
<1>4. PICK s \in Newest(Limit) : model' = [model EXCEPT !.items = s]
  BY DEF Select
<1>5. PICK k \in 0..Limit : s \in [1..k -> rows]
  BY <1>4 DEF Newest
<1>6. /\ k \in Nat /\ DOMAIN s = 1..k /\ Len(s) = k /\ model'.items = s
      /\ \A i \in DOMAIN s : s[i] \in rows
  <2>1. model'.items = s
    BY <1>4, RowsAndItems
  <2>2. k \in Nat
    BY <1>5, LocalAssumption
  <2> QED
    BY <1>5, <2>1, <2>2
<1>7. /\ \A i, j \in DOMAIN s : i < j => s[i].id > s[j].id
      /\ \A w \in rows \ ToSet(s) : Len(s) = Limit /\ \A i \in DOMAIN s : s[i].id > w.id
  BY <1>4 DEF Newest
<1>8. ViewInv'
  <2> SUFFICES ASSUME ~mixed' PROVE ViewInv'
    BY DEF ViewInv
  <2>1. clearing # "effect" /\ \A w \in rows : /\ w.req \in Request /\ work[w.req] # "inserted"
                                               /\ w.id \in Nat /\ w.id = id[w.req]
    BY <1>1, RowsAndItems
  <2>2. ASSUME NEW i \in DOMAIN s, NEW j \in DOMAIN s, s[i].req = s[j].req PROVE i = j
    <3>1. s[i].id = s[j].id /\ s[i].id \in Nat
      BY <1>6, <2>1, <2>2
    <3>2. i \in Nat /\ j \in Nat
      BY <1>6
    <3> QED
      BY <1>7, <3>1, <3>2
  <2>3. ASSUME NEW i \in DOMAIN s PROVE Backed(model.items[i])'
    <3>1. s[i] \in rows /\ s[i].resp = Due(s[i].req) /\ model'.items[i] = s[i]
      BY <1>6 DEF HistInv, RowInv
    <3> QED
      BY <1>1, <1>2, <2>1, <3>1 DEF Backed
  <2>4. ASSUME NEW u \in rows, Beyond(u)'
        PROVE  Len(s) >= Limit /\ \A i \in DOMAIN s : u.id < s[i].id
    <3>1. u \notin ToSet(s)
      BY <1>6, <2>4 DEF Beyond, ToSet
    <3>2. Len(s) = Limit /\ \A i \in DOMAIN s : s[i].id > u.id
      BY <1>7, <3>1
    <3> QED
      BY <1>6, <2>1, <3>2, LocalAssumption
  <2> QED
    BY <1>1, <1>6, <2>1, <2>2, <2>3, <2>4 DEF ViewInv
<1> QED
  BY <1>3, <1>8 DEF HistInv

LEMMA HistStep == Parts /\ HistInv /\ [Next]_vars => HistInv'
<1> SUFFICES ASSUME Parts, HistInv, [Next]_vars PROVE HistInv'
  OBVIOUS
<1>1. ASSUME NEW r \in Request, ServerStep(r) \/ InsertFails(r) PROVE HistInv'
  BY <1>1, HistHandle, HistInserted, HistAdded, HistUpdated, HistUpdateSeen DEF ServerStep
<1>2. ASSUME NEW r \in Request, NEW s \in Status, Responds(r, s) PROVE HistInv'
  BY <1>2, HistResponds
<1>3. CASE \/ \E s \in {"connected", "disconnected"} : TunnelStarts(s)
           \/ Configured \/ StartThrows \/ Started \/ StopUpstream
  <2>1. UNCHANGED <<answer, itemVars, phase>>
    BY <1>3 DEF TunnelStarts, Configured, StartThrows, Started, StopUpstream, requestVars
  <2>2. model'.items = model.items
    BY <1>3, RowsAndItems DEF TunnelStarts, Configured, StartThrows, Started, StopUpstream, Report
  <2> QED
    BY <2>1, <2>2, HistSame
<1>4. CASE StartUpstream \/ StatementFails
  BY <1>4, HistSame DEF StartUpstream, StatementFails, Die, CutLines, requestVars
<1>5. CASE (\E r \in Request : Requests(r) \/ Replies(r)) \/ (\E l \in Line : Cut(l)) \/ UNCHANGED vars
  BY <1>5, HistSame DEF Requests, Replies, Send, Reply, Read, Cut, CutLines, vars, requestVars
<1>6. CASE Ask \/ ReadFields \/ Fetched \/ Drop \/ Reconnect
  <2>1. UNCHANGED <<answer, itemVars>>
        /\ (phase' \in {"selected", "ready"} => phase \in {"selected", "ready"})
    BY <1>6 DEF Ask, ReadFields, Fetched, Drop, Reconnect, requestVars
  <2>2. model'.items = model.items
    BY <1>6, RowsAndItems DEF Ask, ReadFields, Fetched, Drop, Reconnect
  <2> QED
    BY <2>1, <2>2, HistSame
<1> QED
  BY <1>1, <1>2, <1>3, <1>4, <1>5, <1>6, HistClear, HistSelect DEF Next

\* The least of two numbers.
LEMMA MinOfTwo ==
  ASSUME NEW a \in Nat, NEW b \in Nat
  PROVE  Min({a, b}) \in {a, b} /\ Min({a, b}) <= a /\ Min({a, b}) <= b
<1>1. \E x \in {a, b} : \A y \in {a, b} : x =< y
  <2>1. a <= b \/ b <= a
    OBVIOUS
  <2> QED
    BY <2>1
<1> QED
  BY <1>1 DEF Min

LEMMA HistShows == Parts /\ HistInv => HistoryShown
<1> SUFFICES ASSUME Parts, HistInv, phase = "ready", Settled, ~mixed
             PROVE  /\ Len(model.items) = Cardinality(ToSet(model.items))
                    /\ ToSet(model.items) \subseteq rows
                    /\ Len(model.items) >= Min({Limit, Cardinality(rows)})
                    /\ \A v \in ToSet(model.items), w \in rows \ ToSet(model.items) : w.id < v.id
  BY DEF HistoryShown
<1> DEFINE items == model.items
           shown == ToSet(items)
<1> SUFFICES /\ Len(items) = Cardinality(shown)
             /\ shown \subseteq rows
             /\ Len(items) >= Min({Limit, Cardinality(rows)})
             /\ \A v \in shown, w \in rows \ shown : w.id < v.id
  OBVIOUS
<1>1. /\ \A i, j \in DOMAIN items : items[i].req = items[j].req => i = j
      /\ \A i \in DOMAIN items : Backed(items[i])
      /\ \A u \in rows : Beyond(u) =>
              /\ Len(items) >= Limit
              /\ \A i \in DOMAIN items : u.id < items[i].id
  BY DEF HistInv, ViewInv
<1>2. /\ clearing # "effect" /\ \A q \in Request : work[q] \notin {"inserted", "updated"}
  BY DEF Settled
<1>3. /\ items \in Seq(Item) /\ DOMAIN items = 1..Len(items) /\ Len(items) \in Nat
      /\ \A i \in DOMAIN items : items[i] \in Item /\ items[i].req \in Request
                                 /\ items[i].id = id[items[i].req]
      /\ \A w \in rows : w \in Item /\ w.req \in Request /\ w.id = id[w.req] /\ w.resp = Due(w.req)
  BY RowsAndItems DEF HistInv, RowInv
<1>4. \A v \in shown : \E i \in DOMAIN items : v = items[i]
  BY DEF ToSet
<1>5. \A i \in DOMAIN items : items[i] \in shown
  BY DEF ToSet
<1>6. ASSUME NEW v \in Item, NEW w \in Item, v.id = w.id, v.req = w.req, v.resp = w.resp
      PROVE  v = w
  BY <1>6 DEF Item
<1>7. \A i \in DOMAIN items, w \in rows : w.req = items[i].req => w = items[i]
  <2> SUFFICES ASSUME NEW i \in DOMAIN items, NEW w \in rows, w.req = items[i].req
               PROVE  w = items[i]
    OBVIOUS
  <2>1. items[i].resp = Due(items[i].req)
    BY <1>1, <1>2, <1>3 DEF Backed
  <2> QED
    BY <1>3, <1>6, <2>1
<1>8. shown \subseteq rows
  <2> SUFFICES ASSUME NEW i \in DOMAIN items PROVE items[i] \in rows
    BY <1>4
  <2>1. PICK w \in rows : w.req = items[i].req
    BY <1>1, <1>2 DEF Backed
  <2> QED
    BY <1>7, <2>1
<1>9. Len(items) = Cardinality(shown)
  <2>1. items \in [1..Len(items) -> shown]
    BY <1>3, <1>5
  <2>2. items \in Injection(1..Len(items), shown)
    BY <1>1, <1>3, <2>1 DEF Injection, IsInjective
  <2>3. items \in Surjection(1..Len(items), shown)
    BY <1>3, <1>4, <2>1 DEF Surjection
  <2>4. ExistsBijection(1..Len(items), shown)
    BY <2>2, <2>3 DEF ExistsBijection, Bijection
  <2> QED
    BY <1>3, <2>4, FS_CountingElements
<1>10. \A w \in rows \ shown : Beyond(w)
  BY <1>2, <1>3, <1>5, <1>7 DEF Beyond
<1>11. \A v \in shown, w \in rows \ shown : w.id < v.id
  BY <1>1, <1>4, <1>10
<1>12. Len(items) >= Min({Limit, Cardinality(rows)})
  <2>1. Limit \in Nat /\ Cardinality(rows) \in Nat
    BY LocalAssumption, FS_CardinalityType DEF HistInv, RowInv
  <2>2. /\ Min({Limit, Cardinality(rows)}) \in Nat
        /\ Min({Limit, Cardinality(rows)}) <= Limit
        /\ Min({Limit, Cardinality(rows)}) <= Cardinality(rows)
    BY <2>1, MinOfTwo
  <2>3. CASE rows \subseteq shown
    <3>1. rows = shown
      BY <1>8, <2>3
    <3>2. Len(items) = Cardinality(rows)
      BY <1>9, <3>1
    <3> QED
      BY <2>1, <2>2, <3>2
  <2>4. CASE ~(rows \subseteq shown)
    <3>1. Len(items) >= Limit
      BY <1>1, <1>10, <2>4
    <3> QED
      BY <1>3, <2>1, <2>2, <3>1
  <2> QED
    BY <2>3, <2>4
<1> QED
  BY <1>8, <1>9, <1>11, <1>12

\* A connected view shows the newest rows, each once and as they are, unless
\* changes have crossed.
THEOREM HistoryIsShown == Spec => []HistoryShown
<1>1. Init => Parts /\ HistInv
  BY PartsInit, HistInit
<1>2. Parts /\ HistInv /\ [Next]_vars => Parts' /\ HistInv'
  BY PartsStep, HistStep
<1>3. Parts /\ HistInv => HistoryShown
  BY HistShows
<1> QED
  BY <1>1, <1>2, <1>3, PTL DEF Spec
=============================================================================
