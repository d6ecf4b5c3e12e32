---------------------------- MODULE LocalTunnel ----------------------------
(***************************************************************************)
(* The local tunnel of tools/awps-tunnel: each request that comes through  *)
(* the tunnel is recorded (dataHub.ts over the SQLite table of             *)
(* dataRepo.ts), forwarded to the upstream server (httpInvoke of           *)
(* HttpServerProxy.ts) and its response recorded and returned              *)
(* (handleProxiedRequest of commander.ts).  The hub pushes every change to *)
(* a web view (ConnectionBasedDataFether.tsx), which fetches one model     *)
(* when it starts and follows the changes from there.  The hub also        *)
(* starts and stops an embedded upstream server (upstream.ts).             *)
(*                                                                         *)
(* A statement of SQLite is issued, takes effect, and calls back, the      *)
(* callbacks of different statements in any order.  What the hub emits     *)
(* reaches a connected view in order and is shown when it is emitted: a    *)
(* delay before that cannot be told from a later view.  What a view shows  *)
(* before its first model is replaced by that model, and is left out.      *)
(* Clears come from this view or another, one at a time.                   *)
(***************************************************************************)
EXTENDS TunnelRequests, FiniteSetsExt, SequencesExt

CONSTANTS
    Plans,  \* how often what need not happen may happen, see Budget
    Limit   \* rows a fetched history has at most (50)

VARIABLES
    plan,       \* what may still happen
    died,       \* why the process ended: an uncaught error event or rejection
    hub,        \* tunnelConnectionStatus, tunnelServerStatus,
                \* serviceConfiguration and whether DataHub.upstreamServer is set
    listening,  \* the embedded server holds the port
    starting,   \* startUpstreamServer is awaited
    rows,       \* the table HttpItems
    lastId,     \* its AUTOINCREMENT
    work,       \* where handleProxiedRequest is for a request
    id,         \* the id of its item
    clearing,   \* where clearTrafficHistory is
    phase,      \* where the web view is
    connected,  \* its socket is, once it has its model
    model,      \* what getCurrentModel has read, then what the view shows
    missed,     \* history: fields whose last change the view's model does not have
    mixed       \* history: changes of items have crossed, see SeesItems

hubVars == <<hub, listening, starting, missed>>
itemVars == <<rows, lastId, work, id, clearing, mixed>>
vars == <<requestVars, hubVars, itemVars, plan, died, phase, connected, model>>

Fields == [tunnel : {"connecting", "connected", "disconnected"},
           local : {"none"} \cup Status, config : BOOLEAN, upstream : BOOLEAN]
Item == [id : Nat \ {0}, req : Request, resp : Status \cup {NoAnswer}]
Budget == [requests : Nat, cuts : Nat, clears : Nat, starts : Nat, stops : Nat,
           drops : Nat, fails : Nat, reports : BOOLEAN,
           port : {"free", "taken", "none"}]

ASSUME LocalAssumption == Plans \subseteq Budget /\ Limit \in Nat

TypeOK ==
    /\ TypeOKRequests
    /\ plan \in Budget
    /\ died \in {"no", "db", "port"}
    /\ hub \in Fields /\ missed \subseteq DOMAIN hub
    /\ listening \in BOOLEAN /\ starting \in BOOLEAN
    /\ rows \subseteq Item /\ lastId \in Nat
    /\ work \in [Request -> {"none", "inserting", "inserted", "forwarded", "updating",
                             "updated", "done", "failed"}]
    /\ id \in [Request -> Nat]
    /\ clearing \in {"no", "issued", "effect"}
    /\ phase \in {"new", "asked", "read", "selected", "ready", "lost"}
    /\ connected \in BOOLEAN /\ mixed \in BOOLEAN
    /\ model \in [fields : Fields, items : Seq(Item)]

Init ==
    /\ InitRequests
    /\ plan \in Plans
    /\ died = "no"
    /\ hub = [tunnel |-> "connecting", local |-> "none", config |-> FALSE, upstream |-> FALSE]
    /\ listening = FALSE /\ starting = FALSE
    /\ rows = {} /\ lastId = 0
    /\ work = [r \in Request |-> "none"]
    /\ id = [r \in Request |-> 0]
    /\ clearing = "no"
    /\ phase = "new" /\ connected = TRUE
    /\ model = [fields |-> hub, items |-> << >>]
    /\ missed = {} /\ mixed = FALSE

Alive == died = "no"
\* One of the bounded things of the plan happens.
Spend(what) == Alive /\ plan[what] > 0 /\ plan' = [plan EXCEPT ![what] = @ - 1]

\* An uncaught error ends the process, and the tunnel with it.
Die(why) ==
    /\ died' = why
    /\ CutLines(Line)
    /\ UNCHANGED <<hubVars, itemVars, phase, connected, model>>

-----------------------------------------------------------------------------
(* Fields of the hub.                                                      *)

Shows == phase = "ready" /\ connected
Fetching == phase \in {"read", "selected"}

\* Mutated form of Report: the field is emitted and not kept.
ReportUnkept(f, v) ==
    /\ model' = IF Shows THEN [model EXCEPT !.fields[f] = v] ELSE model
    /\ missed' = CASE Shows -> missed \ {f}
                   [] Fetching \/ ~connected -> missed \cup {f}
                   [] OTHER -> missed
    /\ UNCHANGED hub

\* A Report... operation: the field is set and emitted.
Report(f, v) ==
    /\ hub' = [hub EXCEPT ![f] = v]
    /\ model' = IF Shows THEN [model EXCEPT !.fields[f] = v] ELSE model
    /\ missed' = CASE Shows -> missed \ {f}
                   [] Fetching \/ ~connected -> missed \cup {f}
                   [] OTHER -> missed

\* runAsync has connected or failed.
TunnelStarts(s) ==
    /\ Alive /\ plan.reports
    /\ hub.tunnel = "connecting"
    /\ Report("tunnel", s)
    /\ UNCHANGED <<requestVars, itemVars, plan, died, listening, starting, phase, connected>>

\* reportServiceConfiguration has loaded the settings, or failed to.
Configured ==
    /\ Alive /\ plan.reports
    /\ ~hub.config
    /\ Report("config", TRUE)
    /\ UNCHANGED <<requestVars, itemVars, plan, died, listening, starting, phase, connected>>

\* Mutated form of StartUpstream: a running server is not looked for.
StartUpstreamAgain ==
    /\ Spend("starts")
    /\ plan.port # "none"
    /\ IF listening \/ plan.port = "taken"
         THEN Die("port")
         ELSE /\ listening' = TRUE /\ starting' = TRUE
              /\ UNCHANGED <<requestVars, itemVars, died, hub, missed, phase, connected, model>>

\* startEmbeddedUpstream, when there is no server yet: listen binds the port, or
\* the server emits an error nobody listens to.
StartUpstream ==
    /\ Spend("starts")
    /\ plan.port # "none"
    /\ ~hub.upstream
    /\ IF listening \/ plan.port = "taken"
         THEN Die("port")
         ELSE /\ listening' = TRUE /\ starting' = TRUE
              /\ UNCHANGED <<requestVars, itemVars, died, hub, missed, phase, connected, model>>

\* The upstream URL names no port: listen throws, and the status is emitted as
\* it was.
StartThrows ==
    /\ Spend("starts")
    /\ plan.port = "none"
    /\ ~hub.upstream
    /\ Report("upstream", hub.upstream)
    /\ UNCHANGED <<requestVars, itemVars, died, listening, starting, phase, connected>>

\* It listens: the awaited server is kept.
Started ==
    /\ Alive /\ starting
    /\ starting' = FALSE
    /\ Report("upstream", TRUE)
    /\ UNCHANGED <<requestVars, itemVars, plan, died, listening, phase, connected>>

\* Mutated form of StopUpstream: the server is forgotten and not closed.
StopUpstreamOpen ==
    /\ Spend("stops")
    /\ Report("upstream", FALSE)
    /\ UNCHANGED <<requestVars, itemVars, died, listening, starting, phase, connected>>

\* stopEmbeddedUpstream: a server that is still being started is not closed.
StopUpstream ==
    /\ Spend("stops")
    /\ listening' = (listening /\ ~hub.upstream)
    /\ Report("upstream", FALSE)
    /\ UNCHANGED <<requestVars, itemVars, died, starting, phase, connected>>

-----------------------------------------------------------------------------
(* Requests and their items.                                               *)

\* The hub emits a change of the items.  A view whose history was selected and
\* has not arrived, or that is not connected, does not have it.
SeesItems(items) ==
    /\ model' = IF Shows THEN [model EXCEPT !.items = items] ELSE model
    /\ mixed' = (mixed \/ phase = "selected" \/ ~connected)

\* handleProxiedRequest begins: AddTraffic issues the insertion.  The emissions
\* of an insertion and a clear that are both under way may cross.
Handle(r) ==
    /\ Alive
    /\ Arrive(r)
    /\ work' = [work EXCEPT ![r] = "inserting"]
    /\ mixed' = (mixed \/ clearing # "no")
    /\ UNCHANGED <<answer, hubVars, rows, lastId, id, clearing, plan, died, phase, connected, model>>

\* A row for r, as insertDataAsync adds it.
Insert(r, i) ==
    /\ Alive /\ work[r] = "inserting"
    /\ work' = [work EXCEPT ![r] = "inserted"]
    /\ lastId' = i
    /\ id' = [id EXCEPT ![r] = i]
    /\ rows' = rows \cup {[id |-> i, req |-> r, resp |-> NoAnswer]}
    /\ UNCHANGED <<requestVars, hubVars, clearing, mixed, plan, died, phase, connected, model>>

\* Mutated form of Inserted: ids of an emptied table are given again.
InsertedReusing(r) == Insert(r, Max({0} \cup {w.id : w \in rows}) + 1)

\* The insertion takes effect.
Inserted(r) == Insert(r, lastId + 1)

\* It is run and fails: handleProxiedRequest rejects, and the request is never
\* answered.
InsertFails(r) ==
    /\ Spend("fails")
    /\ work[r] = "inserting"
    /\ work' = [work EXCEPT ![r] = "failed"]
    /\ UNCHANGED <<requestVars, hubVars, rows, lastId, id, clearing, mixed, died, phase, connected, model>>

\* The id is known: addTraffic is emitted and the request forwarded.
Added(r) ==
    /\ Alive /\ work[r] = "inserted"
    /\ work' = [work EXCEPT ![r] = "forwarded"]
    /\ SeesItems(<<[id |-> id[r], req |-> r, resp |-> NoAnswer]>> \o model.items)
    /\ UNCHANGED <<requestVars, hubVars, rows, lastId, id, clearing, plan, died, phase, connected>>

\* Mutated form of Responds: the response is not recorded.
RespondsOnly(r, s) ==
    /\ Alive /\ work[r] = "forwarded"
    /\ work' = [work EXCEPT ![r] = "done"]
    /\ answer' = Answered(answer, r, s)
    /\ Report("local", s)
    /\ UNCHANGED <<cut, on, stage, rows, lastId, id, clearing, mixed, listening,
                   starting, plan, died, phase, connected>>

\* The upstream server responds, or cannot be reached: the status of the pair is
\* reported, UpdateTraffic issues the update, and the handler returns.
Responds(r, s) ==
    /\ Alive /\ work[r] = "forwarded"
    /\ work' = [work EXCEPT ![r] = "updating"]
    /\ answer' = Answered(answer, r, s)
    /\ Report("local", s)
    /\ UNCHANGED <<cut, on, stage, rows, lastId, id, clearing, mixed, listening,
                   starting, plan, died, phase, connected>>

\* The update takes effect, on the row that has the id.
Updated(r) ==
    /\ Alive /\ work[r] = "updating"
    /\ work' = [work EXCEPT ![r] = "updated"]
    /\ rows' = {IF w.id = id[r] THEN [w EXCEPT !.resp = answer[r]] ELSE w : w \in rows}
    /\ UNCHANGED <<requestVars, hubVars, lastId, id, clearing, mixed, plan, died, phase, connected, model>>

\* updateTraffic is emitted: the view replaces the items that have the id.
UpdateSeen(r) ==
    LET new == [id |-> id[r], req |-> r, resp |-> answer[r]]
        items == model.items
    IN  /\ Alive /\ work[r] = "updated"
        /\ work' = [work EXCEPT ![r] = "done"]
        /\ SeesItems([i \in DOMAIN items |-> IF items[i].id = id[r] THEN new ELSE items[i]])
        /\ UNCHANGED <<requestVars, hubVars, rows, lastId, id, clearing, plan, died, phase, connected>>

\* Mutated form of Clear: clearTraffic is emitted without waiting.
ClearEager ==
    /\ Spend("clears")
    /\ clearing = "no"
    /\ clearing' = "issued"
    /\ model' = IF Shows THEN [model EXCEPT !.items = << >>] ELSE model
    /\ mixed' = (mixed \/ phase = "selected" \/ ~connected \/ \E r \in Request : work[r] \in {"inserting", "inserted"})
    /\ UNCHANGED <<requestVars, hubVars, rows, lastId, work, id, died, phase, connected>>

\* clearTrafficHistory issues the deletion.
Clear ==
    /\ Spend("clears")
    /\ clearing = "no"
    /\ clearing' = "issued"
    /\ mixed' = (mixed \/ \E r \in Request : work[r] \in {"inserting", "inserted"})
    /\ UNCHANGED <<requestVars, hubVars, rows, lastId, work, id, died, phase, connected, model>>

\* It takes effect.
Cleared ==
    /\ Alive /\ clearing = "issued"
    /\ clearing' = "effect"
    /\ rows' = {}
    /\ UNCHANGED <<requestVars, hubVars, lastId, work, id, mixed, plan, died, phase, connected, model>>

\* clearTraffic is emitted.
ClearSeen ==
    /\ Alive /\ clearing = "effect"
    /\ clearing' = "no"
    /\ SeesItems(<< >>)
    /\ UNCHANGED <<requestVars, hubVars, rows, lastId, work, id, plan, died, phase, connected>>

\* An update, a clear or a selection fails: nobody catches the rejection.  Or a
\* statement, of an insertion too, cannot be prepared: nobody listens to the error.
StatementFails ==
    /\ Spend("fails")
    /\ \/ \E r \in Request : work[r] \in {"inserting", "updating"}
       \/ clearing = "issued"
       \/ phase = "read"
    /\ Die("db")

-----------------------------------------------------------------------------
(* The web view.                                                           *)

\* The view connects and asks for the model.
Ask ==
    /\ Alive /\ phase = "new"
    /\ phase' = "asked"
    /\ UNCHANGED <<requestVars, hubVars, itemVars, plan, died, connected, model>>

\* getCurrentModel has a client URL, reads the fields and issues the selection.
ReadFields ==
    /\ Alive /\ phase = "asked"
    /\ phase' = "read"
    /\ model' = [model EXCEPT !.fields = hub]
    /\ UNCHANGED <<requestVars, hubVars, itemVars, plan, died, connected>>

\* ORDER BY ID DESC LIMIT n.
Newest(n) ==
    {s \in UNION {[1..k -> rows] : k \in 0..n} :
        /\ \A i, j \in DOMAIN s : i < j => s[i].id > s[j].id
        /\ \A w \in rows \ ToSet(s) : Len(s) = n /\ \A i \in DOMAIN s : s[i].id > w.id}

\* The newest rows are selected.  What has taken effect and is not yet emitted
\* will be seen twice.
Select ==
    /\ Alive /\ phase = "read"
    /\ phase' = "selected"
    /\ \E s \in Newest(Limit) : model' = [model EXCEPT !.items = s]
    /\ mixed' = (mixed \/ clearing = "effect" \/ \E r \in Request : work[r] = "inserted")
    /\ UNCHANGED <<requestVars, hubVars, rows, lastId, work, id, clearing, plan, died, connected>>

\* The model arrives.
Fetched ==
    /\ Alive /\ phase = "selected"
    /\ phase' = "ready"
    /\ UNCHANGED <<requestVars, hubVars, itemVars, plan, died, connected, model>>

\* The view's socket closes: a fetch under way gets no model.
Drop ==
    /\ Spend("drops")
    /\ \/ phase = "ready" /\ connected /\ connected' = FALSE /\ UNCHANGED phase
       \/ phase \in {"asked", "read", "selected"} /\ phase' = "lost" /\ UNCHANGED connected
    /\ UNCHANGED <<requestVars, hubVars, itemVars, died, model>>

\* It is connected again; the view does not ask anew.
Reconnect ==
    /\ Alive /\ ~connected
    /\ connected' = TRUE
    /\ UNCHANGED <<requestVars, hubVars, itemVars, plan, died, phase, model>>

-----------------------------------------------------------------------------
Requests(r) ==
    /\ Spend("requests")
    /\ Send(r)
    /\ UNCHANGED <<hubVars, itemVars, died, phase, connected, model>>

Replies(r) ==
    /\ Reply(r) \/ Read(r)
    /\ UNCHANGED <<hubVars, itemVars, plan, died, phase, connected, model>>

\* A connection of the tunnel is cut.
Cut(l) ==
    /\ Spend("cuts")
    /\ l \notin cut /\ CutLines({l})
    /\ UNCHANGED <<hubVars, itemVars, died, phase, connected, model>>

ServerStep(r) == Handle(r) \/ Inserted(r) \/ Added(r) \/ Updated(r) \/ UpdateSeen(r)
Next ==
    \/ \E r \in Request :
          \/ Requests(r) \/ Replies(r) \/ ServerStep(r) \/ InsertFails(r)
          \/ \E s \in Status : Responds(r, s)
    \/ \E s \in {"connected", "disconnected"} : TunnelStarts(s)
    \/ \E l \in Line : Cut(l)
    \/ Configured \/ StartUpstream \/ StartThrows \/ Started \/ StopUpstream
    \/ Clear \/ Cleared \/ ClearSeen \/ StatementFails
    \/ Ask \/ ReadFields \/ Select \/ Fetched \/ Drop \/ Reconnect
Spec == Init /\ [][Next]_vars

\* Statements of SQLite are answered and replies are sent; nothing is assumed of
\* the upstream server, of the users or of the view.
FairSpec == Spec /\ \A r \in Request : WF_vars(Replies(r)) /\ WF_vars(ServerStep(r))

-----------------------------------------------------------------------------
\* A connected view shows the hub's fields, except for the last changes made
\* while its model was fetched (getCurrentModel reads the fields before it awaits
\* the history) or while its socket was closed (_start is not run again).
FieldsShown ==
    phase = "ready" =>
        \A f \in DOMAIN hub : model.fields[f] # hub[f] => f \in missed

\* Nothing has taken effect on the table that is not emitted.
Settled == clearing # "effect" /\ \A r \in Request : work[r] \notin {"inserted", "updated"}

\* A connected view shows the rows of the table, each once, older ones than those
\* it was given apart, unless changes have crossed (AddTraffic, UpdateTraffic and
\* clearTrafficHistory emit after their statement is answered).
HistoryShown ==
    phase = "ready" /\ Settled /\ ~mixed =>
        LET shown == ToSet(model.items) IN
        /\ Len(model.items) = Cardinality(shown)
        /\ shown \subseteq rows
        /\ Len(model.items) >= Min({Limit, Cardinality(rows)})
        /\ \A v \in shown, w \in rows \ shown : w.id < v.id

\* A response is kept and shown only with the request it answers, and the
\* service gets no other, whatever is cleared or fetched meanwhile: the item of a
\* request is found again by its id alone (UpdateTraffic, updateTraffic).
Matches(w) == w.id = id[w.req] /\ w.resp \in {NoAnswer, answer[w.req]}
ResponsesMatch == \A w \in rows \cup ToSet(model.items) : Matches(w)

\* No request reaches the upstream server that has no row (handleProxiedRequest
\* awaits AddTraffic).
RecordedFirst ==
    \A r \in Request :
        work[r] \in {"forwarded", "updating", "updated", "done"} => id[r] \in 1..lastId

\* DataHub.upstreamServer says whether the embedded server holds the port, however
\* starts and stops follow each other, unless a start is awaited.
UpstreamKnown == starting \/ hub.upstream = listening

\* Which ids are given, and when a request has its answer.
Progress(r) ==
    /\ id[r] <= lastId
    /\ id[r] = 0 <=> work[r] \in {"none", "inserting", "failed"}
    /\ \A q \in Request : id[q] = id[r] /\ id[r] # 0 => q = r
    /\ answer[r] # NoAnswer <=> work[r] \in {"updating", "updated", "done"}
    /\ stage[r] \in {"none", "sent"} => work[r] = "none"

\* The inductive invariant.
IInvLocal ==
    /\ TypeOK /\ ResponsesMatch /\ RecordedFirst /\ UpstreamKnown
    /\ \A r \in Request : Progress(r)
    /\ starting => listening /\ ~hub.upstream
    /\ Fetching => \A f \in DOMAIN hub : model.fields[f] # hub[f] => f \in missed
    /\ FieldsShown

\* The embedded server ends the process only when the port is another program's
\* or a start is awaited already (upstreamServer is checked before the await).
StaysUp == [][Alive /\ died' = "port" => plan.port = "taken" \/ starting]_vars

\* What the upstream server answers is recorded in the end and the service told,
\* if it can be, unless the history was cleared or the process ends.
AnswersRecorded ==
    []<>(~Alive \/ \A r \in Request : answer[r] # NoAnswer =>
             /\ stage[r] \in {"known", "lost"}
             /\ \A w \in rows : w.req = r => w.resp = answer[r])
=============================================================================
