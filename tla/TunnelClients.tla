--------------------------- MODULE TunnelClients ---------------------------
(***************************************************************************)
(* The set of tunnel clients a TunnelConnection owns                       *)
(* (sdk/server-proxies/src/tunnels/TunnelConnection.ts and                 *)
(* WebPubSubTunnelClient.ts): how clients are started, retried, stopped    *)
(* and replaced when the service asks for it.                              *)
(*                                                                         *)
(* JavaScript runs on one thread: an action is the code between two        *)
(* awaits.  Lib* actions are what the external @azure/web-pubsub-client    *)
(* library may report, as far as the code above relies on it.              *)
(***************************************************************************)
EXTENDS FiniteSets, Integers

CONSTANTS
    Client,   \* identities of WebPubSubTunnelClient objects; bounds how many are ever created
    Faults    \* which of the faults below the environment may cause

ASSUME FaultsAssumption ==
    Faults \subseteq {"drop",     \* an open connection is lost; the library reconnects it
                      "giveup",   \* the library stops a lost connection for good
                      "close",    \* the service sends ConnectionClose
                      "oneshot",  \* runAsync is called without a retry policy
                      "refuse",   \* an attempt to connect fails
                      "rerun"}    \* runAsync is called again, also after stop

VARIABLES
    ended,    \* TunnelConnection._stopped
    clients,  \* keys of TunnelConnection.clients
    stopped,  \* WebPubSubTunnelClient.stopped of every client
    conn,     \* what the library's connection of a client is doing
    starter,  \* where the startConnectionAsync call of a client is
    forever,  \* clients started with a shouldRetry that is always true
    restarts  \* ConnectionReconnect handlers between their stop and their start

clientVars == <<ended, clients, stopped, conn, starter, forever, restarts>>

ConnState == {"none", "starting", "open", "closing", "down", "closed"}
StarterState == {"none", "starting", "sleeping", "done", "failed"}

TypeOKClients ==
    /\ ended \in BOOLEAN
    /\ clients \subseteq Client
    /\ stopped \in [Client -> BOOLEAN]
    /\ conn \in [Client -> ConnState]
    /\ starter \in [Client -> StarterState]
    /\ forever \subseteq Client
    /\ restarts \in Nat

InitClients ==
    /\ ended = FALSE
    /\ clients = {}
    /\ stopped = [c \in Client |-> FALSE]
    /\ conn = [c \in Client |-> "none"]
    /\ starter = [c \in Client |-> "none"]
    /\ forever = {}
    /\ restarts = 0

-----------------------------------------------------------------------------
\* Objects not yet created.
Fresh == {c \in Client : starter[c] = "none"}

\* WebPubSubTunnelClient.stop on every client of S: the flag is set at once,
\* the library closes an open connection later (LibStopped).
StopAll(S) ==
    /\ stopped' = [c \in Client |-> stopped[c] \/ c \in S]
    /\ conn' = [c \in Client |->
                  IF c \in S /\ conn[c] = "open" THEN "closing" ELSE conn[c]]

\* startConnectionAsync up to its first await: the new client is put in the
\* map before startAsync is called.
StartConnection(c, retry) ==
    /\ c \in Fresh
    /\ clients' = clients \cup {c}
    /\ conn' = [conn EXCEPT ![c] = "starting"]
    /\ starter' = [starter EXCEPT ![c] = "starting"]
    /\ forever' = IF retry THEN forever \cup {c} ELSE forever
    /\ UNCHANGED stopped

\* runAsync: clears _stopped and starts the first connection.
Run ==
    /\ Fresh = Client \/ "rerun" \in Faults
    /\ Cardinality(Fresh) > restarts
    /\ ended' = FALSE
    /\ \E c \in Client, retry \in BOOLEAN :
          /\ ~retry => "oneshot" \in Faults
          /\ StartConnection(c, retry)
    /\ UNCHANGED restarts

\* stop: a second call returns early, the first one stops every client.
Stop ==
    /\ ~ended
    /\ ended' = TRUE
    /\ StopAll(clients)
    /\ UNCHANGED <<clients, starter, forever, restarts>>

\* Mutated form of Wake: the test of _stopped after the delay is inverted.
WakeInverted(c) ==
    /\ starter[c] = "sleeping"
    /\ starter' = [starter EXCEPT ![c] = IF ended THEN "starting" ELSE "failed"]
    /\ conn' = [conn EXCEPT ![c] = IF ended THEN "starting" ELSE @]
    /\ UNCHANGED <<ended, clients, stopped, forever, restarts>>

\* The 2 second delay of the retry loop is over: stop if the tunnel was
\* stopped meanwhile, else call startAsync again.  (The test looks at an abort
\* signal as well, which no caller in the repository passes.)
Wake(c) ==
    /\ starter[c] = "sleeping"
    /\ IF ended
         THEN /\ starter' = [starter EXCEPT ![c] = "failed"]
              /\ UNCHANGED conn
         ELSE /\ starter' = [starter EXCEPT ![c] = "starting"]
              /\ conn' = [conn EXCEPT ![c] = "starting"]
    /\ UNCHANGED <<ended, clients, stopped, forever, restarts>>

-----------------------------------------------------------------------------
(* Messages of the service, handled by processMessage on the client they   *)
(* arrive at.                                                              *)

\* ConnectionReconnect: stopConnection(client.id), awaited; the rest is Restart.
HandleReconnect(c) ==
    /\ conn[c] = "open"
    /\ Cardinality(Fresh) > restarts
    /\ StopAll({c} \cap clients)
    /\ restarts' = restarts + 1
    /\ UNCHANGED <<ended, clients, starter, forever>>

\* Mutated forms of Restart: without startConnectionAsync's test of _stopped,
\* and with a replacement that is tried only once.
RestartUnchecked ==
    /\ restarts > 0
    /\ restarts' = restarts - 1
    /\ \E c \in Client : StartConnection(c, TRUE)
    /\ UNCHANGED ended

RestartOnce ==
    /\ restarts > 0
    /\ restarts' = restarts - 1
    /\ ~ended
    /\ \E c \in Client : StartConnection(c, FALSE)
    /\ UNCHANGED ended

\* The continuation of ConnectionReconnect: startConnectionAsync throws if the
\* tunnel has been stopped (the error is only logged).
Restart ==
    /\ restarts > 0
    /\ restarts' = restarts - 1
    /\ \/ /\ ended
          /\ UNCHANGED <<clients, conn, starter, forever, stopped>>
       \/ /\ ~ended
          /\ \E c \in Client : StartConnection(c, TRUE)
    /\ UNCHANGED ended

\* ConnectionClose: stopConnection(client.id).
HandleClose(c) ==
    /\ "close" \in Faults
    /\ conn[c] = "open"
    /\ StopAll({c} \cap clients)
    /\ UNCHANGED <<ended, clients, starter, forever, restarts>>

\* ConnectionRebalance: start one more connection, retried forever; after
\* stop() startConnectionAsync throws and nothing changes.
HandleRebalance(c) ==
    /\ conn[c] = "open"
    /\ Cardinality(Fresh) > restarts
    /\ ~ended
    /\ \E d \in Client : StartConnection(d, TRUE)
    /\ UNCHANGED <<ended, restarts>>

-----------------------------------------------------------------------------
(* The library.                                                            *)

\* startAsync resolves, also when stop() was called while it was connecting.
LibOpen(c) ==
    /\ conn[c] = "starting"
    /\ conn' = [conn EXCEPT ![c] = "open"]
    /\ starter' = [starter EXCEPT ![c] = "done"]
    /\ UNCHANGED <<ended, clients, stopped, forever, restarts>>

\* Mutated form of LibStartFails: the client leaves the map before the retry.
StartFailsForgets(c) ==
    /\ "refuse" \in Faults
    /\ conn[c] = "starting"
    /\ conn' = [conn EXCEPT ![c] = "closed"]
    /\ starter' = [starter EXCEPT ![c] =
                      IF c \in forever THEN "sleeping" ELSE "failed"]
    /\ clients' = clients \ {c}
    /\ UNCHANGED <<ended, stopped, forever, restarts>>

\* startAsync rejects: sleep and retry, or throw; the client stays in the map.
LibStartFails(c) ==
    /\ "refuse" \in Faults
    /\ conn[c] = "starting"
    /\ conn' = [conn EXCEPT ![c] = "closed"]
    /\ starter' = [starter EXCEPT ![c] =
                      IF c \in forever THEN "sleeping" ELSE "failed"]
    /\ UNCHANGED <<ended, clients, stopped, forever, restarts>>

\* "disconnected" without stop(): the library reconnects by itself.
LibDown(c) ==
    /\ "drop" \in Faults
    /\ conn[c] = "open"
    /\ conn' = [conn EXCEPT ![c] = "down"]
    /\ UNCHANGED <<ended, clients, stopped, starter, forever, restarts>>

\* "connected" again.
LibReopen(c) ==
    /\ conn[c] = "down"
    /\ conn' = [conn EXCEPT ![c] = "open"]
    /\ UNCHANGED <<ended, clients, stopped, starter, forever, restarts>>

\* "stopped": the listener sets the flag, then tryEndLife removes the client.
LibStopped(c) ==
    /\ \/ conn[c] = "closing"
       \/ conn[c] = "down" /\ (stopped[c] \/ "giveup" \in Faults)
    /\ conn' = [conn EXCEPT ![c] = "closed"]
    /\ stopped' = [stopped EXCEPT ![c] = TRUE]
    /\ clients' = clients \ {c}
    /\ UNCHANGED <<ended, starter, forever, restarts>>

\* Steps that leave every connection up, and the two that cut one.
ClientStep ==
    \/ Run
    \/ Stop
    \/ Restart
    \/ \E c \in Client :
         \/ Wake(c)
         \/ HandleReconnect(c)
         \/ HandleClose(c)
         \/ HandleRebalance(c)
         \/ LibOpen(c)
         \/ LibStartFails(c)
         \/ LibReopen(c)

CutStep(c) == LibDown(c) \/ LibStopped(c)

NextClients == ClientStep \/ \E c \in Client : CutStep(c)

\* The event loop runs what is ready; a start that is tried again and again
\* eventually succeeds (the service is reachable in the end); a closing
\* connection is eventually closed.
FairnessClients ==
    /\ WF_clientVars(Restart)
    /\ \A c \in Client :
          /\ WF_clientVars(Wake(c))
          /\ SF_clientVars(LibOpen(c))
          /\ WF_clientVars(LibStopped(c))

SpecClients == InitClients /\ [][NextClients]_clientVars /\ FairnessClients

-----------------------------------------------------------------------------
Live(c) == conn[c] \in {"starting", "open", "down"} \/ starter[c] = "sleeping"

\* A connection that is up, coming up or about to be retried always belongs to
\* a client of the map: stop() and stopConnection(), which only look there, can
\* still reach it.
NoOrphan == \A c \in Client : Live(c) => c \in clients

\* Once stop() has run, every client that could still carry traffic has been
\* told to stop, whatever start, retry or reconnect was under way when it ran.
StopReachesAll == ended => \A c \in Client : Live(c) => stopped[c]

\* A client that is to be retried for ever - every replacement of a
\* ConnectionReconnect and every rebalanced connection - is up, coming up or
\* about to be retried until it is told to stop or the library gives it up.
RetriesForever == \A c \in forever : Live(c) \/ stopped[c]

\* The replacement a ConnectionReconnect promises ("keep it retry forever")
\* arrives: the tunnel is stopped or gets an open connection.
ReconnectCompletes ==
    restarts > 0 ~> ended \/ \E c \in Client : conn[c] = "open" /\ ~stopped[c]

=============================================================================
