------------------------ MODULE TunnelClients_proofs ------------------------
(***************************************************************************)
(* Proofs about TunnelClients: typing, and that stop() reaches every       *)
(* client that can still carry traffic.                                    *)
(***************************************************************************)
EXTENDS TunnelClients, TLAPS

\* Strengthening: a connection that exists is past its start, and a client
\* that is asleep has none.
IInvClients ==
    /\ TypeOKClients
    /\ \A c \in Client : conn[c] \in {"open", "closing", "down"} => starter[c] = "done"
    /\ \A c \in Client : starter[c] = "sleeping" => conn[c] = "closed"
    /\ NoOrphan
    /\ StopReachesAll

LEMMA ClientsInit == InitClients => IInvClients
<1> SUFFICES ASSUME InitClients PROVE IInvClients
  OBVIOUS
<1> USE DEF InitClients
<1>1. TypeOKClients
  BY DEF TypeOKClients, ConnState, StarterState
<1>2. NoOrphan /\ StopReachesAll
  BY DEF NoOrphan, StopReachesAll, Live
<1> QED
  BY <1>1, <1>2 DEF IInvClients

\* Every step that does not cut a connection preserves the invariant.
LEMMA ClientsStep == IInvClients /\ ClientStep => IInvClients'
<1> SUFFICES ASSUME IInvClients, ClientStep PROVE IInvClients'
  OBVIOUS
<1> USE DEF IInvClients, TypeOKClients, ConnState, StarterState, NoOrphan,
            StopReachesAll, Live, StartConnection, StopAll, Fresh
<1>1. CASE Run
  BY <1>1 DEF Run
<1>2. CASE Stop
  BY <1>2 DEF Stop
<1>3. CASE Restart
  BY <1>3 DEF Restart
<1>4. ASSUME NEW c \in Client, Wake(c) PROVE IInvClients'
  BY <1>4 DEF Wake
<1>5. ASSUME NEW c \in Client, HandleReconnect(c) PROVE IInvClients'
  BY <1>5 DEF HandleReconnect
<1>6. ASSUME NEW c \in Client, HandleClose(c) PROVE IInvClients'
  BY <1>6 DEF HandleClose
<1>7. ASSUME NEW c \in Client, HandleRebalance(c) PROVE IInvClients'
  BY <1>7 DEF HandleRebalance
<1>8. ASSUME NEW c \in Client, LibOpen(c) PROVE IInvClients'
  BY <1>8 DEF LibOpen
<1>9. ASSUME NEW c \in Client, LibStartFails(c) PROVE IInvClients'
  BY <1>9 DEF LibStartFails
<1>10. ASSUME NEW c \in Client, LibReopen(c) PROVE IInvClients'
  BY <1>10 DEF LibReopen
<1> QED
  BY <1>1, <1>2, <1>3, <1>4, <1>5, <1>6, <1>7, <1>8, <1>9, <1>10 DEF ClientStep

\* So does cutting one.
LEMMA ClientsCut ==
    ASSUME NEW c \in Client, IInvClients, CutStep(c)
    PROVE  IInvClients'
<1> USE DEF IInvClients, TypeOKClients, ConnState, StarterState, NoOrphan,
            StopReachesAll, Live
<1>1. CASE LibDown(c)
  BY <1>1 DEF LibDown
<1>2. CASE LibStopped(c)
  BY <1>2 DEF LibStopped
<1> QED
  BY <1>1, <1>2 DEF CutStep

\* stop() reaches everything: in every reachable state every connection is in
\* the map, and after stop() each live one has been told to stop.
THEOREM StopIsComplete == SpecClients => [](TypeOKClients /\ NoOrphan /\ StopReachesAll)
<1>1. InitClients => IInvClients
  BY ClientsInit
<1>2. IInvClients /\ [NextClients]_clientVars => IInvClients'
  <2> SUFFICES ASSUME IInvClients, [NextClients]_clientVars PROVE IInvClients'
    OBVIOUS
  <2>1. CASE NextClients
    BY <2>1, ClientsStep, ClientsCut DEF NextClients
  <2>2. CASE UNCHANGED clientVars
    BY <2>2 DEF clientVars, IInvClients, TypeOKClients, NoOrphan, StopReachesAll, Live
  <2> QED
    BY <2>1, <2>2
<1>3. IInvClients => TypeOKClients /\ NoOrphan /\ StopReachesAll
  BY DEF IInvClients
<1> QED
  BY <1>1, <1>2, <1>3, PTL DEF SpecClients

\* The part of it that holds whether or not stop() was called: no retry,
\* reconnect or rebalance leaves a connection behind that the map does not know.
THEOREM MapIsComplete == SpecClients => []NoOrphan
BY StopIsComplete, PTL

\* A step takes a client that is retried for ever only from one live state to
\* another, or it stops it.
LEMMA RetriesStep ==
    ASSUME IInvClients, RetriesForever, NextClients
    PROVE  RetriesForever'
<1> USE DEF IInvClients, TypeOKClients, ConnState, StarterState, RetriesForever,
            StopReachesAll, Live, StartConnection, StopAll, Fresh
<1>1. CASE Run
  BY <1>1 DEF Run
<1>2. CASE Stop
  BY <1>2 DEF Stop
<1>3. CASE Restart
  BY <1>3 DEF Restart
<1>4. ASSUME NEW c \in Client, Wake(c) PROVE RetriesForever'
  BY <1>4 DEF Wake
<1>5. ASSUME NEW c \in Client, HandleReconnect(c) \/ HandleClose(c) PROVE RetriesForever'
  <2>1. /\ starter' = starter /\ forever' = forever
        /\ stopped' = [d \in Client |-> stopped[d] \/ d \in {c} \cap clients]
        /\ conn' = [d \in Client |-> IF d \in {c} \cap clients /\ conn[d] = "open"
                                    THEN "closing" ELSE conn[d]]
    BY <1>5 DEF HandleReconnect, HandleClose
  <2>2. QED BY <2>1
<1>6. ASSUME NEW c \in Client, HandleRebalance(c) PROVE RetriesForever'
  BY <1>6 DEF HandleRebalance
<1>7. ASSUME NEW c \in Client, LibOpen(c) \/ LibReopen(c) PROVE RetriesForever'
  BY <1>7 DEF LibOpen, LibReopen
<1>8. ASSUME NEW c \in Client, LibStartFails(c) PROVE RetriesForever'
  BY <1>8 DEF LibStartFails
<1>9. ASSUME NEW c \in Client, CutStep(c) PROVE RetriesForever'
  BY <1>9 DEF CutStep, LibDown, LibStopped
<1> QED
  BY <1>1, <1>2, <1>3, <1>4, <1>5, <1>6, <1>7, <1>8, <1>9 DEF NextClients, ClientStep

\* The replacement of a ConnectionReconnect and a rebalanced connection are
\* never forgotten: up, coming up or about to be retried until told to stop or
\* given up by the library.
THEOREM ForeverIsForever == SpecClients => []RetriesForever
<1>1. InitClients => IInvClients /\ RetriesForever
  BY ClientsInit DEF InitClients, RetriesForever
<1>2. IInvClients /\ RetriesForever /\ [NextClients]_clientVars
        => IInvClients' /\ RetriesForever'
  <2> SUFFICES ASSUME IInvClients, RetriesForever, [NextClients]_clientVars
               PROVE  IInvClients' /\ RetriesForever'
    OBVIOUS
  <2>1. CASE NextClients
    BY <2>1, ClientsStep, ClientsCut, RetriesStep DEF NextClients
  <2>2. CASE UNCHANGED clientVars
    BY <2>2 DEF clientVars, IInvClients, TypeOKClients, NoOrphan, StopReachesAll,
                Live, RetriesForever
  <2> QED
    BY <2>1, <2>2
<1> QED
  BY <1>1, <1>2, PTL DEF SpecClients
=============================================================================
