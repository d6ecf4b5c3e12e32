----------------------- MODULE TunnelConnection_proofs -----------------------
(***************************************************************************)
(* Proofs about TunnelConnection: the reference counts of consistent keys  *)
(* are exact, so in-flight requests of a key share a client, so the        *)
(* service executes them in the order of transmission, which is what       *)
(* RoomOrder promises.                                                     *)
(***************************************************************************)
EXTENDS TunnelConnection, FiniteSetTheorems, TLAPS

-----------------------------------------------------------------------------
(* Counting the holders of a key.                                          *)

\* The number of holders is a natural number.
LEMMA HoldersFinite ==
    ASSUME NEW k, NEW c
    PROVE  IsFiniteSet(Holders(k, c)) /\ Cardinality(Holders(k, c)) \in Nat
<1>1. IsFiniteSet(Inv)
  BY FS_Interval, TunnelAssumption DEF Inv
<1>2. Holders(k, c) \subseteq Inv
  BY DEF Holders, Holding
<1> QED
  BY <1>1, <1>2, FS_Subset, FS_CardinalityType

\* Holders in the next state, seen as a set of their own.
LEMMA HoldersFiniteNext ==
    ASSUME NEW k, NEW c
    PROVE  IsFiniteSet(Holders(k, c)') /\ Cardinality(Holders(k, c)') \in Nat
<1>1. IsFiniteSet(Inv)
  BY FS_Interval, TunnelAssumption DEF Inv
<1>2. Holders(k, c)' \subseteq Inv
  BY DEF Holders, Holding
<1> QED
  BY <1>1, <1>2, FS_Subset, FS_CardinalityType

\* Exact counts give affinity: two requests of one key in flight on running
\* clients are both counted by the one entry of the key.
LEMMA AccountingGivesAffinity ==
    TypeOK /\ LockAccounting /\ (\A i \in Inv : Holding(i) => client[i] \in Client)
        => KeyAffinity
<1> SUFFICES ASSUME TypeOK, LockAccounting,
                    \A i \in Inv : Holding(i) => client[i] \in Client
             PROVE  KeyAffinity
  OBVIOUS
<1>1. ASSUME NEW i \in Inv, key[i] # NoKey, Holding(i), ~stopped[client[i]]
      PROVE  mapping[key[i]].client = client[i]
  <2> DEFINE k == key[i]
             c == client[i]
  <2>1. k \in Key /\ c \in Client
    BY <1>1 DEF TypeOK
  <2>2. i \in Holders(k, c)
    BY <1>1 DEF Holders, Holding
  <2>3. Cardinality(Holders(k, c)) # 0
    BY <2>2, HoldersFinite, FS_EmptySet
  <2> QED
    BY <1>1, <2>1, <2>3 DEF LockAccounting, Count
<1> QED
  BY <1>1 DEF KeyAffinity

\* Locking: the accounting survives when a new invocation i becomes a holder of
\* k on c, one of the clients getClient may return.
LEMMA LockKeepsAccounting ==
    ASSUME TypeOK, LockAccounting, \A i \in Inv : Progress(i),
           NEW k \in Key \cup {NoKey}, NEW i \in Inv, NEW c \in Candidates(k),
           st[i] = "none", Lock(k, c),
           key' = [key EXCEPT ![i] = k],
           client' = [client EXCEPT ![i] = c],
           st'[i] \in {"sending", "written"},
           \A j \in Inv \ {i} : st'[j] = st[j],
           stopped' = stopped
    PROVE  LockAccounting'
<1>1. /\ mapping \in [Key -> [count : Nat, client : Client \cup {NoClient}]]
      /\ key \in [Inv -> Key \cup {NoKey}]
      /\ client \in [Inv -> Client \cup {NoClient}]
      /\ clients \subseteq Client
  BY DEF TypeOK, TypeOKClients
<1>2. ASSUME NEW q, NEW d, q # k \/ d # c
      PROVE  Holders(q, d)' = Holders(q, d)
  BY <1>1, <1>2 DEF Holders, Holding
<1>3. Holders(k, c)' = Holders(k, c) \cup {i} /\ i \notin Holders(k, c)
  BY <1>1 DEF Holders, Holding
<1>4. Cardinality(Holders(k, c)') = Cardinality(Holders(k, c)) + 1
  BY <1>3, HoldersFinite, FS_AddElement
<1>5. ASSUME NEW q \in Key, q # k
      PROVE  /\ mapping'[q].count > 0 => mapping'[q].client \in Client
             /\ \A d \in Client :
                  /\ Count(q, d)' <= Cardinality(Holders(q, d)')
                  /\ ~stopped[d] => Count(q, d)' = Cardinality(Holders(q, d)')
  <2>1. mapping'[q] = mapping[q]
    BY <1>1, <1>5 DEF Lock
  <2>2. \A d : Holders(q, d)' = Holders(q, d)
    BY <1>2, <1>5
  <2> QED
    BY <1>5, <2>1, <2>2 DEF LockAccounting, Mapped, Count
<1>6. ASSUME k # NoKey
      PROVE  /\ mapping'[k].count > 0 => mapping'[k].client \in Client
             /\ \A d \in Client :
                  /\ Count(k, d)' <= Cardinality(Holders(k, d)')
                  /\ ~stopped[d] => Count(k, d)' = Cardinality(Holders(k, d)')
  <2>1. k \in Key
    BY <1>6
  <2>2. mapping[k].count \in Nat /\ Cardinality(Holders(k, c)) \in Nat
    BY <1>1, <2>1, HoldersFinite
  <2>3. Mapped(k) => mapping[k].client = c
    BY <2>1 DEF Candidates
  <2>4. c \in Client
    BY <1>1, <2>1, <2>3 DEF Candidates, LockAccounting
  <2>5. /\ mapping'[k].client = c
        /\ mapping'[k].count = IF Mapped(k) /\ ~stopped[c]
                                THEN mapping[k].count + 1 ELSE 1
    BY <1>1, <1>6, <2>1, <2>3 DEF Lock
  <2>6. ~stopped[c] =>
            Cardinality(Holders(k, c)) = IF Mapped(k) THEN mapping[k].count ELSE 0
    BY <2>1, <2>2, <2>3, <2>4 DEF LockAccounting, Mapped, Count
  <2>7. ASSUME NEW d \in Client
        PROVE  /\ Count(k, d)' <= Cardinality(Holders(k, d)')
               /\ ~stopped[d] => Count(k, d)' = Cardinality(Holders(k, d)')
    <3>1. CASE d = c
      BY <1>4, <2>2, <2>5, <2>6, <3>1 DEF Count
    <3>2. CASE d # c
      <4>1. Count(k, d) = 0 /\ Count(k, d)' = 0
        BY <2>2, <2>3, <2>5, <3>2 DEF Mapped, Count
      <4> QED
        BY <1>2, <2>1, <3>2, <4>1, HoldersFinite DEF LockAccounting
    <3> QED
      BY <3>1, <3>2
  <2> QED
    BY <2>4, <2>5, <2>7
<1> QED
  BY <1>5, <1>6, TunnelAssumption DEF LockAccounting, Mapped

\* Releasing: the accounting survives when a holder i of its key gives it up.
LEMMA ReleaseKeepsAccounting ==
    ASSUME TypeOK, LockAccounting, \A j \in Inv : Progress(j),
           NEW i \in Inv,
           st[i] \in {"sending", "written", "sent"},
           Release(key[i], client[i]),
           key' = key, client' = client, stopped' = stopped,
           st'[i] \in {"resolved", "rejected"},
           \A j \in Inv \ {i} : st'[j] = st[j]
    PROVE  LockAccounting'
<1> DEFINE k == key[i]
           c == client[i]
<1>1. /\ mapping \in [Key -> [count : Nat, client : Client \cup {NoClient}]]
      /\ k \in Key \cup {NoKey}
      /\ c \in Client
  BY DEF TypeOK, Progress
<1>2. ASSUME NEW q, NEW d, q # k \/ d # c
      PROVE  Holders(q, d)' = Holders(q, d)
  BY <1>2 DEF Holders, Holding
<1>3. Holders(k, c)' = Holders(k, c) \ {i} /\ i \in Holders(k, c)
  BY DEF Holders, Holding
<1>4. Cardinality(Holders(k, c)') = Cardinality(Holders(k, c)) - 1
  <2>1. IsFiniteSet(Holders(k, c))
    BY HoldersFinite
  <2>2. Cardinality(Holders(k, c) \ {i}) = Cardinality(Holders(k, c)) - 1
    BY <1>3, <2>1, FS_RemoveElement
  <2> QED
    BY <1>3, <2>2
<1>5. ASSUME NEW q \in Key, q # k
      PROVE  /\ mapping'[q].count > 0 => mapping'[q].client \in Client
             /\ \A d \in Client :
                  /\ Count(q, d)' <= Cardinality(Holders(q, d)')
                  /\ ~stopped[d] => Count(q, d)' = Cardinality(Holders(q, d)')
  <2>1. mapping'[q] = mapping[q]
    BY <1>1, <1>5 DEF Release
  <2>2. \A d : Holders(q, d)' = Holders(q, d)
    BY <1>2, <1>5
  <2> QED
    BY <1>5, <2>1, <2>2 DEF LockAccounting, Mapped, Count
<1>6. ASSUME k # NoKey
      PROVE  /\ mapping'[k].count > 0 => mapping'[k].client \in Client
             /\ \A d \in Client :
                  /\ Count(k, d)' <= Cardinality(Holders(k, d)')
                  /\ ~stopped[d] => Count(k, d)' = Cardinality(Holders(k, d)')
  <2>1. k \in Key
    BY <1>1, <1>6
  <2>2. mapping[k].count \in Nat /\ Cardinality(Holders(k, c)) \in Nat
    BY <1>1, <2>1, HoldersFinite
  <2>3. Cardinality(Holders(k, c)) > 0
    BY <1>3, <2>2, HoldersFinite, FS_EmptySet
  <2>4. CASE ~Mapped(k) \/ mapping[k].client # c
    <3>1. mapping' = mapping
      BY <1>6, <2>4 DEF Release
    <3>2. Count(k, c) = 0
      BY <2>2, <2>4 DEF Mapped, Count
    <3>3. stopped[c]
      BY <1>1, <2>1, <2>2, <2>3, <3>2 DEF LockAccounting
    <3>4. ASSUME NEW d \in Client
          PROVE  /\ Count(k, d)' <= Cardinality(Holders(k, d)')
                 /\ ~stopped[d] => Count(k, d)' = Cardinality(Holders(k, d)')
      <4>1. Count(k, d)' = Count(k, d)
        BY <3>1 DEF Count
      <4>2. CASE d = c
        BY <1>4, <2>2, <2>3, <3>2, <3>3, <4>1, <4>2
      <4>3. CASE d # c
        BY <1>2, <2>1, <4>1, <4>3 DEF LockAccounting
      <4> QED
        BY <4>2, <4>3
    <3> QED
      BY <2>1, <3>1, <3>4 DEF LockAccounting, Mapped
  <2>5. CASE Mapped(k) /\ mapping[k].client = c
    <3>1. mapping'[k] = IF mapping[k].count = 1 THEN Unmapped
                        ELSE [count |-> mapping[k].count - 1, client |-> c]
      BY <1>1, <1>6, <2>1, <2>5 DEF Release
    <3>2. Count(k, c)' = mapping[k].count - 1
      <4>1. CASE mapping[k].count = 1
        BY <1>1, <3>1, <4>1, TunnelAssumption DEF Unmapped, Count
      <4>2. CASE mapping[k].count # 1
        BY <1>1, <2>1, <2>5, <3>1, <4>2 DEF Count
      <4> QED
        BY <4>1, <4>2
    <3>3. /\ mapping[k].count <= Cardinality(Holders(k, c))
          /\ ~stopped[c] => mapping[k].count = Cardinality(Holders(k, c))
      BY <1>1, <2>1, <2>5 DEF LockAccounting, Count
    <3>4. ASSUME NEW d \in Client, d # c
          PROVE  Count(k, d) = 0 /\ Count(k, d)' = 0
      BY <1>1, <2>1, <2>5, <3>1, <3>4 DEF Count, Unmapped
    <3>5. mapping'[k].count > 0 => mapping'[k].client \in Client
      BY <1>1, <2>1, <2>5, <3>1 DEF Unmapped
    <3>6. ASSUME NEW d \in Client
          PROVE  /\ Count(k, d)' <= Cardinality(Holders(k, d)')
                 /\ ~stopped[d] => Count(k, d)' = Cardinality(Holders(k, d)')
      <4>1. CASE d = c
        BY <1>4, <2>2, <3>2, <3>3, <4>1
      <4>2. CASE d # c
        BY <1>2, <2>1, <3>4, <4>2, HoldersFinite DEF LockAccounting
      <4> QED
        BY <4>1, <4>2
    <3> QED
      BY <3>5, <3>6
  <2> QED
    BY <2>4, <2>5
<1> QED
  BY <1>1, <1>5, <1>6, TunnelAssumption DEF LockAccounting, Mapped

\* Releasing keeps the key map well typed.
LEMMA ReleaseTyped ==
    ASSUME TypeOK, NEW k \in Key \cup {NoKey}, NEW c \in Client \cup {NoClient},
           Release(k, c)
    PROVE  mapping' \in [Key -> [count : Nat, client : Client \cup {NoClient}]]
<1>1. mapping \in [Key -> [count : Nat, client : Client \cup {NoClient}]]
  BY DEF TypeOK
<1>2. CASE mapping' = mapping
  BY <1>1, <1>2
<1>3. CASE /\ k \in Key /\ Mapped(k)
           /\ mapping' = [mapping EXCEPT ![k] =
                            IF mapping[k].count = 1 THEN Unmapped
                            ELSE [count |-> mapping[k].count - 1, client |-> c]]
  <2>1. mapping[k].count \in Nat /\ mapping[k].count > 0
    BY <1>1, <1>3 DEF Mapped
  <2>2. mapping[k].count - 1 \in Nat
    BY <2>1
  <2> QED
    BY <1>1, <1>3, <2>2 DEF Unmapped
<1> QED
  BY <1>2, <1>3 DEF Release

\* Steps that lock and release nothing keep the accounting, also when they stop
\* clients: a client never starts again once stopped.
LEMMA QuietKeepsAccounting ==
    ASSUME LockAccounting,
           UNCHANGED <<mapping, key, client>>,
           \A i \in Inv : st'[i] \in {"sending", "written", "sent"}
                             <=> st[i] \in {"sending", "written", "sent"},
           \A c \in Client : stopped[c] => stopped'[c]
    PROVE  LockAccounting'
<1>1. ASSUME NEW k, NEW c
      PROVE  Holders(k, c)' = Holders(k, c)
  BY DEF Holders, Holding
<1>2. ASSUME NEW k, NEW c
      PROVE  Count(k, c)' = Count(k, c)
  BY DEF Count
<1> QED
  BY <1>1, <1>2 DEF LockAccounting, Mapped

\* Readers stay matched while the queue does and no invocation of it goes back.
LEMMA QuietKeepsReaders ==
    ASSUME TypeOK, ReadersMatch, timers' = timers,
           \A j \in Inv : (st[j] \in {"sent", "resolved"} /\ wire[j] = "done") =>
                            (st'[j] \in {"sent", "resolved"} /\ wire'[j] = "done")
    PROVE  ReadersMatch'
<1> SUFFICES ASSUME NEW n \in 1..Len(timers), timers[n].kind = "message"
             PROVE  /\ st'[timers[n].inv] \in {"sent", "resolved"}
                    /\ wire'[timers[n].inv] = "done"
  BY DEF ReadersMatch
<1>1. timers \in Seq(Reader)
  BY DEF TypeOK
<1>2. timers[n] \in Reader
  BY <1>1
<1>3. timers[n].inv \in Inv
  BY <1>2 DEF Reader
<1> QED
  BY <1>3 DEF ReadersMatch

-----------------------------------------------------------------------------
(* Steps of the clients, as far as invocations see them.                   *)

\* Client steps are well typed and never withdraw a stop.
LEMMA ClientStepEffect ==
    ASSUME TypeOKClients, ClientStep
    PROVE  TypeOKClients' /\ \A c \in Client : stopped[c] => stopped'[c]
<1> USE DEF TypeOKClients, ConnState, StarterState, StartConnection, StopAll, Fresh
<1>1. CASE Run
  BY <1>1 DEF Run
<1>2. CASE Stop
  BY <1>2 DEF Stop
<1>3. CASE Restart
  BY <1>3 DEF Restart
<1>4. CASE \E c \in Client : Wake(c)
  BY <1>4 DEF Wake
<1>5. CASE \E c \in Client : HandleReconnect(c)
  BY <1>5 DEF HandleReconnect
<1>6. CASE \E c \in Client : HandleClose(c)
  BY <1>6 DEF HandleClose
<1>7. CASE \E c \in Client : HandleRebalance(c)
  BY <1>7 DEF HandleRebalance
<1>8. CASE \E c \in Client : LibOpen(c) \/ LibStartFails(c) \/ LibReopen(c)
  BY <1>8 DEF LibOpen, LibStartFails, LibReopen
<1> QED
  BY <1>1, <1>2, <1>3, <1>4, <1>5, <1>6, <1>7, <1>8 DEF ClientStep

LEMMA CutStepEffect ==
    ASSUME TypeOKClients, NEW c \in Client, CutStep(c)
    PROVE  TypeOKClients' /\ \A d \in Client : stopped[d] => stopped'[d]
BY DEF CutStep, LibDown, LibStopped, TypeOKClients, ConnState, StarterState

-----------------------------------------------------------------------------
(* The inductive invariant, one lemma per action.                          *)

LEMMA InitIInv == Init => IInv
<1> SUFFICES ASSUME Init PROVE IInv
  OBVIOUS
<1> USE TunnelAssumption DEF Init
<1>1. TypeOKClients
  BY DEF InitClients, TypeOKClients, ConnState, StarterState
<1>2. TypeOK
  BY <1>1 DEF TypeOK, Status, Fate, Unmapped, Inv
<1>3. \A i \in Inv : Progress(i)
  BY DEF Progress, Awaited
<1>4. LockAccounting
  <2>1. \A k, c : Holders(k, c) = {}
    BY DEF Holders, Holding
  <2>2. \A k \in Key : mapping[k].count = 0
    BY DEF Unmapped
  <2>3. \A k \in Key : \A c : ~Mapped(k) /\ Count(k, c) = 0
    BY <2>2 DEF Mapped, Count
  <2>4. \A k, c : Cardinality(Holders(k, c)) = 0
    BY <2>1, FS_EmptySet
  <2> QED
    BY <2>3, <2>4 DEF LockAccounting
<1>5. SameClient /\ ClientFifo /\ ReadersMatch
  BY DEF SameClient, ClientFifo, ReadersMatch
<1> QED
  BY <1>2, <1>3, <1>4, <1>5 DEF IInv

LEMMA ClientStepIInv ==
    ASSUME IInv, ClientStep, UNCHANGED invokeVars
    PROVE  IInv'
<1> USE DEF IInv, invokeVars
<1>1. TypeOKClients' /\ \A c \in Client : stopped[c] => stopped'[c]
  BY ClientStepEffect DEF TypeOK
<1>2. TypeOK'
  BY <1>1 DEF TypeOK
<1>3. LockAccounting'
  BY <1>1, QuietKeepsAccounting
<1>4. (\A i \in Inv : Progress(i))'
  BY DEF Progress, Awaited
<1>5. SameClient'
  <2> SUFFICES ASSUME NEW i \in Inv, NEW j \in Inv,
                      key[i] = key[j], key[i] # NoKey, sentAt[i] < sentAt[j],
                      wire[i] = "wire", st[i] # "rejected",
                      ~stopped'[client[i]], ~stopped'[client[j]]
               PROVE  client[i] = client[j]
    BY DEF SameClient
  <2>1. client[i] \in Client /\ client[j] \in Client
    <3>1. st[i] # "none" /\ st[j] # "none"
      BY DEF Progress, TypeOK
    <3> QED
      BY <3>1 DEF Progress
  <2> QED
    BY <1>1, <2>1 DEF SameClient
<1>6. ClientFifo' /\ ReadersMatch'
  BY DEF ClientFifo, ReadersMatch
<1> QED
  BY <1>2, <1>3, <1>4, <1>5, <1>6

\* Affinity of the next state, from the accounting of the next state.
LEMMA AffinityNext ==
    TypeOK' /\ LockAccounting' /\ (\A i \in Inv : Holding(i) => client[i] \in Client)'
        => KeyAffinity'
BY AccountingGivesAffinity, PTL

\* Order survives the transmission of i: whoever is in flight for its key holds
\* the key too, hence is on the client of i.
LEMMA TransmitKeepsOrder ==
    ASSUME IInv, NEW i \in Inv, Transmit(i),
           st[i] \in {"none", "sending"},
           TypeOK', LockAccounting',
           \A j \in Inv \ {i} : key'[j] = key[j] /\ client'[j] = client[j],
           client'[i] \in Client,
           stopped' = stopped
    PROVE  SameClient' /\ ClientFifo'
<1>1. /\ sentAt \in [Inv -> Nat] /\ lastSent \in Nat
      /\ \A j \in Inv : sentAt[j] <= lastSent
      /\ wire \in [Inv -> Fate] /\ st \in [Inv -> Status]
  BY DEF IInv, TypeOK, Progress
<1>2. /\ sentAt'[i] = lastSent + 1
      /\ wire'[i] = "wire" /\ st'[i] = "written"
      /\ \A j \in Inv \ {i} : /\ sentAt'[j] = sentAt[j]
                              /\ wire'[j] = wire[j] /\ st'[j] = st[j]
  BY <1>1 DEF Transmit
<1>3. ASSUME NEW a \in Inv, NEW b \in Inv,
             key'[a] = key'[b], key'[a] # NoKey, sentAt'[a] < sentAt'[b],
             wire'[a] = "wire", st'[a] # "rejected",
             ~stopped'[client'[a]], ~stopped'[client'[b]]
      PROVE  client'[a] = client'[b]
  <2>1. a # i
    BY <1>1, <1>2, <1>3
  <2>2. CASE b # i
    BY <1>2, <1>3, <2>1, <2>2 DEF IInv, SameClient
  <2>3. CASE b = i
    <3>1. st'[a] \in {"written", "sent"} /\ st'[b] = "written"
      BY <1>2, <1>3, <2>1, <2>3 DEF IInv, Progress
    <3>2. (\A j \in Inv : Holding(j) => client[j] \in Client)'
      BY <1>2 DEF IInv, Progress, Holding
    <3>3. KeyAffinity'
      BY <3>2, AffinityNext
    <3> QED
      BY <1>3, <3>1, <3>3 DEF KeyAffinity, Holding
  <2> QED
    BY <2>2, <2>3
<1>4. ASSUME NEW a \in Inv, NEW b \in Inv,
             client'[a] = client'[b], sentAt'[a] < sentAt'[b], wire'[b] # "wire"
      PROVE  wire'[a] # "wire"
  <2>1. b # i /\ a # i
    BY <1>1, <1>2, <1>4
  <2> QED
    BY <1>2, <1>4, <2>1 DEF IInv, ClientFifo
<1> QED
  BY <1>3, <1>4 DEF SameClient, ClientFifo

LEMMA InvokeIInv ==
    ASSUME IInv, NEW k \in Key \cup {NoKey}, Invoke(k)
    PROVE  IInv'
<1> DEFINE i == ackId + 1
<1>1. PICK c \in Candidates(k) :
         /\ client' = [client EXCEPT ![i] = c]
         /\ Lock(k, c)
         /\ IF conn[c] = "open"
              THEN Transmit(i)
              ELSE /\ st' = [st EXCEPT ![i] = "sending"]
                   /\ UNCHANGED <<wire, sentAt, lastSent>>
  BY DEF Invoke
<1>2. /\ i \in Inv /\ ackId' = i /\ ackMap' = ackMap \cup {i}
      /\ key' = [key EXCEPT ![i] = k]
      /\ UNCHANGED <<clientVars, reply, timers, aborted, severed, alive>>
  BY TunnelAssumption DEF Invoke, IInv, TypeOK, Inv
<1>3. /\ st[i] = "none" /\ wire[i] = "none" /\ sentAt[i] = 0 /\ reply[i] = 0
  <2>1. i > ackId /\ reply[i] \in 0..MaxParts
    BY <1>2 DEF IInv, TypeOK
  <2> QED
    BY <1>2, <2>1, TunnelAssumption DEF IInv, Progress
<1>4. c \in Client
  BY DEF Candidates, IInv, TypeOK, TypeOKClients, LockAccounting
<1>5. /\ st'[i] \in {"sending", "written"}
      /\ \A j \in Inv \ {i} : /\ st'[j] = st[j] /\ wire'[j] = wire[j]
                              /\ sentAt'[j] = sentAt[j]
      /\ lastSent' \in {lastSent, lastSent + 1}
  BY <1>1, <1>2 DEF Transmit, IInv, TypeOK
<1>6. TypeOK'
  <2>1. mapping' \in [Key -> [count : Nat, client : Client \cup {NoClient}]]
    BY <1>1, <1>4 DEF Lock, IInv, TypeOK
  <2>2. TypeOKClients'
    BY <1>2 DEF IInv, TypeOK, TypeOKClients, clientVars
  <2>3. /\ st' \in [Inv -> Status] /\ wire' \in [Inv -> Fate]
        /\ sentAt' \in [Inv -> Nat] /\ lastSent' \in Nat
    <3> /\ st \in [Inv -> Status] /\ wire \in [Inv -> Fate]
        /\ sentAt \in [Inv -> Nat] /\ lastSent \in Nat
      BY DEF IInv, TypeOK
    <3> HIDE DEF i
    <3>1. CASE conn[c] = "open"
      BY <1>1, <3>1 DEF Transmit, Status, Fate
    <3>2. CASE conn[c] # "open"
      BY <1>1, <3>2 DEF Status
    <3> QED
      BY <3>1, <3>2
  <2>4. ackId' \in 0..MaxInvocations /\ ackMap' \subseteq Inv
    BY <1>2, TunnelAssumption DEF IInv, TypeOK, Inv
  <2>5. /\ key' \in [Inv -> Key \cup {NoKey}]
        /\ client' \in [Inv -> Client \cup {NoClient}]
        /\ reply' \in [Inv -> 0..MaxParts] /\ timers' \in Seq(Reader)
        /\ aborted' \subseteq Inv /\ severed' \subseteq Inv /\ alive' \in BOOLEAN
    BY <1>1, <1>2, <1>4 DEF IInv, TypeOK
  <2> QED
    BY <2>1, <2>2, <2>3, <2>4, <2>5 DEF TypeOK
<1>7. LockAccounting'
  BY <1>1, <1>2, <1>3, <1>5, LockKeepsAccounting DEF IInv, clientVars
<1>8. (\A j \in Inv : Progress(j))'
  <2> SUFFICES ASSUME NEW j \in Inv PROVE Progress(j)'
    OBVIOUS
  <2>1. CASE j # i
    <3>1. /\ Progress(j) /\ sentAt[j] \in Nat /\ lastSent \in Nat
          /\ ackId \in Nat /\ j \in Nat
      BY DEF IInv, TypeOK, Inv
    <3>2. /\ client'[j] = client[j] /\ reply'[j] = reply[j]
          /\ j \in ackMap' <=> j \in ackMap
      BY <1>1, <1>2, <2>1 DEF IInv, TypeOK
    <3>3. Awaited(j)' <=> Awaited(j)
      BY <1>2, <1>5, <2>1, <3>2 DEF Awaited
    <3> QED
      BY <1>2, <1>5, <2>1, <3>1, <3>2, <3>3 DEF Progress
  <2>2. CASE j = i
    <3>1. i \notin severed
      BY <1>2, <1>3 DEF IInv, Progress
    <3>2. \/ st'[i] = "sending" /\ wire'[i] = "none" /\ sentAt'[i] = 0
          \/ st'[i] = "written" /\ wire'[i] = "wire" /\ sentAt'[i] = lastSent'
      BY <1>1, <1>2, <1>3 DEF Transmit, IInv, TypeOK
    <3>3. client'[i] = c
      BY <1>1, <1>2 DEF IInv, TypeOK
    <3>4. lastSent' \in Nat /\ sentAt'[i] <= lastSent' /\ (wire'[i] = "wire" => sentAt'[i] > 0)
      BY <1>1, <1>2, <1>3, <3>2 DEF Transmit, IInv, TypeOK
    <3>5. reply'[i] = 0 /\ i \in ackMap' /\ i \notin severed' /\ ~(i > ackId')
      BY <1>2, <1>3, <3>1 DEF IInv, TypeOK
    <3>6. ~(j > ackId')
      BY <2>2, <3>5
    <3> HIDE DEF i
    <3>7. st'[j] \in {"sending", "written"} /\ (st'[j] = "sending" \/ wire'[j] = "wire")
      BY <2>2, <3>2
    <3>8. Awaited(j)'
      BY <3>7 DEF Awaited
    <3> QED
      BY <1>4, <2>2, <3>2, <3>3, <3>4, <3>5, <3>6, <3>7, <3>8 DEF Progress
  <2> QED
    BY <2>1, <2>2
<1>9. ReadersMatch'
  BY <1>2, <1>3, <1>5, QuietKeepsReaders DEF IInv
<1>10. SameClient' /\ ClientFifo'
  <2>1. CASE conn[c] = "open"
    BY <1>1, <1>2, <1>3, <1>4, <1>6, <1>7, <2>1, TransmitKeepsOrder
    DEF IInv, TypeOK, clientVars
  <2>2. CASE conn[c] # "open"
    BY <1>1, <1>2, <1>3, <2>2 DEF IInv, TypeOK, SameClient, ClientFifo, clientVars
  <2> QED
    BY <2>1, <2>2
<1> QED
  BY <1>6, <1>7, <1>8, <1>9, <1>10 DEF IInv

LEMMA SendLateIInv ==
    ASSUME IInv, NEW i \in Inv, SendLate(i)
    PROVE  IInv'
<1>1. /\ st[i] = "sending" /\ Transmit(i)
      /\ UNCHANGED <<clientVars, ackId, ackMap, mapping, key, client, reply, timers,
                     aborted, severed, alive>>
  BY DEF SendLate
<1>2. /\ st'[i] = "written" /\ wire'[i] = "wire" /\ sentAt'[i] = lastSent + 1
      /\ lastSent' = lastSent + 1
      /\ \A j \in Inv \ {i} : /\ st'[j] = st[j] /\ wire'[j] = wire[j]
                              /\ sentAt'[j] = sentAt[j]
  BY <1>1 DEF Transmit, IInv, TypeOK
<1>3. TypeOK'
  BY <1>1 DEF Transmit, IInv, TypeOK, TypeOKClients, clientVars, Status, Fate
<1>4. LockAccounting'
  BY <1>1, <1>2, QuietKeepsAccounting DEF IInv, clientVars
<1>5. (\A j \in Inv : Progress(j))'
  <2> SUFFICES ASSUME NEW j \in Inv PROVE Progress(j)'
    OBVIOUS
  <2>1. Progress(j) /\ sentAt[j] \in Nat /\ lastSent \in Nat /\ reply[j] \in Nat
    BY DEF IInv, TypeOK
  <2>2. Awaited(j)' <=> Awaited(j)
    BY <1>1, <1>2, <2>1 DEF Progress, Awaited
  <2> QED
    BY <1>1, <1>2, <2>1, <2>2 DEF Progress
<1>6. ReadersMatch'
  <2>1. st[i] = "sending"
    BY DEF SendLate
  <2> QED
    BY <1>1, <1>2, <2>1, QuietKeepsReaders DEF IInv
<1>7. SameClient' /\ ClientFifo'
  BY <1>1, <1>3, <1>4, TransmitKeepsOrder DEF IInv, Progress, clientVars
<1> QED
  BY <1>3, <1>4, <1>5, <1>6, <1>7 DEF IInv

LEMMA SendDoneIInv ==
    ASSUME IInv, NEW i \in Inv, SendDone(i)
    PROVE  IInv'
<1>1. /\ st[i] = "written" /\ st' = [st EXCEPT ![i] = "sent"]
      /\ UNCHANGED <<clientVars, ackId, ackMap, mapping, key, client, wire, sentAt,
                     lastSent, reply, timers, aborted, severed, alive>>
  BY DEF SendDone
<1>2. TypeOK'
  BY <1>1 DEF IInv, TypeOK, TypeOKClients, clientVars, Status
<1>3. st \in [Inv -> Status]
  BY DEF IInv, TypeOK
<1>4. LockAccounting'
  BY <1>1, <1>3, QuietKeepsAccounting DEF IInv, clientVars
<1>5. (\A j \in Inv : Progress(j))'
  <2> SUFFICES ASSUME NEW j \in Inv PROVE Progress(j)'
    OBVIOUS
  <2>1. Progress(j)
    BY DEF IInv
  <2>2. st'[j] = st[j] \/ (st[j] = "written" /\ st'[j] = "sent")
    BY <1>1, <1>3
  <2>3. Awaited(j)' <=> Awaited(j)
    BY <1>1, <2>2 DEF Awaited
  <2> QED
    BY <1>1, <2>1, <2>2, <2>3 DEF Progress
<1>6. ReadersMatch'
  BY <1>1, <1>3, QuietKeepsReaders DEF IInv
<1>7. SameClient' /\ ClientFifo'
  BY <1>1, <1>3 DEF IInv, SameClient, ClientFifo, clientVars
<1> QED
  BY <1>2, <1>4, <1>5, <1>6, <1>7 DEF IInv

LEMMA SendFailsIInv ==
    ASSUME IInv, NEW i \in Inv, SendFails(i)
    PROVE  IInv'
<1>1. /\ st[i] \in {"sending", "written"} /\ st' = [st EXCEPT ![i] = "rejected"]
      /\ ackMap' = ackMap \ {i} /\ Release(key[i], client[i])
      /\ UNCHANGED <<clientVars, ackId, key, client, wire, sentAt, lastSent,
                     reply, timers, aborted, severed, alive>>
  BY DEF SendFails
<1>2. st \in [Inv -> Status]
  BY DEF IInv, TypeOK
<1>3. TypeOK'
  <2>1. mapping' \in [Key -> [count : Nat, client : Client \cup {NoClient}]]
    <3>1. TypeOK /\ key[i] \in Key \cup {NoKey} /\ client[i] \in Client \cup {NoClient}
      BY DEF IInv, TypeOK
    <3> QED
      BY <1>1, <3>1, ReleaseTyped
  <2> QED
    BY <1>1, <2>1 DEF IInv, TypeOK, TypeOKClients, clientVars, Status
<1>4. LockAccounting'
  BY <1>1, <1>2, ReleaseKeepsAccounting DEF IInv, clientVars
<1>5. (\A j \in Inv : Progress(j))'
  <2> SUFFICES ASSUME NEW j \in Inv PROVE Progress(j)'
    OBVIOUS
  <2>1. Progress(j)
    BY DEF IInv
  <2>2. \/ st'[j] = st[j] /\ (j \in ackMap' <=> j \in ackMap)
        \/ st[j] \in {"sending", "written"} /\ st'[j] = "rejected" /\ j \notin ackMap'
    BY <1>1, <1>2
  <2>3. (Awaited(j)' <=> Awaited(j)) \/ (st'[j] = "rejected" /\ ~Awaited(j)')
    BY <1>1, <2>2 DEF Awaited
  <2>4. st'[j] = "rejected" => ~Awaited(j)'
    BY DEF Awaited
  <2>5. j \in ackMap' <=> Awaited(j)'
    BY <1>1, <2>1, <2>2, <2>4 DEF Progress, Awaited
  <2> QED
    BY <1>1, <2>1, <2>2, <2>5 DEF Progress
<1>6. ReadersMatch'
  BY <1>1, <1>2, QuietKeepsReaders DEF IInv
<1>7. SameClient' /\ ClientFifo'
  BY <1>1, <1>2 DEF IInv, SameClient, ClientFifo, clientVars
<1> QED
  BY <1>3, <1>4, <1>5, <1>6, <1>7 DEF IInv

LEMMA AbortFiresIInv ==
    ASSUME IInv, NEW i \in Inv, AbortFires(i)
    PROVE  IInv'
<1> DEFINE r == [inv |-> i, kind |-> "abort"]
<1>1. /\ aborted' = aborted \cup {i} /\ timers' = Append(timers, r)
      /\ UNCHANGED <<clientVars, ackId, ackMap, mapping, key, client, st, wire,
                     sentAt, lastSent, reply, severed, alive>>
  BY DEF AbortFires
<1>2. timers \in Seq(Reader) /\ r \in Reader
  BY DEF IInv, TypeOK, Reader
<1>3. timers' \in Seq(Reader)
  BY <1>1, <1>2
<1>4. TypeOK'
  BY <1>1, <1>3 DEF IInv, TypeOK, TypeOKClients, clientVars
<1>5. LockAccounting'
  BY <1>1, QuietKeepsAccounting DEF IInv, clientVars
<1>6. (\A j \in Inv : Progress(j))'
  BY <1>1 DEF IInv, Progress, Awaited
<1>7. ReadersMatch'
  <2> SUFFICES ASSUME NEW n \in 1..Len(timers'), timers'[n].kind = "message"
               PROVE  /\ st[timers'[n].inv] \in {"sent", "resolved"}
                      /\ wire[timers'[n].inv] = "done"
    BY <1>1 DEF ReadersMatch
  <2>1. timers'[n] = r \/ (n \in 1..Len(timers) /\ timers'[n] = timers[n])
    BY <1>1, <1>2
  <2>2. r.kind # "message"
    OBVIOUS
  <2> QED
    BY <2>1, <2>2 DEF IInv, ReadersMatch
<1>8. SameClient' /\ ClientFifo'
  BY <1>1 DEF IInv, SameClient, ClientFifo, clientVars
<1> QED
  BY <1>4, <1>5, <1>6, <1>7, <1>8 DEF IInv

LEMMA ExecuteIInv ==
    ASSUME IInv, NEW i \in Inv, Execute(i)
    PROVE  IInv'
<1>1. /\ wire[i] \in {"wire", "adrift"} /\ wire' = [wire EXCEPT ![i] = "done"]
      /\ UNCHANGED <<clientVars, ackId, ackMap, mapping, key, client, st, sentAt,
                     lastSent, timers, aborted, severed, alive>>
  BY DEF Execute
<1>2. /\ wire[i] = "wire" =>
            \A j \in Inv : (wire[j] = "wire" /\ client[j] = client[i])
                              => sentAt[i] <= sentAt[j]
      /\ reply' \in [Inv -> 0..MaxParts]
      /\ \A j \in Inv \ {i} : reply'[j] = reply[j]
  BY DEF Execute, IInv, TypeOK
<1>3. wire \in [Inv -> Fate] /\ sentAt \in [Inv -> Nat] /\ reply \in [Inv -> 0..MaxParts]
  BY DEF IInv, TypeOK
<1>4. TypeOK'
  BY <1>1, <1>2 DEF IInv, TypeOK, TypeOKClients, clientVars, Fate
<1>5. LockAccounting'
  BY <1>1, QuietKeepsAccounting DEF IInv, clientVars
<1>6. (\A j \in Inv : Progress(j))'
  <2> SUFFICES ASSUME NEW j \in Inv PROVE Progress(j)'
    OBVIOUS
  <2>1. CASE j = i
    <3>1. st[i] \in Status /\ Progress(i)
      BY DEF IInv, TypeOK
    <3>2. wire'[i] = "done" /\ reply'[i] \in Nat
      BY <1>1, <1>2, <1>3
    <3>3. \/ /\ wire[i] = "wire" /\ reply'[i] > 0 /\ i \notin severed
          \/ /\ wire[i] = "adrift" /\ reply'[i] = 0 /\ i \in severed
      <4>1. CASE wire[i] = "wire"
        <5>1. reply'[i] > 0
          BY <1>3, <4>1 DEF Execute
        <5> QED
          BY <3>1, <4>1, <5>1 DEF Progress
      <4>2. CASE wire[i] = "adrift"
        <5>1. i \in severed /\ reply[i] = 0
          BY <1>3, <3>1, <4>2 DEF Progress
        <5> QED
          BY <4>2, <5>1 DEF Execute
      <4> QED
        BY <1>1, <4>1, <4>2
    <3>4. st[i] \in {"written", "sent", "resolved", "rejected"}
      BY <1>1, <3>1 DEF Progress, Status
    <3>5. Awaited(i)' <=> Awaited(i)
      BY <1>1, <3>2, <3>3 DEF Awaited
    <3> QED
      BY <1>1, <2>1, <3>1, <3>2, <3>3, <3>4, <3>5 DEF Progress
  <2>2. CASE j # i
    <3>1. Progress(j) /\ wire'[j] = wire[j] /\ reply'[j] = reply[j]
      BY <1>1, <1>2, <1>3, <2>2 DEF IInv
    <3>2. Awaited(j)' <=> Awaited(j)
      BY <1>1, <3>1 DEF Awaited
    <3> QED
      BY <1>1, <3>1, <3>2 DEF Progress
  <2> QED
    BY <2>1, <2>2
<1>7. ReadersMatch'
  BY <1>1, <1>3, QuietKeepsReaders DEF IInv
<1>8. SameClient'
  BY <1>1, <1>3 DEF IInv, SameClient, clientVars
<1>9. ClientFifo'
  <2> SUFFICES ASSUME NEW a \in Inv, NEW b \in Inv,
                      client[a] = client[b], sentAt[a] < sentAt[b],
                      wire'[b] # "wire", wire'[a] = "wire"
               PROVE  FALSE
    BY <1>1 DEF ClientFifo
  <2>1. wire[a] = "wire"
    BY <1>1, <1>3
  <2>2. CASE b = i
    <3>1. CASE wire[i] = "wire"
      <4>1. sentAt[i] <= sentAt[a]
        BY <1>2, <2>1, <2>2, <3>1
      <4> QED
        BY <1>3, <2>2, <4>1
    <3>2. CASE wire[i] = "adrift"
      <4>1. ClientFifo
        BY DEF IInv
      <4> QED
        BY <2>1, <2>2, <3>2, <4>1 DEF ClientFifo
    <3> QED
      BY <1>1, <3>1, <3>2
  <2>3. CASE b # i
    <3>1. wire[b] # "wire"
      BY <1>1, <1>3, <2>3
    <3>2. ClientFifo
      BY DEF IInv
    <3> QED
      BY <2>1, <3>1, <3>2 DEF ClientFifo
  <2> QED
    BY <2>2, <2>3
<1> QED
  BY <1>4, <1>5, <1>6, <1>7, <1>8, <1>9 DEF IInv

LEMMA HandleResponseIInv ==
    ASSUME IInv, NEW i \in Inv, HandleResponse(i)
    PROVE  IInv'
<1> DEFINE r == [inv |-> i, kind |-> "message"]
<1>1. /\ reply[i] > 0 /\ st[i] # "written"
      /\ reply' = [reply EXCEPT ![i] = reply[i] - 1]
      /\ ackMap' = IF reply[i] = 1 THEN ackMap \ {i} ELSE ackMap
      /\ \/ i \in ackMap /\ timers' = Append(timers, r)
         \/ timers' = timers
      /\ UNCHANGED <<clientVars, ackId, mapping, key, client, st, wire, sentAt,
                     lastSent, aborted, severed, alive>>
  BY DEF HandleResponse
<1>2. /\ reply \in [Inv -> 0..MaxParts] /\ timers \in Seq(Reader) /\ r \in Reader
      /\ \A j \in Inv : reply'[j] <= reply[j] /\ reply'[j] \in Nat
  BY <1>1, TunnelAssumption DEF IInv, TypeOK, Reader
<1>3. TypeOK'
  <2>1. reply' \in [Inv -> 0..MaxParts]
    BY <1>1, <1>2, TunnelAssumption
  <2>2. timers' \in Seq(Reader)
    <3> HIDE DEF r
    <3> QED
      BY <1>1, <1>2
  <2> QED
    BY <1>1, <2>1, <2>2 DEF IInv, TypeOK, TypeOKClients, clientVars
<1>4. LockAccounting'
  BY <1>1, QuietKeepsAccounting DEF IInv, clientVars
<1>5. (\A j \in Inv : Progress(j))'
  <2> SUFFICES ASSUME NEW j \in Inv PROVE Progress(j)'
    OBVIOUS
  <2>1. Progress(j) /\ reply[j] \in Nat
    BY <1>2 DEF IInv
  <2>2. CASE j = i
    <3>1. /\ reply'[i] = reply[i] - 1 /\ wire[i] = "done" /\ st[i] # "sending"
          /\ i \notin severed
      BY <1>1, <1>2, <2>1, <2>2 DEF Progress
    <3>2. i \in ackMap' <=> i \in ackMap /\ reply'[i] > 0
      BY <1>1, <2>1, <2>2, <3>1
    <3>3. Awaited(i)' <=> Awaited(i) /\ reply'[i] > 0
      BY <1>1, <3>1 DEF Awaited
    <3> QED
      BY <1>1, <2>1, <2>2, <3>1, <3>2, <3>3 DEF Progress
  <2>3. CASE j # i
    <3>1. reply'[j] = reply[j] /\ (j \in ackMap' <=> j \in ackMap)
      BY <1>1, <1>2, <2>3
    <3>2. Awaited(j)' <=> Awaited(j)
      BY <1>1, <3>1 DEF Awaited
    <3> QED
      BY <1>1, <2>1, <3>1, <3>2 DEF Progress
  <2> QED
    BY <2>2, <2>3
<1>6. ReadersMatch'
  <2>1. CASE timers' = timers
    BY <1>1, <2>1 DEF IInv, ReadersMatch
  <2>2. CASE i \in ackMap /\ timers' = Append(timers, r)
    <3>1. st[i] \in {"sent", "resolved"} /\ wire[i] = "done"
      BY <1>1, <2>2 DEF IInv, Progress, Awaited
    <3>2. ASSUME NEW n \in 1..Len(timers')
          PROVE  timers'[n] = r \/ (n \in 1..Len(timers) /\ timers'[n] = timers[n])
      BY <1>2, <2>2, <3>2
    <3>3. r.inv = i
      OBVIOUS
    <3> HIDE DEF r
    <3>4. ASSUME NEW n \in 1..Len(timers'), timers'[n].kind = "message"
          PROVE  /\ st[timers'[n].inv] \in {"sent", "resolved"}
                 /\ wire[timers'[n].inv] = "done"
      BY <3>1, <3>2, <3>3, <3>4 DEF IInv, ReadersMatch
    <3> QED
      BY <1>1, <3>4 DEF ReadersMatch
  <2> QED
    BY <1>1, <2>1, <2>2
<1>7. SameClient' /\ ClientFifo'
  BY <1>1 DEF IInv, SameClient, ClientFifo, clientVars
<1> QED
  BY <1>3, <1>4, <1>5, <1>6, <1>7 DEF IInv

\* What the head of the queue may be: a message of an executed request.
LEMMA HeadMessage ==
    ASSUME IInv, timers # << >>, Head(timers).kind = "message"
    PROVE  /\ Head(timers).inv \in Inv
           /\ st[Head(timers).inv] \in {"sent", "resolved"}
           /\ wire[Head(timers).inv] = "done"
<1>1. timers \in Seq(Reader)
  BY DEF IInv, TypeOK
<1>2. 1 \in 1..Len(timers) /\ Head(timers) = timers[1] /\ timers[1] \in Reader
  BY <1>1
<1> QED
  BY <1>2 DEF IInv, ReadersMatch, Reader

LEMMA RunReaderIInv ==
    ASSUME IInv, RunReader
    PROVE  IInv'
<1> DEFINE i == Head(timers).inv
<1>1. /\ timers # << >> /\ timers' = Tail(timers)
      /\ UNCHANGED <<clientVars, ackId, ackMap, key, client, wire, sentAt, lastSent,
                     reply, aborted, severed>>
      /\ alive' \in BOOLEAN
  BY DEF RunReader, ReadMessage, ReadAborted, IInv, TypeOK
<1>2. /\ timers \in Seq(Reader) /\ st \in [Inv -> Status]
      /\ key \in [Inv -> Key \cup {NoKey}]
      /\ client \in [Inv -> Client \cup {NoClient}]
      /\ mapping \in [Key -> [count : Nat, client : Client \cup {NoClient}]]
  BY DEF IInv, TypeOK
<1>3. timers' \in Seq(Reader)
  BY <1>1, <1>2
<1>4. \/ mapping' = mapping /\ st' = st
      \/ /\ i \in Inv /\ st[i] = "sent" /\ wire[i] = "done"
         /\ st' = [st EXCEPT ![i] = "resolved"]
         /\ Release(key[i], client[i])
  BY <1>1, HeadMessage DEF RunReader, ReadMessage, ReadAborted
<1>5. /\ st' \in [Inv -> Status]
      /\ \A j \in Inv : \/ st'[j] = st[j]
                        \/ st[j] = "sent" /\ wire[j] = "done" /\ st'[j] = "resolved"
  <2>1. CASE st' = st
    BY <1>2, <2>1
  <2>2. CASE i \in Inv /\ st[i] = "sent" /\ wire[i] = "done" /\ st' = [st EXCEPT ![i] = "resolved"]
    BY <1>2, <2>2 DEF Status
  <2> QED
    BY <1>4, <2>1, <2>2
<1>6. TypeOK'
  <2>1. mapping' \in [Key -> [count : Nat, client : Client \cup {NoClient}]]
    <3>1. CASE mapping' = mapping
      BY <1>2, <3>1
    <3>2. CASE i \in Inv /\ Release(key[i], client[i])
      BY <1>2, <3>2, ReleaseTyped DEF IInv
    <3> QED
      BY <1>4, <3>1, <3>2
  <2> QED
    BY <1>1, <1>3, <1>5, <2>1 DEF IInv, TypeOK, TypeOKClients, clientVars
<1>7. LockAccounting'
  <2>1. CASE mapping' = mapping /\ st' = st
    BY <1>1, <2>1, QuietKeepsAccounting DEF IInv, clientVars
  <2>2. CASE /\ i \in Inv /\ st[i] = "sent"
             /\ st' = [st EXCEPT ![i] = "resolved"]
             /\ Release(key[i], client[i])
    <3>1. st'[i] = "resolved" /\ \A j \in Inv \ {i} : st'[j] = st[j]
      BY <1>2, <2>2
    <3> QED
      BY <1>1, <2>2, <3>1, ReleaseKeepsAccounting DEF IInv, clientVars
  <2> QED
    BY <1>4, <2>1, <2>2
<1>8. (\A j \in Inv : Progress(j))'
  <2> SUFFICES ASSUME NEW j \in Inv PROVE Progress(j)'
    OBVIOUS
  <2>1. Progress(j)
    BY DEF IInv
  <2>2. Awaited(j)' <=> Awaited(j)
    BY <1>1, <1>5 DEF Awaited
  <2> QED
    BY <1>1, <1>5, <2>1, <2>2 DEF Progress
<1>9. ReadersMatch'
  <2> SUFFICES ASSUME NEW n \in 1..Len(timers'), timers'[n].kind = "message"
               PROVE  /\ st'[timers'[n].inv] \in {"sent", "resolved"}
                      /\ wire'[timers'[n].inv] = "done"
    BY DEF ReadersMatch
  <2>1. n + 1 \in 1..Len(timers) /\ timers'[n] = timers[n + 1]
    BY <1>1, <1>2
  <2>2. /\ timers[n + 1].inv \in Inv
        /\ st[timers[n + 1].inv] \in {"sent", "resolved"}
        /\ wire[timers[n + 1].inv] = "done"
    <3>1. timers[n + 1] \in Reader
      BY <1>2, <2>1
    <3>2. timers[n + 1].inv \in Inv
      BY <3>1 DEF Reader
    <3> QED
      BY <2>1, <3>2 DEF IInv, ReadersMatch
  <2> QED
    BY <1>1, <1>5, <2>1, <2>2
<1>10. SameClient' /\ ClientFifo'
  BY <1>1, <1>5 DEF IInv, SameClient, ClientFifo, clientVars
<1> QED
  BY <1>6, <1>7, <1>8, <1>9, <1>10 DEF IInv

LEMMA CutIInv ==
    ASSUME IInv, NEW c \in Client, Cut(c)
    PROVE  IInv'
<1>1. PICK fate \in {"adrift", "lost"} :
         wire' = [i \in Inv |-> IF client[i] = c /\ wire[i] = "wire"
                               THEN fate ELSE wire[i]]
  BY DEF Cut
<1>2. /\ CutStep(c)
      /\ reply' = [i \in Inv |-> IF client[i] = c THEN 0 ELSE reply[i]]
      /\ severed' = severed \cup {i \in Inv : client[i] = c
                                               /\ (wire[i] = "wire" \/ reply[i] > 0)}
      /\ UNCHANGED <<ackId, ackMap, mapping, key, client, st, sentAt, lastSent, timers,
                     aborted, alive>>
  BY DEF Cut
<1>3. /\ wire \in [Inv -> Fate] /\ reply \in [Inv -> 0..MaxParts]
      /\ client \in [Inv -> Client \cup {NoClient}]
  BY DEF IInv, TypeOK
<1>4. TypeOKClients' /\ \A d \in Client : stopped[d] => stopped'[d]
  BY <1>2, CutStepEffect DEF IInv, TypeOK
<1>5. TypeOK'
  <2>1. wire' \in [Inv -> Fate]
    BY <1>1, <1>3 DEF Fate
  <2>2. reply' \in [Inv -> 0..MaxParts]
    BY <1>2, <1>3, TunnelAssumption
  <2>3. severed' \subseteq Inv
    BY <1>2 DEF IInv, TypeOK
  <2> QED
    BY <1>2, <1>4, <2>1, <2>2, <2>3 DEF IInv, TypeOK
<1>6. LockAccounting'
  BY <1>2, <1>4, QuietKeepsAccounting DEF IInv
<1>7. (\A j \in Inv : Progress(j))'
  <2> SUFFICES ASSUME NEW j \in Inv PROVE Progress(j)'
    OBVIOUS
  <2>1. Progress(j) /\ reply[j] \in Nat
    BY <1>3 DEF IInv
  <2>2. CASE client[j] = c /\ (wire[j] = "wire" \/ reply[j] > 0)
    <3>1. /\ reply'[j] = 0 /\ j \in severed'
          /\ IF wire[j] = "wire" THEN wire'[j] \in {"adrift", "lost"} ELSE wire'[j] = "done"
      BY <1>1, <1>2, <2>1, <2>2 DEF Progress
    <3>2. Awaited(j)' <=> Awaited(j)
      BY <1>2, <2>2, <3>1 DEF Awaited
    <3> QED
      BY <1>2, <2>1, <2>2, <3>1, <3>2 DEF Progress
  <2>3. CASE ~(client[j] = c /\ (wire[j] = "wire" \/ reply[j] > 0))
    <3>1. wire'[j] = wire[j] /\ reply'[j] = reply[j] /\ (j \in severed' <=> j \in severed)
      BY <1>1, <1>2, <2>1, <2>3
    <3>2. Awaited(j)' <=> Awaited(j)
      BY <1>2, <3>1 DEF Awaited
    <3> QED
      BY <1>2, <2>1, <3>1, <3>2 DEF Progress
  <2> QED
    BY <2>2, <2>3
<1>8. ReadersMatch'
  <2>1. \A j \in Inv : wire[j] = "done" => wire'[j] = "done"
    BY <1>1
  <2> QED
    BY <1>2, <2>1, QuietKeepsReaders DEF IInv
<1>9. SameClient'
  <2> SUFFICES ASSUME NEW i \in Inv, NEW j \in Inv,
                      key[i] = key[j], key[i] # NoKey, sentAt[i] < sentAt[j],
                      wire'[i] = "wire", st[i] # "rejected",
                      ~stopped'[client[i]], ~stopped'[client[j]]
               PROVE  client[i] = client[j]
    BY <1>2 DEF SameClient
  <2>1. wire[i] = "wire"
    BY <1>1
  <2>2. client[i] \in Client /\ client[j] \in Client
    <3>1. st[i] # "none" /\ st[j] # "none"
      BY <2>1 DEF IInv, Progress, TypeOK
    <3> QED
      BY <3>1 DEF IInv, Progress
  <2> QED
    BY <1>4, <2>1, <2>2 DEF IInv, SameClient
<1>10. ClientFifo'
  BY <1>1, <1>2 DEF IInv, ClientFifo
<1> QED
  BY <1>5, <1>6, <1>7, <1>8, <1>9, <1>10 DEF IInv

-----------------------------------------------------------------------------
(* The theorems.                                                           *)

LEMMA NextIInv == IInv /\ [Next]_vars => IInv'
<1> SUFFICES ASSUME IInv, [Next]_vars PROVE IInv'
  OBVIOUS
<1>1. CASE alive /\ ClientStep /\ UNCHANGED invokeVars
  BY <1>1, ClientStepIInv
<1>2. CASE \E c \in Client : Cut(c)
  BY <1>2, CutIInv
<1>3. CASE \E k \in Key \cup {NoKey} : Invoke(k)
  BY <1>3, InvokeIInv
<1>4. CASE \E i \in Inv : SendLate(i) \/ SendDone(i) \/ SendFails(i) \/ AbortFires(i)
  BY <1>4, SendLateIInv, SendDoneIInv, SendFailsIInv, AbortFiresIInv
<1>5. CASE \E i \in Inv : Execute(i) \/ HandleResponse(i)
  BY <1>5, ExecuteIInv, HandleResponseIInv
<1>6. CASE RunReader
  BY <1>6, RunReaderIInv
<1>7. CASE UNCHANGED vars
  <2>1. UNCHANGED <<clientVars, invokeVars>>
    BY <1>7 DEF vars
  <2>2. TypeOK' /\ (\A i \in Inv : Progress(i))'
    BY <2>1 DEF IInv, TypeOK, TypeOKClients, Progress, Awaited, clientVars, invokeVars
  <2>3. LockAccounting'
    BY <2>1, QuietKeepsAccounting DEF IInv, clientVars, invokeVars
  <2>4. SameClient' /\ ClientFifo' /\ ReadersMatch'
    BY <2>1 DEF IInv, SameClient, ClientFifo, ReadersMatch, clientVars, invokeVars
  <2> QED
    BY <2>2, <2>3, <2>4 DEF IInv
<1> QED
  BY <1>1, <1>2, <1>3, <1>4, <1>5, <1>6, <1>7 DEF Next

LEMMA Invariance == Spec => []IInv
BY InitIInv, NextIInv, PTL DEF Spec

\* Every reachable state is well typed.
THEOREM TypeCorrect == Spec => []TypeOK
<1>1. IInv => TypeOK
  BY DEF IInv
<1> QED
  BY <1>1, Invariance, PTL

\* The conditions that carry the other results hold in every reachable state.
THEOREM TunnelIsConsistent == Spec => []IInv
BY Invariance

\* The map holds an ack entity for each invocation whose answer may come or was
\* taken away by a cut, and no other.
THEOREM AnswersFindTheirEntity == Spec => []AckEntityLifetime
<1>1. IInv => AckEntityLifetime
  <2> SUFFICES ASSUME IInv PROVE AckEntityLifetime
    OBVIOUS
  <2>1. ackMap \subseteq Inv
    BY DEF IInv, TypeOK
  <2>2. \A i \in Inv : i \in ackMap <=> Awaited(i)
    BY DEF IInv, Progress
  <2> QED
    BY <2>1, <2>2 DEF AckEntityLifetime
<1> QED
  BY <1>1, Invariance, PTL

\* Consistent keys are counted exactly: no key is unpinned while a request of
\* it is in flight on a running client, and none stays pinned afterwards.
THEOREM KeysAreCounted == Spec => []LockAccounting
<1>1. IInv => LockAccounting
  BY DEF IInv
<1> QED
  BY <1>1, Invariance, PTL

\* In-flight requests of one key on running clients share their client.
THEOREM KeysPinTheirClient == Spec => []KeyAffinity
<1>1. IInv => KeyAffinity
  <2>1. IInv => \A i \in Inv : Holding(i) => client[i] \in Client
    BY DEF IInv, Progress, Holding
  <2> QED
    BY <2>1, AccountingGivesAffinity DEF IInv
<1> QED
  BY <1>1, Invariance, PTL

\* The service executes the requests of one key in order of transmission.
THEOREM RoomsAreOrdered == Spec => []OrderedPerKey
<1>1. IInv => OrderedPerKey
  BY DEF IInv, SameClient, ClientFifo, OrderedPerKey
<1> QED
  BY <1>1, Invariance, PTL

\* What a step may do to a settled invocation: nothing.
LEMMA StepSettlesOnce ==
    IInv /\ [Next]_vars =>
        [/\ \A i \in Inv : st[i] \in {"resolved", "rejected"} => st'[i] = st[i]
         /\ \A i \in Inv : st'[i] = "resolved" => wire[i] = "done"]_vars
<1> SUFFICES ASSUME IInv, Next, NEW i \in Inv
             PROVE  /\ st[i] \in {"resolved", "rejected"} => st'[i] = st[i]
                    /\ st'[i] = "resolved" => wire[i] = "done"
  OBVIOUS
<1>1. st \in [Inv -> Status] /\ (st[i] = "resolved" => wire[i] = "done")
  BY DEF IInv, TypeOK, Progress
<1>2. CASE st' = st
  BY <1>1, <1>2
<1>3. CASE ClientStep /\ UNCHANGED invokeVars
  BY <1>2, <1>3 DEF invokeVars
<1>4. CASE \E k \in Key \cup {NoKey} : Invoke(k)
  <2>1. ackId + 1 \in Inv /\ st[ackId + 1] = "none"
    BY <1>4, TunnelAssumption DEF Invoke, IInv, TypeOK, Inv, Progress
  <2>2. \/ st' = [st EXCEPT ![ackId + 1] = "written"]
        \/ st' = [st EXCEPT ![ackId + 1] = "sending"]
    BY <1>4 DEF Invoke, Transmit
  <2> QED
    BY <1>1, <2>1, <2>2
<1>5. CASE \E j \in Inv : SendLate(j) \/ SendDone(j) \/ SendFails(j)
  <2>1. PICK j \in Inv :
          /\ st[j] \in {"sending", "written"}
          /\ \E x \in {"written", "sent", "rejected"} : st' = [st EXCEPT ![j] = x]
    BY <1>5 DEF SendLate, SendDone, SendFails, Transmit
  <2> QED
    BY <1>1, <2>1
<1>6. CASE RunReader
  <2>1. CASE st' = st
    BY <1>2, <2>1
  <2>2. CASE st' # st
    <3> DEFINE j == Head(timers).inv
    <3>1. /\ timers # << >> /\ Head(timers).kind = "message"
          /\ st' = [st EXCEPT ![j] = "resolved"]
      BY <1>6, <2>2 DEF RunReader, ReadMessage, ReadAborted
    <3>2. j \in Inv /\ st[j] \in {"sent", "resolved"} /\ wire[j] = "done"
      BY <3>1, HeadMessage
    <3> HIDE DEF j
    <3> QED
      BY <1>1, <3>1, <3>2
  <2> QED
    BY <2>1, <2>2
<1> QED
  BY <1>2, <1>3, <1>4, <1>5, <1>6
  DEF Next, AbortFires, Execute, HandleResponse, Cut

\* An invocation is settled once, and resolved only after its request was
\* executed, whatever readers of messages and of aborts are queued for it.
THEOREM InvocationsSettleOnce == Spec => SettledOnce
BY StepSettlesOnce, Invariance, PTL DEF Spec, SettledOnce

-----------------------------------------------------------------------------
(* The tunnel implements the room order.                                   *)

\* A step that performs nothing only withdraws the promise for more requests.
LEMMA ExcusedGrows ==
    ASSUME IInv,
           \A c \in Client : stopped[c] => stopped'[c],
           \A i \in Inv : /\ st[i] = "rejected" => st'[i] = "rejected"
                          /\ wire[i] \in {"adrift", "lost"} => wire'[i] \in {"adrift", "lost"}
                          /\ wire'[i] = "done" => wire[i] = "done"
                          /\ client[i] # NoClient => client'[i] = client[i]
    PROVE  Excused \subseteq Excused'
BY TunnelAssumption DEF Excused, IInv, TypeOK

\* Transmitting a request submits it.
LEMMA TransmitSubmits ==
    ASSUME IInv, NEW i \in Inv, Transmit(i), st[i] \in {"none", "sending"}
    PROVE  Promise!Submit(i)
<1>1. sentAt[i] = 0
  BY DEF IInv, Progress
<1> QED
  BY <1>1 DEF Promise!Submit, Transmit

\* An execution performs a request and overtakes no request of its room.
LEMMA ExecutePerforms ==
    ASSUME IInv, NEW i \in Inv, Execute(i)
    PROVE  Promise!Perform(i)
<1>1. /\ wire[i] \in {"wire", "adrift"} /\ wire' = [wire EXCEPT ![i] = "done"]
      /\ st' = st /\ client' = client /\ stopped' = stopped
      /\ wire \in [Inv -> Fate]
  BY DEF Execute, clientVars, IInv, TypeOK
<1>2. sentAt[i] > 0
  BY <1>1 DEF IInv, TypeOK, Progress
<1>3. /\ {j \in Inv : wire[j] = "done"}' = {j \in Inv : wire[j] = "done"} \cup {i}
      /\ i \notin {j \in Inv : wire[j] = "done"}
  BY <1>1
<1>4. Excused' = Excused \ {i}
  BY <1>1 DEF Excused
<1>5. ASSUME i \notin Excused, key[i] # NoKey
      PROVE  Promise!Overtaken(i) = {}
  <2> SUFFICES ASSUME NEW q \in Inv, wire[q] # "done", q \notin Excused,
                      key[q] = key[i], 0 < sentAt[q], sentAt[q] < sentAt[i]
               PROVE  FALSE
    BY DEF Promise!Overtaken
  <2>1. /\ sentAt[q] \in Nat /\ sentAt[i] \in Nat /\ wire[q] \in Fate
        /\ Progress(q) /\ Progress(i) /\ SameClient
    BY DEF IInv, TypeOK
  <2>2. wire[q] = "wire" /\ st[q] # "rejected"
    BY <2>1 DEF Excused, Fate, Progress
  <2>3. wire[i] = "wire" /\ st[i] # "none" /\ st[q] # "none"
    BY <1>1, <1>5, <2>1, <2>2 DEF Excused, Progress
  <2>4. ~stopped[client[i]] /\ ~stopped[client[q]]
    BY <1>1, <1>5, <2>1, <2>3 DEF Excused, Progress
  <2>5. client[q] = client[i]
    BY <1>5, <2>1, <2>2, <2>4 DEF SameClient
  <2>6. sentAt[i] <= sentAt[q]
    BY <2>2, <2>3, <2>5 DEF Execute
  <2> QED
    BY <2>1, <2>6
<1> QED
  BY <1>2, <1>3, <1>4, <1>5 DEF Promise!Perform

\* Every step of the tunnel is a step of the room order or leaves it alone.
LEMMA StepKeepsPromise == IInv /\ [Next]_vars => [Promise!Next]_(Promise!roomVars)
<1> SUFFICES ASSUME IInv, [Next]_vars
             PROVE  Promise!Next \/ UNCHANGED Promise!roomVars
  OBVIOUS
<1> DEFINE Done == {i \in Inv : wire[i] = "done"}
<1>1. CASE alive /\ ClientStep /\ UNCHANGED invokeVars
  <2>1. \A c \in Client : stopped[c] => stopped'[c]
    BY <1>1, ClientStepEffect DEF IInv, TypeOK
  <2>2. Excused \subseteq Excused'
    BY <1>1, <2>1, ExcusedGrows DEF invokeVars
  <2> QED
    BY <1>1, <2>2 DEF Promise!Next, invokeVars
<1>2. CASE \E c \in Client : Cut(c)
  <2> PICK c \in Client : Cut(c)
    BY <1>2
  <2>1. /\ \A d \in Client : stopped[d] => stopped'[d]
        /\ UNCHANGED <<key, client, st, sentAt, lastSent>>
    BY CutStepEffect DEF Cut, IInv, TypeOK
  <2>2. \A i \in Inv : \/ wire'[i] = wire[i]
                       \/ wire[i] = "wire" /\ wire'[i] \in {"adrift", "lost"}
    BY DEF Cut
  <2>3. Excused \subseteq Excused'
    BY <2>1, <2>2, ExcusedGrows
  <2>4. Done' = Done
    BY <2>2
  <2> QED
    BY <2>1, <2>3, <2>4 DEF Promise!Next
<1>3. CASE \E k \in Key \cup {NoKey} : Invoke(k)
  <2> PICK k \in Key \cup {NoKey} : Invoke(k)
    BY <1>3
  <2> DEFINE i == ackId + 1
  <2>1. /\ i \in Inv /\ st[i] = "none" /\ client[i] = NoClient
        /\ wire[i] = "none" /\ sentAt[i] = 0
    <3>1. i \in Inv /\ i > ackId
      BY TunnelAssumption DEF Invoke, Inv, IInv, TypeOK
    <3> QED
      BY <3>1 DEF IInv, Progress
  <2>2. /\ stopped' = stopped /\ key' = [key EXCEPT ![i] = k]
        /\ \A j \in Inv \ {i} : client'[j] = client[j]
        /\ \/ Transmit(i)
           \/ /\ st' = [st EXCEPT ![i] = "sending"]
              /\ UNCHANGED <<wire, sentAt, lastSent>>
    BY DEF Invoke, clientVars, IInv, TypeOK
  <2>3. \A j \in Inv \ {i} : st'[j] = st[j] /\ wire'[j] = wire[j]
    BY <2>2 DEF Transmit, IInv, TypeOK
  <2>4. wire'[i] \in {"none", "wire"}
    BY <2>1, <2>2 DEF Transmit, IInv, TypeOK
  <2>5. Excused \subseteq Excused'
    BY <2>1, <2>2, <2>3, <2>4, ExcusedGrows
  <2>6. Done' = Done
    BY <2>1, <2>3, <2>4
  <2>7. Promise!Prepare(i, k)
    BY <2>1, <2>2 DEF Promise!Prepare
  <2>8. UNCHANGED <<sentAt, lastSent>> \/ Promise!Submit(i)
    BY <2>1, <2>2, TransmitSubmits
  <2> QED
    BY <2>1, <2>5, <2>6, <2>7, <2>8 DEF Promise!Next
<1>4. CASE \E i \in Inv : SendLate(i)
  <2> PICK i \in Inv : SendLate(i)
    BY <1>4
  <2>1. /\ st[i] = "sending" /\ Transmit(i)
        /\ UNCHANGED <<stopped, key, client>>
    BY DEF SendLate, clientVars
  <2>2. /\ st'[i] = "written" /\ wire[i] = "none" /\ wire'[i] = "wire"
        /\ \A j \in Inv \ {i} : st'[j] = st[j] /\ wire'[j] = wire[j]
    BY <2>1 DEF Transmit, IInv, TypeOK, Progress
  <2>3. Excused \subseteq Excused' /\ Done' = Done
    BY <2>1, <2>2, ExcusedGrows
  <2> QED
    BY <2>1, <2>3, TransmitSubmits DEF Promise!Next
<1>5. CASE \E i \in Inv : SendDone(i) \/ SendFails(i) \/ AbortFires(i) \/ HandleResponse(i)
  <2> PICK i \in Inv : SendDone(i) \/ SendFails(i) \/ AbortFires(i) \/ HandleResponse(i)
    BY <1>5
  <2>1. /\ UNCHANGED <<stopped, key, client, wire, sentAt, lastSent>>
        /\ \A j \in Inv : st[j] = "rejected" => st'[j] = "rejected"
    BY DEF SendDone, SendFails, AbortFires, HandleResponse, clientVars, IInv, TypeOK
  <2>2. Excused \subseteq Excused'
    BY <2>1, ExcusedGrows
  <2> QED
    BY <2>1, <2>2 DEF Promise!Next
<1>6. CASE \E i \in Inv : Execute(i)
  <2> PICK i \in Inv : Execute(i)
    BY <1>6
  <2> QED
    BY ExecutePerforms DEF Execute, Promise!Next
<1>7. CASE RunReader
  <2>1. UNCHANGED <<stopped, key, client, wire, sentAt, lastSent>>
    BY <1>7 DEF RunReader, clientVars
  <2>2. \A j \in Inv : st[j] = "rejected" => st'[j] = "rejected"
    <3>1. st \in [Inv -> Status]
      BY DEF IInv, TypeOK
    <3>2. \/ st' = st
          \/ /\ st' = [st EXCEPT ![Head(timers).inv] = "resolved"]
             /\ timers # << >> /\ Head(timers).kind = "message"
      BY <1>7 DEF RunReader, ReadMessage, ReadAborted
    <3> QED
      BY <3>1, <3>2, HeadMessage
  <2>3. Excused \subseteq Excused'
    BY <2>1, <2>2, ExcusedGrows
  <2> QED
    BY <2>1, <2>3 DEF Promise!Next
<1>8. CASE UNCHANGED vars
  BY <1>8 DEF vars, clientVars, invokeVars, Promise!roomVars, Excused
<1> QED
  BY <1>1, <1>2, <1>3, <1>4, <1>5, <1>6, <1>7, <1>8 DEF Next

\* The tunnel implements the abstract promise about rooms: whatever sends,
\* responses, retries, rebalances and cuts interleave, requests of one room are
\* performed in the order they were submitted, each at most once.
THEOREM TunnelKeepsRoomOrder == Spec => KeepsRoomOrder
<1>1. Init => Promise!Init
  BY TunnelAssumption DEF Init, Promise!Init, Excused
<1> QED
  BY <1>1, StepKeepsPromise, Invariance, PTL DEF Spec, KeepsRoomOrder, Promise!Spec
=============================================================================
