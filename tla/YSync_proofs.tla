---------------------------- MODULE YSync_proofs ----------------------------
(***************************************************************************)
(* What clients and the host of a topic owe each other, for any number of  *)
(* clients, sockets, edits and reconnections: IInvSync is an invariant,    *)
(* and so are HostWillKnow, ConnectedHoldsSocket and the presence of the   *)
(* others, each with what it rests on.                                     *)
(***************************************************************************)
EXTENDS YSync, SequenceTheorems, TLAPS

USE SyncAssumption

-----------------------------------------------------------------------------
(* Messages and lines of messages.                                         *)

LEMMA Messages ==
    /\ \A k \in {"join", "init", "step1", "step2", "update", "garbled"} :
         \A t \in Member : \A b \in SUBSET Update :
            /\ Msg(k, t, b) \in Message
            /\ Msg(k, t, b).kind = k /\ Msg(k, t, b).to = t
            /\ Msg(k, t, b).body = b /\ Msg(k, t, b).states = {}
    /\ \A e \in SUBSET Entry :
            /\ Presence(e) \in Message /\ Presence(e).kind = "presence"
            /\ Presence(e).body = {} /\ Presence(e).states = e
BY DEF Msg, Presence, Message, Member

\* The line q with r behind it.
LEMMA Behind ==
    ASSUME NEW q \in Seq(Message), NEW r \in Seq(Message)
    PROVE  /\ q \o r \in Seq(Message) /\ Len(q \o r) = Len(q) + Len(r)
           /\ \A i \in 1..Len(q) : (q \o r)[i] = q[i]
           /\ \A i \in 1..Len(r) : (q \o r)[Len(q) + i] = r[i]
           /\ \A i \in 1..Len(q \o r) :
                \/ i \in 1..Len(q)
                \/ \E k \in 1..Len(r) : i = Len(q) + k
<1>1. Len(q) \in Nat /\ Len(r) \in Nat
  BY LenProperties
<1>2. /\ q \o r \in Seq(Message) /\ Len(q \o r) = Len(q) + Len(r)
      /\ \A i \in 1..(Len(q) + Len(r)) :
            (q \o r)[i] = IF i <= Len(q) THEN q[i] ELSE r[i - Len(q)]
  BY ConcatProperties
<1>3. \A i \in 1..Len(r) : (q \o r)[Len(q) + i] = r[i]
  <2> TAKE i \in 1..Len(r)
  <2>1. Len(q) + i \in 1..(Len(q) + Len(r)) /\ ~(Len(q) + i <= Len(q)) /\ (Len(q) + i) - Len(q) = i
    BY <1>1
  <2> QED
    BY <1>2, <2>1
<1>4. \A i \in 1..(Len(q) + Len(r)) :
        i \in 1..Len(q) \/ \E k \in 1..Len(r) : i = Len(q) + k
  <2> TAKE i \in 1..(Len(q) + Len(r))
  <2>1. CASE i > Len(q)
    <3>1. i - Len(q) \in 1..Len(r) /\ i = Len(q) + (i - Len(q))
      BY <1>1, <2>1
    <3> QED
      BY <3>1
  <2> QED
    BY <1>1, <2>1
<1> QED
  BY <1>1, <1>2, <1>3, <1>4

\* The line q with m behind it.
LEMMA LastIn ==
    ASSUME NEW q \in Seq(Message), NEW m \in Message
    PROVE  /\ Append(q, m) \in Seq(Message) /\ Len(Append(q, m)) = Len(q) + 1
           /\ \A i \in 1..Len(q) : Append(q, m)[i] = q[i]
           /\ Append(q, m)[Len(q) + 1] = m
BY AppendProperties, LenProperties

\* The line q without its head.
LEMMA Popped ==
    ASSUME NEW q \in Seq(Message), q # << >>
    PROVE  /\ Head(q) \in Message /\ Head(q) = q[1] /\ Len(q) >= 1 /\ Len(q) \in Nat
           /\ Tail(q) \in Seq(Message) /\ Len(Tail(q)) = Len(q) - 1
           /\ \A i \in 1..(Len(q) - 1) : Tail(q)[i] = q[i + 1]
BY HeadTailProperties, LenProperties

\* A line that was cut off.
LEMMA CutOff ==
    ASSUME NEW q \in Seq(Message), NEW n \in 0..Len(q)
    PROVE  /\ SubSeq(q, 1, n) \in Seq(Message) /\ Len(SubSeq(q, 1, n)) = n
           /\ \A i \in 1..n : SubSeq(q, 1, n)[i] = q[i] /\ i \in 1..Len(q)
<1>1. Len(q) \in Nat /\ \A i \in 1..n : q[i] \in Message /\ i \in 1..Len(q)
  BY LenProperties, ElementOfSeq
<1> QED
  BY <1>1, SubSeqProperties

-----------------------------------------------------------------------------
(* Types.                                                                  *)

LEMMA Owners ==
    /\ \A s \in Socket : s[1] \in Client /\ s # NoSocket
    /\ Client \subseteq Member /\ Host \in Member /\ Host \notin Client
<1>1. \A s \in Socket : s \in Client \X Nat
  BY DEF Socket
<1> QED
  BY <1>1 DEF Member

\* What a client sends ends one line, or none.
LEMMA SendsTo ==
    ASSUME TypeOKSync, NEW c \in Client, NEW m \in Message, Sends(c, m)
    PROVE  /\ up' \in [Socket -> Seq(Message)]
           /\ \/ up' = up
              \/ /\ ws[c] \in Socket /\ connected[c] /\ sock[ws[c]] = "open"
                 /\ up' = [up EXCEPT ![ws[c]] = Append(up[ws[c]], m)]
           /\ connected[c] /\ ws[c] # NoSocket /\ sock[ws[c]] = "open" =>
                 up' = [up EXCEPT ![ws[c]] = Append(up[ws[c]], m)]
<1>1. up \in [Socket -> Seq(Message)] /\ ws[c] \in Socket \cup {NoSocket}
  BY DEF TypeOKSync
<1>2. CASE connected[c] /\ ws[c] # NoSocket /\ sock[ws[c]] = "open"
  <2>1. up' = [up EXCEPT ![ws[c]] = Append(up[ws[c]], m)]
    BY <1>2 DEF Sends
  <2>2. ws[c] \in Socket
    BY <1>1, <1>2
  <2>3. Append(up[ws[c]], m) \in Seq(Message)
    BY <1>1, <2>2, LastIn
  <2> QED
    BY <1>1, <1>2, <2>1, <2>2, <2>3
<1>3. CASE ~(connected[c] /\ ws[c] # NoSocket /\ sock[ws[c]] = "open")
  BY <1>1, <1>3 DEF Sends
<1> QED
  BY <1>2, <1>3

\* What the host sends ends the lines of the group.
LEMMA BroadcastTo ==
    ASSUME TypeOKSync, NEW q \in Seq(Message), Broadcast(q)
    PROVE  /\ down' \in [Socket -> Seq(Message)]
           /\ \A s \in Socket :
                down'[s] = IF hosting /\ s \in joined THEN down[s] \o q ELSE down[s]
<1>1. down \in [Socket -> Seq(Message)]
  BY DEF TypeOKSync
<1>2. \A s \in Socket : down[s] \o q \in Seq(Message)
  BY <1>1, Behind
<1> QED
  BY <1>1, <1>2 DEF Broadcast

LEMMA PopsTyped ==
    ASSUME NEW f \in [Socket -> Seq(Message)], NEW s \in Socket, f[s] # << >>
    PROVE  [f EXCEPT ![s] = Tail(f[s])] \in [Socket -> Seq(Message)]
<1>1. Tail(f[s]) \in Seq(Message)
  BY Popped
<1> QED
  BY <1>1

LEMMA Learned ==
    ASSUME TypeOKSync, NEW p \in Member, NEW E \in SUBSET Entry, Learn(p, E)
    PROVE  /\ aware' \in [Member -> [Client -> [clock : Nat, here : BOOLEAN]]]
           /\ News(p, E) \in SUBSET Entry
           /\ \A q \in Member \ {p} : aware'[q] = aware[q]
           /\ \A d \in Client :
                aware'[p][d] = aware[p][d] \/ \E e \in E : aware'[p][d].here = e.here
<1> DEFINE Last(d) == CHOOSE e \in News(p, E) : e.who = d
           State(d) == IF \E e \in News(p, E) : e.who = d
                         THEN [clock |-> Last(d).clock, here |-> Last(d).here]
                         ELSE aware[p][d]
<1>1. aware \in [Member -> [Client -> [clock : Nat, here : BOOLEAN]]]
  BY DEF TypeOKSync
<1>2. News(p, E) \subseteq E /\ News(p, E) \in SUBSET Entry
  BY DEF News
<1>3. aware' = [aware EXCEPT ![p] = [d \in Client |-> State(d)]]
  BY DEF Learn
<1>4. \A d \in Client :
        /\ State(d) \in [clock : Nat, here : BOOLEAN]
        /\ State(d) = aware[p][d] \/ \E e \in E : State(d).here = e.here
  <2> TAKE d \in Client
  <2>1. CASE \E e \in News(p, E) : e.who = d
    <3>1. Last(d) \in News(p, E)
      BY <2>1
    <3>2. Last(d) \in Entry /\ Last(d) \in E
      BY <1>2, <3>1
    <3>3. State(d) = [clock |-> Last(d).clock, here |-> Last(d).here]
      BY <2>1
    <3> HIDE DEF Last, State
    <3>4. Last(d).clock \in Nat /\ Last(d).here \in BOOLEAN
      BY <3>2 DEF Entry
    <3>5. State(d).here = Last(d).here
      BY <3>3
    <3> QED
      BY <3>2, <3>3, <3>4, <3>5
  <2>2. CASE ~ \E e \in News(p, E) : e.who = d
    BY <1>1, <2>2
  <2> QED
    BY <2>1, <2>2
<1> HIDE DEF State
<1>5. [d \in Client |-> State(d)] \in [Client -> [clock : Nat, here : BOOLEAN]]
  BY <1>4
<1> QED
  BY <1>1, <1>2, <1>3, <1>4, <1>5

LEMMA InitTyped == Init => TypeOKSync
<1> SUFFICES ASSUME Init PROVE TypeOKSync
  OBVIOUS
<1>1. << >> \in Seq(Message)
  BY EmptySeq
<1>2. \A p \in Member : [d \in Client |-> [clock |-> 0, here |-> p = d]]
                          \in [Client -> [clock : Nat, here : BOOLEAN]]
  OBVIOUS
<1>3. aware \in [Member -> [Client -> [clock : Nat, here : BOOLEAN]]]
  BY <1>2 DEF Init
<1>4. /\ up \in [Socket -> Seq(Message)] /\ down \in [Socket -> Seq(Message)]
      /\ doc \in [Member -> SUBSET Update] /\ ws \in [Client -> Socket \cup {NoSocket}]
  BY <1>1 DEF Init
<1> QED
  BY <1>3, <1>4 DEF Init, TypeOKSync

\* What of an update the host integrates is known to it.
LEMMA HostAppliesTo ==
    ASSUME TypeOKSync, NEW P \in SUBSET Update, HostApplies(P)
    PROVE  LET after == doc[Host] \cup P
               fresh == Visible(after) \ Visible(doc[Host])
           IN  /\ doc' = [doc EXCEPT ![Host] = after]
               /\ doc' \in [Member -> SUBSET Update]
               /\ doc[Host] \subseteq Update /\ fresh \subseteq after
               /\ down' \in [Socket -> Seq(Message)]
               /\ \/ fresh = {} /\ down' = down
                  \/ /\ fresh # {}
                     /\ Msg("update", Host, fresh) \in Message
                     /\ \A s \in Socket :
                          down'[s] = IF hosting /\ s \in joined
                                       THEN down[s] \o <<Msg("update", Host, fresh)>>
                                       ELSE down[s]
<1> DEFINE after == doc[Host] \cup P
           fresh == Visible(after) \ Visible(doc[Host])
           q == IF fresh = {} THEN << >> ELSE <<Msg("update", Host, fresh)>>
<1>1. /\ doc \in [Member -> SUBSET Update] /\ Host \in Member
      /\ down \in [Socket -> Seq(Message)]
  BY DEF TypeOKSync, Member
<1>2. after \in SUBSET Update /\ fresh \subseteq after
  BY <1>1 DEF Visible
<1>3. Msg("update", Host, fresh) \in Message
  BY <1>1, <1>2, Messages
<1>4. doc' = [doc EXCEPT ![Host] = after] /\ Broadcast(q)
  BY DEF HostApplies
<1> HIDE DEF after, fresh
<1>5. q \in Seq(Message)
  BY <1>3, EmptySeq
<1>6. /\ down' \in [Socket -> Seq(Message)]
      /\ \A s \in Socket :
            down'[s] = IF hosting /\ s \in joined THEN down[s] \o q ELSE down[s]
  BY <1>4, <1>5, BroadcastTo
<1>7. CASE fresh = {}
  <2>1. \A s \in Socket : down'[s] = down[s]
    <3> TAKE s \in Socket
    <3>1. down[s] \o << >> = down[s]
      BY <1>1, ConcatEmptySeq
    <3> QED
      BY <1>6, <1>7, <3>1
  <2>2. down' = down
    BY <1>1, <1>6, <2>1
  <2> QED
    BY <1>1, <1>2, <1>4, <1>6, <1>7, <2>2 DEF after, fresh
<1>8. CASE fresh # {}
  BY <1>1, <1>2, <1>3, <1>4, <1>6, <1>8 DEF after, fresh
<1> QED
  BY <1>7, <1>8

\* The second half of start makes a socket.
LEMMA NewSocket ==
    ASSUME TypeOKSync, NEW c \in Client, Fetched(c)
    PROVE  /\ \E s \in Socket : /\ s[1] = c /\ sock[s] = "none"
                               /\ sock' = [sock EXCEPT ![s] = "opening"]
                               /\ ws' = [ws EXCEPT ![c] = s]
           /\ connected' = [connected EXCEPT ![c] = FALSE]
           /\ synced' = [synced EXCEPT ![c] = FALSE]
           /\ raced' = IF ws[c] = NoSocket THEN raced ELSE raced \cup {c}
           /\ UNCHANGED <<plan, doc, aware, resyncs, joined, heard, hosting, up, down>>
<1>1. PICK n \in 1..plan.sockets[c] :
        /\ sock[<<c, n>>] = "none"
        /\ sock' = [sock EXCEPT ![<<c, n>>] = "opening"]
        /\ ws' = [ws EXCEPT ![c] = <<c, n>>]
  BY DEF Fetched
<1>2. <<c, n>> \in Socket
  <2> DEFINE own == {c} \X (1..plan.sockets[c])
             all == {{d} \X (1..p.sockets[d]) : d \in Client, p \in Plans}
  <2>1. <<c, n>> \in own /\ own \in all
    BY DEF TypeOKSync
  <2>2. Socket = UNION all
    BY DEF Socket
  <2> HIDE DEF own, all
  <2> QED
    BY <2>1, <2>2
<1>3. <<c, n>>[1] = c
  OBVIOUS
<1> QED
  BY <1>1, <1>2, <1>3 DEF Fetched

\* The steps that leave the documents, the presence and the lines alone.
LEMMA LifeTyped ==
    ASSUME TypeOKSync, NEW c \in Client, Start(c) \/ Fetched(c) \/ Stop(c)
    PROVE  TypeOKSync'
<1>1. /\ plan \in Plans /\ sock \in [Socket -> {"none", "opening", "open", "closing", "closed"}]
      /\ fetching \in [Client -> Nat] /\ ws \in [Client -> Socket \cup {NoSocket}]
      /\ connected \in [Client -> BOOLEAN] /\ synced \in [Client -> BOOLEAN] /\ raced \subseteq Client
  BY DEF TypeOKSync
<1>2. CASE Start(c)
  <2>1. fetching' \in [Client -> Nat]
    BY <1>1, <1>2 DEF Start
  <2> QED
    BY <1>2, <2>1 DEF Start, TypeOKSync, netVars
<1>3. CASE Fetched(c)
  <2>1. PICK s \in Socket : sock' = [sock EXCEPT ![s] = "opening"] /\ ws' = [ws EXCEPT ![c] = s]
    BY <1>3, NewSocket
  <2>3. sock' \in [Socket -> {"none", "opening", "open", "closing", "closed"}]
    BY <1>1, <2>1
  <2>4. ws' \in [Client -> Socket \cup {NoSocket}]
    BY <1>1, <2>1
  <2>5. fetching' \in [Client -> Nat]
    BY <1>1, <1>3 DEF Fetched
  <2>6. connected' \in [Client -> BOOLEAN] /\ synced' \in [Client -> BOOLEAN]
    BY <1>1, <1>3 DEF Fetched
  <2>7. raced' \subseteq Client
    BY <1>1, <1>3 DEF Fetched
  <2> QED
    BY <1>3, <2>3, <2>4, <2>5, <2>6, <2>7 DEF Fetched, TypeOKSync
<1>4. CASE Stop(c)
  <2>1. sock' \in [Socket -> {"none", "opening", "open", "closing", "closed"}]
    BY <1>1, <1>4 DEF Stop
  <2> QED
    BY <1>4, <2>1 DEF Stop, TypeOKSync, clientVars
<1> QED
  BY <1>2, <1>3, <1>4

LEMMA OpenTyped == ASSUME TypeOKSync, NEW s \in Socket, Open(s) PROVE TypeOKSync'
<1> DEFINE c == s[1]
           hello == <<Msg("join", Host, {}), Msg("init", Host, Visible(doc[c])), Msg("garbled", Host, {})>>
<1>1. /\ sock \in [Socket -> {"none", "opening", "open", "closing", "closed"}]
      /\ connected \in [Client -> BOOLEAN] /\ doc \in [Member -> SUBSET Update]
      /\ up \in [Socket -> Seq(Message)] /\ ws \in [Client -> Socket \cup {NoSocket}]
      /\ c \in Client /\ c \in Member /\ Host \in Member
  BY Owners DEF TypeOKSync
<1>2. Visible(doc[c]) \subseteq Update /\ {} \in SUBSET Update
  BY <1>1 DEF Visible
<1>3. hello \in Seq(Message)
  <2>1. /\ Msg("join", Host, {}) \in Message /\ Msg("init", Host, Visible(doc[c])) \in Message
        /\ Msg("garbled", Host, {}) \in Message
    BY <1>1, <1>2, Messages
  <2> QED
    BY <2>1
<1> HIDE DEF hello
<1>4. \A t \in Socket : up[t] \o hello \in Seq(Message)
  BY <1>1, <1>3, Behind
<1>5. up' = up \/ (ws[c] # NoSocket /\ up' = [up EXCEPT ![ws[c]] = up[ws[c]] \o hello])
  BY DEF Open, hello
<1>6. up' \in [Socket -> Seq(Message)]
  <2>1. CASE ws[c] # NoSocket /\ up' = [up EXCEPT ![ws[c]] = up[ws[c]] \o hello]
    <3>1. ws[c] \in Socket
      BY <1>1, <2>1
    <3>2. up[ws[c]] \o hello \in Seq(Message)
      BY <1>4, <3>1
    <3> QED
      BY <1>1, <2>1, <3>1, <3>2
  <2> QED
    BY <1>1, <1>5, <2>1
<1>7. sock' \in [Socket -> {"none", "opening", "open", "closing", "closed"}]
  BY <1>1 DEF Open
<1>8. connected' \in [Client -> BOOLEAN]
  BY <1>1 DEF Open
<1> QED
  BY <1>6, <1>7, <1>8 DEF Open, TypeOKSync

LEMMA ClosedTyped == ASSUME TypeOKSync, NEW s \in Socket, Closed(s) PROVE TypeOKSync'
<1> DEFINE c == s[1]
<1>1. /\ sock \in [Socket -> {"none", "opening", "open", "closing", "closed"}]
      /\ connected \in [Client -> BOOLEAN] /\ synced \in [Client -> BOOLEAN]
      /\ aware \in [Member -> [Client -> [clock : Nat, here : BOOLEAN]]]
      /\ up \in [Socket -> Seq(Message)] /\ down \in [Socket -> Seq(Message)]
      /\ ws \in [Client -> Socket \cup {NoSocket}] /\ joined \subseteq Socket
      /\ c \in Client /\ c \in Member
  BY Owners DEF TypeOKSync
<1>2. aware' \in [Member -> [Client -> [clock : Nat, here : BOOLEAN]]]
  <2> DEFINE State(d) == IF d # c /\ connected[c] THEN [aware[c][d] EXCEPT !.here = FALSE] ELSE aware[c][d]
  <2>1. aware' = [aware EXCEPT ![c] = [d \in Client |-> State(d)]]
    BY DEF Closed, Forget
  <2>2. \A d \in Client : State(d) \in [clock : Nat, here : BOOLEAN]
    <3> TAKE d \in Client
    <3>1. aware[c][d] \in [clock : Nat, here : BOOLEAN]
      BY <1>1
    <3>2. [aware[c][d] EXCEPT !.here = FALSE] \in [clock : Nat, here : BOOLEAN]
      BY <3>1
    <3> QED
      BY <3>1, <3>2
  <2> HIDE DEF State
  <2>3. [d \in Client |-> State(d)] \in [Client -> [clock : Nat, here : BOOLEAN]]
    BY <2>2
  <2> QED
    BY <1>1, <2>1, <2>3
<1>3. sock' \in [Socket -> {"none", "opening", "open", "closing", "closed"}]
  BY <1>1 DEF Closed
<1>4. ws' \in [Client -> Socket \cup {NoSocket}] /\ connected' \in [Client -> BOOLEAN]
  BY <1>1 DEF Closed
<1>5. synced' \in [Client -> BOOLEAN]
  <2>1. synced' = [synced EXCEPT ![c] = synced[c] /\ ~connected[c]]
    BY DEF Closed
  <2>2. (synced[c] /\ ~connected[c]) \in BOOLEAN
    OBVIOUS
  <2> QED
    BY <1>1, <2>1, <2>2, Zenon
<1>6. down' \in [Socket -> Seq(Message)]
  <2>1. << >> \in Seq(Message)
    BY EmptySeq
  <2> QED
    BY <1>1, <2>1 DEF Closed
<1>7. up' \in [Socket -> Seq(Message)]
  <2>1. PICK n \in 0..Len(up[s]) : up' = [up EXCEPT ![s] = SubSeq(up[s], 1, n)]
    BY DEF Closed
  <2>2. SubSeq(up[s], 1, n) \in Seq(Message)
    BY <1>1, CutOff
  <2> QED
    BY <1>1, <2>1, <2>2
<1>8. joined' \subseteq Socket
  BY <1>1 DEF Closed
<1> QED
  BY <1>2, <1>3, <1>4, <1>5, <1>6, <1>7, <1>8 DEF Closed, TypeOKSync

LEMMA NextOfUpdates == ASSUME TypeOKSync, NEW p \in Member PROVE NextOf(p) \subseteq Update
BY DEF NextOf, Update

LEMMA EditTyped == ASSUME TypeOKSync, NEW c \in Client, Edit(c) PROVE TypeOKSync'
<1>1. c \in Member /\ Host \in Member /\ doc \in [Member -> SUBSET Update]
  BY Owners DEF TypeOKSync
<1>2. PICK u \in NextOf(c) :
        doc' = [doc EXCEPT ![c] = doc[c] \cup {u}] /\ Sends(c, Msg("update", Host, {u}))
  BY DEF Edit
<1>3. u \in Update
  BY <1>1, NextOfUpdates
<1>4. Msg("update", Host, {u}) \in Message
  BY <1>1, <1>3, Messages
<1>5. up' \in [Socket -> Seq(Message)]
  BY <1>2, <1>4, SendsTo
<1>6. doc' \in [Member -> SUBSET Update]
  BY <1>1, <1>2, <1>3
<1> QED
  BY <1>5, <1>6 DEF Edit, TypeOKSync, clientVars, netVars

LEMMA TouchTyped == ASSUME TypeOKSync, NEW c \in Client, Touch(c) PROVE TypeOKSync'
<1> DEFINE e == [who |-> c, clock |-> aware[c][c].clock + 1, here |-> TRUE]
<1>1. c \in Member /\ aware \in [Member -> [Client -> [clock : Nat, here : BOOLEAN]]]
  BY Owners DEF TypeOKSync
<1>2. e \in Entry
  BY <1>1 DEF Entry
<1>3. /\ aware' = [aware EXCEPT ![c][c] = [clock |-> aware[c][c].clock + 1, here |-> TRUE]]
      /\ Sends(c, Presence({e}))
  BY DEF Touch
<1>4. up' \in [Socket -> Seq(Message)]
  <2> HIDE DEF e
  <2>1. Presence({e}) \in Message
    BY <1>2, Messages
  <2> QED
    BY <1>3, <2>1, SendsTo
<1>5. aware' \in [Member -> [Client -> [clock : Nat, here : BOOLEAN]]]
  BY <1>1, <1>3
<1> QED
  BY <1>4, <1>5 DEF Touch, TypeOKSync, clientVars, netVars

LEMMA ResyncTyped == ASSUME TypeOKSync, NEW c \in Client, Resync(c) PROVE TypeOKSync'
<1>1. c \in Member /\ Host \in Member /\ doc \in [Member -> SUBSET Update] /\ resyncs \in Nat
  BY Owners DEF TypeOKSync
<1>2. Msg("step1", Host, Visible(doc[c])) \in Message
  <2>1. Visible(doc[c]) \in SUBSET Update
    BY <1>1 DEF Visible
  <2> QED
    BY <1>1, <2>1, Messages
<1>3. up' \in [Socket -> Seq(Message)]
  BY <1>2, SendsTo DEF Resync
<1>4. resyncs' \in Nat
  BY <1>1 DEF Resync
<1>5. UNCHANGED <<plan, doc, aware, sock, fetching, ws, connected, synced, hosting, joined, down, heard, raced>>
  BY DEF Resync, netVars
<1> QED
  BY <1>3, <1>4, <1>5 DEF TypeOKSync

LEMMA ReceiveTyped == ASSUME TypeOKSync, NEW s \in Socket, Receive(s) PROVE TypeOKSync'
<1> DEFINE c == s[1]
           m == Head(down[s])
           mine == m.to \in {Host, c}
<1>1. /\ doc \in [Member -> SUBSET Update] /\ synced \in [Client -> BOOLEAN]
      /\ down \in [Socket -> Seq(Message)] /\ up \in [Socket -> Seq(Message)]
      /\ c \in Client /\ c \in Member /\ Host \in Member
  BY Owners DEF TypeOKSync
<1>2. m \in Message /\ down' \in [Socket -> Seq(Message)]
  BY <1>1, Popped, PopsTyped DEF Receive
<1> HIDE DEF m
<1>3. m.body \in SUBSET Update /\ m.states \in SUBSET Entry
  BY <1>2 DEF Message
<1>4. doc' \in [Member -> SUBSET Update]
  <2>1. doc' = doc \/ doc' = [doc EXCEPT ![c] = doc[c] \cup m.body]
    BY DEF Receive, m
  <2> QED
    BY <1>1, <1>3, <2>1
<1>5. synced' \in [Client -> BOOLEAN]
  <2>1. synced' = [synced EXCEPT ![c] = synced[c] \/ (mine /\ m.kind = "step2")]
    BY DEF Receive, m
  <2>2. (synced[c] \/ (mine /\ m.kind = "step2")) \in BOOLEAN
    OBVIOUS
  <2> HIDE DEF mine
  <2> QED
    BY <1>1, <2>1, <2>2, Zenon
<1>6. /\ aware' \in [Member -> [Client -> [clock : Nat, here : BOOLEAN]]]
      /\ News(c, m.states) \in SUBSET Entry
  <2>1. aware' = aware \/ Learn(c, m.states)
    BY DEF Receive, m
  <2>2. aware \in [Member -> [Client -> [clock : Nat, here : BOOLEAN]]]
    BY DEF TypeOKSync
  <2>3. News(c, m.states) \subseteq m.states
    BY DEF News
  <2> QED
    BY <1>1, <1>3, <2>1, <2>2, <2>3, Learned
<1>7. up' \in [Socket -> Seq(Message)]
  <2>1. \/ up' = up
        \/ Sends(c, Msg("step2", Host, Missing(c, m.body)))
        \/ Sends(c, Presence(News(c, m.states)))
    BY DEF Receive, m
  <2>2. Missing(c, m.body) \in SUBSET Update
    BY <1>1 DEF Missing
  <2>3. /\ Msg("step2", Host, Missing(c, m.body)) \in Message
        /\ Presence(News(c, m.states)) \in Message
    BY <1>1, <1>6, <2>2, Messages
  <2> QED
    BY <1>1, <2>1, <2>3, SendsTo
<1> QED
  BY <1>2, <1>4, <1>5, <1>6, <1>7 DEF Receive, TypeOKSync, netVars

LEMMA HostTyped == ASSUME TypeOKSync, HostListens \/ HostEdit PROVE TypeOKSync'
<1>1. CASE HostListens
  BY <1>1 DEF HostListens, TypeOKSync, clientVars, netVars
<1>2. CASE HostEdit
  <2>1. PICK u \in NextOf(Host) : HostApplies({u})
    BY <1>2 DEF HostEdit
  <2>2. {u} \in SUBSET Update
    BY Owners, NextOfUpdates
  <2>3. doc' \in [Member -> SUBSET Update] /\ down' \in [Socket -> Seq(Message)]
    BY <2>1, <2>2, HostAppliesTo
  <2> QED
    BY <1>2, <2>3 DEF HostEdit, TypeOKSync, clientVars, netVars
<1> QED
  BY <1>1, <1>2

\* The host hears, or the service takes, the head of a line.
LEMMA TakesHead ==
    ASSUME TypeOKSync, NEW s \in Socket, Takes(s)
    PROVE  /\ up[s] \in Seq(Message) /\ up[s] # << >> /\ Head(up[s]) \in Message
           /\ up' = [up EXCEPT ![s] = Tail(up[s])]
           /\ up' \in [Socket -> Seq(Message)]
           /\ Head(up[s]).body \in SUBSET Update /\ Head(up[s]).states \in SUBSET Entry
<1>1. up \in [Socket -> Seq(Message)]
  BY DEF TypeOKSync
<1>2. Head(up[s]) \in Message /\ up' \in [Socket -> Seq(Message)]
  BY <1>1, Popped, PopsTyped DEF Takes
<1> QED
  BY <1>1, <1>2 DEF Takes, Message

LEMMA HearsTyped == ASSUME TypeOKSync, NEW s \in Socket, Hears(s) PROVE TypeOKSync'
<1> DEFINE m == Head(up[s])
           c == s[1]
<1>1. /\ up' \in [Socket -> Seq(Message)] /\ m \in Message
      /\ m.body \in SUBSET Update /\ m.states \in SUBSET Entry
      /\ c \in Client /\ c \in Member /\ Host \in Member
      /\ doc \in [Member -> SUBSET Update] /\ joined \subseteq Socket /\ heard \subseteq Socket
  BY TakesHead, Owners DEF Hears, Joins, Lost, HearsQuestion, HearsUpdate, HearsPresence, TypeOKSync
<1> HIDE DEF m
<1>2. CASE Joins(s) \/ Lost(s)
  <2>1. joined' \subseteq Socket
    BY <1>1, <1>2 DEF Joins, Lost, netVars
  <2> QED
    BY <1>1, <1>2, <2>1 DEF Joins, Lost, TypeOKSync, clientVars, netVars
<1>3. CASE HearsQuestion(s)
  <2> DEFINE answer == Msg("step2", c, Missing(Host, m.body))
             ask == Msg("step1", c, Visible(doc[Host]))
  <2>1. Missing(Host, m.body) \in SUBSET Update /\ Visible(doc[Host]) \in SUBSET Update
    BY <1>1 DEF Missing, Visible
  <2>2. answer \in Message /\ ask \in Message
    BY <1>1, <2>1, Messages
  <2>3. Broadcast(Append(IF m.kind = "init" THEN <<ask>> ELSE << >>, answer))
    BY <1>3 DEF HearsQuestion, m
  <2> HIDE DEF answer, ask
  <2>4. Append(IF m.kind = "init" THEN <<ask>> ELSE << >>, answer) \in Seq(Message)
    <3>1. << >> \in Seq(Message) /\ <<ask>> \in Seq(Message)
      BY <2>2, EmptySeq
    <3> QED
      BY <2>2, <3>1, LastIn
  <2>5. down' \in [Socket -> Seq(Message)]
    BY <2>3, <2>4, BroadcastTo
  <2>6. heard' \subseteq Socket
    BY <1>1, <1>3 DEF HearsQuestion
  <2> QED
    BY <1>1, <1>3, <2>5, <2>6 DEF HearsQuestion, TypeOKSync, clientVars
<1>4. CASE HearsUpdate(s)
  <2>1. HostApplies(m.body)
    BY <1>4 DEF HearsUpdate, m
  <2>2. doc' \in [Member -> SUBSET Update] /\ down' \in [Socket -> Seq(Message)]
    BY <1>1, <2>1, HostAppliesTo
  <2> QED
    BY <1>1, <1>4, <2>2 DEF HearsUpdate, TypeOKSync, clientVars, netVars
<1>5. CASE HearsPresence(s)
  <2> DEFINE q == IF News(Host, m.states) = {} THEN << >> ELSE <<Presence(News(Host, m.states))>>
  <2>1. Learn(Host, m.states) /\ Broadcast(q)
    BY <1>5 DEF HearsPresence, m
  <2>2. /\ aware' \in [Member -> [Client -> [clock : Nat, here : BOOLEAN]]]
        /\ News(Host, m.states) \in SUBSET Entry
    BY <1>1, <2>1, Learned
  <2>3. q \in Seq(Message)
    BY <2>2, Messages, EmptySeq
  <2>4. down' \in [Socket -> Seq(Message)]
    BY <2>1, <2>3, BroadcastTo
  <2> QED
    BY <1>1, <1>5, <2>2, <2>4 DEF HearsPresence, TypeOKSync, clientVars, netVars
<1> QED
  BY <1>2, <1>3, <1>4, <1>5 DEF Hears

LEMMA StepTyped == TypeOKSync /\ [Next]_vars => TypeOKSync'
<1> SUFFICES ASSUME TypeOKSync, [Next]_vars PROVE TypeOKSync'
  OBVIOUS
<1>1. CASE HostStep
  BY <1>1, HostTyped DEF HostStep
<1>2. ASSUME NEW c \in Client, ClientStep(c) PROVE TypeOKSync'
  BY <1>2, LifeTyped, EditTyped, TouchTyped, ResyncTyped DEF ClientStep
<1>3. ASSUME NEW s \in Socket, SocketStep(s) PROVE TypeOKSync'
  BY <1>3, OpenTyped, ClosedTyped, ReceiveTyped, HearsTyped DEF SocketStep
<1>4. CASE UNCHANGED vars
  BY <1>4 DEF vars, clientVars, netVars, TypeOKSync
<1> QED
  BY <1>1, <1>2, <1>3, <1>4 DEF Next

-----------------------------------------------------------------------------
(* Sockets: who holds them, who is in the group, what is on the way.       *)

\* A socket that is held and open is believed to be connected, raced or not.
OpenIsConnected ==
    \A c \in Client : ws[c] # NoSocket /\ sock[ws[c]] = "open" => connected[c]

Discipline ==
    OneSocket /\ Delivered /\ ConnectedHoldsSocket /\ OpenIsConnected /\ SyncedIsJoined

\* Lines grow only where they may.
GrowsWell ==
    \A s \in Socket :
        /\ up'[s] # << >> => up[s] # << >> \/ sock[s] = "open"
        /\ down'[s] # << >> => down[s] # << >> \/ (hosting /\ s \in joined)

\* What leaves the sockets alone and lets lines grow well keeps to it.
LEMMA SocketsAlone ==
    ASSUME TypeOKSync, Discipline, GrowsWell,
           UNCHANGED <<sock, ws, connected, synced, raced, joined, hosting>>
    PROVE  Discipline'
<1>1. Delivered'
  BY DEF Discipline, Delivered, GrowsWell
<1>2. OneSocket' /\ ConnectedHoldsSocket' /\ OpenIsConnected' /\ SyncedIsJoined'
  BY DEF Discipline, OneSocket, ConnectedHoldsSocket, OpenIsConnected, SyncedIsJoined
<1> QED
  BY <1>1, <1>2 DEF Discipline

LEMMA SendsWell ==
    ASSUME TypeOKSync, NEW c \in Client, NEW m \in Message, Sends(c, m), NEW s \in Socket
    PROVE  /\ up'[s] = up[s] \/ (s = ws[c] /\ connected[c] /\ sock[s] = "open" /\ up'[s] = Append(up[s], m))
           /\ up'[s] # << >> => up[s] # << >> \/ sock[s] = "open"
<1>1. up \in [Socket -> Seq(Message)]
  BY DEF TypeOKSync
<1> QED
  BY <1>1, SendsTo

LEMMA BroadcastsWell ==
    ASSUME TypeOKSync, NEW q \in Seq(Message), Broadcast(q), NEW s \in Socket
    PROVE  down'[s] # << >> => down[s] # << >> \/ (hosting /\ s \in joined)
BY BroadcastTo

LEMMA HostAppliesWell ==
    ASSUME TypeOKSync, NEW P \in SUBSET Update, HostApplies(P), NEW s \in Socket
    PROVE  down'[s] # << >> => down[s] # << >> \/ (hosting /\ s \in joined)
BY HostAppliesTo

\* What the members say, and the messages they say it with.
LEMMA Said ==
    ASSUME TypeOKSync
    PROVE  /\ \A c \in Client : Edit(c) =>
                \E u \in Update : /\ doc' = [doc EXCEPT ![c] = doc[c] \cup {u}]
                                  /\ Msg("update", Host, {u}) \in Message
                                  /\ Sends(c, Msg("update", Host, {u}))
           /\ \A c \in Client : Touch(c) =>
                LET e == [who |-> c, clock |-> aware[c][c].clock + 1, here |-> TRUE] IN
                e \in Entry /\ Presence({e}) \in Message /\ Sends(c, Presence({e}))
           /\ \A c \in Client : Resync(c) =>
                /\ Msg("step1", Host, Visible(doc[c])) \in Message
                /\ Sends(c, Msg("step1", Host, Visible(doc[c])))
<1>1. /\ Client \subseteq Member /\ Host \in Member /\ doc \in [Member -> SUBSET Update]
      /\ aware \in [Member -> [Client -> [clock : Nat, here : BOOLEAN]]]
  BY Owners DEF TypeOKSync
<1>2. ASSUME NEW c \in Client, Edit(c)
      PROVE  \E u \in Update : /\ doc' = [doc EXCEPT ![c] = doc[c] \cup {u}]
                               /\ Msg("update", Host, {u}) \in Message
                               /\ Sends(c, Msg("update", Host, {u}))
  <2>1. PICK u \in NextOf(c) :
          doc' = [doc EXCEPT ![c] = doc[c] \cup {u}] /\ Sends(c, Msg("update", Host, {u}))
    BY <1>2 DEF Edit
  <2>2. u \in Update
    BY <1>1, NextOfUpdates
  <2>3. Msg("update", Host, {u}) \in Message
    BY <1>1, <2>2, Messages
  <2> QED
    BY <2>1, <2>2, <2>3
<1>3. ASSUME NEW c \in Client, Touch(c)
      PROVE  LET e == [who |-> c, clock |-> aware[c][c].clock + 1, here |-> TRUE] IN
             e \in Entry /\ Presence({e}) \in Message /\ Sends(c, Presence({e}))
  <2> DEFINE e == [who |-> c, clock |-> aware[c][c].clock + 1, here |-> TRUE]
  <2>1. e \in Entry /\ Sends(c, Presence({e}))
    BY <1>1, <1>3 DEF Touch, Entry
  <2> HIDE DEF e
  <2>2. Presence({e}) \in Message
    BY <2>1, Messages
  <2> QED
    BY <2>1, <2>2 DEF e
<1>4. ASSUME NEW c \in Client, Resync(c)
      PROVE  /\ Msg("step1", Host, Visible(doc[c])) \in Message
             /\ Sends(c, Msg("step1", Host, Visible(doc[c])))
  <2>1. Visible(doc[c]) \in SUBSET Update
    BY <1>1 DEF Visible
  <2> QED
    BY <1>1, <1>4, <2>1, Messages DEF Resync
<1> QED
  BY <1>2, <1>3, <1>4

\* What Receive does with the head m of a line.
LEMMA Received ==
    ASSUME TypeOKSync, NEW s \in Socket, Receive(s)
    PROVE  LET c == s[1]
               m == Head(down[s])
               mine == m.to \in {Host, c}
           IN  /\ sock[s] = "open" /\ down[s] # << >> /\ c \in Client /\ c \in Member
               /\ m \in Message /\ m = down[s][1]
               /\ m.body \in SUBSET Update /\ m.states \in SUBSET Entry
               /\ down' = [down EXCEPT ![s] = Tail(down[s])]
               /\ doc' = IF mine /\ m.kind \in {"step2", "update"}
                           THEN [doc EXCEPT ![c] = doc[c] \cup m.body] ELSE doc
               /\ synced' = [synced EXCEPT ![c] = synced[c] \/ (mine /\ m.kind = "step2")]
               /\ aware' = aware \/ Learn(c, m.states)
               /\ Msg("step2", Host, Missing(c, m.body)) \in Message
               /\ Presence(News(c, m.states)) \in Message
               /\ News(c, m.states) \subseteq m.states
               /\ \/ mine /\ m.kind = "step1" /\ Sends(c, Msg("step2", Host, Missing(c, m.body)))
                  \/ ~(mine /\ m.kind = "step1") /\ (up' = up \/ Sends(c, Presence(News(c, m.states))))
<1> DEFINE c == s[1]
           m == Head(down[s])
           mine == m.to \in {Host, c}
<1>1. /\ down \in [Socket -> Seq(Message)] /\ doc \in [Member -> SUBSET Update]
      /\ c \in Client /\ c \in Member /\ Host \in Member
  BY Owners DEF TypeOKSync
<1>2. sock[s] = "open" /\ down[s] # << >>
  BY DEF Receive
<1>3. m \in Message /\ m = down[s][1]
  BY <1>1, <1>2, Popped
<1>4. m.body \in SUBSET Update /\ m.states \in SUBSET Entry
  BY <1>3 DEF Message
<1>5. Missing(c, m.body) \in SUBSET Update /\ News(c, m.states) \subseteq m.states
  BY <1>1 DEF Missing, News
<1>6. Msg("step2", Host, Missing(c, m.body)) \in Message /\ Presence(News(c, m.states)) \in Message
  BY <1>1, <1>4, <1>5, Messages
<1> HIDE DEF m
<1>7. /\ down' = [down EXCEPT ![s] = Tail(down[s])]
      /\ doc' = IF mine /\ m.kind \in {"step2", "update"}
                  THEN [doc EXCEPT ![c] = doc[c] \cup m.body] ELSE doc
      /\ synced' = [synced EXCEPT ![c] = synced[c] \/ (mine /\ m.kind = "step2")]
      /\ aware' = aware \/ Learn(c, m.states)
  BY DEF Receive, m
<1>8. \/ mine /\ m.kind = "step1" /\ Sends(c, Msg("step2", Host, Missing(c, m.body)))
      \/ ~(mine /\ m.kind = "step1") /\ (up' = up \/ Sends(c, Presence(News(c, m.states))))
  BY DEF Receive, m
<1> QED
  BY <1>1, <1>2, <1>3, <1>4, <1>5, <1>6, <1>7, <1>8 DEF m

\* The questions the host answers, and the answers.
LEMMA Questioned ==
    ASSUME TypeOKSync, NEW s \in Socket, HearsQuestion(s)
    PROVE  LET c == s[1]
               m == Head(up[s])
               answer == Msg("step2", c, Missing(Host, m.body))
               ask == Msg("step1", c, Visible(doc[Host]))
               q == Append(IF m.kind = "init" THEN <<ask>> ELSE << >>, answer)
           IN  /\ hosting /\ m.kind \in {"init", "step1"} /\ c \in Client
               /\ answer \in Message /\ ask \in Message /\ q \in Seq(Message)
               /\ \/ m.kind = "init" /\ Len(q) = 2 /\ q[1] = ask /\ q[2] = answer
                  \/ m.kind # "init" /\ Len(q) = 1 /\ q[1] = answer
               /\ Broadcast(q)
               /\ heard' = heard \cup (IF m.kind = "init" THEN {s} ELSE {})
<1> DEFINE c == s[1]
           m == Head(up[s])
           answer == Msg("step2", c, Missing(Host, m.body))
           ask == Msg("step1", c, Visible(doc[Host]))
           first == IF m.kind = "init" THEN <<ask>> ELSE << >>
           q == Append(first, answer)
<1>1. /\ c \in Client /\ c \in Member /\ Host \in Member /\ doc \in [Member -> SUBSET Update]
  BY Owners DEF TypeOKSync
<1>2. Missing(Host, m.body) \in SUBSET Update /\ Visible(doc[Host]) \in SUBSET Update
  BY <1>1 DEF Missing, Visible
<1>3. answer \in Message /\ ask \in Message
  BY <1>1, <1>2, Messages
<1>4. /\ hosting /\ m.kind \in {"init", "step1"} /\ Broadcast(q)
      /\ heard' = heard \cup (IF m.kind = "init" THEN {s} ELSE {})
  BY DEF HearsQuestion
<1> HIDE DEF answer, ask, m
<1>5. \/ m.kind = "init" /\ first = <<ask>> /\ first \in Seq(Message) /\ Len(first) = 1 /\ first[1] = ask
      \/ m.kind # "init" /\ first = << >> /\ first \in Seq(Message) /\ Len(first) = 0
  BY <1>3, EmptySeq
<1> HIDE DEF first
<1>6. q \in Seq(Message) /\ Len(q) = Len(first) + 1 /\ q[Len(first) + 1] = answer
      /\ \A i \in 1..Len(first) : q[i] = first[i]
  BY <1>3, <1>5, LastIn
<1>7. \/ m.kind = "init" /\ Len(q) = 2 /\ q[1] = ask /\ q[2] = answer
      \/ m.kind # "init" /\ Len(q) = 1 /\ q[1] = answer
  <2>1. CASE m.kind = "init"
    <3>1. Len(first) = 1 /\ first[1] = ask
      BY <1>5, <2>1
    <3>2. Len(first) + 1 = 2 /\ 1 \in 1..Len(first)
      BY <3>1
    <3>3. Len(q) = 2 /\ q[2] = answer
      BY <1>6, <3>2
    <3>4. q[1] = first[1]
      BY <1>6, <3>2
    <3> QED
      BY <2>1, <3>1, <3>3, <3>4
  <2>2. CASE m.kind # "init"
    <3>1. Len(first) = 0
      BY <1>5, <2>2
    <3>2. Len(first) + 1 = 1
      BY <3>1
    <3>3. Len(q) = 1 /\ q[1] = answer
      BY <1>6, <3>2
    <3> QED
      BY <2>2, <3>3
  <2> QED
    BY <2>1, <2>2
<1> QED
  BY <1>1, <1>3, <1>4, <1>6, <1>7 DEF m, answer, ask, first

LEMMA HearsWell ==
    ASSUME TypeOKSync, Discipline, NEW s \in Socket, Hears(s)
    PROVE  Discipline'
<1> DEFINE m == Head(up[s])
<1>1. /\ up[s] # << >> /\ up \in [Socket -> Seq(Message)] /\ down \in [Socket -> Seq(Message)]
      /\ up' = [up EXCEPT ![s] = Tail(up[s])]
      /\ m.body \in SUBSET Update /\ m.states \in SUBSET Entry
  BY TakesHead DEF Hears, Joins, Lost, HearsQuestion, HearsUpdate, HearsPresence, TypeOKSync
<1>2. \A t \in Socket : up'[t] # << >> => up[t] # << >>
  BY <1>1
<1> HIDE DEF m
<1>3. CASE Joins(s)
  <2>1. /\ UNCHANGED <<sock, ws, connected, synced, raced, hosting, down>>
        /\ joined' = IF sock[s] = "closed" THEN joined ELSE joined \cup {s}
    BY <1>3 DEF Joins, clientVars
  <2>2. sock[s] \in {"open", "closing", "closed"}
    BY <1>1 DEF Discipline, Delivered, TypeOKSync
  <2>3. Delivered'
    BY <1>2, <2>1, <2>2 DEF Discipline, Delivered
  <2>4. OneSocket' /\ ConnectedHoldsSocket' /\ OpenIsConnected' /\ SyncedIsJoined'
    BY <2>1 DEF Discipline, OneSocket, ConnectedHoldsSocket, OpenIsConnected, SyncedIsJoined
  <2> QED
    BY <2>3, <2>4 DEF Discipline
<1>4. CASE Lost(s)
  <2>1. GrowsWell
    BY <1>2, <1>4 DEF Lost, GrowsWell
  <2> QED
    BY <1>4, <2>1, SocketsAlone DEF Lost, clientVars, netVars
<1>5. CASE HearsQuestion(s)
  <2>1. \A t \in Socket : down'[t] # << >> => down[t] # << >> \/ (hosting /\ t \in joined)
    BY <1>5, Questioned, BroadcastsWell
  <2>2. GrowsWell
    BY <1>2, <2>1 DEF GrowsWell
  <2> QED
    BY <1>5, <2>2, SocketsAlone DEF HearsQuestion, clientVars
<1>6. CASE HearsUpdate(s)
  <2>1. HostApplies(m.body)
    BY <1>6 DEF HearsUpdate, m
  <2>2. \A t \in Socket : down'[t] # << >> => down[t] # << >> \/ (hosting /\ t \in joined)
    BY <1>1, <2>1, HostAppliesWell
  <2>3. GrowsWell
    BY <1>2, <2>2 DEF GrowsWell
  <2> QED
    BY <1>6, <2>3, SocketsAlone DEF HearsUpdate, clientVars, netVars
<1>7. CASE HearsPresence(s)
  <2> DEFINE E == News(Host, m.states)
             q == IF E = {} THEN << >> ELSE <<Presence(E)>>
  <2>1. Broadcast(q)
    BY <1>7 DEF HearsPresence, m
  <2>2. E \in SUBSET Entry
    BY <1>1 DEF News
  <2>3. Presence(E) \in Message
    BY <2>2, Messages
  <2>4. q \in Seq(Message)
    BY <2>3, EmptySeq
  <2>5. \A t \in Socket : down'[t] # << >> => down[t] # << >> \/ (hosting /\ t \in joined)
    BY <2>1, <2>4, BroadcastsWell
  <2>6. GrowsWell
    BY <1>2, <2>5 DEF GrowsWell
  <2> QED
    BY <1>7, <2>6, SocketsAlone DEF HearsPresence, clientVars, netVars
<1> QED
  BY <1>3, <1>4, <1>5, <1>6, <1>7 DEF Hears

LEMMA SaysWell ==
    ASSUME TypeOKSync, Discipline, NEW c \in Client, Edit(c) \/ Touch(c) \/ Resync(c)
    PROVE  Discipline'
<1>1. PICK m \in Message : Sends(c, m)
  BY Said
<1>2. /\ UNCHANGED <<sock, ws, connected, synced, raced, joined, hosting>> /\ down' = down
  BY DEF Edit, Touch, Resync, clientVars, netVars
<1>3. GrowsWell
  BY <1>1, <1>2, SendsWell DEF GrowsWell
<1> QED
  BY <1>2, <1>3, SocketsAlone

LEMMA FetchedWell ==
    ASSUME TypeOKSync, Discipline, NEW c \in Client, Fetched(c)
    PROVE  Discipline'
<1>1. PICK s \in Socket :
        /\ s[1] = c /\ sock[s] = "none"
        /\ sock' = [sock EXCEPT ![s] = "opening"]
        /\ ws' = [ws EXCEPT ![c] = s]
  BY NewSocket
<1>2. /\ connected' = [connected EXCEPT ![c] = FALSE] /\ synced' = [synced EXCEPT ![c] = FALSE]
      /\ raced' = IF ws[c] = NoSocket THEN raced ELSE raced \cup {c}
      /\ UNCHANGED <<joined, hosting, up, down>>
  BY NewSocket
<1>3. /\ sock \in [Socket -> {"none", "opening", "open", "closing", "closed"}]
      /\ ws \in [Client -> Socket \cup {NoSocket}]
      /\ connected \in [Client -> BOOLEAN] /\ synced \in [Client -> BOOLEAN]
      /\ \A t \in Socket : t[1] \in Client /\ t # NoSocket
  BY Owners DEF TypeOKSync
<1>4. /\ \A t \in Socket \ {s} : sock'[t] = sock[t]
      /\ \A d \in Client \ {c} : /\ ws'[d] = ws[d] /\ connected'[d] = connected[d]
                                 /\ synced'[d] = synced[d]
                                 /\ d \notin raced' => d \notin raced
      /\ sock'[s] = "opening" /\ ws'[c] = s /\ ~connected'[c] /\ ~synced'[c]
      /\ c \notin raced' => c \notin raced /\ ws[c] = NoSocket
  BY <1>1, <1>2, <1>3
<1>5. /\ \A d \in Client : ws[d] # NoSocket => ws[d] \in Socket /\ ws[d][1] = d
      /\ \A t \in Socket : t[1] \notin raced /\ sock[t] \in {"opening", "open", "closing"} => ws[t[1]] = t
      /\ \A t \in Socket : t[1] \notin raced /\ sock[t] = "open" => connected[t[1]]
  BY <1>3 DEF Discipline, OneSocket
<1>6. OneSocket'
  <2>1. \A d \in Client : ws'[d] # NoSocket => ws'[d][1] = d
    BY <1>1, <1>4, <1>5
  <2>2. ASSUME NEW t \in Socket, t[1] \notin raced'
        PROVE  /\ sock'[t] \in {"opening", "open", "closing"} => ws'[t[1]] = t
               /\ sock'[t] = "open" => connected'[t[1]]
    <3>1. CASE t = s
      BY <1>1, <1>4, <3>1
    <3>2. CASE t # s /\ t[1] = c
      BY <1>3, <1>4, <1>5, <2>2, <3>2
    <3>3. CASE t[1] # c
      BY <1>1, <1>3, <1>4, <1>5, <2>2, <3>3
    <3> QED
      BY <3>1, <3>2, <3>3
  <2> QED
    BY <2>1, <2>2 DEF OneSocket
<1>7. Delivered'
  BY <1>1, <1>2, <1>4 DEF Discipline, Delivered
<1>8. ConnectedHoldsSocket' /\ OpenIsConnected'
  BY <1>1, <1>3, <1>4, <1>5 DEF Discipline, ConnectedHoldsSocket, OpenIsConnected
<1>9. SyncedIsJoined'
  BY <1>2, <1>3, <1>4 DEF Discipline, SyncedIsJoined
<1> QED
  BY <1>6, <1>7, <1>8, <1>9 DEF Discipline

\* The three messages of onopen.
Hello(c) == <<Msg("join", Host, {}), Msg("init", Host, Visible(doc[c])), Msg("garbled", Host, {})>>

LEMMA Opened ==
    ASSUME TypeOKSync, NEW s \in Socket, Open(s)
    PROVE  LET c == s[1]
               now == ws[c] # NoSocket /\ (ws[c] = s \/ sock[ws[c]] = "open")
           IN  /\ c \in Client /\ sock[s] = "opening"
               /\ sock' = [sock EXCEPT ![s] = "open"]
               /\ connected' = [connected EXCEPT ![c] = TRUE]
               /\ Hello(c) \in Seq(Message) /\ Len(Hello(c)) = 3
               /\ Hello(c)[1].kind = "join" /\ Hello(c)[2].kind = "init" /\ Hello(c)[3].kind = "garbled"
               /\ \A i \in 1..3 : /\ Hello(c)[i].body \subseteq doc[c]
                                  /\ Hello(c)[i].states = {} /\ ~Carries(Hello(c)[i])
               /\ \/ now /\ ws[c] \in Socket /\ up' = [up EXCEPT ![ws[c]] = up[ws[c]] \o Hello(c)]
                  \/ ~now /\ up' = up
<1> DEFINE c == s[1]
           now == ws[c] # NoSocket /\ (ws[c] = s \/ sock[ws[c]] = "open")
<1>1. /\ sock \in [Socket -> {"none", "opening", "open", "closing", "closed"}]
      /\ doc \in [Member -> SUBSET Update] /\ ws \in [Client -> Socket \cup {NoSocket}]
      /\ c \in Client /\ c \in Member /\ Host \in Member
  BY Owners DEF TypeOKSync
<1>2. Visible(doc[c]) \subseteq doc[c] /\ Visible(doc[c]) \in SUBSET Update /\ {} \in SUBSET Update
  BY <1>1 DEF Visible
<1>3. /\ \A k \in {"join", "init", "garbled"} : \A b \in SUBSET Update :
           /\ Msg(k, Host, b) \in Message /\ Msg(k, Host, b).kind = k
           /\ Msg(k, Host, b).body = b /\ Msg(k, Host, b).states = {}
           /\ ~Carries(Msg(k, Host, b))
  BY <1>1, Messages DEF Carries
<1>4. /\ Hello(c) \in Seq(Message) /\ Len(Hello(c)) = 3
      /\ Hello(c)[1] = Msg("join", Host, {}) /\ Hello(c)[2] = Msg("init", Host, Visible(doc[c]))
      /\ Hello(c)[3] = Msg("garbled", Host, {})
  <2>1. /\ Msg("join", Host, {}) \in Message /\ Msg("init", Host, Visible(doc[c])) \in Message
        /\ Msg("garbled", Host, {}) \in Message
    BY <1>2, <1>3
  <2> QED
    BY <2>1 DEF Hello
<1>5. /\ Hello(c)[1].kind = "join" /\ Hello(c)[2].kind = "init" /\ Hello(c)[3].kind = "garbled"
      /\ \A i \in 1..3 : /\ Hello(c)[i].body \subseteq doc[c]
                         /\ Hello(c)[i].states = {} /\ ~Carries(Hello(c)[i])
  <2>1. \A i \in 1..3 : i = 1 \/ i = 2 \/ i = 3
    OBVIOUS
  <2> QED
    BY <1>2, <1>3, <1>4, <2>1
<1>6. /\ sock[s] = "opening" /\ sock' = [sock EXCEPT ![s] = "open"]
      /\ connected' = [connected EXCEPT ![c] = TRUE]
      /\ up' = IF ws[c] # NoSocket /\ sock'[ws[c]] = "open"
                 THEN [up EXCEPT ![ws[c]] = up[ws[c]] \o Hello(c)] ELSE up
  BY DEF Open, Hello
<1>7. ws[c] # NoSocket /\ sock'[ws[c]] = "open" <=> now
  BY <1>1, <1>6
<1>8. \/ now /\ ws[c] \in Socket /\ up' = [up EXCEPT ![ws[c]] = up[ws[c]] \o Hello(c)]
      \/ ~now /\ up' = up
  <2>1. now => ws[c] \in Socket
    BY <1>1
  <2> HIDE DEF now
  <2> QED
    BY <1>6, <1>7, <2>1
<1> QED
  BY <1>1, <1>4, <1>5, <1>6, <1>8

LEMMA OpenWell ==
    ASSUME TypeOKSync, Discipline, NEW s \in Socket, Open(s)
    PROVE  Discipline'
<1> DEFINE c == s[1]
<1>1. /\ sock[s] = "opening" /\ sock' = [sock EXCEPT ![s] = "open"]
      /\ connected' = [connected EXCEPT ![c] = TRUE] /\ c \in Client
      /\ \/ up' = up
         \/ \E t \in Socket : /\ ws[c] = t /\ (t = s \/ sock[t] = "open")
                              /\ up' = [up EXCEPT ![t] = up[t] \o Hello(c)]
  <2> DEFINE now == ws[c] # NoSocket /\ (ws[c] = s \/ sock[ws[c]] = "open")
  <2>1. /\ sock[s] = "opening" /\ sock' = [sock EXCEPT ![s] = "open"]
        /\ connected' = [connected EXCEPT ![c] = TRUE] /\ c \in Client
        /\ \/ now /\ ws[c] \in Socket /\ up' = [up EXCEPT ![ws[c]] = up[ws[c]] \o Hello(c)]
           \/ ~now /\ up' = up
    BY Opened
  <2> QED
    BY <2>1
<1>2. UNCHANGED <<ws, synced, raced, joined, hosting, down>>
  BY DEF Open
<1>3. /\ sock \in [Socket -> {"none", "opening", "open", "closing", "closed"}]
      /\ ws \in [Client -> Socket \cup {NoSocket}] /\ up \in [Socket -> Seq(Message)]
      /\ connected \in [Client -> BOOLEAN]
      /\ \A t \in Socket : t[1] \in Client /\ t # NoSocket
  BY Owners DEF TypeOKSync
<1>4. /\ \A t \in Socket \ {s} : sock'[t] = sock[t]
      /\ sock'[s] = "open" /\ connected'[c]
      /\ \A d \in Client \ {c} : connected'[d] = connected[d]
      /\ \A t \in Socket : up'[t] # << >> => up[t] # << >> \/ sock'[t] = "open"
  BY <1>1, <1>3
<1>5. /\ \A d \in Client : ws[d] # NoSocket => ws[d] \in Socket /\ ws[d][1] = d
      /\ \A t \in Socket : t[1] \notin raced /\ sock[t] \in {"opening", "open", "closing"} => ws[t[1]] = t
      /\ \A t \in Socket : t[1] \notin raced /\ sock[t] = "open" => connected[t[1]]
  BY <1>3 DEF Discipline, OneSocket
<1>6. OneSocket'
  <2>1. \A d \in Client : ws'[d] # NoSocket => ws'[d][1] = d
    BY <1>2, <1>5
  <2>2. ASSUME NEW t \in Socket, t[1] \notin raced'
        PROVE  /\ sock'[t] \in {"opening", "open", "closing"} => ws'[t[1]] = t
               /\ sock'[t] = "open" => connected'[t[1]]
    <3>1. CASE t = s
      BY <1>1, <1>2, <1>4, <1>5, <2>2, <3>1
    <3>2. CASE t # s
      BY <1>2, <1>3, <1>4, <1>5, <2>2, <3>2
    <3> QED
      BY <3>1, <3>2
  <2> QED
    BY <2>1, <2>2 DEF OneSocket
<1>7. Delivered'
  BY <1>1, <1>2, <1>4 DEF Discipline, Delivered
<1>8. ConnectedHoldsSocket'
  <2> SUFFICES ASSUME NEW d \in Client, connected'[d], d \notin raced'
               PROVE  ws'[d] # NoSocket /\ sock'[ws'[d]] \in {"open", "closing"}
    BY DEF ConnectedHoldsSocket
  <2>1. CASE d = c
    <3>1. ws[c] = s
      BY <1>1, <1>2, <1>5, <2>1
    <3> QED
      BY <1>2, <1>3, <1>4, <2>1, <3>1
  <2>2. CASE d # c
    <3>1. connected[d] /\ ws[d] # NoSocket /\ sock[ws[d]] \in {"open", "closing"}
      BY <1>2, <1>4, <2>2 DEF Discipline, ConnectedHoldsSocket
    <3>2. ws[d] \in Socket \ {s}
      BY <1>5, <2>2, <3>1
    <3> QED
      BY <1>2, <1>4, <3>1, <3>2
  <2> QED
    BY <2>1, <2>2
<1>9. OpenIsConnected'
  BY <1>1, <1>2, <1>3, <1>4, <1>5 DEF Discipline, OpenIsConnected
<1>10. SyncedIsJoined'
  BY <1>2, <1>3, <1>4 DEF Discipline, SyncedIsJoined
<1> QED
  BY <1>6, <1>7, <1>8, <1>9, <1>10 DEF Discipline

LEMMA ClosedStep ==
    ASSUME TypeOKSync, NEW s \in Socket, Closed(s)
    PROVE  LET c == s[1] IN
           /\ c \in Client /\ c \in Member /\ sock[s] \in {"opening", "open", "closing"}
           /\ sock' = [sock EXCEPT ![s] = "closed"] /\ ws' = [ws EXCEPT ![c] = NoSocket]
           /\ \A d \in Client \ {c} : connected'[d] = connected[d] /\ synced'[d] = synced[d]
           /\ ~connected'[c] /\ (synced'[c] => synced[c] /\ ~connected[c])
           /\ \A p \in Member \ {c} : aware'[p] = aware[p]
           /\ joined' = joined \ {s} /\ down' = [down EXCEPT ![s] = << >>]
           /\ \E n \in 0..Len(up[s]) : up' = [up EXCEPT ![s] = SubSeq(up[s], 1, n)]
           /\ UNCHANGED <<plan, doc, fetching, resyncs, raced, heard, hosting>>
<1> DEFINE c == s[1]
<1>1. /\ connected \in [Client -> BOOLEAN] /\ synced \in [Client -> BOOLEAN]
      /\ aware \in [Member -> [Client -> [clock : Nat, here : BOOLEAN]]]
      /\ c \in Client /\ c \in Member
  BY Owners DEF TypeOKSync
<1>2. \A p \in Member \ {c} : aware'[p] = aware[p]
  BY <1>1 DEF Closed, Forget
<1>3. /\ \A d \in Client \ {c} : connected'[d] = connected[d] /\ synced'[d] = synced[d]
      /\ ~connected'[c] /\ (synced'[c] => synced[c] /\ ~connected[c])
  BY <1>1 DEF Closed
<1> QED
  BY <1>1, <1>2, <1>3 DEF Closed

LEMMA ClosedWell ==
    ASSUME TypeOKSync, Discipline, NEW s \in Socket, Closed(s)
    PROVE  Discipline'
<1> DEFINE c == s[1]
<1>1. /\ c \in Client /\ sock' = [sock EXCEPT ![s] = "closed"] /\ ws' = [ws EXCEPT ![c] = NoSocket]
      /\ \A d \in Client \ {c} : connected'[d] = connected[d] /\ synced'[d] = synced[d]
      /\ ~connected'[c] /\ (synced'[c] => synced[c] /\ ~connected[c])
      /\ joined' = joined \ {s} /\ down' = [down EXCEPT ![s] = << >>]
      /\ \E n \in 0..Len(up[s]) : up' = [up EXCEPT ![s] = SubSeq(up[s], 1, n)]
      /\ raced' = raced /\ hosting' = hosting
      /\ sock[s] \in {"opening", "open", "closing"}
  BY ClosedStep
<1>2. /\ sock \in [Socket -> {"none", "opening", "open", "closing", "closed"}]
      /\ ws \in [Client -> Socket \cup {NoSocket}] /\ up \in [Socket -> Seq(Message)]
      /\ down \in [Socket -> Seq(Message)] /\ connected \in [Client -> BOOLEAN]
      /\ \A t \in Socket : t[1] \in Client /\ t # NoSocket
  BY Owners DEF TypeOKSync
<1>3. /\ \A t \in Socket \ {s} : sock'[t] = sock[t] /\ down'[t] = down[t] /\ up'[t] = up[t]
      /\ sock'[s] = "closed" /\ down'[s] = << >> /\ ws'[c] = NoSocket
      /\ \A d \in Client \ {c} : ws'[d] = ws[d]
  BY <1>1, <1>2
<1>4. /\ \A d \in Client : ws[d] # NoSocket => ws[d] \in Socket /\ ws[d][1] = d
      /\ \A t \in Socket : t[1] \notin raced /\ sock[t] \in {"opening", "open", "closing"} => ws[t[1]] = t
      /\ \A t \in Socket : t[1] \notin raced /\ sock[t] = "open" => connected[t[1]]
  BY <1>2 DEF Discipline, OneSocket
<1>5. OneSocket'
  <2>1. \A d \in Client : ws'[d] # NoSocket => ws'[d][1] = d
    BY <1>3, <1>4
  <2>2. ASSUME NEW t \in Socket, t[1] \notin raced'
        PROVE  /\ sock'[t] \in {"opening", "open", "closing"} => ws'[t[1]] = t
               /\ sock'[t] = "open" => connected'[t[1]]
    <3>1. CASE t = s
      BY <1>3, <3>1
    <3>2. CASE t # s /\ t[1] = c
      BY <1>1, <1>3, <1>4, <2>2, <3>2
    <3>3. CASE t # s /\ t[1] # c
      BY <1>1, <1>2, <1>3, <1>4, <2>2, <3>3
    <3> QED
      BY <3>1, <3>2, <3>3
  <2> QED
    BY <2>1, <2>2 DEF OneSocket
<1>6. Delivered'
  BY <1>1, <1>3 DEF Discipline, Delivered
<1>7. \A d \in Client \ {c} : ws[d] # s
  BY <1>2, <1>4
<1>8. ConnectedHoldsSocket' /\ OpenIsConnected'
  BY <1>1, <1>2, <1>3, <1>4, <1>7 DEF Discipline, ConnectedHoldsSocket, OpenIsConnected
<1>9. SyncedIsJoined'
  <2> SUFFICES ASSUME NEW d \in Client, synced'[d], d \notin raced'
               PROVE  connected'[d] /\ ws'[d] # NoSocket /\ ws'[d] \in joined' /\ hosting'
    BY DEF SyncedIsJoined
  <2>1. synced[d] /\ (d = c => ~connected[c])
    BY <1>1
  <2>2. connected[d] /\ ws[d] # NoSocket /\ ws[d] \in joined /\ hosting
    BY <1>1, <2>1 DEF Discipline, SyncedIsJoined
  <2>3. d # c
    BY <2>1, <2>2
  <2> QED
    BY <1>1, <1>3, <1>7, <2>2, <2>3
<1> QED
  BY <1>5, <1>6, <1>8, <1>9 DEF Discipline

LEMMA ReceiveWell ==
    ASSUME TypeOKSync, Discipline, NEW s \in Socket, Receive(s)
    PROVE  Discipline'
<1> DEFINE c == s[1]
<1>1. /\ sock[s] = "open" /\ down[s] # << >> /\ c \in Client
      /\ down' = [down EXCEPT ![s] = Tail(down[s])]
      /\ up' = up \/ \E m \in Message : Sends(c, m)
      /\ \A d \in Client \ {c} : synced'[d] = synced[d]
  BY Received DEF TypeOKSync
<1>2. UNCHANGED <<sock, joined, ws, connected, raced, hosting>>
  BY DEF Receive, netVars
<1>3. /\ \A t \in Socket : up'[t] # << >> => up[t] # << >> \/ sock[t] = "open"
      /\ \A t \in Socket : down'[t] # << >> => down[t] # << >>
  <2>1. ASSUME NEW t \in Socket PROVE up'[t] # << >> => up[t] # << >> \/ sock[t] = "open"
    BY <1>1, SendsWell
  <2>2. ASSUME NEW t \in Socket PROVE down'[t] # << >> => down[t] # << >>
    BY <1>1 DEF TypeOKSync
  <2> QED
    BY <2>1, <2>2
<1>4. s \in joined /\ hosting
  BY <1>1 DEF Discipline, Delivered
<1>5. c \notin raced => ws[c] = s /\ connected[c]
  BY <1>1 DEF Discipline, OneSocket
<1>6. SyncedIsJoined'
  BY <1>1, <1>2, <1>4, <1>5, Owners DEF Discipline, SyncedIsJoined
<1>7. Delivered'
  BY <1>2, <1>3 DEF Discipline, Delivered
<1>8. OneSocket' /\ ConnectedHoldsSocket' /\ OpenIsConnected'
  BY <1>2 DEF Discipline, OneSocket, ConnectedHoldsSocket, OpenIsConnected
<1> QED
  BY <1>6, <1>7, <1>8 DEF Discipline

LEMMA InitWell == Init => Discipline
<1> SUFFICES ASSUME Init PROVE Discipline
  OBVIOUS
<1>1. OneSocket /\ ConnectedHoldsSocket /\ OpenIsConnected
  BY Owners DEF Init, OneSocket, ConnectedHoldsSocket, OpenIsConnected
<1>2. Delivered /\ SyncedIsJoined
  BY DEF Init, Delivered, SyncedIsJoined
<1> QED
  BY <1>1, <1>2 DEF Discipline

LEMMA StepWell == TypeOKSync /\ Discipline /\ [Next]_vars => Discipline'
<1> SUFFICES ASSUME TypeOKSync, Discipline, [Next]_vars PROVE Discipline'
  OBVIOUS
<1>1. CASE HostListens
  <2>1. UNCHANGED <<sock, ws, connected, synced, raced, joined, up, down>> /\ hosting'
    BY <1>1 DEF HostListens, clientVars, netVars
  <2> QED
    BY <2>1 DEF Discipline, OneSocket, Delivered, ConnectedHoldsSocket, OpenIsConnected, SyncedIsJoined
<1>2. CASE HostEdit
  <2>1. PICK u \in NextOf(Host) : HostApplies({u})
    BY <1>2 DEF HostEdit
  <2>2. {u} \in SUBSET Update
    BY Owners, NextOfUpdates
  <2>3. /\ UNCHANGED <<sock, ws, connected, synced, raced, joined, hosting>> /\ up' = up
    BY <1>2 DEF HostEdit, clientVars, netVars
  <2>4. GrowsWell
    BY <2>1, <2>2, <2>3, HostAppliesWell DEF GrowsWell
  <2> QED
    BY <2>3, <2>4, SocketsAlone
<1>3. ASSUME NEW c \in Client, Start(c) PROVE Discipline'
  <2>1. UNCHANGED <<sock, ws, connected, synced, raced, joined, hosting>> /\ up' = up /\ down' = down
    BY <1>3 DEF Start, netVars
  <2>2. GrowsWell
    BY <2>1 DEF GrowsWell
  <2> QED
    BY <2>1, <2>2, SocketsAlone
<1>4. ASSUME NEW c \in Client, Stop(c) PROVE Discipline'
  <2>1. /\ ws[c] \in Socket /\ sock[ws[c]] \in {"opening", "open"}
        /\ sock' = [sock EXCEPT ![ws[c]] = "closing"]
        /\ UNCHANGED <<ws, connected, synced, raced, joined, hosting, up, down>>
        /\ sock \in [Socket -> {"none", "opening", "open", "closing", "closed"}]
        /\ ws \in [Client -> Socket \cup {NoSocket}]
    BY <1>4 DEF Stop, clientVars, TypeOKSync
  <2>2. /\ \A t \in Socket \ {ws[c]} : sock'[t] = sock[t]
        /\ sock'[ws[c]] = "closing"
    BY <2>1
  <2>3. OneSocket' /\ Delivered'
    BY <2>1, <2>2 DEF Discipline, OneSocket, Delivered
  <2>4. ConnectedHoldsSocket' /\ OpenIsConnected' /\ SyncedIsJoined'
    BY <2>1, <2>2 DEF Discipline, ConnectedHoldsSocket, OpenIsConnected, SyncedIsJoined
  <2> QED
    BY <2>3, <2>4 DEF Discipline
<1>5. ASSUME NEW c \in Client, Fetched(c) \/ Edit(c) \/ Touch(c) \/ Resync(c) PROVE Discipline'
  BY <1>5, FetchedWell, SaysWell
<1>6. ASSUME NEW s \in Socket, SocketStep(s) PROVE Discipline'
  BY <1>6, OpenWell, ClosedWell, ReceiveWell, HearsWell DEF SocketStep
<1>7. CASE UNCHANGED vars
  <2>1. UNCHANGED <<sock, ws, connected, synced, raced, joined, hosting>> /\ up' = up /\ down' = down
    BY <1>7 DEF vars, clientVars, netVars
  <2>2. GrowsWell
    BY <2>1 DEF GrowsWell
  <2> QED
    BY <2>1, <2>2, SocketsAlone
<1> QED
  BY <1>1, <1>2, <1>3, <1>4, <1>5, <1>6, <1>7 DEF Next, HostStep, ClientStep

\* ConnectedHoldsSocket: a client not raced that believes to be connected
\* holds the open or closing socket it sends on, through any sequence of
\* start, stop, open and close events (WebPubSubSyncClient).
THEOREM ConnectedHolds == Spec => []ConnectedHoldsSocket
<1>1. Init => TypeOKSync /\ Discipline
  BY InitTyped, InitWell
<1>2. TypeOKSync /\ Discipline /\ [Next]_vars => (TypeOKSync /\ Discipline)'
  BY StepTyped, StepWell
<1>3. TypeOKSync /\ Discipline => ConnectedHoldsSocket
  BY DEF Discipline
<1> QED
  BY <1>1, <1>2, <1>3, PTL DEF Spec

-----------------------------------------------------------------------------
(* What the messages on the way may say.                                   *)

In(q) == {q[i] : i \in 1..Len(q)}

LEMMA InLines ==
    ASSUME NEW q \in Seq(Message)
    PROVE  /\ In(q) \subseteq Message
           /\ \A r \in Seq(Message) : In(q \o r) \subseteq In(q) \cup In(r)
           /\ \A m \in Message : In(Append(q, m)) \subseteq In(q) \cup {m}
           /\ q # << >> => Head(q) \in In(q) /\ In(Tail(q)) \subseteq In(q)
           /\ \A n \in 0..Len(q) : In(SubSeq(q, 1, n)) \subseteq In(q)
<1>1. \A i \in 1..Len(q) : q[i] \in Message
  BY ElementOfSeq
<1>2. ASSUME NEW r \in Seq(Message) PROVE In(q \o r) \subseteq In(q) \cup In(r)
  <2> SUFFICES ASSUME NEW i \in 1..Len(q \o r) PROVE (q \o r)[i] \in In(q) \cup In(r)
    BY DEF In
  <2>1. i \in 1..Len(q) \/ \E k \in 1..Len(r) : i = Len(q) + k
    BY Behind
  <2>2. CASE i \in 1..Len(q)
    BY <2>2, Behind DEF In
  <2>3. CASE \E k \in 1..Len(r) : i = Len(q) + k
    <3>1. PICK k \in 1..Len(r) : i = Len(q) + k
      BY <2>3
    <3>2. (q \o r)[i] = r[k] /\ r[k] \in In(r)
      BY <3>1, Behind DEF In
    <3> QED
      BY <3>2
  <2> QED
    BY <2>1, <2>2, <2>3
<1>3. ASSUME NEW m \in Message PROVE In(Append(q, m)) \subseteq In(q) \cup {m}
  <2> SUFFICES ASSUME NEW i \in 1..Len(Append(q, m)) PROVE Append(q, m)[i] \in In(q) \cup {m}
    BY DEF In
  <2>1. Len(q) \in Nat /\ Len(Append(q, m)) = Len(q) + 1
    BY LastIn, LenProperties
  <2>2. i \in 1..Len(q) \/ i = Len(q) + 1
    BY <2>1
  <2> QED
    BY <2>2, LastIn DEF In
<1>4. ASSUME q # << >> PROVE Head(q) \in In(q) /\ In(Tail(q)) \subseteq In(q)
  <2>1. /\ Head(q) = q[1] /\ Len(q) >= 1 /\ Len(q) \in Nat /\ Len(Tail(q)) = Len(q) - 1
        /\ \A i \in 1..(Len(q) - 1) : Tail(q)[i] = q[i + 1]
    BY <1>4, Popped
  <2>2. \A i \in 1..(Len(q) - 1) : i + 1 \in 1..Len(q)
    BY <2>1
  <2> QED
    BY <2>1, <2>2 DEF In
<1>5. ASSUME NEW n \in 0..Len(q) PROVE In(SubSeq(q, 1, n)) \subseteq In(q)
  BY CutOff DEF In
<1> QED
  BY <1>1, <1>2, <1>3, <1>4, <1>5 DEF In

\* A message to the host claims no more than D; one to the group brings no
\* more than D; both tell of the presence of somebody only.
HonestUp(m, D) == (m.kind \in {"init", "step1"} => m.body \subseteq D) /\ \A e \in m.states : e.here
HonestDown(m, D) == m.body \subseteq D /\ \A e \in m.states : e.here

Contents ==
    \A s \in Socket : /\ \A m \in In(up[s]) : HonestUp(m, doc[s[1]])
                      /\ \A m \in In(down[s]) : HonestDown(m, doc[Host])

LEMMA DocsGrow ==
    ASSUME TypeOKSync, [Next]_vars
    PROVE  \A p \in Member : doc[p] \subseteq doc'[p]
<1>1. doc \in [Member -> SUBSET Update] /\ Host \in Member /\ Client \subseteq Member
  BY Owners DEF TypeOKSync
<1>2. ASSUME NEW P, HostApplies(P) PROVE \A p \in Member : doc[p] \subseteq doc'[p]
  BY <1>1, <1>2 DEF HostApplies
<1>3. CASE HostStep
  BY <1>2, <1>3 DEF HostStep, HostListens, HostEdit
<1>4. ASSUME NEW c \in Client, ClientStep(c) PROVE \A p \in Member : doc[p] \subseteq doc'[p]
  BY <1>1, <1>4 DEF ClientStep, Start, Fetched, Stop, Edit, Touch, Resync
<1>5. ASSUME NEW s \in Socket, SocketStep(s) PROVE \A p \in Member : doc[p] \subseteq doc'[p]
  <2>1. CASE Receive(s)
    BY <1>1, <2>1, Received
  <2>2. CASE Open(s) \/ Closed(s)
    BY <2>2 DEF Open, Closed
  <2>3. CASE Hears(s)
    BY <1>2, <2>3 DEF Hears, Joins, Lost, HearsQuestion, HearsUpdate, HearsPresence
  <2> QED
    BY <1>5, <2>1, <2>2, <2>3 DEF SocketStep
<1>6. CASE UNCHANGED vars
  BY <1>6 DEF vars
<1> QED
  BY <1>3, <1>4, <1>5, <1>6 DEF Next

\* What a client sends is honest where it lands.
LEMMA SendsHonest ==
    ASSUME TypeOKSync, Discipline, NEW c \in Client, NEW m \in Message, Sends(c, m),
           HonestUp(m, doc[c]), NEW t \in Socket, NEW n \in In(up'[t])
    PROVE  n \in In(up[t]) \/ HonestUp(n, doc[t[1]])
<1>1. /\ up \in [Socket -> Seq(Message)]
      /\ ws[c] # NoSocket => ws[c][1] = c
  BY DEF TypeOKSync, Discipline, OneSocket
<1>2. up'[t] = up[t] \/ (t = ws[c] /\ up'[t] = Append(up[t], m))
  BY SendsWell
<1>3. CASE t = ws[c] /\ up'[t] = Append(up[t], m)
  <2>1. t[1] = c
    BY <1>1, <1>3, Owners
  <2>2. In(up'[t]) \subseteq In(up[t]) \cup {m}
    BY <1>1, <1>3, InLines
  <2> QED
    BY <2>1, <2>2
<1> QED
  BY <1>2, <1>3

LEMMA UpHonest ==
    ASSUME TypeOKSync, Discipline, Contents, [Next]_vars, NEW t \in Socket, NEW n \in In(up'[t])
    PROVE  n \in In(up[t]) \/ HonestUp(n, doc[t[1]])
<1>1. /\ up \in [Socket -> Seq(Message)] /\ doc \in [Member -> SUBSET Update]
      /\ down \in [Socket -> Seq(Message)] /\ Client \subseteq Member /\ Host \in Member
      /\ ws \in [Client -> Socket \cup {NoSocket}]
  BY Owners DEF TypeOKSync
<1>2. CASE up'[t] = up[t]
  BY <1>2
<1>3. ASSUME NEW c \in Client, Edit(c) \/ Touch(c) \/ Resync(c)
      PROVE  n \in In(up[t]) \/ HonestUp(n, doc[t[1]])
  <2>1. CASE Edit(c)
    <3>1. PICK u \in Update : /\ Msg("update", Host, {u}) \in Message
                              /\ Sends(c, Msg("update", Host, {u}))
      BY <2>1, Said
    <3>2. Msg("update", Host, {u}).kind = "update" /\ Msg("update", Host, {u}).states = {}
      BY DEF Msg
    <3>3. HonestUp(Msg("update", Host, {u}), doc[c])
      BY <3>2 DEF HonestUp
    <3> QED
      BY <3>1, <3>3, SendsHonest
  <2>2. CASE Touch(c)
    <3> DEFINE e == [who |-> c, clock |-> aware[c][c].clock + 1, here |-> TRUE]
    <3>1. e \in Entry /\ Presence({e}) \in Message /\ Sends(c, Presence({e})) /\ e.here
      BY <2>2, Said
    <3> HIDE DEF e
    <3>2. HonestUp(Presence({e}), doc[c])
      BY <3>1, Messages DEF HonestUp
    <3> QED
      BY <3>1, <3>2, SendsHonest
  <2>3. CASE Resync(c)
    <3> DEFINE b == Visible(doc[c])
    <3>1. Msg("step1", Host, b) \in Message /\ Sends(c, Msg("step1", Host, b))
      BY <2>3, Said
    <3>2. b \subseteq doc[c] /\ b \in SUBSET Update
      BY <1>1 DEF Visible
    <3> HIDE DEF b
    <3>3. HonestUp(Msg("step1", Host, b), doc[c])
      BY <1>1, <3>2, Messages DEF HonestUp
    <3> QED
      BY <3>1, <3>3, SendsHonest
  <2> QED
    BY <1>3, <2>1, <2>2, <2>3
<1>4. ASSUME NEW s \in Socket, Open(s)
      PROVE  n \in In(up[t]) \/ HonestUp(n, doc[t[1]])
  <2> DEFINE c == s[1]
  <2>1. /\ c \in Client /\ Hello(c) \in Seq(Message) /\ Len(Hello(c)) = 3
        /\ \A i \in 1..3 : Hello(c)[i].body \subseteq doc[c] /\ Hello(c)[i].states = {}
        /\ \/ ws[c] \in Socket /\ up' = [up EXCEPT ![ws[c]] = up[ws[c]] \o Hello(c)]
           \/ up' = up
    BY <1>4, Opened
  <2>2. \A m \in In(Hello(c)) : HonestUp(m, doc[c])
    BY <2>1 DEF In, HonestUp
  <2>3. CASE t = ws[c] /\ ws[c] \in Socket /\ up' = [up EXCEPT ![ws[c]] = up[ws[c]] \o Hello(c)]
    <3>1. t[1] = c
      BY <2>1, <2>3, Owners DEF Discipline, OneSocket
    <3>2. up'[t] = up[t] \o Hello(c)
      BY <1>1, <2>3
    <3>3. In(up[t] \o Hello(c)) \subseteq In(up[t]) \cup In(Hello(c))
      <4>1. up[t] \in Seq(Message) /\ Hello(c) \in Seq(Message)
        BY <1>1, <2>1
      <4> QED
        BY <4>1, InLines
    <3> QED
      BY <2>2, <3>1, <3>2, <3>3
  <2> QED
    BY <1>1, <1>2, <2>1, <2>3
<1>5. ASSUME NEW s \in Socket, Closed(s)
      PROVE  n \in In(up[t]) \/ HonestUp(n, doc[t[1]])
  <2>1. PICK k \in 0..Len(up[s]) : up' = [up EXCEPT ![s] = SubSeq(up[s], 1, k)]
    BY <1>5, ClosedStep
  <2>2. In(SubSeq(up[s], 1, k)) \subseteq In(up[s])
    BY <1>1, InLines
  <2> QED
    BY <1>1, <2>1, <2>2
<1>6. ASSUME NEW s \in Socket, Receive(s)
      PROVE  n \in In(up[t]) \/ HonestUp(n, doc[t[1]])
  <2> DEFINE c == s[1]
             m == Head(down[s])
             answer == Msg("step2", Host, Missing(c, m.body))
             told == Presence(News(c, m.states))
  <2>1. /\ c \in Client /\ down[s] # << >> /\ answer \in Message /\ told \in Message
        /\ up' = up \/ Sends(c, answer) \/ Sends(c, told)
        /\ News(c, m.states) \subseteq m.states /\ m.states \in SUBSET Entry
        /\ m.body \in SUBSET Update
    BY <1>6, Received
  <2>2. m \in In(down[s])
    BY <1>1, <2>1, InLines
  <2>3. \A e \in News(c, m.states) : e.here
    BY <2>1, <2>2 DEF Contents, HonestDown
  <2>4. Missing(c, m.body) \in SUBSET Update /\ News(c, m.states) \in SUBSET Entry
    BY <1>1, <2>1 DEF Missing
  <2>5. HonestUp(answer, doc[c]) /\ HonestUp(told, doc[c])
    <3>1. answer.kind = "step2" /\ answer.states = {}
      BY DEF Msg
    <3>2. told.kind = "presence" /\ told.states = News(c, m.states)
      BY DEF Presence
    <3> QED
      BY <2>3, <3>1, <3>2 DEF HonestUp
  <2> HIDE DEF answer, told
  <2> QED
    BY <1>2, <2>1, <2>5, SendsHonest
<1>7. ASSUME NEW s \in Socket, Hears(s)
      PROVE  n \in In(up[t]) \/ HonestUp(n, doc[t[1]])
  <2>1. up[s] # << >> /\ up' = [up EXCEPT ![s] = Tail(up[s])]
    BY <1>7 DEF Hears, Joins, Lost, HearsQuestion, HearsUpdate, HearsPresence, Takes
  <2>2. In(Tail(up[s])) \subseteq In(up[s])
    BY <1>1, <2>1, InLines
  <2> QED
    BY <1>1, <2>1, <2>2
<1>8. CASE HostStep \/ UNCHANGED vars \/ \E c \in Client : Start(c) \/ Fetched(c) \/ Stop(c)
  <2>1. up' = up
    BY <1>8 DEF HostStep, HostListens, HostEdit, vars, Start, Fetched, Stop
  <2> QED
    BY <1>2, <2>1
<1> QED
  BY <1>3, <1>4, <1>5, <1>6, <1>7, <1>8 DEF Next, ClientStep, SocketStep

\* What the host sends is honest when it lands.
LEMMA BroadcastHonest ==
    ASSUME TypeOKSync, NEW q \in Seq(Message), Broadcast(q), NEW D,
           \A k \in 1..Len(q) : HonestDown(q[k], D), NEW t \in Socket, NEW n \in In(down'[t])
    PROVE  n \in In(down[t]) \/ HonestDown(n, D)
<1>1. down \in [Socket -> Seq(Message)]
  BY DEF TypeOKSync
<1>2. down'[t] = down[t] \/ down'[t] = down[t] \o q
  BY BroadcastTo
<1>3. In(down[t] \o q) \subseteq In(down[t]) \cup In(q)
  BY <1>1, InLines
<1>4. \A m \in In(q) : HonestDown(m, D)
  BY DEF In
<1> QED
  BY <1>2, <1>3, <1>4

LEMMA AppliesHonest ==
    ASSUME TypeOKSync, NEW P \in SUBSET Update, HostApplies(P), NEW t \in Socket, NEW n \in In(down'[t])
    PROVE  n \in In(down[t]) \/ HonestDown(n, doc'[Host])
<1> DEFINE after == doc[Host] \cup P
           fresh == Visible(after) \ Visible(doc[Host])
           q == IF fresh = {} THEN << >> ELSE <<Msg("update", Host, fresh)>>
<1>1. /\ doc \in [Member -> SUBSET Update] /\ Host \in Member
      /\ doc' = [doc EXCEPT ![Host] = after] /\ fresh \subseteq after /\ doc[Host] \subseteq Update
  BY HostAppliesTo, Owners DEF TypeOKSync
<1>2. Broadcast(q)
  BY DEF HostApplies
<1>3. fresh \in SUBSET Update /\ doc'[Host] = after
  BY <1>1
<1> HIDE DEF after, fresh
<1>4. Msg("update", Host, fresh) \in Message /\ HonestDown(Msg("update", Host, fresh), doc'[Host])
  BY <1>1, <1>3, Messages DEF HonestDown
<1>5. q \in Seq(Message) /\ \A k \in 1..Len(q) : HonestDown(q[k], doc'[Host])
  BY <1>4, EmptySeq
<1> QED
  BY <1>2, <1>5, BroadcastHonest

LEMMA DownHonest ==
    ASSUME TypeOKSync, Discipline, Contents, [Next]_vars, NEW t \in Socket, NEW n \in In(down'[t])
    PROVE  n \in In(down[t]) \/ HonestDown(n, doc'[Host])
<1>1. /\ up \in [Socket -> Seq(Message)] /\ doc \in [Member -> SUBSET Update]
      /\ down \in [Socket -> Seq(Message)] /\ Client \subseteq Member /\ Host \in Member
  BY Owners DEF TypeOKSync
<1>2. CASE down'[t] = down[t]
  BY <1>2
<1>3. CASE HostEdit
  <2>1. PICK u \in NextOf(Host) : HostApplies({u})
    BY <1>3 DEF HostEdit
  <2>2. {u} \in SUBSET Update
    BY <1>1, NextOfUpdates
  <2> QED
    BY <2>1, <2>2, AppliesHonest
<1>4. ASSUME NEW s \in Socket, Receive(s) \/ Closed(s)
      PROVE  n \in In(down[t]) \/ HonestDown(n, doc'[Host])
  <2>1. CASE Receive(s)
    <3>1. down[s] # << >> /\ down' = [down EXCEPT ![s] = Tail(down[s])]
      BY <2>1, Received
    <3>2. In(Tail(down[s])) \subseteq In(down[s])
      BY <1>1, <3>1, InLines
    <3> QED
      BY <1>1, <3>1, <3>2
  <2>2. CASE Closed(s)
    <3>1. down' = [down EXCEPT ![s] = << >>]
      BY <2>2, ClosedStep
    <3>2. In(<< >>) = {}
      BY DEF In
    <3> QED
      BY <1>1, <3>1, <3>2
  <2> QED
    BY <1>4, <2>1, <2>2
<1>5. ASSUME NEW s \in Socket, HearsQuestion(s)
      PROVE  n \in In(down[t]) \/ HonestDown(n, doc'[Host])
  <2> DEFINE c == s[1]
             m == Head(up[s])
             answer == Msg("step2", c, Missing(Host, m.body))
             ask == Msg("step1", c, Visible(doc[Host]))
             q == Append(IF m.kind = "init" THEN <<ask>> ELSE << >>, answer)
  <2>1. /\ q \in Seq(Message) /\ Broadcast(q) /\ c \in Client
        /\ \/ Len(q) = 2 /\ q[1] = ask /\ q[2] = answer
           \/ Len(q) = 1 /\ q[1] = answer
    BY <1>5, Questioned
  <2>2. doc' = doc
    BY <1>5 DEF HearsQuestion
  <2>3. /\ Missing(Host, m.body) \subseteq doc[Host] /\ Visible(doc[Host]) \subseteq doc[Host]
        /\ doc[Host] \subseteq Update
    BY <1>1 DEF Missing, Visible
  <2>4. HonestDown(answer, doc'[Host]) /\ HonestDown(ask, doc'[Host])
    <3>1. /\ answer.body = Missing(Host, m.body) /\ answer.states = {}
          /\ ask.body = Visible(doc[Host]) /\ ask.states = {}
      BY DEF Msg
    <3> QED
      BY <2>2, <2>3, <3>1 DEF HonestDown
  <2> HIDE DEF answer, ask, q
  <2>5. \A k \in 1..Len(q) : HonestDown(q[k], doc'[Host])
    BY <2>1, <2>4
  <2> QED
    BY <2>1, <2>5, BroadcastHonest
<1>6. ASSUME NEW s \in Socket, HearsUpdate(s)
      PROVE  n \in In(down[t]) \/ HonestDown(n, doc'[Host])
  BY <1>6, TakesHead, AppliesHonest DEF HearsUpdate
<1>7. ASSUME NEW s \in Socket, HearsPresence(s)
      PROVE  n \in In(down[t]) \/ HonestDown(n, doc'[Host])
  <2> DEFINE E == News(Host, Head(up[s]).states)
             q == IF E = {} THEN << >> ELSE <<Presence(E)>>
  <2>1. Broadcast(q) /\ Takes(s)
    BY <1>7 DEF HearsPresence
  <2>2. /\ up[s] # << >> /\ Head(up[s]).states \in SUBSET Entry
        /\ Head(up[s]) \in In(up[s])
    BY <1>1, <2>1, TakesHead, InLines
  <2>3. E \in SUBSET Entry /\ \A e \in E : e.here
    BY <2>2 DEF News, Contents, HonestUp
  <2> HIDE DEF E
  <2>4. Presence(E) \in Message /\ HonestDown(Presence(E), doc'[Host])
    BY <2>3, Messages DEF HonestDown
  <2>5. q \in Seq(Message) /\ \A k \in 1..Len(q) : HonestDown(q[k], doc'[Host])
    BY <2>4, EmptySeq
  <2> QED
    BY <2>1, <2>5, BroadcastHonest
<1>8. CASE \/ HostListens \/ UNCHANGED vars \/ \E c \in Client : ClientStep(c)
           \/ \E s \in Socket : Open(s) \/ Joins(s) \/ Lost(s)
  <2>1. down' = down
    BY <1>8 DEF HostListens, vars, ClientStep, Start, Fetched, Stop, Edit, Touch, Resync, Open, Joins, Lost
  <2> QED
    BY <1>2, <2>1
<1> QED
  BY <1>3, <1>4, <1>5, <1>6, <1>7, <1>8 DEF Next, HostStep, SocketStep, Hears

LEMMA InitContents == Init => Contents
<1>1. In(<< >>) = {}
  BY DEF In
<1> QED
  BY <1>1 DEF Init, Contents

LEMMA StepContents == TypeOKSync /\ Discipline /\ Contents /\ [Next]_vars => Contents'
<1> SUFFICES ASSUME TypeOKSync, Discipline, Contents, [Next]_vars PROVE Contents'
  OBVIOUS
<1>1. \A p \in Member : doc[p] \subseteq doc'[p]
  BY DocsGrow
<1>2. ASSUME NEW t \in Socket, NEW n \in In(up'[t]) PROVE HonestUp(n, doc'[t[1]])
  <2>1. HonestUp(n, doc[t[1]])
    BY <1>2, UpHonest DEF Contents
  <2> QED
    BY <1>1, <2>1, Owners DEF HonestUp
<1>3. ASSUME NEW t \in Socket, NEW n \in In(down'[t]) PROVE HonestDown(n, doc'[Host])
  <2>1. HonestDown(n, doc[Host]) \/ HonestDown(n, doc'[Host])
    BY <1>3, DownHonest DEF Contents
  <2> QED
    BY <1>1, <2>1, Owners DEF HonestDown
<1> QED
  BY <1>2, <1>3 DEF Contents, In

LEMMA StepPresence ==
    ASSUME TypeOKSync, Contents, [Next]_vars, NEW d \in Client, aware[Host][d].here
    PROVE  aware'[Host][d].here
<1>1. /\ aware \in [Member -> [Client -> [clock : Nat, here : BOOLEAN]]]
      /\ up \in [Socket -> Seq(Message)] /\ down \in [Socket -> Seq(Message)]
      /\ Host \in Member /\ Host \notin Client /\ Client \subseteq Member
      /\ \A s \in Socket : s[1] \in Client
  BY Owners DEF TypeOKSync
<1>2. CASE aware'[Host] = aware[Host]
  BY <1>2
<1>3. ASSUME NEW s \in Socket, HearsPresence(s) PROVE aware'[Host][d].here
  <2> DEFINE E == Head(up[s]).states
  <2>1. Takes(s) /\ Learn(Host, E)
    BY <1>3 DEF HearsPresence
  <2>2. up[s] # << >> /\ E \in SUBSET Entry /\ Head(up[s]) \in In(up[s])
    BY <1>1, <2>1, TakesHead, InLines
  <2>3. \A e \in E : e.here
    BY <2>2 DEF Contents, HonestUp
  <2> HIDE DEF E
  <2>4. Host \in Member /\ E \in SUBSET Entry /\ Learn(Host, E)
    BY <1>1, <2>1, <2>2
  <2>5. \A x \in Client :
          aware'[Host][x] = aware[Host][x] \/ \E e \in E : aware'[Host][x].here = e.here
    BY <2>4, Learned
  <2> QED
    BY <2>3, <2>5
<1>4. ASSUME NEW s \in Socket, Receive(s) \/ Closed(s) PROVE aware'[Host][d].here
  <2>1. CASE Receive(s)
    <3>1. aware' = aware \/ Learn(s[1], Head(down[s]).states)
      BY <2>1, Received
    <3>2. aware'[Host] = aware[Host]
      BY <1>1, <3>1 DEF Learn
    <3> QED
      BY <1>2, <3>2
  <2>2. CASE Closed(s)
    <3>1. aware'[Host] = aware[Host]
      BY <1>1, <2>2, ClosedStep
    <3> QED
      BY <1>2, <3>1
  <2> QED
    BY <1>4, <2>1, <2>2
<1>5. ASSUME NEW c \in Client, Touch(c) PROVE aware'[Host][d].here
  <2>1. aware'[Host] = aware[Host]
    BY <1>1, <1>5 DEF Touch
  <2> QED
    BY <1>2, <2>1
<1>6. CASE \/ HostStep \/ UNCHANGED vars
           \/ \E c \in Client : Start(c) \/ Fetched(c) \/ Stop(c) \/ Edit(c) \/ Resync(c)
           \/ \E s \in Socket : Open(s) \/ Joins(s) \/ Lost(s) \/ HearsQuestion(s) \/ HearsUpdate(s)
  <2>1. aware' = aware
    BY <1>6 DEF HostStep, HostListens, HostEdit, vars, Start, Fetched, Stop, Edit, Resync,
                Open, Joins, Lost, HearsQuestion, HearsUpdate
  <2> QED
    BY <1>2, <2>1
<1> QED
  BY <1>3, <1>4, <1>5, <1>6 DEF Next, ClientStep, SocketStep, Hears

\* PresenceSurvivesOthers: no step takes the presence of a client from the
\* host, because nothing that says so is ever on the way (the onclose of the
\* client, whose removal is sent through the getter it has emptied).
THEOREM PresenceKept == Spec => PresenceSurvivesOthers
<1>1. Init => TypeOKSync /\ Discipline /\ Contents
  BY InitTyped, InitWell, InitContents
<1>2. TypeOKSync /\ Discipline /\ Contents /\ [Next]_vars => (TypeOKSync /\ Discipline /\ Contents)'
  BY StepTyped, StepWell, StepContents
<1>3. TypeOKSync /\ Discipline /\ Contents /\ [Next]_vars
        => [\A d \in Client : aware[Host][d].here => aware'[Host][d].here]_vars
  BY StepPresence
<1> QED
  BY <1>1, <1>2, <1>3, PTL DEF Spec, PresenceSurvivesOthers

-----------------------------------------------------------------------------
(* What clients were promised.                                             *)

\* What of V is in D or brought to c by q from i on.
Reaches(V, D, c, q, i) ==
    \A u \in V : u \in D \/ \E j \in i..Len(q) : Brings(q[j], c) /\ u \in q[j].body

\* SyncedMeansComplete, and what it rests on: an answer on its way, with what
\* follows it, completes the client it is for.
Promise ==
    /\ \A s \in Socket : \A i \in 1..Len(down[s]) :
          down[s][i].kind = "step2" /\ down[s][i].to \in {Host, s[1]}
            => Reaches(Visible(doc[Host]), doc[s[1]], s[1], down[s], i)
    /\ \A c \in Client : synced[c] /\ c \notin raced =>
          ws[c] # NoSocket /\ Reaches(Visible(doc[Host]), doc[c], c, down[ws[c]], 1)

LEMMA Promised == ASSUME TypeOKSync, Promise PROVE AnswersComplete /\ SyncedMeansComplete
<1>1. \A c, q, i : Reaches(Visible(doc[Host]), doc[c], c, q, i) => Covered(c, q, i)
  BY DEF Reaches, Covered
<1>2. \A s \in Socket : DOMAIN down[s] = 1..Len(down[s])
  BY LenProperties DEF TypeOKSync
<1> QED
  BY <1>1, <1>2 DEF Promise, AnswersComplete, SyncedMeansComplete

LEMMA ReachMore ==
    ASSUME NEW V, NEW W, NEW D, NEW E, NEW c, NEW q, NEW i,
           Reaches(V, D, c, q, i), W \subseteq V, D \subseteq E
    PROVE  Reaches(W, E, c, q, i)
BY DEF Reaches

\* The line got r behind it, which brings whatever is new in V.
LEMMA ReachBehind ==
    ASSUME NEW q \in Seq(Message), NEW r \in Seq(Message), NEW i \in 1..(Len(q) + 1),
           NEW V, NEW W, NEW D, NEW E, NEW c, Reaches(V, D, c, q, i), D \subseteq E,
           \A u \in W \ V : u \in E \/ \E k \in 1..Len(r) : Brings(r[k], c) /\ u \in r[k].body
    PROVE  Reaches(W, E, c, q \o r, i)
<1> SUFFICES ASSUME NEW u \in W, u \notin E
             PROVE  \E j \in i..Len(q \o r) : Brings((q \o r)[j], c) /\ u \in (q \o r)[j].body
  BY DEF Reaches
<1>1. Len(q) \in Nat /\ Len(r) \in Nat /\ Len(q \o r) = Len(q) + Len(r)
  BY Behind, LenProperties
<1>2. CASE u \in V
  <2>1. PICK j \in i..Len(q) : Brings(q[j], c) /\ u \in q[j].body
    BY <1>2 DEF Reaches
  <2>2. j \in 1..Len(q) /\ j \in i..Len(q \o r)
    BY <1>1
  <2>3. (q \o r)[j] = q[j]
    BY <2>2, Behind
  <2> QED
    BY <2>1, <2>2, <2>3
<1>3. CASE u \notin V
  <2>1. PICK k \in 1..Len(r) : Brings(r[k], c) /\ u \in r[k].body
    BY <1>3
  <2>2. Len(q) + k \in i..Len(q \o r) /\ (q \o r)[Len(q) + k] = r[k]
    BY <1>1, Behind
  <2> QED
    BY <2>1, <2>2
<1> QED
  BY <1>2, <1>3

\* The line lost its head, which was before i, or whose updates were taken.
LEMMA ReachTail ==
    ASSUME NEW q \in Seq(Message), q # << >>, NEW i \in Nat \ {0}, NEW k \in {i, i + 1},
           NEW V, NEW D, NEW E, NEW c, Reaches(V, D, c, q, k), D \subseteq E,
           k = i + 1 \/ (i = 1 /\ (Brings(Head(q), c) => Head(q).body \subseteq E))
    PROVE  Reaches(V, E, c, Tail(q), i)
<1> SUFFICES ASSUME NEW u \in V, u \notin E
             PROVE  \E j \in i..Len(Tail(q)) : Brings(Tail(q)[j], c) /\ u \in Tail(q)[j].body
  BY DEF Reaches
<1>1. PICK j \in k..Len(q) : Brings(q[j], c) /\ u \in q[j].body
  BY DEF Reaches
<1>2. /\ Head(q) = q[1] /\ Len(q) \in Nat /\ Len(Tail(q)) = Len(q) - 1
      /\ \A l \in 1..(Len(q) - 1) : Tail(q)[l] = q[l + 1]
  BY Popped
<1>3. j # 1 \/ k = i + 1
  BY <1>1, <1>2
<1>4. j - 1 \in i..Len(Tail(q)) /\ j - 1 \in 1..(Len(q) - 1) /\ (j - 1) + 1 = j
  BY <1>2, <1>3
<1>5. Tail(q)[j - 1] = q[j]
  BY <1>2, <1>4
<1> QED
  BY <1>1, <1>4, <1>5

\* The members' steps that leave the lines to the clients alone.
LEMMA PromiseQuiet ==
    ASSUME TypeOKSync, Promise, UNCHANGED <<down, ws, synced, raced>>,
           \A p \in Member : doc[p] \subseteq doc'[p], Visible(doc'[Host]) \subseteq Visible(doc[Host])
    PROVE  Promise'
<1>1. \A s \in Socket : s[1] \in Client /\ s[1] \in Member
  BY Owners
<1>2. ASSUME NEW s \in Socket, NEW i \in 1..Len(down[s]),
             down[s][i].kind = "step2", down[s][i].to \in {Host, s[1]}
      PROVE  Reaches(Visible(doc'[Host]), doc'[s[1]], s[1], down[s], i)
  <2>1. Reaches(Visible(doc[Host]), doc[s[1]], s[1], down[s], i)
    BY <1>2 DEF Promise
  <2> QED
    BY <1>1, <2>1, ReachMore
<1>3. ASSUME NEW c \in Client, synced[c], c \notin raced
      PROVE  ws[c] # NoSocket /\ Reaches(Visible(doc'[Host]), doc'[c], c, down[ws[c]], 1)
  <2>1. ws[c] # NoSocket /\ Reaches(Visible(doc[Host]), doc[c], c, down[ws[c]], 1)
    BY <1>3 DEF Promise
  <2> QED
    BY <2>1, ReachMore, Owners
<1> QED
  BY <1>2, <1>3 DEF Promise

\* The host sends r to the group: it brings whatever is new, and completes
\* those it answers.
LEMMA PromiseSent ==
    ASSUME TypeOKSync, Discipline, Promise, UNCHANGED <<ws, synced, raced>>,
           \A p \in Member : doc[p] \subseteq doc'[p], NEW r \in Seq(Message),
           \A s \in Socket : down'[s] = IF hosting /\ s \in joined THEN down[s] \o r ELSE down[s],
           \A u \in Visible(doc'[Host]) \ Visible(doc[Host]) : \A c \in Client :
              \E k \in 1..Len(r) : Brings(r[k], c) /\ u \in r[k].body,
           \A k \in 1..Len(r) : \A c \in Client :
              r[k].kind = "step2" /\ r[k].to \in {Host, c} =>
                 \A u \in Visible(doc'[Host]) : u \in doc'[c] \/ u \in r[k].body
    PROVE  Promise'
<1> DEFINE V == Visible(doc[Host])
           W == Visible(doc'[Host])
<1>1. /\ \A s \in Socket : s[1] \in Client /\ s[1] \in Member /\ s # NoSocket
      /\ down \in [Socket -> Seq(Message)] /\ ws \in [Client -> Socket \cup {NoSocket}]
  BY Owners DEF TypeOKSync
<1>2. \A c \in Client : \A u \in W \ V : \E k \in 1..Len(r) : Brings(r[k], c) /\ u \in r[k].body
  OBVIOUS
<1>3. \A c \in Client : \A k \in 1..Len(r) : r[k].kind = "step2" /\ r[k].to \in {Host, c} =>
         \A u \in W : u \in doc'[c] \/ u \in r[k].body
  OBVIOUS
<1>4. Client \subseteq Member
  BY Owners
<1> HIDE DEF V, W
<1>5. ASSUME NEW s \in Socket, NEW i \in 1..Len(down'[s]),
             down'[s][i].kind = "step2", down'[s][i].to \in {Host, s[1]}
      PROVE  Reaches(W, doc'[s[1]], s[1], down'[s], i)
  <2> DEFINE q == down[s]
             c == s[1]
  <2>1. q \in Seq(Message) /\ c \in Client
    BY <1>1
  <2>2. CASE hosting /\ s \in joined
    <3>1. down'[s] = q \o r
      BY <2>2
    <3>2. CASE i \in 1..Len(q)
      <4>1. (q \o r)[i] = q[i]
        BY <2>1, <3>2, Behind
      <4>2. Reaches(V, doc[c], c, q, i)
        BY <1>5, <3>1, <3>2, <4>1 DEF Promise, V
      <4>3. i \in 1..(Len(q) + 1)
        BY <2>1, <3>2, LenProperties
      <4>4. doc[c] \subseteq doc'[c]
        BY <1>4, <2>1
      <4> HIDE DEF q, c
      <4>5. Reaches(W, doc'[c], c, q \o r, i)
        BY <1>2, <2>1, <4>2, <4>3, <4>4, ReachBehind
      <4> QED
        BY <3>1, <4>5 DEF q, c
    <3>3. CASE \E k \in 1..Len(r) : i = Len(q) + k
      <4>1. PICK k \in 1..Len(r) : i = Len(q) + k
        BY <3>3
      <4>2. (q \o r)[i] = r[k]
        BY <2>1, <4>1, Behind
      <4>3. r[k].kind = "step2" /\ r[k].to \in {Host, c}
        BY <1>5, <3>1, <4>2
      <4>4. \A u \in W : u \in doc'[c] \/ u \in r[k].body
        BY <1>3, <2>1, <4>3
      <4>5. Brings((q \o r)[i], c) /\ i \in i..Len(q \o r)
        <5>1. i \in 1..Len(q \o r)
          BY <1>5, <3>1
        <5>2. i \in i..Len(q \o r)
          BY <5>1, <2>1, Behind, LenProperties
        <5> QED
          BY <4>2, <4>3, <5>2 DEF Brings, Carries
      <4> QED
        BY <3>1, <4>2, <4>4, <4>5 DEF Reaches
    <3> QED
      BY <1>5, <2>1, <3>1, <3>2, <3>3, Behind
  <2>3. CASE ~(hosting /\ s \in joined)
    <3>1. down'[s] = << >>
      BY <2>3 DEF Discipline, Delivered
    <3> QED
      BY <1>5, <3>1
  <2> QED
    BY <2>2, <2>3
<1>6. ASSUME NEW c \in Client, synced[c], c \notin raced
      PROVE  ws[c] # NoSocket /\ Reaches(W, doc'[c], c, down'[ws[c]], 1)
  <2>1. ws[c] # NoSocket /\ Reaches(V, doc[c], c, down[ws[c]], 1)
    BY <1>6 DEF Promise, V
  <2>2. hosting /\ ws[c] \in joined
    BY <1>6 DEF Discipline, SyncedIsJoined
  <2>3. ws[c] \in Socket /\ down[ws[c]] \in Seq(Message)
    BY <1>1, <2>1
  <2>4. down'[ws[c]] = down[ws[c]] \o r
    BY <2>2, <2>3
  <2>5. doc[c] \subseteq doc'[c] /\ 1 \in 1..(Len(down[ws[c]]) + 1)
    BY <1>4, <2>3, LenProperties
  <2>6. Reaches(W, doc'[c], c, down[ws[c]] \o r, 1)
    BY <1>2, <2>1, <2>3, <2>5, ReachBehind
  <2> QED
    BY <2>1, <2>4, <2>6
<1> QED
  BY <1>5, <1>6 DEF Promise, W

LEMMA PromiseApplies ==
    ASSUME TypeOKSync, Discipline, Promise, NEW P \in SUBSET Update, HostApplies(P),
           UNCHANGED <<ws, synced, raced>>
    PROVE  Promise'
<1> DEFINE after == doc[Host] \cup P
           fresh == Visible(after) \ Visible(doc[Host])
           m == Msg("update", Host, fresh)
<1>1. /\ doc' = [doc EXCEPT ![Host] = after] /\ doc \in [Member -> SUBSET Update]
      /\ Host \in Member /\ Client \subseteq Member
      /\ \/ fresh = {} /\ down' = down
         \/ m \in Message /\ \A s \in Socket :
              down'[s] = IF hosting /\ s \in joined THEN down[s] \o <<m>> ELSE down[s]
  BY HostAppliesTo, Owners DEF TypeOKSync
<1>2. /\ doc'[Host] = after
      /\ \A p \in Member : doc[p] \subseteq doc'[p]
  BY <1>1
<1>3. CASE fresh = {} /\ down' = down
  <2>1. Visible(doc'[Host]) \subseteq Visible(doc[Host])
    BY <1>2, <1>3
  <2> QED
    BY <1>2, <1>3, <2>1, PromiseQuiet
<1>4. CASE m \in Message /\ \A s \in Socket :
             down'[s] = IF hosting /\ s \in joined THEN down[s] \o <<m>> ELSE down[s]
  <2> DEFINE r == <<m>>
  <2>1. r \in Seq(Message) /\ Len(r) = 1 /\ r[1] = m
    BY <1>4
  <2>2. m.kind = "update" /\ m.to = Host /\ m.body = fresh
    BY DEF Msg
  <2>3. Visible(doc'[Host]) \ Visible(doc[Host]) = fresh
    BY <1>2
  <2> HIDE DEF m, fresh
  <2>4. \A c \in Client : Brings(r[1], c)
    BY <2>1, <2>2 DEF Brings, Carries
  <2>5. \A s \in Socket : down'[s] = IF hosting /\ s \in joined THEN down[s] \o r ELSE down[s]
    BY <1>4
  <2> HIDE DEF r
  <2>6. \A u \in Visible(doc'[Host]) \ Visible(doc[Host]) : \A c \in Client :
          \E k \in 1..Len(r) : Brings(r[k], c) /\ u \in r[k].body
    <3> SUFFICES ASSUME NEW u \in fresh, NEW c \in Client
                 PROVE  \E k \in 1..Len(r) : Brings(r[k], c) /\ u \in r[k].body
      BY <2>3
    <3>1. 1 \in 1..Len(r) /\ Brings(r[1], c) /\ u \in r[1].body
      BY <2>1, <2>2, <2>4
    <3> QED
      BY <3>1
  <2>7. \A k \in 1..Len(r) : \A c \in Client :
          r[k].kind = "step2" /\ r[k].to \in {Host, c} =>
             \A u \in Visible(doc'[Host]) : u \in doc'[c] \/ u \in r[k].body
    <3>1. \A k \in 1..Len(r) : r[k].kind = "update"
      BY <2>1, <2>2
    <3> QED
      BY <3>1
  <2> QED
    BY <1>2, <2>1, <2>5, <2>6, <2>7, PromiseSent
<1> QED
  BY <1>1, <1>3, <1>4

LEMMA PromiseAnswers ==
    ASSUME TypeOKSync, Discipline, Contents, Promise, NEW s \in Socket, HearsQuestion(s)
    PROVE  Promise'
<1> DEFINE c == s[1]
           m == Head(up[s])
           answer == Msg("step2", c, Missing(Host, m.body))
           ask == Msg("step1", c, Visible(doc[Host]))
           q == Append(IF m.kind = "init" THEN <<ask>> ELSE << >>, answer)
<1>1. /\ q \in Seq(Message) /\ Broadcast(q) /\ c \in Client /\ m.kind \in {"init", "step1"}
      /\ \/ Len(q) = 2 /\ q[1] = ask /\ q[2] = answer
         \/ Len(q) = 1 /\ q[1] = answer
  BY Questioned
<1>2. /\ UNCHANGED <<doc, ws, synced, raced>> /\ up[s] # << >>
  BY DEF HearsQuestion, clientVars, Takes
<1>3. m \in In(up[s])
  BY <1>2, InLines DEF TypeOKSync
<1>4. m.body \subseteq doc[c]
  BY <1>1, <1>3 DEF Contents, HonestUp
<1>5. /\ answer.kind = "step2" /\ answer.to = c /\ answer.body = doc[Host] \ m.body
      /\ ask.kind = "step1"
  BY DEF Msg, Missing
<1> HIDE DEF answer, ask, q, m
<1>6. \A k \in 1..Len(q) : \A d \in Client :
        q[k].kind = "step2" /\ q[k].to \in {Host, d} =>
           \A u \in Visible(doc'[Host]) : u \in doc'[d] \/ u \in q[k].body
  <2> SUFFICES ASSUME NEW k \in 1..Len(q), NEW d \in Client, q[k].kind = "step2", q[k].to \in {Host, d},
                      NEW u \in Visible(doc[Host])
               PROVE  u \in doc[d] \/ u \in q[k].body
    BY <1>2
  <2>1. q[k] = answer
    BY <1>1, <1>5
  <2>2. d = c
    BY <1>1, <1>5, <2>1, Owners
  <2>3. u \in doc[Host]
    BY DEF Visible
  <2> QED
    BY <1>4, <1>5, <2>1, <2>2, <2>3
<1>7. \A t \in Socket : down'[t] = IF hosting /\ t \in joined THEN down[t] \o q ELSE down[t]
  BY <1>1, BroadcastTo
<1>8. \A u \in Visible(doc'[Host]) \ Visible(doc[Host]) : \A d \in Client :
        \E k \in 1..Len(q) : Brings(q[k], d) /\ u \in q[k].body
  BY <1>2
<1> QED
  BY <1>1, <1>2, <1>6, <1>7, <1>8, PromiseSent

LEMMA PromisePresence ==
    ASSUME TypeOKSync, Discipline, Promise, NEW s \in Socket, HearsPresence(s)
    PROVE  Promise'
<1> DEFINE E == News(Host, Head(up[s]).states)
           q == IF E = {} THEN << >> ELSE <<Presence(E)>>
<1>1. Broadcast(q) /\ Takes(s) /\ UNCHANGED <<doc, ws, synced, raced>>
  BY DEF HearsPresence, clientVars
<1>2. E \in SUBSET Entry
  BY <1>1, TakesHead DEF News
<1>3. Presence(E) \in Message /\ Presence(E).kind = "presence"
  BY <1>2, Messages
<1> HIDE DEF E
<1>4. q \in Seq(Message) /\ \A k \in 1..Len(q) : q[k].kind = "presence"
  BY <1>3, EmptySeq
<1> HIDE DEF q
<1>5. \A t \in Socket : down'[t] = IF hosting /\ t \in joined THEN down[t] \o q ELSE down[t]
  BY <1>1, <1>4, BroadcastTo
<1>6. \A k \in 1..Len(q) : \A d \in Client :
        q[k].kind = "step2" /\ q[k].to \in {Host, d} =>
           \A u \in Visible(doc'[Host]) : u \in doc'[d] \/ u \in q[k].body
  BY <1>4
<1>7. \A u \in Visible(doc'[Host]) \ Visible(doc[Host]) : \A d \in Client :
        \E k \in 1..Len(q) : Brings(q[k], d) /\ u \in q[k].body
  BY <1>1
<1> QED
  BY <1>1, <1>4, <1>5, <1>6, <1>7, PromiseSent

LEMMA PromiseFetched ==
    ASSUME TypeOKSync, Discipline, Promise, NEW c \in Client, Fetched(c)
    PROVE  Promise'
<1>1. PICK s \in Socket : ws' = [ws EXCEPT ![c] = s]
  BY NewSocket
<1>2. /\ synced' = [synced EXCEPT ![c] = FALSE] /\ raced' = IF ws[c] = NoSocket THEN raced ELSE raced \cup {c}
      /\ UNCHANGED <<doc, down>>
  BY NewSocket
<1>3. /\ ~synced'[c]
      /\ \A d \in Client \ {c} : synced'[d] = synced[d] /\ ws'[d] = ws[d]
      /\ \A d \in Client \ {c} : d \in raced' <=> d \in raced
  BY <1>1, <1>2 DEF TypeOKSync
<1>4. \A d \in Client : synced'[d] /\ d \notin raced' => synced[d] /\ d \notin raced /\ ws'[d] = ws[d]
  <2> SUFFICES ASSUME NEW d \in Client, synced'[d], d \notin raced'
               PROVE  synced[d] /\ d \notin raced /\ ws'[d] = ws[d]
    OBVIOUS
  <2>1. d \in Client \ {c}
    BY <1>3
  <2> QED
    BY <1>3, <2>1
<1> QED
  BY <1>2, <1>4 DEF Promise

LEMMA PromiseClosed ==
    ASSUME TypeOKSync, Discipline, Promise, NEW s \in Socket, Closed(s)
    PROVE  Promise'
<1> DEFINE c == s[1]
<1>1. /\ c \in Client /\ ws' = [ws EXCEPT ![c] = NoSocket] /\ down' = [down EXCEPT ![s] = << >>]
      /\ \A d \in Client \ {c} : synced'[d] = synced[d]
      /\ synced'[c] => synced[c] /\ ~connected[c]
      /\ UNCHANGED <<doc, raced>>
  BY ClosedStep
<1>2. /\ down \in [Socket -> Seq(Message)] /\ ws \in [Client -> Socket \cup {NoSocket}]
      /\ \A d \in Client : ws[d] # NoSocket => ws[d] \in Socket /\ ws[d][1] = d
  BY DEF TypeOKSync, Discipline, OneSocket
<1>3. /\ \A t \in Socket \ {s} : down'[t] = down[t]
      /\ Len(down'[s]) = 0
  BY <1>1, <1>2
<1>4. \A d \in Client : synced'[d] /\ d \notin raced => d # c
  BY <1>1 DEF Discipline, SyncedIsJoined
<1>5. ASSUME NEW d \in Client, synced'[d], d \notin raced'
      PROVE  ws'[d] # NoSocket /\ Reaches(Visible(doc'[Host]), doc'[d], d, down'[ws'[d]], 1)
  <2>1. d # c /\ synced[d] /\ d \notin raced
    BY <1>1, <1>4, <1>5
  <2>2. ws[d] # NoSocket /\ Reaches(Visible(doc[Host]), doc[d], d, down[ws[d]], 1)
    BY <2>1 DEF Promise
  <2>3. ws'[d] = ws[d] /\ ws[d] \in Socket \ {s}
    BY <1>1, <1>2, <2>1, <2>2
  <2>4. down'[ws[d]] = down[ws[d]]
    BY <1>3, <2>3
  <2> QED
    BY <1>1, <2>2, <2>3, <2>4
<1>6. ASSUME NEW t \in Socket, NEW i \in 1..Len(down'[t]),
             down'[t][i].kind = "step2", down'[t][i].to \in {Host, t[1]}
      PROVE  Reaches(Visible(doc'[Host]), doc'[t[1]], t[1], down'[t], i)
  <2>1. t # s /\ down'[t] = down[t]
    BY <1>3, <1>6
  <2> QED
    BY <1>1, <1>6, <2>1 DEF Promise
<1> QED
  BY <1>5, <1>6 DEF Promise

LEMMA PromiseReceive ==
    ASSUME TypeOKSync, Discipline, Promise, NEW s \in Socket, Receive(s)
    PROVE  Promise'
<1> DEFINE c == s[1]
           m == Head(down[s])
           V == Visible(doc[Host])
<1>1. /\ sock[s] = "open" /\ down[s] # << >> /\ c \in Client /\ m = down[s][1] /\ m \in Message
      /\ down' = [down EXCEPT ![s] = Tail(down[s])]
      /\ doc' = IF m.to \in {Host, c} /\ m.kind \in {"step2", "update"}
                  THEN [doc EXCEPT ![c] = doc[c] \cup m.body] ELSE doc
      /\ synced' = [synced EXCEPT ![c] = synced[c] \/ (m.to \in {Host, c} /\ m.kind = "step2")]
  BY Received
<1>2. /\ down \in [Socket -> Seq(Message)] /\ doc \in [Member -> SUBSET Update]
      /\ synced \in [Client -> BOOLEAN] /\ Client \subseteq Member /\ Host \in Member /\ Host \notin Client
      /\ \A t \in Socket : t[1] \in Client
  BY Owners DEF TypeOKSync
<1>3. UNCHANGED <<ws, raced>>
  BY DEF Receive
<1>4. /\ doc'[Host] = doc[Host] /\ \A p \in Member : doc[p] \subseteq doc'[p]
      /\ Brings(m, c) => m.body \subseteq doc'[c]
  BY <1>1, <1>2 DEF Brings, Carries
<1>5. /\ \A t \in Socket \ {s} : down'[t] = down[t]
      /\ down'[s] = Tail(down[s])
      /\ \A d \in Client \ {c} : synced'[d] = synced[d]
  BY <1>1, <1>2
<1>6. synced'[c] => synced[c] \/ (m.to \in {Host, c} /\ m.kind = "step2")
  BY <1>1, <1>2, Zenon
<1>7. /\ Len(down[s]) \in Nat /\ Len(down[s]) >= 1 /\ Len(Tail(down[s])) = Len(down[s]) - 1
      /\ \A i \in 1..(Len(down[s]) - 1) : Tail(down[s])[i] = down[s][i + 1]
  BY <1>1, <1>2, Popped
<1> HIDE DEF m
<1>8. ASSUME NEW t \in Socket, NEW i \in 1..Len(down'[t]),
             down'[t][i].kind = "step2", down'[t][i].to \in {Host, t[1]}
      PROVE  Reaches(V, doc'[t[1]], t[1], down'[t], i)
  <2>1. CASE t = s
    <3>0. Len(down'[t]) = Len(down[s]) - 1
      BY <1>5, <1>7, <2>1
    <3>1. /\ i \in 1..(Len(down[s]) - 1) /\ i + 1 \in 1..Len(down[s]) /\ i \in Nat \ {0}
          /\ i + 1 \in {i, i + 1}
      BY <1>7, <1>8, <3>0
    <3>2. down'[s][i] = down[s][i + 1]
      BY <1>5, <1>7, <3>1
    <3>3. Reaches(V, doc[c], c, down[s], i + 1)
      BY <1>8, <2>1, <3>1, <3>2 DEF Promise
    <3>4. down[s] \in Seq(Message) /\ doc[c] \subseteq doc'[c]
      BY <1>1, <1>2, <1>4
    <3>5. Reaches(V, doc'[c], c, Tail(down[s]), i)
      BY <1>1, <3>1, <3>3, <3>4, ReachTail
    <3> QED
      BY <1>5, <2>1, <3>5
  <2>2. CASE t # s
    <3>1. down'[t] = down[t]
      BY <1>5, <2>2
    <3>2. Reaches(V, doc[t[1]], t[1], down[t], i)
      BY <1>8, <3>1 DEF Promise
    <3>3. doc[t[1]] \subseteq doc'[t[1]]
      BY <1>2, <1>4
    <3> QED
      BY <3>1, <3>2, <3>3, ReachMore
  <2> QED
    BY <2>1, <2>2
<1>9. ASSUME NEW d \in Client, synced'[d], d \notin raced
      PROVE  ws[d] # NoSocket /\ Reaches(V, doc'[d], d, down'[ws[d]], 1)
  <2>1. CASE d = c
    <3>1. ws[c] = s
      BY <1>1, <1>9, <2>1 DEF Discipline, OneSocket
    <3>2. Reaches(V, doc[c], c, down[s], 1)
      <4>1. CASE synced[c]
        BY <1>9, <2>1, <3>1, <4>1 DEF Promise
      <4>2. CASE m.to \in {Host, c} /\ m.kind = "step2"
        <5>1. 1 \in 1..Len(down[s])
          BY <1>7
        <5> QED
          BY <1>1, <4>2, <5>1 DEF Promise
      <4> QED
        BY <1>6, <1>9, <2>1, <4>1, <4>2
    <3>3. down[s] \in Seq(Message) /\ doc[c] \subseteq doc'[c] /\ 1 \in Nat \ {0} /\ 1 \in {1, 1 + 1}
      BY <1>1, <1>2, <1>4
    <3>4. Brings(Head(down[s]), c) => Head(down[s]).body \subseteq doc'[c]
      BY <1>4 DEF m
    <3>5. Reaches(V, doc'[c], c, Tail(down[s]), 1)
      BY <1>1, <3>2, <3>3, <3>4, ReachTail
    <3> QED
      BY <1>1, <1>2, <1>5, <2>1, <3>1, <3>5, Owners
  <2>2. CASE d # c
    <3>1. ws[d] # NoSocket /\ Reaches(V, doc[d], d, down[ws[d]], 1)
      BY <1>5, <1>9, <2>2 DEF Promise
    <3>2. ws[d] \in Socket \ {s}
      BY <2>2, <3>1 DEF TypeOKSync, Discipline, OneSocket
    <3>3. doc[d] \subseteq doc'[d] /\ down'[ws[d]] = down[ws[d]]
      BY <1>2, <1>4, <1>5, <3>2
    <3> QED
      BY <3>1, <3>3, ReachMore
  <2> QED
    BY <2>1, <2>2
<1> QED
  BY <1>3, <1>4, <1>8, <1>9 DEF Promise

LEMMA InitPromise == Init => Promise
BY DEF Init, Promise

LEMMA StepPromise == TypeOKSync /\ Discipline /\ Contents /\ Promise /\ [Next]_vars => Promise'
<1> SUFFICES ASSUME TypeOKSync, Discipline, Contents, Promise, [Next]_vars PROVE Promise'
  OBVIOUS
<1>1. /\ doc \in [Member -> SUBSET Update] /\ \A p \in Member : doc[p] \subseteq doc'[p]
      /\ Host \in Member /\ Host \notin Client
  BY DocsGrow, Owners DEF TypeOKSync
<1>2. CASE HostEdit
  <2>1. PICK u \in NextOf(Host) : HostApplies({u})
    BY <1>2 DEF HostEdit
  <2>2. {u} \in SUBSET Update /\ UNCHANGED <<ws, synced, raced>>
    BY <1>1, <1>2, NextOfUpdates DEF HostEdit, clientVars
  <2> QED
    BY <2>1, <2>2, PromiseApplies
<1>3. ASSUME NEW c \in Client, Edit(c) PROVE Promise'
  <2>1. doc'[Host] = doc[Host] /\ UNCHANGED <<down, ws, synced, raced>>
    BY <1>1, <1>3 DEF Edit, clientVars
  <2>2. Visible(doc'[Host]) \subseteq Visible(doc[Host])
    BY <2>1
  <2> QED
    BY <1>1, <2>1, <2>2, PromiseQuiet
<1>4. ASSUME NEW s \in Socket, HearsUpdate(s) PROVE Promise'
  BY <1>4, TakesHead, PromiseApplies DEF HearsUpdate, clientVars
<1>5. CASE \/ HostListens \/ UNCHANGED vars
           \/ \E c \in Client : Start(c) \/ Stop(c) \/ Touch(c) \/ Resync(c)
           \/ \E s \in Socket : Open(s) \/ Joins(s) \/ Lost(s)
  <2>1. UNCHANGED <<doc, down, ws, synced, raced>>
    BY <1>5 DEF HostListens, vars, Start, Stop, Touch, Resync, Open, Joins, Lost, clientVars
  <2>2. Visible(doc'[Host]) \subseteq Visible(doc[Host])
    BY <2>1
  <2> QED
    BY <1>1, <2>1, <2>2, PromiseQuiet
<1>6. ASSUME NEW s \in Socket, Receive(s) \/ Closed(s) \/ HearsQuestion(s) \/ HearsPresence(s)
      PROVE  Promise'
  BY <1>6, PromiseReceive, PromiseClosed, PromiseAnswers, PromisePresence
<1>7. ASSUME NEW c \in Client, Fetched(c) PROVE Promise'
  BY <1>7, PromiseFetched
<1> QED
  BY <1>2, <1>3, <1>4, <1>5, <1>6, <1>7 DEF Next, HostStep, ClientStep, SocketStep, Hears

LEMMA Honest == ASSUME TypeOKSync, Contents PROVE QuestionsHonest
<1>1. \A s \in Socket : DOMAIN up[s] = 1..Len(up[s])
  BY LenProperties DEF TypeOKSync
<1> QED
  BY <1>1 DEF Contents, HonestUp, In, QuestionsHonest

\* IInvSync, with it SyncedMeansComplete: a client not raced that believes it
\* is synced has or will get everything the host shows, whatever answers,
\* broadcasts and reconnections cross each other (onmessage and onclose of the
\* client, onClientSync and the update handler of the host).
THEOREM SyncedComplete == Spec => []IInvSync
<1> DEFINE IInv == TypeOKSync /\ Discipline /\ Contents /\ Promise
<1>1. Init => IInv
  BY InitTyped, InitWell, InitContents, InitPromise
<1>2. IInv /\ [Next]_vars => IInv'
  BY StepTyped, StepWell, StepContents, StepPromise
<1>3. IInv => IInvSync
  BY Honest, Promised DEF Discipline, IInvSync
<1> QED
  BY <1>1, <1>2, <1>3, PTL DEF Spec

\* SyncedMeansComplete: what the synced event of WebPubSubSyncClient tells its
\* user is true, since the socket is in the group and no answer, broadcast or
\* reconnection leaves out what the host shows.
THEOREM SyncedIsTrue == Spec => []SyncedMeansComplete
<1>1. IInvSync => SyncedMeansComplete
  BY DEF IInvSync
<1> QED
  BY <1>1, SyncedComplete, PTL

-----------------------------------------------------------------------------
(* What the host will know.                                                *)

LEMMA InKept ==
    ASSUME NEW q \in Seq(Message)
    PROVE  /\ \A r \in Seq(Message) : In(q) \cup In(r) \subseteq In(q \o r)
           /\ \A m \in Message : In(q) \cup {m} \subseteq In(Append(q, m))
           /\ q # << >> => In(q) \subseteq In(Tail(q)) \cup {Head(q)}
<1>1. Len(q) \in Nat
  BY LenProperties
<1>2. ASSUME NEW r \in Seq(Message) PROVE In(q) \cup In(r) \subseteq In(q \o r)
  <2>1. Len(r) \in Nat /\ Len(q \o r) = Len(q) + Len(r)
    BY Behind, LenProperties
  <2>2. ASSUME NEW i \in 1..Len(q) PROVE q[i] \in In(q \o r)
    <3>1. i \in 1..Len(q \o r) /\ (q \o r)[i] = q[i]
      BY <1>1, <2>1, Behind
    <3> QED
      BY <3>1 DEF In
  <2>3. ASSUME NEW k \in 1..Len(r) PROVE r[k] \in In(q \o r)
    <3>1. Len(q) + k \in 1..Len(q \o r) /\ (q \o r)[Len(q) + k] = r[k]
      BY <1>1, <2>1, Behind
    <3> QED
      BY <3>1 DEF In
  <2> QED
    BY <2>2, <2>3 DEF In
<1>3. ASSUME NEW m \in Message PROVE In(q) \cup {m} \subseteq In(Append(q, m))
  <2>1. /\ Len(Append(q, m)) = Len(q) + 1 /\ Append(q, m)[Len(q) + 1] = m
        /\ \A i \in 1..Len(q) : Append(q, m)[i] = q[i]
    BY LastIn
  <2>2. /\ Len(q) + 1 \in 1..Len(Append(q, m))
        /\ \A i \in 1..Len(q) : i \in 1..Len(Append(q, m))
    BY <1>1, <2>1
  <2> QED
    BY <2>1, <2>2 DEF In
<1>4. ASSUME q # << >>, NEW i \in 1..Len(q) PROVE q[i] \in In(Tail(q)) \cup {Head(q)}
  <2>1. /\ Head(q) = q[1] /\ Len(Tail(q)) = Len(q) - 1
        /\ \A l \in 1..(Len(q) - 1) : Tail(q)[l] = q[l + 1]
    BY <1>4, Popped
  <2>2. CASE i # 1
    <3>1. i - 1 \in 1..Len(Tail(q)) /\ i - 1 \in 1..(Len(q) - 1) /\ (i - 1) + 1 = i
      BY <1>1, <2>1, <2>2
    <3>2. Tail(q)[i - 1] = q[i]
      BY <2>1, <3>1
    <3> QED
      BY <3>1, <3>2 DEF In
  <2> QED
    BY <2>1, <2>2
<1> QED
  BY <1>2, <1>3, <1>4 DEF In

\* A question for c is in q; what is in D is known or brought by q.
Asked(c, q) == \E m \in In(q) : m.kind = "step1" /\ m.to = c
Told(D, known, q) == \A u \in D : u \in known \/ \E m \in In(q) : Carries(m) /\ u \in m.body

\* The init message of a live socket outside the group is behind its join.
JoinFirst ==
    \A s \in Socket : s \notin joined /\ sock[s] # "closed" =>
        \A i \in 1..Len(up[s]) : up[s][i].kind = "init" =>
            \E j \in 1..(i - 1) : up[s][j].kind = "join"

\* A socket whose init message was handled is in the group, unless it is closed.
HeardJoined ==
    \A s \in heard : hosting /\ (sock[s] = "closed" \/ s \in joined)

Knows ==
    \A c \in Client : ws[c] # NoSocket /\ hosting /\ ws[c] \in heard /\ sock[ws[c]] = "open" =>
        Asked(c, down[ws[c]]) \/ Told(doc[c], doc[Host], up[ws[c]])

LEMMA KnowsAll == ASSUME TypeOKSync, Knows PROVE HostWillKnow
<1> SUFFICES ASSUME NEW c \in Client, ws[c] # NoSocket, hosting, ws[c] \in heard, sock[ws[c]] = "open"
             PROVE  \/ \E i \in DOMAIN down[ws[c]] : down[ws[c]][i].kind = "step1" /\ down[ws[c]][i].to = c
                    \/ doc[c] \subseteq doc[Host] \cup Bodies(up[ws[c]])
  BY DEF HostWillKnow
<1>1. /\ ws[c] \in Socket /\ up[ws[c]] \in Seq(Message) /\ down[ws[c]] \in Seq(Message)
  BY DEF TypeOKSync
<1>2. /\ DOMAIN up[ws[c]] = 1..Len(up[ws[c]])
      /\ DOMAIN down[ws[c]] = 1..Len(down[ws[c]])
  BY <1>1, LenProperties
<1>3. CASE Asked(c, down[ws[c]])
  BY <1>2, <1>3 DEF Asked, In
<1>4. CASE Told(doc[c], doc[Host], up[ws[c]])
  <2> SUFFICES ASSUME NEW u \in doc[c], u \notin doc[Host] PROVE u \in Bodies(up[ws[c]])
    BY <1>4
  <2>1. PICK m \in In(up[ws[c]]) : Carries(m) /\ u \in m.body
    BY <1>4 DEF Told
  <2>2. PICK i \in 1..Len(up[ws[c]]) : up[ws[c]][i] = m
    BY DEF In
  <2> QED
    BY <1>2, <2>1, <2>2 DEF Bodies
<1> QED
  BY <1>3, <1>4 DEF Knows

\* How a step keeps the host's chance to know.
LEMMA KnowKept ==
    ASSUME NEW c, NEW a, NEW b, NEW p, NEW q, NEW D, NEW E, NEW H, NEW K,
           Asked(c, a) \/ Told(D, H, p), Asked(c, a) => Asked(c, b), H \subseteq K,
           \A m \in In(p) : m \in In(q) \/ ~Carries(m) \/ m.body \subseteq K,
           \A u \in E : u \in D \/ u \in K \/ \E m \in In(q) : Carries(m) /\ u \in m.body
    PROVE  Asked(c, b) \/ Told(E, K, q)
BY DEF Told

LEMMA InitKnows == Init => JoinFirst /\ HeardJoined /\ Knows
BY DEF Init, JoinFirst, HeardJoined, Knows

\* Only the join in front of it, or the group itself, lets an init message through.
LEMMA StepJoinFirst == TypeOKSync /\ Discipline /\ JoinFirst /\ [Next]_vars => JoinFirst'
<1> SUFFICES ASSUME TypeOKSync, Discipline, JoinFirst, [Next]_vars,
                    NEW t \in Socket, t \notin joined', sock'[t] # "closed",
                    NEW i \in 1..Len(up'[t]), up'[t][i].kind = "init"
             PROVE  \E j \in 1..(i - 1) : up'[t][j].kind = "join"
  BY DEF JoinFirst
<1>1. /\ up \in [Socket -> Seq(Message)] /\ sock \in [Socket -> {"none", "opening", "open", "closing", "closed"}]
      /\ ws \in [Client -> Socket \cup {NoSocket}] /\ Len(up[t]) \in Nat
  BY LenProperties DEF TypeOKSync
<1>2. t \notin joined /\ sock[t] # "closed" =>
        \A k \in 1..Len(up[t]) : up[t][k].kind = "init" => \E j \in 1..(k - 1) : up[t][j].kind = "join"
  BY DEF JoinFirst
<1>3. CASE up'[t] = up[t] /\ t \notin joined /\ sock[t] # "closed"
  BY <1>2, <1>3
\* What is not an init message at the end of a line changes nothing.
<1>4. ASSUME NEW c \in Client, NEW m \in Message, Sends(c, m), m.kind # "init",
             t \notin joined, sock[t] # "closed"
      PROVE  \E j \in 1..(i - 1) : up'[t][j].kind = "join"
  <2>1. up'[t] = up[t] \/ up'[t] = Append(up[t], m)
    BY <1>4, SendsWell
  <2>2. CASE up'[t] = Append(up[t], m)
    <3>1. /\ Len(up'[t]) = Len(up[t]) + 1 /\ up'[t][Len(up[t]) + 1] = m
          /\ \A k \in 1..Len(up[t]) : up'[t][k] = up[t][k]
      BY <1>1, <2>2, LastIn
    <3>2. i \in 1..Len(up[t])
      BY <1>1, <1>4, <3>1
    <3>3. PICK j \in 1..(i - 1) : up[t][j].kind = "join"
      BY <1>2, <1>4, <3>1, <3>2
    <3>4. j \in 1..Len(up[t])
      BY <1>1, <3>2
    <3> QED
      BY <3>1, <3>3, <3>4
  <2> QED
    BY <1>3, <1>4, <2>1, <2>2
<1>5. ASSUME NEW c \in Client, Edit(c) \/ Touch(c) \/ Resync(c)
      PROVE  \E j \in 1..(i - 1) : up'[t][j].kind = "join"
  <2>1. t \notin joined /\ sock[t] # "closed"
    BY <1>5 DEF Edit, Touch, Resync, netVars
  <2>2. \E m \in Message : Sends(c, m) /\ m.kind # "init"
    <3>1. CASE Edit(c)
      <4>1. PICK u \in Update : Msg("update", Host, {u}) \in Message /\ Sends(c, Msg("update", Host, {u}))
        BY <3>1, Said
      <4> QED
        BY <4>1 DEF Msg
    <3>2. CASE Touch(c)
      <4>1. \E E : Presence(E) \in Message /\ Sends(c, Presence(E))
        BY <3>2, Said
      <4> QED
        BY <4>1 DEF Presence
    <3>3. CASE Resync(c)
      <4>1. \E b : Msg("step1", Host, b) \in Message /\ Sends(c, Msg("step1", Host, b))
        BY <3>3, Said
      <4> QED
        BY <4>1 DEF Msg
    <3> QED
      BY <1>5, <3>1, <3>2, <3>3
  <2> QED
    BY <1>4, <2>1, <2>2
<1>6. ASSUME NEW s \in Socket, Receive(s)
      PROVE  \E j \in 1..(i - 1) : up'[t][j].kind = "join"
  <2> DEFINE answer == Msg("step2", Host, Missing(s[1], Head(down[s]).body))
             told == Presence(News(s[1], Head(down[s]).states))
  <2>1. /\ answer \in Message /\ told \in Message /\ s[1] \in Client
        /\ up' = up \/ Sends(s[1], answer) \/ Sends(s[1], told)
    BY <1>6, Received
  <2>2. answer.kind # "init" /\ told.kind # "init"
    BY DEF Msg, Presence
  <2>3. t \notin joined /\ sock[t] # "closed"
    BY <1>6 DEF Receive, netVars
  <2> HIDE DEF answer, told
  <2> QED
    BY <1>3, <1>4, <2>1, <2>2, <2>3
<1>7. ASSUME NEW s \in Socket, Open(s)
      PROVE  \E j \in 1..(i - 1) : up'[t][j].kind = "join"
  <2> DEFINE h == Hello(s[1])
  <2>1. /\ sock' = [sock EXCEPT ![s] = "open"] /\ sock[s] = "opening"
        /\ h \in Seq(Message) /\ Len(h) = 3 /\ h[1].kind = "join"
        /\ h[2].kind = "init" /\ h[3].kind = "garbled"
        /\ \/ ws[s[1]] \in Socket /\ up' = [up EXCEPT ![ws[s[1]]] = up[ws[s[1]]] \o h]
           \/ up' = up
    BY <1>7, Opened
  <2>2. t \notin joined /\ sock[t] # "closed"
    BY <1>1, <1>7, <2>1 DEF Open
  <2>3. up'[t] = up[t] \/ up'[t] = up[t] \o h
    BY <1>1, <2>1
  <2> HIDE DEF h
  <2>4. CASE up'[t] = up[t] \o h
    <3>1. /\ Len(up'[t]) = Len(up[t]) + 3
          /\ \A k \in 1..Len(up[t]) : up'[t][k] = up[t][k]
          /\ \A k \in 1..3 : up'[t][Len(up[t]) + k] = h[k]
      <4>1. up[t] \in Seq(Message)
        BY <1>1
      <4>2. /\ Len(up[t] \o h) = Len(up[t]) + Len(h)
            /\ \A k \in 1..Len(up[t]) : (up[t] \o h)[k] = up[t][k]
            /\ \A k \in 1..Len(h) : (up[t] \o h)[Len(up[t]) + k] = h[k]
        BY <2>1, <4>1, Behind
      <4> QED
        BY <2>1, <2>4, <4>2
    <3>2. CASE i \in 1..Len(up[t])
      <4>1. PICK j \in 1..(i - 1) : up[t][j].kind = "join"
        BY <1>2, <2>2, <3>1, <3>2
      <4>2. j \in 1..Len(up[t])
        BY <1>1, <3>2
      <4> QED
        BY <3>1, <4>1, <4>2
    <3>3. CASE i \notin 1..Len(up[t])
      <4>1. /\ up'[t][Len(up[t]) + 1] = h[1] /\ up'[t][Len(up[t]) + 2] = h[2]
            /\ up'[t][Len(up[t]) + 3] = h[3]
        BY <3>1
      <4>2. i = Len(up[t]) + 1 \/ i = Len(up[t]) + 2 \/ i = Len(up[t]) + 3
        BY <1>1, <3>1, <3>3
      <4>3. i = Len(up[t]) + 2
        BY <2>1, <4>1, <4>2
      <4>4. Len(up[t]) + 1 \in 1..(i - 1)
        BY <1>1, <4>3
      <4> QED
        BY <2>1, <4>1, <4>4
    <3> QED
      BY <3>2, <3>3
  <2> QED
    BY <1>3, <2>2, <2>3, <2>4
<1>8. ASSUME NEW s \in Socket, Closed(s)
      PROVE  \E j \in 1..(i - 1) : up'[t][j].kind = "join"
  <2>1. /\ sock' = [sock EXCEPT ![s] = "closed"] /\ joined' = joined \ {s}
        /\ \E n \in 0..Len(up[s]) : up' = [up EXCEPT ![s] = SubSeq(up[s], 1, n)]
    BY <1>8, ClosedStep
  <2>2. t # s
    BY <1>1, <2>1
  <2>3. up'[t] = up[t] /\ t \notin joined /\ sock[t] # "closed"
    BY <1>1, <2>1, <2>2
  <2> QED
    BY <1>3, <2>3
<1>9. ASSUME NEW s \in Socket, Hears(s)
      PROVE  \E j \in 1..(i - 1) : up'[t][j].kind = "join"
  <2>1. /\ up[s] # << >> /\ up' = [up EXCEPT ![s] = Tail(up[s])] /\ sock' = sock
        /\ \/ Joins(s) /\ Head(up[s]).kind = "join" /\ joined' = IF sock[s] = "closed" THEN joined ELSE joined \cup {s}
           \/ ~Joins(s) /\ joined' = joined /\ Head(up[s]).kind # "join"
    BY <1>9 DEF Hears, Joins, Lost, HearsQuestion, HearsUpdate, HearsPresence, Takes, netVars
  <2>2. t \notin joined /\ sock[t] # "closed"
    BY <2>1
  <2>3. CASE t = s
    <3>1. Head(up[s]).kind # "join"
      BY <2>1, <2>2, <2>3
    <3>2. /\ Head(up[t]) = up[t][1] /\ Len(up'[t]) = Len(up[t]) - 1
          /\ \A k \in 1..(Len(up[t]) - 1) : up'[t][k] = up[t][k + 1]
      BY <1>1, <2>1, <2>3, Popped
    <3>3. i \in 1..(Len(up[t]) - 1) /\ i + 1 \in 1..Len(up[t]) /\ up[t][i + 1].kind = "init"
      BY <1>1, <3>2
    <3>4. PICK j \in 1..((i + 1) - 1) : up[t][j].kind = "join"
      BY <1>2, <2>2, <3>3
    <3>5. j # 1
      BY <2>3, <3>1, <3>2, <3>4
    <3>6. j - 1 \in 1..(i - 1) /\ j - 1 \in 1..(Len(up[t]) - 1) /\ (j - 1) + 1 = j
      BY <3>3, <3>4, <3>5
    <3>7. up'[t][j - 1] = up[t][j]
      BY <3>2, <3>6
    <3> QED
      BY <3>4, <3>6, <3>7
  <2>4. CASE t # s
    BY <1>1, <1>3, <2>1, <2>2, <2>4
  <2> QED
    BY <2>3, <2>4
<1>10. ASSUME NEW c \in Client, Fetched(c) \/ Stop(c)
       PROVE  \E j \in 1..(i - 1) : up'[t][j].kind = "join"
  <2>1. up' = up /\ joined' = joined
    BY <1>10 DEF Fetched, Stop
  <2>2. sock[t] # "closed"
    BY <1>1, <1>10, NewSocket DEF Stop
  <2> QED
    BY <1>3, <2>1, <2>2
<1>11. CASE HostStep \/ UNCHANGED vars \/ \E c \in Client : Start(c)
  <2>1. UNCHANGED <<up, joined, sock>>
    BY <1>11 DEF HostStep, HostListens, HostEdit, vars, Start, netVars
  <2> QED
    BY <1>3, <2>1
<1> QED
  BY <1>5, <1>6, <1>7, <1>8, <1>9, <1>10, <1>11 DEF Next, ClientStep, SocketStep

LEMMA StepHeardJoined == TypeOKSync /\ Discipline /\ JoinFirst /\ HeardJoined /\ [Next]_vars => HeardJoined'
<1> SUFFICES ASSUME TypeOKSync, Discipline, JoinFirst, HeardJoined, [Next]_vars,
                    NEW s \in heard'
             PROVE  hosting' /\ (sock'[s] = "closed" \/ s \in joined')
  BY DEF HeardJoined
<1>1. /\ sock \in [Socket -> {"none", "opening", "open", "closing", "closed"}]
      /\ ws \in [Client -> Socket \cup {NoSocket}] /\ heard \subseteq Socket
      /\ up \in [Socket -> Seq(Message)]
  BY DEF TypeOKSync
<1>2. s \in heard => hosting /\ (sock[s] = "closed" \/ s \in joined)
  BY DEF HeardJoined
<1>3. ASSUME NEW t \in Socket, HearsQuestion(t)
      PROVE  hosting' /\ (sock'[s] = "closed" \/ s \in joined')
  <2>1. /\ hosting /\ up[t] # << >> /\ UNCHANGED <<sock, joined, hosting>>
        /\ heard' = heard \cup (IF Head(up[t]).kind = "init" THEN {t} ELSE {})
    BY <1>3 DEF HearsQuestion, Takes
  <2>2. CASE s = t /\ Head(up[t]).kind = "init"
    <3>1. Head(up[t]) = up[t][1] /\ 1 \in 1..Len(up[t])
      BY <1>1, <2>1, Popped
    <3>2. s \in joined \/ sock[s] = "closed"
      BY <2>2, <3>1 DEF JoinFirst
    <3> QED
      BY <2>1, <3>2
  <2> QED
    BY <1>2, <2>1, <2>2
<1>4. ASSUME NEW t \in Socket, Closed(t)
      PROVE  hosting' /\ (sock'[s] = "closed" \/ s \in joined')
  <2>1. /\ sock' = [sock EXCEPT ![t] = "closed"] /\ joined' = joined \ {t}
        /\ heard' = heard /\ hosting' = hosting
    BY <1>4, ClosedStep
  <2>2. s \in Socket
    BY <1>1, <2>1
  <2>3. sock'[t] = "closed" /\ (s # t => sock'[s] = sock[s])
    BY <1>1, <1>4, <2>1, <2>2
  <2> QED
    BY <1>2, <2>1, <2>3
<1>5. ASSUME NEW t \in Socket, NEW kind, sock[t] # "closed", sock' = [sock EXCEPT ![t] = kind],
             UNCHANGED <<joined, heard, hosting>>
      PROVE  hosting' /\ (sock'[s] = "closed" \/ s \in joined')
  <2>1. s \in Socket /\ (s # t => sock'[s] = sock[s])
    BY <1>1, <1>5
  <2> QED
    BY <1>2, <1>5, <2>1
<1>6. ASSUME NEW t \in Socket, Open(t)
      PROVE  hosting' /\ (sock'[s] = "closed" \/ s \in joined')
  <2>1. sock[t] = "opening" /\ sock' = [sock EXCEPT ![t] = "open"] /\ UNCHANGED <<joined, heard, hosting>>
    BY <1>6, Opened DEF Open
  <2> QED
    BY <1>5, <2>1
<1>7. ASSUME NEW c \in Client, Fetched(c)
      PROVE  hosting' /\ (sock'[s] = "closed" \/ s \in joined')
  <2>1. PICK t \in Socket : sock[t] = "none" /\ sock' = [sock EXCEPT ![t] = "opening"]
    BY <1>7, NewSocket
  <2>2. UNCHANGED <<joined, heard, hosting>>
    BY <1>7 DEF Fetched
  <2> QED
    BY <1>5, <2>1, <2>2
<1>8. ASSUME NEW c \in Client, Stop(c)
      PROVE  hosting' /\ (sock'[s] = "closed" \/ s \in joined')
  <2>1. /\ ws[c] \in Socket /\ sock[ws[c]] # "closed" /\ sock' = [sock EXCEPT ![ws[c]] = "closing"]
        /\ UNCHANGED <<joined, heard, hosting>>
    BY <1>1, <1>8 DEF Stop
  <2> QED
    BY <1>5, <2>1
<1>9. ASSUME UNCHANGED <<sock, heard>>, joined \subseteq joined', hosting => hosting'
      PROVE  hosting' /\ (sock'[s] = "closed" \/ s \in joined')
  BY <1>2, <1>9
<1>10. CASE HostStep \/ UNCHANGED vars
  <2>1. UNCHANGED <<sock, heard, joined>> /\ (hosting => hosting')
    BY <1>10 DEF HostStep, HostListens, HostEdit, vars, netVars
  <2> QED
    BY <1>9, <2>1
<1>11. ASSUME NEW c \in Client, Start(c) \/ Edit(c) \/ Touch(c) \/ Resync(c)
       PROVE  hosting' /\ (sock'[s] = "closed" \/ s \in joined')
  <2>1. UNCHANGED <<sock, heard, joined, hosting>>
    BY <1>11 DEF Start, Edit, Touch, Resync, netVars
  <2> QED
    BY <1>9, <2>1
<1>12. ASSUME NEW t \in Socket, Receive(t) \/ Joins(t) \/ Lost(t) \/ HearsUpdate(t) \/ HearsPresence(t)
       PROVE  hosting' /\ (sock'[s] = "closed" \/ s \in joined')
  <2>1. UNCHANGED <<sock, heard, hosting>> /\ joined \subseteq joined'
    BY <1>12 DEF Receive, Joins, Lost, HearsUpdate, HearsPresence, netVars
  <2> QED
    BY <1>9, <2>1
<1> QED
  BY <1>3, <1>4, <1>6, <1>7, <1>8, <1>10, <1>11, <1>12
  DEF Next, ClientStep, SocketStep, Hears

\* What is sent stands behind what was sent before.
LEMMA UpKept ==
    ASSUME TypeOKSync, NEW c \in Client, NEW m \in Message, Sends(c, m), NEW s \in Socket
    PROVE  /\ In(up[s]) \subseteq In(up'[s])
           /\ s = ws[c] /\ connected[c] /\ sock[s] = "open" => m \in In(up'[s])
<1>1. up \in [Socket -> Seq(Message)] /\ ws \in [Client -> Socket \cup {NoSocket}]
  BY DEF TypeOKSync
<1>2. up'[s] = up[s] \/ up'[s] = Append(up[s], m)
  BY SendsWell
<1>3. In(up[s]) \cup {m} \subseteq In(Append(up[s], m))
  BY <1>1, InKept
<1>4. s = ws[c] /\ connected[c] /\ sock[s] = "open" => up'[s] = Append(up[s], m)
  BY <1>1, SendsTo, Owners
<1> QED
  BY <1>2, <1>3, <1>4

LEMMA DownKept ==
    ASSUME TypeOKSync, NEW q \in Seq(Message), Broadcast(q), NEW s \in Socket
    PROVE  In(down[s]) \subseteq In(down'[s]) /\ (hosting /\ s \in joined => In(q) \subseteq In(down'[s]))
<1>1. down[s] \in Seq(Message)
  BY DEF TypeOKSync
<1>2. down'[s] = IF hosting /\ s \in joined THEN down[s] \o q ELSE down[s]
  BY BroadcastTo
<1>3. In(down[s]) \cup In(q) \subseteq In(down[s] \o q)
  BY <1>1, InKept
<1> QED
  BY <1>2, <1>3

LEMMA AppliesKept ==
    ASSUME TypeOKSync, NEW P \in SUBSET Update, HostApplies(P), NEW s \in Socket
    PROVE  In(down[s]) \subseteq In(down'[s])
<1> DEFINE after == doc[Host] \cup P
           fresh == Visible(after) \ Visible(doc[Host])
           m == Msg("update", Host, fresh)
<1>1. \/ down' = down
      \/ m \in Message /\ down'[s] = IF hosting /\ s \in joined THEN down[s] \o <<m>> ELSE down[s]
  BY HostAppliesTo
<1> HIDE DEF m
<1>2. CASE m \in Message /\ down'[s] = IF hosting /\ s \in joined THEN down[s] \o <<m>> ELSE down[s]
  <2>1. down[s] \in Seq(Message) /\ <<m>> \in Seq(Message)
    BY <1>2 DEF TypeOKSync
  <2>2. In(down[s]) \subseteq In(down[s] \o <<m>>)
    BY <2>1, InKept
  <2> QED
    BY <1>2, <2>2
<1> QED
  BY <1>1, <1>2

LEMMA StepKnows ==
    TypeOKSync /\ Discipline /\ Contents /\ JoinFirst /\ HeardJoined /\ Knows /\ [Next]_vars => Knows'
<1> SUFFICES ASSUME TypeOKSync, Discipline, Contents, JoinFirst, HeardJoined, Knows, [Next]_vars,
                    NEW c \in Client, ws'[c] # NoSocket, hosting', ws'[c] \in heard', sock'[ws'[c]] = "open"
             PROVE  Asked(c, down'[ws'[c]]) \/ Told(doc'[c], doc'[Host], up'[ws'[c]])
  BY DEF Knows
<1> DEFINE s == ws[c]
           Goal == Asked(c, down'[ws'[c]]) \/ Told(doc'[c], doc'[Host], up'[ws'[c]])
<1>1. /\ sock \in [Socket -> {"none", "opening", "open", "closing", "closed"}]
      /\ ws \in [Client -> Socket \cup {NoSocket}] /\ heard \subseteq Socket
      /\ up \in [Socket -> Seq(Message)] /\ down \in [Socket -> Seq(Message)]
      /\ doc \in [Member -> SUBSET Update] /\ Host \notin Client /\ Client \subseteq Member /\ Host \in Member
      /\ \A t \in Socket : t[1] \in Client /\ t # NoSocket
  BY Owners DEF TypeOKSync
<1>2. \A p \in Member : doc[p] \subseteq doc'[p]
  BY DocsGrow
<1>3. s # NoSocket => s \in Socket /\ s[1] = c
  BY <1>1 DEF Discipline, OneSocket
<1>4. s # NoSocket /\ hosting /\ s \in heard /\ sock[s] = "open" =>
        Asked(c, down[s]) \/ Told(doc[c], doc[Host], up[s])
  BY DEF Knows
<1> HIDE DEF s
\* Nothing about c, its socket or the group changes but that lines grow.
<1>5. ASSUME ws'[c] = s, s \in heard, hosting, sock[s] = "open", doc'[c] = doc[c],
             In(up[s]) \subseteq In(up'[s]), In(down[s]) \subseteq In(down'[s])
      PROVE  Goal
  <2>1. Asked(c, down[s]) \/ Told(doc[c], doc[Host], up[s])
    BY <1>4, <1>5
  <2>2. Asked(c, down[s]) => Asked(c, down'[s])
    BY <1>5 DEF Asked
  <2>3. doc[Host] \subseteq doc'[Host]
    BY <1>1, <1>2
  <2>4. \A n \in In(up[s]) : n \in In(up'[s])
    BY <1>5
  <2>5. \A u \in doc'[c] : u \in doc[c]
    BY <1>5
  <2>6. Asked(c, down'[s]) \/ Told(doc'[c], doc'[Host], up'[s])
    BY <2>1, <2>2, <2>3, <2>4, <2>5, KnowKept
  <2> QED
    BY <1>5, <2>6
<1>6. CASE HostListens
  BY <1>1, <1>6 DEF HostListens, HeardJoined, netVars, clientVars
<1>7. CASE HostEdit
  <2>1. PICK u \in NextOf(Host) : HostApplies({u})
    BY <1>7 DEF HostEdit
  <2>2. /\ UNCHANGED <<ws, heard, hosting, sock, up>> /\ {u} \in SUBSET Update
    BY <1>1, <1>7, NextOfUpdates DEF HostEdit, clientVars, netVars
  <2>3. s \in Socket
    BY <1>3, <2>2 DEF s
  <2>4. In(down[s]) \subseteq In(down'[s])
    BY <2>1, <2>2, <2>3, AppliesKept
  <2>5. doc'[c] = doc[c]
    BY <1>1, <2>1 DEF HostApplies
  <2> QED
    BY <1>5, <2>2, <2>4, <2>5 DEF s
<1>8. ASSUME NEW d \in Client, Edit(d) PROVE Goal
  <2>1. PICK u \in Update : /\ doc' = [doc EXCEPT ![d] = doc[d] \cup {u}]
                            /\ Msg("update", Host, {u}) \in Message
                            /\ Sends(d, Msg("update", Host, {u}))
    BY <1>8, Said
  <2>2. UNCHANGED <<ws, heard, hosting, sock, down>>
    BY <1>8 DEF Edit, clientVars, netVars
  <2>3. /\ s \in Socket /\ ws'[c] = s /\ sock[s] = "open" /\ s \in heard /\ hosting
        /\ connected[c]
    BY <1>3, <2>2 DEF s, Discipline, OpenIsConnected
  <2> DEFINE m == Msg("update", Host, {u})
  <2>4. In(up[s]) \subseteq In(up'[s]) /\ (d = c => m \in In(up'[s]))
    BY <2>1, <2>3, UpKept DEF s
  <2>5. Carries(m) /\ m.body = {u}
    BY DEF Msg, Carries
  <2> HIDE DEF m
  <2>6. CASE d = c
    <3>1. doc'[c] = doc[c] \cup {u}
      BY <1>1, <2>1, <2>6
    <3>2. Asked(c, down[s]) \/ Told(doc[c], doc[Host], up[s])
      BY <1>4, <2>3, Owners
    <3>3. \A v \in doc'[c] : \/ v \in doc[c] \/ v \in doc'[Host]
                             \/ \E n \in In(up'[s]) : Carries(n) /\ v \in n.body
      BY <2>4, <2>5, <2>6, <3>1
    <3>4. doc[Host] \subseteq doc'[Host] /\ down'[s] = down[s]
      BY <1>1, <1>2, <2>2
    <3>5. \A n \in In(up[s]) : n \in In(up'[s])
      BY <2>4
    <3>6. Asked(c, down[s]) \/ Told(doc'[c], doc'[Host], up'[s])
      BY <3>2, <3>3, <3>4, <3>5, KnowKept
    <3> QED
      BY <2>3, <3>4, <3>6
  <2>7. CASE d # c
    <3>1. doc'[c] = doc[c] /\ down'[s] = down[s]
      BY <1>1, <2>1, <2>2, <2>7
    <3> QED
      BY <1>5, <2>3, <2>4, <3>1
  <2> QED
    BY <2>6, <2>7
<1>9. ASSUME NEW d \in Client, Touch(d) \/ Resync(d) PROVE Goal
  <2>1. PICK m \in Message : Sends(d, m)
    BY <1>9, Said
  <2>2. UNCHANGED <<ws, heard, hosting, sock, down, doc>>
    BY <1>9 DEF Touch, Resync, clientVars, netVars
  <2>3. s \in Socket
    BY <1>3, <2>2 DEF s
  <2>4. In(up[s]) \subseteq In(up'[s])
    BY <2>1, <2>3, UpKept
  <2> QED
    BY <1>5, <2>2, <2>4 DEF s
<1>10. ASSUME NEW d \in Client, Start(d) \/ Stop(d) PROVE Goal
  <2>1. UNCHANGED <<ws, heard, hosting, down, up, doc>>
    BY <1>10 DEF Start, Stop, clientVars, netVars
  <2>2. s \in Socket /\ sock[s] = "open"
    BY <1>1, <1>3, <1>10, <2>1 DEF s, Start, Stop, netVars
  <2> QED
    BY <1>5, <2>1, <2>2 DEF s
<1>11. ASSUME NEW d \in Client, Fetched(d) PROVE Goal
  <2>1. PICK t \in Socket : /\ sock[t] = "none" /\ sock' = [sock EXCEPT ![t] = "opening"]
                            /\ ws' = [ws EXCEPT ![d] = t]
    BY <1>11, NewSocket
  <2>2. UNCHANGED <<heard, hosting, down, up, doc>>
    BY <1>11 DEF Fetched
  <2>3. d # c
    BY <1>1, <2>1
  <2>4. ws'[c] = s /\ s \in Socket /\ sock[s] = "open"
    BY <1>1, <1>3, <2>1, <2>3 DEF s
  <2> QED
    BY <1>5, <2>2, <2>4
<1>12. ASSUME NEW t \in Socket, Open(t) PROVE Goal
  <2> DEFINE h == Hello(t[1])
  <2>1. /\ sock' = [sock EXCEPT ![t] = "open"] /\ sock[t] = "opening" /\ h \in Seq(Message)
        /\ \/ ws[t[1]] \in Socket /\ up' = [up EXCEPT ![ws[t[1]]] = up[ws[t[1]]] \o h]
           \/ up' = up
    BY <1>12, Opened
  <2>2. UNCHANGED <<ws, heard, hosting, down, doc>>
    BY <1>12 DEF Open
  <2>3. s \in Socket /\ ws'[c] = s /\ s \in heard
    BY <1>3, <2>2 DEF s
  <2>4. s # t
    BY <2>1, <2>3 DEF HeardJoined, Discipline, Delivered
  <2>5. sock[s] = "open"
    BY <1>1, <2>1, <2>3, <2>4
  <2>6. up'[s] = up[s] \/ up'[s] = up[s] \o h
    BY <1>1, <2>1, <2>3
  <2> HIDE DEF h
  <2>7. In(up[s]) \subseteq In(up'[s])
    <3>1. In(up[s]) \subseteq In(up[s] \o h)
      BY <1>1, <2>1, <2>3, InKept
    <3> QED
      BY <2>6, <3>1
  <2> QED
    BY <1>5, <2>2, <2>3, <2>5, <2>7
<1>13. ASSUME NEW t \in Socket, Closed(t) PROVE Goal
  <2>1. /\ sock' = [sock EXCEPT ![t] = "closed"] /\ ws' = [ws EXCEPT ![t[1]] = NoSocket]
        /\ down' = [down EXCEPT ![t] = << >>]
        /\ \E n \in 0..Len(up[t]) : up' = [up EXCEPT ![t] = SubSeq(up[t], 1, n)]
        /\ UNCHANGED <<doc, heard, hosting>>
    BY <1>13, ClosedStep
  <2>2. c # t[1] /\ ws'[c] = s
    BY <1>1, <2>1 DEF s
  <2>3. s \in Socket /\ s # t
    BY <1>3, <2>2
  <2>4. sock[s] = "open" /\ down'[s] = down[s] /\ up'[s] = up[s]
    BY <1>1, <2>1, <2>2, <2>3
  <2> QED
    BY <1>5, <2>1, <2>2, <2>4
<1>14. ASSUME NEW t \in Socket, Receive(t) PROVE Goal
  <2> DEFINE d == t[1]
             m == Head(down[t])
             mine == m.to \in {Host, d}
             answer == Msg("step2", Host, Missing(d, m.body))
             told == Presence(News(d, m.states))
  <2>1. /\ sock[t] = "open" /\ down[t] # << >> /\ d \in Client /\ m = down[t][1] /\ m \in Message
        /\ m.body \in SUBSET Update
        /\ down' = [down EXCEPT ![t] = Tail(down[t])]
        /\ doc' = IF mine /\ m.kind \in {"step2", "update"}
                    THEN [doc EXCEPT ![d] = doc[d] \cup m.body] ELSE doc
        /\ answer \in Message /\ told \in Message
        /\ \/ mine /\ m.kind = "step1" /\ Sends(d, answer)
           \/ ~(mine /\ m.kind = "step1") /\ (up' = up \/ Sends(d, told))
    BY <1>14, Received
  <2>2. UNCHANGED <<ws, connected, heard, hosting, sock>>
    BY <1>14 DEF Receive, netVars
  <2>3. /\ s \in Socket /\ ws'[c] = s /\ sock[s] = "open" /\ s \in heard /\ hosting
        /\ connected[c]
    BY <1>3, <2>2 DEF s, Discipline, OpenIsConnected
  <2>4. m \in In(down[t]) /\ In(down[t]) \subseteq In(Tail(down[t])) \cup {m}
    BY <1>1, <2>1, InLines, InKept
  <2>5. m.body \subseteq doc[Host] /\ doc[Host] \subseteq doc'[Host]
    BY <1>1, <1>2, <2>4 DEF Contents, HonestDown
  <2>6. doc'[c] \subseteq doc[c] \cup doc[Host]
    BY <1>1, <2>1, <2>5
  <2>7. answer.kind = "step2" /\ answer.body = doc[d] \ m.body
    BY DEF Msg, Missing
  <2>8. Asked(c, down[s]) \/ Told(doc[c], doc[Host], up[s])
    BY <1>4, <2>3, Owners
  <2> HIDE DEF m, answer, told
  <2>9. In(up[s]) \subseteq In(up'[s])
    BY <2>1, <2>3, UpKept
  <2>10. CASE t = s /\ mine /\ m.kind = "step1"
    <3>1. d = c
      BY <1>3, <2>3, <2>10
    <3>2. answer \in In(up'[s])
      BY <2>1, <2>3, <2>10, <3>1, UpKept DEF s
    <3>3. doc'[c] = doc[c]
      BY <2>1, <2>10
    <3>4. \A u \in doc'[c] : u \in doc'[Host] \/ u \in answer.body
      BY <2>5, <2>7, <3>1, <3>3
    <3>5. Told(doc'[c], doc'[Host], up'[s])
      BY <2>7, <3>2, <3>4 DEF Told, Carries
    <3> QED
      BY <2>3, <3>5
  <2>11. CASE ~(t = s /\ mine /\ m.kind = "step1")
    <3>1. Asked(c, down[s]) => Asked(c, down'[s])
      <4>1. CASE t = s
        <5>1. d = c /\ down'[s] = Tail(down[s])
          BY <1>1, <1>3, <2>1, <2>3, <4>1
        <5>2. ~(m.kind = "step1" /\ m.to = c)
          BY <2>11, <4>1, <5>1
        <5> QED
          BY <2>4, <4>1, <5>1, <5>2 DEF Asked
      <4>2. CASE t # s
        BY <1>1, <2>1, <2>3, <4>2
      <4> QED
        BY <4>1, <4>2
    <3>2. \A n \in In(up[s]) : n \in In(up'[s])
      BY <2>9
    <3>3. \A u \in doc'[c] : u \in doc[c] \/ u \in doc'[Host]
      BY <2>5, <2>6
    <3>4. Asked(c, down'[s]) \/ Told(doc'[c], doc'[Host], up'[s])
      BY <2>5, <2>8, <3>1, <3>2, <3>3, KnowKept
    <3> QED
      BY <2>3, <3>4
  <2> QED
    BY <2>10, <2>11
<1>15. ASSUME NEW t \in Socket, Hears(t) PROVE Goal
  <2> DEFINE m == Head(up[t])
  <2>1. /\ up[t] # << >> /\ up' = [up EXCEPT ![t] = Tail(up[t])] /\ m \in Message
        /\ m.body \in SUBSET Update /\ m.states \in SUBSET Entry
    BY <1>15, TakesHead DEF Hears, Joins, Lost, HearsQuestion, HearsUpdate, HearsPresence
  <2>2. UNCHANGED <<ws, hosting, sock>>
    BY <1>15 DEF Hears, Joins, Lost, HearsQuestion, HearsUpdate, HearsPresence, clientVars, netVars
  <2>3. s \in Socket /\ ws'[c] = s /\ sock[s] = "open" /\ hosting
    BY <1>3, <2>2 DEF s
  <2>4. doc'[c] = doc[c]
    BY <1>1, <1>15 DEF Hears, Joins, Lost, HearsQuestion, HearsUpdate, HearsPresence, HostApplies
  <2>5. In(up[t]) \subseteq In(Tail(up[t])) \cup {m}
    BY <1>1, <2>1, InKept
  <2>6. In(down[s]) \subseteq In(down'[s])
    <3>1. CASE Joins(t) \/ Lost(t)
      BY <3>1 DEF Joins, Lost
    <3>2. CASE HearsQuestion(t)
      BY <2>3, <3>2, Questioned, DownKept
    <3>3. CASE HearsUpdate(t)
      BY <2>1, <2>3, <3>3, AppliesKept DEF HearsUpdate
    <3>4. CASE HearsPresence(t)
      <4> DEFINE E == News(Host, m.states)
                 q == IF E = {} THEN << >> ELSE <<Presence(E)>>
      <4>1. Broadcast(q)
        BY <3>4 DEF HearsPresence
      <4>2. E \in SUBSET Entry
        BY <2>1 DEF News
      <4>3. q \in Seq(Message)
        BY <4>2, Messages, EmptySeq
      <4> HIDE DEF q
      <4> QED
        BY <2>3, <4>1, <4>3, DownKept
    <3> QED
      BY <1>15, <3>1, <3>2, <3>3, <3>4 DEF Hears
  <2>7. ~Carries(m) \/ m.body \subseteq doc'[Host]
    <3>1. CASE HearsUpdate(t)
      BY <1>1, <3>1 DEF HearsUpdate, HostApplies
    <3>2. CASE Joins(t) \/ HearsQuestion(t) \/ HearsPresence(t)
      BY <3>2 DEF Joins, HearsQuestion, HearsPresence, Carries
    <3>3. CASE Lost(t)
      BY <2>3, <3>3 DEF Lost
    <3> QED
      BY <1>15, <3>1, <3>2, <3>3 DEF Hears
  <2> HIDE DEF m
  <2>8. \A n \in In(up[s]) : n \in In(up'[s]) \/ ~Carries(n) \/ n.body \subseteq doc'[Host]
    <3>1. CASE s = t
      <4>1. up'[s] = Tail(up[s])
        BY <1>1, <2>1, <3>1
      <4> QED
        BY <2>5, <2>7, <3>1, <4>1
    <3>2. CASE s # t
      BY <1>1, <2>1, <2>3, <3>2
    <3> QED
      BY <3>1, <3>2
  <2>9. CASE s \in heard
    <3>1. Asked(c, down[s]) \/ Told(doc[c], doc[Host], up[s])
      BY <1>4, <2>3, <2>9, Owners
    <3>2. Asked(c, down[s]) => Asked(c, down'[s])
      BY <2>6 DEF Asked
    <3>3. doc[Host] \subseteq doc'[Host]
      BY <1>1, <1>2
    <3>4. Asked(c, down'[s]) \/ Told(doc'[c], doc'[Host], up'[s])
      BY <2>4, <2>8, <3>1, <3>2, <3>3, KnowKept
    <3> QED
      BY <2>3, <3>4
  <2>10. CASE s \notin heard
    <3>1. HearsQuestion(t) /\ s = t /\ m.kind = "init"
      <4>1. heard' # heard
        BY <2>3, <2>10
      <4>2. HearsQuestion(t)
        BY <1>15, <4>1 DEF Hears, Joins, Lost, HearsUpdate, HearsPresence, netVars
      <4>3. heard' = heard \cup (IF m.kind = "init" THEN {t} ELSE {})
        BY <4>2 DEF HearsQuestion, m
      <4> QED
        BY <2>3, <2>10, <4>2, <4>3
    <3> DEFINE ask == Msg("step1", t[1], Visible(doc[Host]))
               q == Append(IF m.kind = "init" THEN <<ask>> ELSE << >>,
                           Msg("step2", t[1], Missing(Host, m.body)))
    <3>2. q \in Seq(Message) /\ Broadcast(q) /\ Len(q) = 2 /\ q[1] = ask
      BY <3>1, Questioned DEF m
    <3>3. ask.kind = "step1" /\ ask.to = c
      BY <1>3, <2>3, <3>1 DEF Msg
    <3> HIDE DEF q, ask
    <3>4. ask \in In(q)
      BY <3>2 DEF In
    <3>5. s \in joined
      <4>1. m = up[t][1] /\ 1 \in 1..Len(up[t])
        BY <1>1, <2>1, Popped DEF m
      <4> QED
        BY <2>3, <3>1, <4>1 DEF JoinFirst
    <3>6. ask \in In(down'[s])
      BY <2>3, <3>2, <3>4, <3>5, DownKept
    <3> QED
      BY <2>3, <3>3, <3>6 DEF Asked
  <2> QED
    BY <2>9, <2>10
<1>16. CASE UNCHANGED vars
  <2>1. UNCHANGED <<ws, heard, hosting, sock, up, down, doc>>
    BY <1>16 DEF vars, clientVars, netVars
  <2> QED
    BY <1>5, <2>1 DEF s
<1> QED
  BY <1>6, <1>7, <1>8, <1>9, <1>10, <1>11, <1>12, <1>13, <1>14, <1>15, <1>16
  DEF Next, HostStep, ClientStep, SocketStep

\* HostWillKnow: once the host has handled the init message of a client's open
\* socket, whatever the client has is known to it, on its way, or asked for
\* (onopen and the update handler of the client, onClientInit of the host).
THEOREM HostLearns == Spec => []HostWillKnow
<1> DEFINE IInv == TypeOKSync /\ Discipline /\ Contents /\ JoinFirst /\ HeardJoined /\ Knows
<1>1. Init => IInv
  BY InitTyped, InitWell, InitContents, InitKnows
<1>2. IInv /\ [Next]_vars => IInv'
  BY StepTyped, StepWell, StepContents, StepJoinFirst, StepHeardJoined, StepKnows
<1>3. IInv => HostWillKnow
  BY KnowsAll
<1> QED
  BY <1>1, <1>2, <1>3, PTL DEF Spec
=============================================================================
