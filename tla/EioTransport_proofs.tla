------------------------ MODULE EioTransport_proofs -------------------------
(***************************************************************************)
(* Proofs about the Engine.IO transport: while a connection is served one  *)
(* call of send is under way at a time, and between Engine.IO's buffer,    *)
(* the transport's, the call and the service no packet is lost, repeated   *)
(* or overtaken, for any number of packets and calls, whatever NextSend    *)
(* returns.  And NextSend being what it is, every call carries the largest *)
(* part of the packets in line that leaves no binary message torn.         *)
(***************************************************************************)
EXTENDS EioTransport, SequenceTheorems, FiniteSetTheorems,
        WellFoundedInduction, TLAPS

-----------------------------------------------------------------------------
\* Facts about sequences of packets

\* A prefix and the rest make up the whole.
LEMMA TakePrefix ==
    ASSUME NEW s \in Seq(Packet), NEW n \in 1..Len(s)
    PROVE  /\ SubSeq(s, 1, n) \in Seq(Packet)
           /\ SubSeq(s, n + 1, Len(s)) \in Seq(Packet)
           /\ SubSeq(s, 1, n) \o SubSeq(s, n + 1, Len(s)) = s
<1>1. Len(s) \in Nat
  BY LenProperties
<1>2. \A i \in 1..Len(s) : s[i] \in Packet
  BY ElementOfSeq
<1>3. SubSeq(s, 1, n) \in Seq(Packet)
  BY <1>1, <1>2, SubSeqProperties
<1>4. SubSeq(s, n + 1, Len(s)) \in Seq(Packet)
  BY <1>1, <1>2, SubSeqProperties
<1>5. SubSeq(s, 1, n) \o SubSeq(s, n + 1, Len(s)) = SubSeq(s, 1, Len(s))
  BY <1>1, ConcatAdjacentSubSeq
<1> QED
  BY <1>3, <1>4, <1>5, SubSeqFull

\* Splitting the end of a line of packets does not change it.
LEMMA SplitEnd ==
    ASSUME NEW d \in Seq(Packet), NEW p \in Seq(Packet), NEW b \in Seq(Packet)
    PROVE  (d \o p) \o b = d \o (p \o b)
BY ConcatAssociative

\* Packets without their middle are still in order.
LEMMA AscendingWithout ==
    ASSUME NEW s \in Seq(Packet), NEW m \in Seq(Packet), NEW t \in Seq(Packet),
           NEW top \in Nat, Ascending((s \o m) \o t),
           \A i \in DOMAIN ((s \o m) \o t) : ((s \o m) \o t)[i].no <= top
    PROVE  /\ Ascending(s \o t)
           /\ \A i \in DOMAIN (s \o t) : (s \o t)[i].no <= top
<1> DEFINE all == (s \o m) \o t
<1>1. /\ Len(s) \in Nat /\ Len(m) \in Nat /\ Len(t) \in Nat
      /\ s \o m \in Seq(Packet) /\ Len(s \o m) = Len(s) + Len(m)
      /\ s \o t \in Seq(Packet) /\ Len(s \o t) = Len(s) + Len(t)
  BY LenProperties, ConcatProperties
<1>2. /\ all \in Seq(Packet) /\ Len(all) = Len(s) + Len(m) + Len(t)
  BY <1>1, ConcatProperties
<1>3. DOMAIN all = 1..(Len(s) + Len(m) + Len(t)) /\ DOMAIN (s \o t) = 1..(Len(s) + Len(t))
  BY <1>1, <1>2, LenProperties
<1>4. \A i \in 1..(Len(s) + Len(t)) :
        (s \o t)[i] = IF i <= Len(s) THEN s[i] ELSE t[i - Len(s)]
  BY ConcatProperties
<1>5. \A i \in 1..(Len(s) + Len(m)) :
        (s \o m)[i] = IF i <= Len(s) THEN s[i] ELSE m[i - Len(s)]
  BY ConcatProperties
<1>6. \A i \in 1..(Len(s) + Len(m) + Len(t)) :
        all[i] = IF i <= Len(s) + Len(m) THEN (s \o m)[i] ELSE t[i - (Len(s) + Len(m))]
  BY <1>1, ConcatProperties
<1> DEFINE Place(i) == IF i <= Len(s) THEN i ELSE i + Len(m)
<1>7. \A i \in 1..(Len(s) + Len(t)) :
        Place(i) \in 1..(Len(s) + Len(m) + Len(t)) /\ (s \o t)[i] = all[Place(i)]
  <2> TAKE i \in 1..(Len(s) + Len(t))
  <2>1. CASE i <= Len(s)
    BY <1>1, <1>4, <1>5, <1>6, <2>1
  <2>2. CASE i > Len(s)
    <3>1. (s \o t)[i] = t[i - Len(s)]
      BY <1>1, <1>4, <2>2
    <3>2. i + Len(m) \in 1..(Len(s) + Len(m) + Len(t)) /\ ~(i + Len(m) <= Len(s) + Len(m))
      BY <1>1, <2>2
    <3>3. all[i + Len(m)] = t[(i + Len(m)) - (Len(s) + Len(m))]
      BY <1>6, <3>2
    <3>4. (i + Len(m)) - (Len(s) + Len(m)) = i - Len(s) /\ Place(i) = i + Len(m)
      BY <1>1, <2>2
    <3> QED
      BY <3>1, <3>2, <3>3, <3>4
  <2> QED
    BY <1>1, <2>1, <2>2
<1>8. \A i, j \in 1..(Len(s) + Len(t)) : i < j => Place(i) < Place(j)
  BY <1>1
<1> HIDE DEF Place, all
<1>9. \A i, j \in 1..(Len(s) + Len(m) + Len(t)) : i < j => all[i].no < all[j].no
  BY <1>3 DEF Ascending, all
<1>10. \A i \in 1..(Len(s) + Len(m) + Len(t)) : all[i].no <= top
  BY <1>3 DEF all
<1>11. Ascending(s \o t)
  BY <1>3, <1>7, <1>8, <1>9 DEF Ascending
<1> QED
  BY <1>3, <1>7, <1>10, <1>11

\* The numbering the order property is about: ascending, at most top, and
\* without gaps from k + 1 to top unless something was lost.
Numbered(s, k, top, lost) ==
    /\ Ascending(s)
    /\ \A i \in DOMAIN s : s[i].no <= top
    /\ ~lost => /\ Len(s) + k = top
               /\ \A i \in DOMAIN s : s[i].no = i + k

\* The next packet is added behind the others.
LEMMA NumberedAppend ==
    ASSUME NEW s \in Seq(Packet), NEW p \in Packet, NEW k \in Nat, NEW top \in Nat,
           NEW lost, Numbered(s, k, top, lost), p.no = top + 1
    PROVE  Numbered(Append(s, p), k, top + 1, lost)
<1> DEFINE t == Append(s, p)
<1>1. /\ Len(s) \in Nat /\ DOMAIN s = 1..Len(s)
      /\ t \in Seq(Packet) /\ Len(t) = Len(s) + 1 /\ DOMAIN t = 1..(Len(s) + 1)
      /\ t[Len(s) + 1] = p /\ \A i \in 1..Len(s) : t[i] = s[i]
  BY LenProperties
<1> HIDE DEF t
<1>2. \A i \in 1..Len(s) : s[i].no \in Nat /\ s[i].no <= top
  <2>1. \A i \in 1..Len(s) : s[i] \in Packet
    BY ElementOfSeq
  <2> QED
    BY <1>1, <2>1 DEF Numbered, Packet
<1>3. \A i \in DOMAIN t : t[i].no <= top + 1
  BY <1>1, <1>2
<1>4. Ascending(t)
  <2> SUFFICES ASSUME NEW i \in DOMAIN t, NEW j \in DOMAIN t, i < j
               PROVE  t[i].no < t[j].no
    BY DEF Ascending
  <2>1. CASE j = Len(s) + 1
    BY <1>1, <1>2, <2>1
  <2>2. CASE j # Len(s) + 1
    <3>1. i \in 1..Len(s) /\ j \in 1..Len(s)
      BY <1>1, <2>2
    <3> QED
      BY <1>1, <3>1 DEF Numbered, Ascending
  <2> QED
    BY <2>1, <2>2
<1>5. ASSUME ~lost
      PROVE  Len(t) + k = top + 1 /\ \A i \in DOMAIN t : t[i].no = i + k
  <2>1. Len(s) + k = top /\ \A i \in 1..Len(s) : s[i].no = i + k
    BY <1>1, <1>5 DEF Numbered
  <2> QED
    BY <1>1, <2>1
<1> QED
  BY <1>3, <1>4, <1>5 DEF Numbered, t

\* What is in flight, with one call under way and with none.
InFlightOf(ph, pl) ==
    LET active == {c \in Calls : ph[c] # "idle"}
    IN IF active # {} THEN pl[CHOOSE c \in active : TRUE] ELSE << >>

LEMMA OneInFlight ==
    ASSUME NEW ph, NEW pl, NEW c \in Calls, ph[c] # "idle",
           \A d \in Calls : ph[d] # "idle" => d = c
    PROVE  InFlightOf(ph, pl) = pl[c]
<1>1. {d \in Calls : ph[d] # "idle"} = {c}
  OBVIOUS
<1>2. (CHOOSE d \in {c} : TRUE) = c
  OBVIOUS
<1> QED
  BY <1>1, <1>2 DEF InFlightOf

LEMMA NoneInFlight ==
    ASSUME NEW ph, NEW pl, \A d \in Calls : ph[d] = "idle"
    PROVE  InFlightOf(ph, pl) = << >>
BY DEF InFlightOf

-----------------------------------------------------------------------------
\* The steps of send

\* What the loop of send does, whatever NextSend returns.
LEMMA LoopStep ==
    ASSUME TypeOK, NEW c \in Calls, NEW buf \in Seq(Packet), NEW w \in BOOLEAN,
           Loop(c, buf, w)
    PROVE  /\ phase' \in [Calls -> Phase] /\ payload' \in [Calls -> Seq(Packet)]
           /\ buffer' \in Seq(Packet) /\ writable' \in BOOLEAN
           /\ \A d \in Calls \ {c} : phase'[d] = phase[d] /\ payload'[d] = payload[d]
           /\ payload'[c] \o buffer' = buf
           /\ \/ phase'[c] = "encoding" /\ (writable' <=> w)
              \/ phase'[c] = "idle" /\ writable' /\ payload'[c] = << >> /\ buffer' = buf
<1>1. phase \in [Calls -> Phase] /\ payload \in [Calls -> Seq(Packet)]
  BY DEF TypeOK
<1> DEFINE n == NextSend(Kinds(buf))
<1>2. CASE n \in 1..Len(buf)
  <2>1. /\ buffer' = SubSeq(buf, n + 1, Len(buf))
        /\ payload' = [payload EXCEPT ![c] = SubSeq(buf, 1, n)]
        /\ phase' = [phase EXCEPT ![c] = "encoding"]
        /\ writable' = w
    BY <1>2 DEF Loop
  <2> HIDE DEF n
  <2>2. /\ SubSeq(buf, 1, n) \in Seq(Packet)
        /\ SubSeq(buf, n + 1, Len(buf)) \in Seq(Packet)
        /\ SubSeq(buf, 1, n) \o SubSeq(buf, n + 1, Len(buf)) = buf
    BY <1>2, TakePrefix
  <2>3. payload'[c] = SubSeq(buf, 1, n) /\ phase'[c] = "encoding"
    BY <1>1, <2>1
  <2>4. phase' \in [Calls -> Phase] /\ payload' \in [Calls -> Seq(Packet)]
    BY <1>1, <2>1, <2>2 DEF Phase
  <2>5. \A d \in Calls \ {c} : phase'[d] = phase[d] /\ payload'[d] = payload[d]
    BY <1>1, <2>1
  <2> QED
    BY <2>1, <2>2, <2>3, <2>4, <2>5
<1>3. CASE n \notin 1..Len(buf)
  <2>1. /\ buffer' = buf
        /\ payload' = [payload EXCEPT ![c] = << >>]
        /\ phase' = [phase EXCEPT ![c] = "idle"]
        /\ writable' = TRUE
    BY <1>3 DEF Loop
  <2> HIDE DEF n
  <2>2. payload'[c] = << >> /\ phase'[c] = "idle"
    BY <1>1, <2>1
  <2>3. phase' \in [Calls -> Phase] /\ payload' \in [Calls -> Seq(Packet)]
    BY <1>1, <2>1 DEF Phase
  <2>4. \A d \in Calls \ {c} : phase'[d] = phase[d] /\ payload'[d] = payload[d]
    BY <1>1, <2>1
  <2>5. payload'[c] \o buffer' = buf
    BY <2>1, <2>2, ConcatEmptySeq
  <2> QED
    BY <2>1, <2>2, <2>3, <2>4, <2>5
<1> QED
  BY <1>2, <1>3

\* What a new call of send does to types and payloads.
LEMMA SendStep ==
    ASSUME TypeOK, Carried, NEW packets \in Seq(Packet), packets # << >>, Send(packets)
    PROVE  /\ phase' \in [Calls -> Phase] /\ payload' \in [Calls -> Seq(Packet)]
           /\ buffer' \in Seq(Packet) /\ writable' \in BOOLEAN
           /\ answers' \in Seq({"accept", "refuse"}) /\ opened' \in BOOLEAN
           /\ Carried'
<1>1. PICK c \in Calls :
        /\ phase[c] = "idle"
        /\ \/ opened /\ Loop(c, buffer \o packets, FALSE) /\ answers' = answers
           \/ /\ ~opened
              /\ buffer' = Tail(buffer \o packets)
              /\ phase' = [phase EXCEPT ![c] = "opening"]
              /\ writable' = FALSE
              /\ UNCHANGED <<payload, answers>>
           \/ /\ ~opened
              /\ answers' = Append(answers, "refuse")
              /\ Loop(c, Tail(buffer \o packets), FALSE)
  BY DEF Send
<1>2. /\ phase \in [Calls -> Phase] /\ payload \in [Calls -> Seq(Packet)]
      /\ buffer \in Seq(Packet) /\ answers \in Seq({"accept", "refuse"})
      /\ opened' = opened /\ opened \in BOOLEAN
  BY DEF TypeOK, Send
<1>3. buffer \o packets \in Seq(Packet) /\ buffer \o packets # << >>
  BY <1>2, ConcatProperties, ConcatEqualIffEmpty
<1>4. Tail(buffer \o packets) \in Seq(Packet)
  BY <1>3, HeadTailProperties
<1>5. \A d \in Calls : payload[d] # << >> => phase[d] \in {"encoding", "posting"}
  BY DEF Carried
<1>6. CASE \/ opened /\ Loop(c, buffer \o packets, FALSE) /\ answers' = answers
           \/ Loop(c, Tail(buffer \o packets), FALSE) /\ answers' = Append(answers, "refuse")
  <2>1. PICK buf \in Seq(Packet) : Loop(c, buf, FALSE)
    BY <1>3, <1>4, <1>6
  <2>2. /\ phase' \in [Calls -> Phase] /\ payload' \in [Calls -> Seq(Packet)]
        /\ buffer' \in Seq(Packet) /\ writable' \in BOOLEAN
        /\ \A d \in Calls \ {c} : phase'[d] = phase[d] /\ payload'[d] = payload[d]
        /\ phase'[c] = "encoding" \/ payload'[c] = << >>
    BY <2>1, LoopStep
  <2>3. answers' \in Seq({"accept", "refuse"})
    <3>1. Append(answers, "refuse") \in Seq({"accept", "refuse"})
      BY <1>2, AppendProperties
    <3> QED
      BY <1>2, <1>6, <3>1
  <2>4. Carried'
    BY <1>5, <2>2 DEF Carried
  <2> QED
    BY <1>2, <2>2, <2>3, <2>4
<1>7. CASE /\ buffer' = Tail(buffer \o packets)
           /\ phase' = [phase EXCEPT ![c] = "opening"]
           /\ writable' = FALSE
           /\ UNCHANGED <<payload, answers>>
  <2>1. phase' \in [Calls -> Phase]
    BY <1>2, <1>7 DEF Phase
  <2>2. Carried'
    BY <1>1, <1>2, <1>5, <1>7 DEF Carried
  <2> QED
    BY <1>2, <1>4, <1>7, <2>1, <2>2
<1> QED
  BY <1>1, <1>6, <1>7

-----------------------------------------------------------------------------
\* Type correctness, and what calls carry

LEMMA InitTypes == Init => TypeOK /\ Carried
<1> SUFFICES ASSUME Init PROVE TypeOK /\ Carried
  OBVIOUS
<1>1. unit \in Seq(Kind) /\ answers \in Seq({"accept", "refuse"}) /\ delivered \in Seq(Packet)
      /\ pending \in Seq(Packet) /\ buffer \in Seq(Packet)
  BY DEF Init, Kind, Pure
<1>2. phase \in [Calls -> Phase] /\ payload \in [Calls -> Seq(Packet)] /\ Carried
  BY DEF Init, Phase, Carried
<1>3. {closeWhenDrained, writable, closing, opened, failed} \subseteq BOOLEAN
  BY DEF Init
<1> QED
  BY <1>1, <1>2, <1>3 DEF Init, TypeOK

LEMMA StepTypes == TypeOK /\ Carried /\ [Next]_vars => TypeOK' /\ Carried'
<1> SUFFICES ASSUME TypeOK, Carried, [Next]_vars PROVE TypeOK' /\ Carried'
  OBVIOUS
<1>1. /\ unit \in Seq(Kind) /\ duty \in {"none", "flush", "close"}
      /\ engine \in {"open", "closing", "closed"}
      /\ pending \in Seq(Packet) /\ buffer \in Seq(Packet) /\ created \in Nat
      /\ {closeWhenDrained, writable, closing, opened, failed} \subseteq BOOLEAN
      /\ shutDown \in {"no", "now", "done"}
      /\ phase \in [Calls -> Phase] /\ payload \in [Calls -> Seq(Packet)]
      /\ answers \in Seq({"accept", "refuse"}) /\ delivered \in Seq(Packet)
  BY DEF TypeOK
<1>2. \A d \in Calls : payload[d] # << >> => phase[d] \in {"encoding", "posting"}
  BY DEF Carried
<1>3. "close" \in Kind /\ \A n \in Nat : <<[no |-> n + 1, kind |-> "close"]>> \in Seq(Packet)
                                     /\ <<[no |-> n + 1, kind |-> "close"]>> # << >>
  BY DEF Packet, Kind, Pure
<1>4. ASSUME NEW c \in Calls, AnswerConnect(c) PROVE TypeOK' /\ Carried'
  <2>1. /\ phase' \in [Calls -> Phase] /\ payload' \in [Calls -> Seq(Packet)]
        /\ buffer' \in Seq(Packet) /\ writable' \in BOOLEAN
        /\ \A d \in Calls \ {c} : phase'[d] = phase[d] /\ payload'[d] = payload[d]
        /\ phase'[c] = "encoding" \/ payload'[c] = << >>
    <3>1. Loop(c, buffer, writable) /\ writable \in BOOLEAN
      BY <1>1, <1>4 DEF AnswerConnect
    <3> QED
      BY <1>1, <3>1, LoopStep
  <2>2. Carried'
    BY <1>2, <2>1 DEF Carried
  <2>3. answers' \in Seq({"accept", "refuse"})
    <3>1. Append(answers, "accept") \in Seq({"accept", "refuse"})
      BY <1>1, AppendProperties
    <3> QED
      BY <1>4, <3>1 DEF AnswerConnect
  <2>4. /\ duty' \in {"none", "flush", "close"} /\ opened' \in BOOLEAN
        /\ UNCHANGED <<unit, engine, closeWhenDrained, pending, created, closing,
                       delivered, failed, shutDown>>
    BY <1>4 DEF AnswerConnect, socketVars, serviceVars
  <2> QED
    BY <1>1, <2>1, <2>2, <2>3, <2>4 DEF TypeOK
<1>5. ASSUME NEW c \in Calls, Post(c) PROVE TypeOK' /\ Carried'
  <2>1. /\ phase' \in [Calls -> Phase] /\ Carried'
    BY <1>1, <1>2, <1>5 DEF Post, Phase, Carried
  <2> QED
    BY <1>1, <1>5, <2>1 DEF Post, socketVars, serviceVars, TypeOK
<1>6. ASSUME NEW c \in Calls, Resume(c) PROVE TypeOK' /\ Carried'
  <2>1. /\ phase' \in [Calls -> Phase] /\ payload' \in [Calls -> Seq(Packet)]
        /\ buffer' \in Seq(Packet) /\ writable' \in BOOLEAN
        /\ \A d \in Calls \ {c} : phase'[d] = phase[d] /\ payload'[d] = payload[d]
        /\ phase'[c] = "encoding" \/ payload'[c] = << >>
    <3>1. Loop(c, buffer, writable) /\ writable \in BOOLEAN
      BY <1>1, <1>6 DEF Resume
    <3> QED
      BY <1>1, <3>1, LoopStep
  <2>2. Carried'
    BY <1>2, <2>1 DEF Carried
  <2>3. /\ duty' \in {"none", "flush", "close"}
        /\ UNCHANGED <<unit, engine, closeWhenDrained, pending, created, closing,
                       opened, answers, delivered, failed, shutDown>>
    BY <1>6 DEF Resume, socketVars, serviceVars
  <2> QED
    BY <1>1, <2>1, <2>2, <2>3 DEF TypeOK
<1>7. ASSUME NEW c \in Calls, Deliver(c) \/ PostFails(c) PROVE TypeOK' /\ Carried'
  <2>1. /\ phase' = [phase EXCEPT ![c] = "posted"]
        /\ payload' = [payload EXCEPT ![c] = << >>]
    BY <1>7 DEF Deliver, PostFails
  <2>2. phase' \in [Calls -> Phase] /\ payload' \in [Calls -> Seq(Packet)] /\ Carried'
    BY <1>1, <1>2, <2>1 DEF Phase, Carried
  <2>3. delivered' \in Seq(Packet) /\ failed' \in BOOLEAN
    <3>1. delivered \o payload[c] \in Seq(Packet)
      BY <1>1, ConcatProperties
    <3>2. delivered' = delivered \o payload[c] \/ delivered' = delivered
      BY <1>7 DEF Deliver, PostFails
    <3>3. failed' = TRUE \/ failed' = failed
      BY <1>7 DEF Deliver, PostFails
    <3> QED
      BY <1>1, <3>1, <3>2, <3>3
  <2>4. UNCHANGED <<unit, duty, engine, closeWhenDrained, pending, created,
                    writable, closing, opened, buffer, answers, shutDown>>
    BY <1>7 DEF Deliver, PostFails, socketVars
  <2> QED
    BY <1>1, <2>2, <2>3, <2>4 DEF TypeOK
<1>8. CASE CloseTransport
  <2>1. CASE closing /\ UNCHANGED <<created, transportVars>>
    BY <1>1, <1>2, <1>8, <2>1 DEF CloseTransport, transportVars, serviceVars, TypeOK, Carried
  <2>2. CASE created' = created + 1 /\ Send(<<[no |-> created', kind |-> "close"]>>)
    <3>1. /\ phase' \in [Calls -> Phase] /\ payload' \in [Calls -> Seq(Packet)]
          /\ buffer' \in Seq(Packet) /\ writable' \in BOOLEAN
          /\ answers' \in Seq({"accept", "refuse"}) /\ opened' \in BOOLEAN /\ Carried'
      BY <1>1, <1>3, <2>2, SendStep
    <3>2. /\ duty' = "none" /\ engine' = "closed" /\ closing' = TRUE
          /\ UNCHANGED <<unit, closeWhenDrained, pending, delivered, failed, shutDown>>
      BY <1>8 DEF CloseTransport, serviceVars
    <3> QED
      BY <1>1, <2>2, <3>1, <3>2 DEF TypeOK
  <2> QED
    BY <1>8, <2>1, <2>2 DEF CloseTransport
<1>9. CASE CloseContext
  <2>1. created' = created + 1 /\ Send(<<[no |-> created', kind |-> "close"]>>)
    BY <1>9 DEF CloseContext
  <2>2. /\ phase' \in [Calls -> Phase] /\ payload' \in [Calls -> Seq(Packet)]
        /\ buffer' \in Seq(Packet) /\ writable' \in BOOLEAN
        /\ answers' \in Seq({"accept", "refuse"}) /\ opened' \in BOOLEAN /\ Carried'
    BY <1>1, <1>3, <2>1, SendStep
  <2>3. /\ shutDown' = "done"
        /\ UNCHANGED <<unit, duty, engine, closeWhenDrained, pending, closing, delivered, failed>>
    BY <1>9 DEF CloseContext, serviceVars
  <2> QED
    BY <1>1, <2>1, <2>2, <2>3 DEF TypeOK
<1>10. CASE Write
  <2>1. Unit \subseteq Seq(Kind)
    BY DEF Unit, Kind, Pure, Header
  <2>2. /\ unit' \in Unit
        /\ UNCHANGED <<duty, engine, closeWhenDrained, pending, created, writable, closing,
                       opened, buffer, phase, payload, answers, delivered, failed, shutDown>>
    BY <1>10 DEF Write, socketVars, transportVars, serviceVars
  <2> QED
    BY <1>1, <1>2, <2>1, <2>2 DEF TypeOK, Carried
<1>11. CASE SendPacket
  <2>1. Head(unit) \in Kind /\ Tail(unit) \in Seq(Kind)
    BY <1>1, <1>11, HeadTailProperties DEF SendPacket
  <2>2. [no |-> created + 1, kind |-> Head(unit)] \in Packet
    BY <1>1, <2>1 DEF Packet
  <2>3. created' = created + 1 /\ pending' = Append(pending, [no |-> created + 1, kind |-> Head(unit)])
    BY <1>11 DEF SendPacket
  <2>4. pending' \in Seq(Packet) /\ created' \in Nat
    BY <1>1, <2>2, <2>3, AppendProperties
  <2>5. /\ unit' = Tail(unit) /\ duty' = "flush"
        /\ UNCHANGED <<engine, closeWhenDrained, writable, closing, opened, buffer,
                       phase, payload, answers, delivered, failed, shutDown>>
    BY <1>11 DEF SendPacket, transportVars, serviceVars
  <2> QED
    BY <1>1, <1>2, <2>1, <2>4, <2>5 DEF TypeOK, Carried
<1>12. CASE Flush
  <2>1. /\ duty' \in {"none", "close"} /\ closeWhenDrained' \in BOOLEAN /\ pending' \in Seq(Packet)
    <3>1. << >> \in Seq(Packet) /\ closeWhenDrained \in BOOLEAN
      BY <1>1
    <3>2. duty' \in {"none", "close"}
      BY <1>12 DEF Flush
    <3>3. closeWhenDrained' = FALSE \/ closeWhenDrained' = closeWhenDrained
      BY <1>12 DEF Flush
    <3>4. pending' = << >> \/ pending' = pending
      BY <1>12 DEF Flush
    <3> QED
      BY <1>1, <3>1, <3>2, <3>3, <3>4
  <2>2. /\ phase' \in [Calls -> Phase] /\ payload' \in [Calls -> Seq(Packet)]
        /\ buffer' \in Seq(Packet) /\ writable' \in BOOLEAN
        /\ answers' \in Seq({"accept", "refuse"}) /\ opened' \in BOOLEAN /\ Carried'
    <3>1. CASE pending # << >> /\ Send(pending)
      BY <1>1, <3>1, SendStep
    <3>2. CASE UNCHANGED transportVars
      BY <1>1, <1>2, <3>2 DEF transportVars, Carried
    <3> QED
      BY <1>12, <3>1, <3>2 DEF Flush
  <2>3. UNCHANGED <<unit, engine, created, closing, delivered, failed, shutDown>>
    BY <1>12 DEF Flush, serviceVars
  <2> QED
    BY <1>1, <2>1, <2>2, <2>3 DEF TypeOK
<1>13. CASE Close \/ CloseServer \/ PingTimeout \/ Disconnected
  <2>1. UNCHANGED <<unit, created, writable, opened, buffer, phase, payload,
                    answers, delivered>>
    BY <1>13 DEF Close, CloseServer, PingTimeout, Disconnected, transportVars, serviceVars
  <2>4. failed' \in BOOLEAN
    BY <1>1, <1>13 DEF Close, CloseServer, PingTimeout, Disconnected, serviceVars
  <2>2. /\ duty' \in {"none", "flush", "close"} /\ engine' \in {"open", "closing", "closed"}
        /\ closing' \in BOOLEAN /\ shutDown' \in {"no", "now", "done"}
    BY <1>1, <1>13 DEF Close, CloseServer, PingTimeout, Disconnected
  <2>3. closeWhenDrained' \in BOOLEAN /\ pending' \in Seq(Packet)
    <3>1. << >> \in Seq(Packet) /\ closeWhenDrained \in BOOLEAN
      BY <1>1
    <3>2. CASE Close
      BY <1>1, <3>1, <3>2 DEF Close
    <3>3. CASE CloseServer
      BY <1>1, <3>1, <3>3 DEF CloseServer
    <3>4. CASE PingTimeout \/ Disconnected
      BY <3>1, <3>4 DEF PingTimeout, Disconnected
    <3> QED
      BY <1>13, <3>2, <3>3, <3>4
  <2> QED
    BY <1>1, <1>2, <2>1, <2>2, <2>3, <2>4 DEF TypeOK, Carried
<1>14. CASE UNCHANGED vars
  BY <1>1, <1>2, <1>14 DEF vars, TypeOK, Carried
<1> QED
  BY <1>4, <1>5, <1>6, <1>7, <1>8, <1>9, <1>10, <1>11, <1>12, <1>13, <1>14 DEF Next

-----------------------------------------------------------------------------
\* Order

First == IF opened \/ Opening THEN 1 ELSE 0

\* NothingLostOrSwapped, with the bound that makes it inductive.
Ordered == Serving => Numbered(AllPackets, First, created, failed)

\* The parts of the invariant, spelled out for a state that is served.
LEMMA ServedFacts ==
    ASSUME IInvEio, Ordered, Serving
    PROVE  /\ \A d, e \in Calls : phase[d] # "idle" /\ phase[e] # "idle" => d = e
           /\ writable <=> \A d \in Calls : phase[d] = "idle"
           /\ \A d \in Calls : phase[d] \notin {"encoding", "posting"} => payload[d] = << >>
           /\ InFlight = InFlightOf(phase, payload)
           /\ Numbered(AllPackets, First, created, failed)
BY DEF IInvEio, OneCallAtATime, Active, Carried, Ordered, InFlight, InFlightOf

\* The loop of send, run by the only call there is, moves packets from the
\* buffer to the call and leaves the discipline intact.
LEMMA LoopKeepsOrder ==
    ASSUME TypeOK, NEW c \in Calls, NEW buf \in Seq(Packet), NEW w \in BOOLEAN,
           \A d \in Calls \ {c} : phase[d] = "idle", w = FALSE,
           Loop(c, buf, w)
    PROVE  /\ \A d, e \in Calls : phase'[d] # "idle" /\ phase'[e] # "idle" => d = e
           /\ writable' <=> \A d \in Calls : phase'[d] = "idle"
           /\ \A d \in Calls : phase'[d] # "opening"
           /\ InFlightOf(phase', payload') \in Seq(Packet)
           /\ buffer' \in Seq(Packet)
           /\ InFlightOf(phase', payload') \o buffer' = buf
<1>1. /\ phase' \in [Calls -> Phase] /\ payload' \in [Calls -> Seq(Packet)]
      /\ buffer' \in Seq(Packet) /\ writable' \in BOOLEAN
      /\ \A d \in Calls \ {c} : phase'[d] = "idle"
      /\ payload'[c] \o buffer' = buf
      /\ \/ phase'[c] = "encoding" /\ (writable' <=> w)
         \/ phase'[c] = "idle" /\ writable' /\ payload'[c] = << >> /\ buffer' = buf
  BY LoopStep
<1>2. InFlightOf(phase', payload') = payload'[c]
  <2>1. CASE phase'[c] = "encoding"
    <3>1. \A d \in Calls : phase'[d] # "idle" => d = c
      BY <1>1
    <3> QED
      BY <2>1, <3>1, OneInFlight
  <2>2. CASE phase'[c] = "idle" /\ payload'[c] = << >>
    <3>1. \A d \in Calls : phase'[d] = "idle"
      BY <1>1, <2>2
    <3> QED
      BY <2>2, <3>1, NoneInFlight
  <2> QED
    BY <1>1, <2>1, <2>2
<1>3. payload'[c] \in Seq(Packet)
  BY <1>1
<1> QED
  BY <1>1, <1>2, <1>3

\* A call between two posts, or done with the open packet, goes on.
LEMMA GoesOn ==
    ASSUME IInvEio, Ordered, Serving, NEW c \in Calls, phase[c] \in {"opening", "posted"},
           Loop(c, buffer, writable), UNCHANGED <<delivered, pending, created, failed>>,
           opened', First' = First, Serving'
    PROVE  OneCallAtATime' /\ OpenFirst' /\ Ordered'
<1>1. /\ delivered \in Seq(Packet) /\ buffer \in Seq(Packet) /\ pending \in Seq(Packet)
      /\ writable \in BOOLEAN /\ TypeOK
  BY DEF IInvEio, TypeOK
<1>2. writable = FALSE /\ (\A d \in Calls \ {c} : phase[d] = "idle") /\ payload[c] = << >>
  BY <1>1, ServedFacts
<1>3. InFlight = << >>
  <2>1. \A d \in Calls : phase[d] # "idle" => d = c
    BY <1>2
  <2>2. InFlightOf(phase, payload) = payload[c]
    BY <2>1, OneInFlight
  <2> QED
    BY <1>2, <2>2, ServedFacts
<1>4. /\ \A d, e \in Calls : phase'[d] # "idle" /\ phase'[e] # "idle" => d = e
      /\ writable' <=> \A d \in Calls : phase'[d] = "idle"
      /\ InFlightOf(phase', payload') \in Seq(Packet)
      /\ buffer' \in Seq(Packet)
      /\ InFlightOf(phase', payload') \o buffer' = buffer
  BY <1>1, <1>2, LoopKeepsOrder
<1>5. AllPackets' = AllPackets
  <2>1. InFlight' = InFlightOf(phase', payload')
    BY DEF InFlight, InFlightOf, Active
  <2>2. (delivered \o InFlight') \o buffer' = delivered \o buffer
    <3>1. InFlight' \in Seq(Packet) /\ InFlight' \o buffer' = buffer
      BY <1>4, <2>1
    <3>2. (delivered \o InFlight') \o buffer' = delivered \o (InFlight' \o buffer')
      <4>1. /\ delivered \in Seq(Packet) /\ InFlight' \in Seq(Packet)
            /\ buffer' \in Seq(Packet)
        BY <1>1, <1>4, <3>1
      <4> QED
        BY <4>1, SplitEnd
    <3> QED
      BY <3>1, <3>2
  <2>3. (delivered \o InFlight) \o buffer = delivered \o buffer
    BY <1>1, <1>3, ConcatEmptySeq
  <2> QED
    BY <2>2, <2>3 DEF AllPackets
<1>6. OneCallAtATime'
  BY <1>4 DEF OneCallAtATime, Active
<1>7. Ordered'
  BY <1>5, ServedFacts DEF Ordered
<1>8. OpenFirst'
  BY DEF OpenFirst
<1> QED
  BY <1>6, <1>7, <1>8

\* Engine.IO flushes its buffer: the packets change place, and only the open
\* packet leaves the line.
LEMMA FlushStep ==
    ASSUME IInvEio, Ordered, Serving, Serving', Send(pending), writable, pending # << >>,
           pending' = << >>, UNCHANGED <<delivered, created, failed>>
    PROVE  OneCallAtATime' /\ OpenFirst' /\ Ordered'
<1>1. /\ delivered \in Seq(Packet) /\ buffer \in Seq(Packet) /\ pending \in Seq(Packet)
      /\ phase \in [Calls -> Phase] /\ TypeOK
  BY DEF IInvEio, TypeOK
<1>2. \A d \in Calls : phase[d] = "idle"
  BY ServedFacts
<1>3. Active = {} /\ ~Opening /\ InFlight = << >>
  BY <1>2 DEF Active, Opening, InFlight
<1> DEFINE buf == buffer \o pending
<1>4. buf \in Seq(Packet)
  BY <1>1, ConcatProperties
<1>5. AllPackets = delivered \o buf
  <2>1. delivered \o InFlight = delivered
    BY <1>1, <1>3, ConcatEmptySeq
  <2> QED
    BY <1>1, <2>1, ConcatAssociative DEF AllPackets
<1>6. opened' = opened
  BY DEF Send
<1>7. InFlight' = InFlightOf(phase', payload')
  BY DEF InFlight, InFlightOf, Active
<1>8. CASE opened
  <2>1. PICK c \in Calls : Loop(c, buf, FALSE)
    BY <1>8 DEF Send
  <2>2. /\ \A d, e \in Calls : phase'[d] # "idle" /\ phase'[e] # "idle" => d = e
        /\ writable' <=> \A d \in Calls : phase'[d] = "idle"
        /\ InFlight' \in Seq(Packet) /\ buffer' \in Seq(Packet)
        /\ InFlight' \o buffer' = buf
    BY <1>1, <1>2, <1>4, <1>7, <2>1, LoopKeepsOrder
  <2>3. AllPackets' = AllPackets
    <3>1. (delivered \o InFlight') \o buffer' = delivered \o buf
      <4>1. /\ delivered \in Seq(Packet) /\ InFlight' \in Seq(Packet)
            /\ buffer' \in Seq(Packet)
        BY <1>1, <2>2
      <4>2. (delivered \o InFlight') \o buffer' = delivered \o (InFlight' \o buffer')
        BY <4>1, SplitEnd
      <4> QED
        BY <2>2, <4>2
    <3>2. delivered \o buf \in Seq(Packet)
      BY <1>1, <1>4, ConcatProperties
    <3>3. (delivered \o buf) \o << >> = delivered \o buf
      BY <3>2, ConcatEmptySeq
    <3> HIDE DEF buf
    <3> QED
      BY <1>5, <3>1, <3>3 DEF AllPackets
  <2>4. First = 1 /\ First' = 1
    BY <1>6, <1>8 DEF First
  <2>5. OneCallAtATime'
    BY <2>2 DEF OneCallAtATime, Active
  <2>6. Ordered'
    BY <2>3, <2>4, ServedFacts DEF Ordered
  <2>7. OpenFirst'
    BY <1>6, <1>8 DEF OpenFirst
  <2> QED
    BY <2>5, <2>6, <2>7
<1>9. CASE ~opened
  <2>1. /\ delivered = << >> /\ buffer = << >> /\ created = 1
        /\ pending = <<[no |-> 1, kind |-> "open"]>>
    BY <1>3, <1>9 DEF OpenFirst, IInvEio
  <2>2. buf = <<[no |-> 1, kind |-> "open"]>>
    BY <1>1, <2>1, ConcatEmptySeq
  <2>3. buf[1].kind = "open" /\ Tail(buf) = << >>
    BY <2>2
  <2>4. PICK c \in Calls : /\ buffer' = << >>
                           /\ phase' = [phase EXCEPT ![c] = "opening"]
                           /\ writable' = FALSE
                           /\ payload' = payload
    BY <1>9, <2>3 DEF Send
  <2>5. phase'[c] = "opening" /\ \A d \in Calls : phase'[d] # "idle" => d = c
    BY <1>1, <1>2, <2>4
  <2>6. OneCallAtATime'
    BY <2>4, <2>5 DEF OneCallAtATime, Active
  <2>7. Opening'
    BY <2>5 DEF Opening
  <2>8. InFlight' = << >>
    <3>1. InFlight' = payload'[c]
      BY <1>7, <2>5, OneInFlight
    <3>2. payload[c] = << >>
      BY <1>2, ServedFacts
    <3> QED
      BY <2>4, <3>1, <3>2
  <2>9. AllPackets' = << >>
    BY <2>1, <2>4, <2>8 DEF AllPackets
  <2>10. Numbered(<< >>, 1, 1, failed')
    BY DEF Numbered, Ascending
  <2>11. First' = 1 /\ created' = 1
    BY <2>1, <2>7 DEF First
  <2>12. Ordered'
    BY <2>9, <2>10, <2>11 DEF Ordered
  <2>13. OpenFirst'
    BY <2>7 DEF OpenFirst
  <2> QED
    BY <2>6, <2>12, <2>13
<1> QED
  BY <1>8, <1>9

\* The service has the packets of the only call: they join the delivered ones.
LEMMA DeliverStep ==
    ASSUME IInvEio, Ordered, Serving, Serving', NEW c \in Calls, Deliver(c)
    PROVE  OneCallAtATime' /\ OpenFirst' /\ Ordered'
<1>1. /\ delivered \in Seq(Packet) /\ buffer \in Seq(Packet) /\ pending \in Seq(Packet)
      /\ phase \in [Calls -> Phase] /\ payload \in [Calls -> Seq(Packet)]
  BY DEF IInvEio, TypeOK
<1>2. /\ phase[c] = "posting"
      /\ phase' = [phase EXCEPT ![c] = "posted"] /\ payload' = [payload EXCEPT ![c] = << >>]
      /\ delivered' = delivered \o payload[c]
      /\ UNCHANGED <<unit, duty, engine, shutDown, pending, created, writable, opened, buffer, failed>>
  BY DEF Deliver, socketVars
<1>3. \A d \in Calls : phase[d] # "idle" => d = c
  BY <1>2, ServedFacts
<1>4. InFlight = payload[c]
  <2>1. phase[c] # "idle"
    BY <1>2
  <2>2. InFlightOf(phase, payload) = payload[c]
    BY <1>3, <2>1, OneInFlight
  <2> QED
    BY <2>2 DEF InFlight, InFlightOf, Active
<1>5. phase'[c] = "posted" /\ payload'[c] = << >> /\ \A d \in Calls : phase'[d] # "idle" => d = c
  BY <1>1, <1>2, <1>3
<1>6. InFlight' = << >>
  <2>1. InFlight' = InFlightOf(phase', payload')
    BY DEF InFlight, InFlightOf, Active
  <2> QED
    BY <1>5, <2>1, OneInFlight
<1>7. AllPackets' = AllPackets
  <2>1. delivered \o payload[c] \in Seq(Packet)
    BY <1>1, ConcatProperties
  <2>2. delivered' \o InFlight' = delivered \o InFlight
    BY <1>2, <1>4, <1>6, <2>1, ConcatEmptySeq
  <2> QED
    BY <1>2, <2>2 DEF AllPackets
<1>8. ~Opening /\ ~Opening' /\ opened
  <2>1. ~Opening /\ ~Opening'
    BY <1>2, <1>3, <1>5 DEF Opening
  <2>2. Active # {}
    BY <1>2 DEF Active
  <2> QED
    BY <2>1, <2>2 DEF OpenFirst, IInvEio
<1>9. First' = First
  BY <1>2, <1>8 DEF First
<1>10. OneCallAtATime'
  <2>1. ~writable
    BY <1>2, ServedFacts
  <2> QED
    BY <1>2, <1>5, <2>1 DEF OneCallAtATime, Active
<1>11. Ordered'
  BY <1>2, <1>7, <1>9, ServedFacts DEF Ordered
<1>12. OpenFirst'
  BY <1>2, <1>8 DEF OpenFirst
<1> QED
  BY <1>10, <1>11, <1>12

\* A failed call drops what it carried; the rest is still in order.
LEMMA FailStep ==
    ASSUME IInvEio, Ordered, Serving, Serving', NEW c \in Calls, PostFails(c)
    PROVE  OneCallAtATime' /\ OpenFirst' /\ Ordered'
<1>1. /\ delivered \in Seq(Packet) /\ buffer \in Seq(Packet) /\ pending \in Seq(Packet)
      /\ phase \in [Calls -> Phase] /\ payload \in [Calls -> Seq(Packet)] /\ created \in Nat
  BY DEF IInvEio, TypeOK
<1>2. /\ phase[c] = "posting" /\ failed' = TRUE
      /\ phase' = [phase EXCEPT ![c] = "posted"] /\ payload' = [payload EXCEPT ![c] = << >>]
      /\ UNCHANGED <<delivered, engine, shutDown, pending, created, writable, opened, buffer>>
  BY DEF PostFails, socketVars
<1>3. \A d \in Calls : phase[d] # "idle" => d = c
  BY <1>2, ServedFacts
<1>4. InFlight = payload[c]
  <2>1. phase[c] # "idle"
    BY <1>2
  <2>2. InFlightOf(phase, payload) = payload[c]
    BY <1>3, <2>1, OneInFlight
  <2> QED
    BY <2>2 DEF InFlight, InFlightOf, Active
<1>5. phase'[c] = "posted" /\ payload'[c] = << >> /\ \A d \in Calls : phase'[d] # "idle" => d = c
  BY <1>1, <1>2, <1>3
<1>6. InFlight' = << >>
  <2>1. InFlight' = InFlightOf(phase', payload')
    BY DEF InFlight, InFlightOf, Active
  <2> QED
    BY <1>5, <2>1, OneInFlight
<1> DEFINE rest == buffer \o pending
<1>7. rest \in Seq(Packet)
  BY <1>1, ConcatProperties
<1>8. AllPackets = (delivered \o payload[c]) \o rest
  <2>1. delivered \o payload[c] \in Seq(Packet)
    BY <1>1, ConcatProperties
  <2> QED
    BY <1>1, <1>4, <2>1, SplitEnd DEF AllPackets
<1>9. AllPackets' = delivered \o rest
  <2>1. delivered' \o InFlight' = delivered
    BY <1>1, <1>2, <1>6, ConcatEmptySeq
  <2>2. AllPackets' = (delivered \o buffer) \o pending
    BY <1>2, <2>1 DEF AllPackets
  <2> QED
    BY <1>1, <2>2, SplitEnd
<1> HIDE DEF rest
<1>10. /\ Ascending((delivered \o payload[c]) \o rest)
       /\ \A i \in DOMAIN ((delivered \o payload[c]) \o rest) :
             ((delivered \o payload[c]) \o rest)[i].no <= created
  BY <1>8, ServedFacts DEF Numbered
<1>11. /\ Ascending(delivered \o rest)
       /\ \A i \in DOMAIN (delivered \o rest) : (delivered \o rest)[i].no <= created
  <2>1. payload[c] \in Seq(Packet)
    BY <1>1
  <2> QED
    BY <1>1, <1>7, <1>10, <2>1, AscendingWithout
<1>12. Ordered'
  BY <1>2, <1>9, <1>11 DEF Ordered, Numbered
<1>13. OneCallAtATime'
  <2>1. ~writable
    BY <1>2, ServedFacts
  <2> QED
    BY <1>2, <1>5, <2>1 DEF OneCallAtATime, Active
<1>14. OpenFirst'
  <2>1. ~Opening /\ Active # {}
    BY <1>2, <1>3 DEF Opening, Active
  <2>2. opened
    BY <2>1 DEF OpenFirst, IInvEio
  <2> QED
    BY <1>2, <2>2 DEF OpenFirst
<1> QED
  BY <1>12, <1>13, <1>14

\* Socket.sendPacket numbers the next packet and puts it last.
LEMMA SendPacketStep ==
    ASSUME IInvEio, Ordered, Serving, Serving', SendPacket
    PROVE  OneCallAtATime' /\ OpenFirst' /\ Ordered'
<1>1. /\ delivered \in Seq(Packet) /\ buffer \in Seq(Packet) /\ pending \in Seq(Packet)
      /\ payload \in [Calls -> Seq(Packet)] /\ created \in Nat /\ unit \in Seq(Kind)
  BY DEF IInvEio, TypeOK
<1> DEFINE p == [no |-> created + 1, kind |-> Head(unit)]
<1>2. /\ unit # << >> /\ duty = "none" /\ created' = created + 1
      /\ pending' = Append(pending, p) /\ unit' = Tail(unit) /\ duty' = "flush"
      /\ UNCHANGED <<engine, shutDown, writable, opened, buffer, phase, payload, delivered, failed>>
  BY DEF SendPacket, transportVars, serviceVars
<1>3. p \in Packet /\ p.no = created + 1
  <2>1. Head(unit) \in Kind
    BY <1>1, <1>2, HeadTailProperties
  <2> QED
    BY <1>1, <2>1 DEF Packet
<1>4. /\ Active' = Active /\ (Opening' <=> Opening) /\ InFlight' = InFlight
  BY <1>2 DEF Active, Opening, InFlight
<1>5. OneCallAtATime'
  <2>1. OneCallAtATime
    BY DEF IInvEio
  <2> QED
    BY <1>2, <1>4, <2>1 DEF OneCallAtATime
<1>6. OpenFirst'
  <2> SUFFICES ASSUME ~opened, ~Opening
               PROVE  /\ Active' = {} /\ delivered' = << >> /\ buffer' = << >>
                      /\ created' = 1 /\ unit' = << >> /\ duty' = "flush"
                      /\ pending' = <<[no |-> 1, kind |-> "open"]>>
    BY <1>2, <1>4 DEF OpenFirst
  <2>1. /\ Active = {} /\ delivered = << >> /\ buffer = << >>
        /\ created = 0 /\ unit = <<"open">> /\ pending = << >>
    BY <1>2 DEF OpenFirst, IInvEio
  <2>2. Head(unit) = "open" /\ Tail(unit) = << >>
    BY <2>1
  <2> QED
    BY <1>2, <1>4, <2>1, <2>2
<1> HIDE DEF p
<1>7. AllPackets \in Seq(Packet) /\ AllPackets' = Append(AllPackets, p)
  <2>1. InFlight \in Seq(Packet)
    <3>1. CASE Active = {}
      BY <3>1 DEF InFlight
    <3>2. CASE Active # {}
      <4>1. (CHOOSE c \in Active : TRUE) \in Calls
        BY <3>2 DEF Active
      <4> QED
        BY <1>1, <3>2, <4>1 DEF InFlight
    <3> QED
      BY <3>1, <3>2
  <2> DEFINE front == (delivered \o InFlight) \o buffer
  <2>2. front \in Seq(Packet)
    BY <1>1, <2>1, ConcatProperties
  <2>3. AllPackets = front \o pending /\ AllPackets' = front \o Append(pending, p)
    BY <1>2, <1>4 DEF AllPackets
  <2> HIDE DEF front
  <2>4. front \o Append(pending, p) = Append(front \o pending, p)
    BY <1>1, <1>3, <2>2
  <2> QED
    BY <1>1, <2>2, <2>3, <2>4, ConcatProperties
<1>8. Ordered'
  <2>1. First' = First /\ First \in Nat
    BY <1>2, <1>4 DEF First
  <2>2. Numbered(Append(AllPackets, p), First, created + 1, failed)
    BY <1>1, <1>3, <1>7, <2>1, NumberedAppend, ServedFacts
  <2> QED
    BY <1>2, <1>7, <2>1, <2>2 DEF Ordered
<1> QED
  BY <1>5, <1>6, <1>8

-----------------------------------------------------------------------------
\* The theorems

LEMMA InitOrdered == Init => IInvEio /\ Ordered
<1> SUFFICES ASSUME Init PROVE IInvEio /\ Ordered
  OBVIOUS
<1>1. Active = {} /\ ~Opening /\ InFlight = << >>
  BY DEF Init, Active, Opening, InFlight
<1>2. OneCallAtATime /\ OpenFirst
  BY <1>1 DEF Init, OneCallAtATime, OpenFirst
<1>3. AllPackets = << >> /\ First = 0 /\ created = 0
  BY <1>1 DEF Init, AllPackets, First
<1>4. Numbered(<< >>, 0, 0, failed)
  BY DEF Numbered, Ascending
<1>5. Ordered
  BY <1>3, <1>4 DEF Ordered
<1> QED
  BY <1>2, <1>5, InitTypes DEF IInvEio

\* Steps that touch neither calls nor packets.
LEMMA Elsewhere ==
    ASSUME IInvEio, Ordered, Serving, Serving',
           UNCHANGED <<writable, opened, buffer, phase, payload, delivered, failed, pending, created>>,
           UNCHANGED <<unit, duty>> \/ (created > 0 /\ duty # "flush")
                                    \/ (duty = "flush" /\ ~writable)
                                    \/ (duty = "flush" /\ pending = << >>)
    PROVE  OneCallAtATime' /\ OpenFirst' /\ Ordered'
<1>1. Active' = Active /\ (Opening' <=> Opening) /\ InFlight' = InFlight
  BY DEF Active, Opening, InFlight
<1>2. OneCallAtATime'
  BY <1>1 DEF OneCallAtATime, IInvEio
<1>3. AllPackets' = AllPackets /\ First' = First
  BY <1>1 DEF AllPackets, First
<1>4. Ordered'
  BY <1>3 DEF Ordered
<1>5. OpenFirst'
  <2>1. ~opened /\ ~Opening => UNCHANGED <<unit, duty>>
    BY DEF OpenFirst, OneCallAtATime, IInvEio
  <2> QED
    BY <1>1, <2>1 DEF OpenFirst, IInvEio
<1> QED
  BY <1>2, <1>4, <1>5

LEMMA StepOrdered == IInvEio /\ Ordered /\ [Next]_vars => IInvEio' /\ Ordered'
<1> SUFFICES ASSUME IInvEio, Ordered, [Next]_vars PROVE IInvEio' /\ Ordered'
  OBVIOUS
<1>1. TypeOK' /\ Carried'
  BY StepTypes DEF IInvEio
<1>2. ASSUME Serving' PROVE OneCallAtATime' /\ OpenFirst' /\ Ordered'
  <2>1. ASSUME NEW c \in Calls, AnswerConnect(c) PROVE OneCallAtATime' /\ OpenFirst' /\ Ordered'
    <3>1. Serving /\ UNCHANGED <<delivered, pending, created, failed>> /\ opened'
      BY <1>2, <2>1 DEF AnswerConnect, Serving, socketVars, serviceVars
    <3>2. First' = 1 /\ First = 1
      BY <2>1, <3>1 DEF First, Opening, AnswerConnect
    <3>3. phase[c] = "opening" /\ Loop(c, buffer, writable)
      BY <2>1 DEF AnswerConnect
    <3> QED
      BY <1>2, <3>1, <3>2, <3>3, GoesOn
  <2>2. ASSUME NEW c \in Calls, Post(c) PROVE OneCallAtATime' /\ OpenFirst' /\ Ordered'
    <3>1. /\ Serving /\ phase[c] = "encoding" /\ phase' = [phase EXCEPT ![c] = "posting"]
          /\ UNCHANGED <<delivered, pending, created, failed, payload, buffer, writable, opened>>
      BY <1>2, <2>2 DEF Post, Serving, socketVars, serviceVars
    <3>2. phase \in [Calls -> Phase]
      BY DEF IInvEio, TypeOK
    <3>3. Active' = Active /\ (Opening' <=> Opening) /\ c \in Active
      BY <3>1, <3>2 DEF Active, Opening
    <3>4. InFlight' = InFlight /\ First' = First
      BY <3>1, <3>3 DEF InFlight, First
    <3>5. OneCallAtATime'
      BY <3>1, <3>3 DEF OneCallAtATime, IInvEio
    <3>6. Ordered'
      BY <3>1, <3>4 DEF Ordered, AllPackets
    <3>7. OpenFirst'
      BY <3>1, <3>3 DEF OpenFirst, IInvEio
    <3> QED
      BY <3>5, <3>6, <3>7
  <2>3. ASSUME NEW c \in Calls, Resume(c) PROVE OneCallAtATime' /\ OpenFirst' /\ Ordered'
    <3>1. /\ Serving /\ UNCHANGED <<delivered, pending, created, failed, opened>>
          /\ phase[c] = "posted" /\ Loop(c, buffer, writable)
      BY <1>2, <2>3 DEF Resume, Serving, socketVars, serviceVars
    <3>2. opened
      <4>1. c \in Active
        BY <3>1 DEF Active
      <4>2. ~Opening
        BY <3>1, ServedFacts DEF Opening
      <4> QED
        BY <3>1, <4>1, <4>2 DEF OpenFirst, IInvEio
    <3>3. First' = First
      BY <3>1, <3>2 DEF First
    <3> QED
      BY <1>2, <3>1, <3>2, <3>3, GoesOn
  <2>4. ASSUME NEW c \in Calls, Deliver(c) PROVE OneCallAtATime' /\ OpenFirst' /\ Ordered'
    <3>1. Serving
      BY <1>2, <2>4 DEF Deliver, Serving, socketVars
    <3> QED
      BY <1>2, <2>4, <3>1, DeliverStep
  <2>5. ASSUME NEW c \in Calls, PostFails(c) PROVE OneCallAtATime' /\ OpenFirst' /\ Ordered'
    <3>1. Serving
      BY <1>2, <2>5 DEF PostFails, Serving, socketVars
    <3> QED
      BY <1>2, <2>5, <3>1, FailStep
  <2>6. CASE CloseTransport \/ CloseContext \/ CloseServer \/ PingTimeout \/ Disconnected
    BY <1>2, <2>6 DEF Serving, CloseTransport, CloseContext, CloseServer, PingTimeout, Disconnected
  <2>7. CASE Write
    <3>1. /\ Serving /\ created > 0 /\ duty = "none"
          /\ UNCHANGED <<writable, opened, buffer, phase, payload, delivered, failed, pending, created>>
      BY <1>2, <2>7 DEF Write, Serving, BetweenTurns, socketVars, transportVars, serviceVars
    <3> QED
      BY <1>2, <3>1, Elsewhere
  <2>8. CASE SendPacket
    <3>1. Serving
      BY <1>2, <2>8 DEF SendPacket, Serving
    <3> QED
      BY <1>2, <2>8, <3>1, SendPacketStep
  <2>9. CASE Flush
    <3>1. Serving /\ duty = "flush" /\ UNCHANGED <<created, delivered, failed>>
      BY <1>2, <2>9 DEF Flush, Serving, serviceVars
    <3>2. CASE writable /\ pending # << >> /\ Send(pending) /\ pending' = << >>
      BY <1>2, <3>1, <3>2, FlushStep
    <3>3. CASE /\ engine = "closed" \/ ~writable \/ pending = << >>
               /\ UNCHANGED <<closeWhenDrained, pending, transportVars>>
      <4>1. /\ ~writable \/ pending = << >>
            /\ UNCHANGED <<writable, opened, buffer, phase, payload, pending>>
        BY <3>1, <3>3 DEF Serving, transportVars
      <4> QED
        BY <1>2, <3>1, <4>1, Elsewhere
    <3> QED
      BY <2>9, <3>2, <3>3 DEF Flush
  <2>10. CASE Close
    <3>1. /\ Serving /\ created > 0 /\ duty = "none"
          /\ UNCHANGED <<writable, opened, buffer, phase, payload, delivered, failed, pending, created>>
      BY <1>2, <2>10 DEF Close, Serving, BetweenTurns, transportVars, serviceVars
    <3> QED
      BY <1>2, <3>1, Elsewhere
  <2>11. CASE UNCHANGED vars
    <3>1. /\ Serving /\ UNCHANGED <<unit, duty>>
          /\ UNCHANGED <<writable, opened, buffer, phase, payload, delivered, failed, pending, created>>
      BY <1>2, <2>11 DEF vars, Serving
    <3> QED
      BY <1>2, <3>1, Elsewhere
  <2> QED
    BY <2>1, <2>2, <2>3, <2>4, <2>5, <2>6, <2>7, <2>8, <2>9, <2>10, <2>11 DEF Next
<1>3. ASSUME ~Serving' PROVE OneCallAtATime' /\ OpenFirst' /\ Ordered'
  BY <1>3 DEF OneCallAtATime, OpenFirst, Ordered
<1> QED
  BY <1>1, <1>2, <1>3 DEF IInvEio

\* The discipline send relies on, for any number of packets and calls: at most
\* one call while the connection is served, and writable says whether.
THEOREM CallsTakeTurns == Spec => []IInvEio
<1>1. Init => IInvEio /\ Ordered
  BY InitOrdered
<1>2. (IInvEio /\ Ordered) /\ [Next]_vars => (IInvEio /\ Ordered)'
  BY StepOrdered
<1>3. IInvEio /\ Ordered => IInvEio
  OBVIOUS
<1> QED
  BY <1>1, <1>2, <1>3, PTL DEF Spec

\* Until it is closed, a connection loses nothing unless a call fails, and
\* swaps nothing even then.
THEOREM PacketsKeepTheirOrder == Spec => []NothingLostOrSwapped
<1>1. Init => IInvEio /\ Ordered
  BY InitOrdered
<1>2. (IInvEio /\ Ordered) /\ [Next]_vars => (IInvEio /\ Ordered)'
  BY StepOrdered
<1>3. IInvEio /\ Ordered => NothingLostOrSwapped
  BY DEF Ordered, Numbered, First, NothingLostOrSwapped
<1> QED
  BY <1>1, <1>2, <1>3, PTL DEF Spec

-----------------------------------------------------------------------------
\* The answer to the connect event

Accepted == "accept" \in Range(answers)

\* Before the connection is accepted nothing is buffered or carried: the first
\* call of send has the open packet alone, and any other is a close.
Unaccepted ==
    ~opened =>
        /\ buffer = << >> /\ delivered = << >>
        /\ \A c \in Calls : phase[c] \in {"idle", "opening"} /\ payload[c] = << >>
        /\ writable /\ duty = "flush" =>
              unit = << >> /\ Len(pending) = 1 /\ pending[1].kind = "open"
        /\ writable /\ unit # << >> => unit = <<"open">> /\ pending = << >>

\* A turn that closes the connection has nothing left to write, and Engine.IO
\* writes nothing once it closes.
Ending ==
    /\ closeWhenDrained => engine # "open" /\ unit = << >>
    /\ duty = "close" => unit = << >>
    /\ engine = "open" => shutDown = "no"

IInvAccepted == (opened => Accepted) /\ Unaccepted /\ Ending

\* An answer is not taken back, and an acceptance is one.
LEMMA AppendAnswer ==
    ASSUME NEW q \in Seq({"accept", "refuse"}), NEW a \in {"accept", "refuse"}
    PROVE  /\ "accept" \in Range(q) => "accept" \in Range(Append(q, a))
           /\ "accept" \in Range(Append(q, "accept"))
<1>1. \A b \in {"accept", "refuse"} :
        /\ DOMAIN q = 1..Len(q) /\ Len(q) \in Nat
        /\ DOMAIN Append(q, b) = 1..(Len(q) + 1)
        /\ \A i \in 1..Len(q) : Append(q, b)[i] = q[i]
        /\ Append(q, b)[Len(q) + 1] = b
  BY LenProperties, AppendProperties
<1>2. ASSUME "accept" \in Range(q) PROVE "accept" \in Range(Append(q, a))
  <2>1. PICK i \in 1..Len(q) : q[i] = "accept"
    BY <1>1, <1>2 DEF Range
  <2>2. i \in DOMAIN Append(q, a) /\ Append(q, a)[i] = "accept"
    BY <1>1, <2>1
  <2> QED
    BY <2>2 DEF Range
<1>3. Len(q) + 1 \in DOMAIN Append(q, "accept") /\ Append(q, "accept")[Len(q) + 1] = "accept"
  BY <1>1
<1>4. "accept" \in Range(Append(q, "accept"))
  BY <1>3 DEF Range
<1> QED
  BY <1>2, <1>4

\* A loop with nothing to take ends.
LEMMA EmptyLoop ==
    ASSUME TypeOK, NEW c \in Calls, NEW w, Loop(c, << >>, w)
    PROVE  /\ buffer' = << >> /\ writable'
           /\ phase' = [phase EXCEPT ![c] = "idle"]
           /\ payload' = [payload EXCEPT ![c] = << >>]
<1>1. Len(<< >>) = 0 /\ 1..0 = {}
  OBVIOUS
<1> DEFINE n == NextSend(Kinds(<< >>))
<1>2. n \notin 1..Len(<< >>)
  BY <1>1
<1> QED
  BY <1>2 DEF Loop

\* A call of send with one packet, while nothing is accepted or buffered.
LEMMA FirstSend ==
    ASSUME TypeOK, Unaccepted, ~opened, NEW p \in Seq(Packet), Len(p) = 1, Send(p)
    PROVE  /\ buffer' = << >> /\ ~opened'
           /\ \A c \in Calls : phase'[c] \in {"idle", "opening"} /\ payload'[c] = << >>
           /\ p[1].kind = "open" => ~writable'
<1>1. /\ buffer = << >> /\ opened' = opened
      /\ \A c \in Calls : phase[c] \in {"idle", "opening"} /\ payload[c] = << >>
      /\ phase \in [Calls -> Phase] /\ payload \in [Calls -> Seq(Packet)]
  BY DEF Unaccepted, TypeOK, Send
<1>2. buffer \o p = p
  BY <1>1, ConcatEmptySeq
<1>3. Tail(p) = << >>
  <2>1. Tail(p) \in Seq(Packet) /\ Len(Tail(p)) = 0
    BY HeadTailProperties, EmptySeq
  <2> QED
    BY <2>1, EmptySeq
<1>4. PICK c \in Calls :
        \/ /\ p[1].kind = "open" /\ buffer' = << >>
           /\ phase' = [phase EXCEPT ![c] = "opening"]
           /\ writable' = FALSE /\ payload' = payload
        \/ p[1].kind # "open" /\ Loop(c, << >>, FALSE)
  BY <1>2, <1>3 DEF Send
<1>5. CASE p[1].kind = "open"
  BY <1>1, <1>4, <1>5
<1>6. CASE p[1].kind # "open"
  <2>1. /\ buffer' = << >>
        /\ phase' = [phase EXCEPT ![c] = "idle"]
        /\ payload' = [payload EXCEPT ![c] = << >>]
    BY <1>4, <1>6, EmptyLoop
  <2> QED
    BY <1>1, <1>6, <2>1
<1> QED
  BY <1>5, <1>6

\* No call of send takes an acceptance back, and none opens the transport.
LEMMA SendKeepsAccepted ==
    ASSUME TypeOK, NEW p, Send(p)
    PROVE  opened' = opened /\ (Accepted => Accepted')
<1>1. answers \in Seq({"accept", "refuse"})
  BY DEF TypeOK
<1>2. answers' = answers \/ answers' = Append(answers, "refuse")
  BY DEF Send
<1> QED
  BY <1>1, <1>2, AppendAnswer DEF Send, Accepted

LEMMA InitAccepted == Init => IInvAccepted
<1> SUFFICES ASSUME Init PROVE IInvAccepted
  OBVIOUS
<1>1. Unaccepted
  BY DEF Init, Unaccepted
<1>2. Ending
  BY DEF Init, Ending
<1> QED
  BY <1>1, <1>2 DEF Init, IInvAccepted

\* Between the first call and its acceptance, a connection that is open is being
\* opened.
LEMMA OpenIsOpening ==
    ASSUME IInvEio, IInvAccepted, ~opened, engine = "open", created > 0, BetweenTurns
    PROVE  ~writable
<1>1. Serving
  BY DEF IInvAccepted, Ending, Serving
<1>2. created \in Nat
  BY DEF IInvEio, TypeOK
<1>3. Opening
  BY <1>1, <1>2 DEF IInvEio, OpenFirst, BetweenTurns
<1>4. Active # {}
  BY <1>3 DEF Opening, Active
<1> QED
  BY <1>1, <1>4 DEF IInvEio, OneCallAtATime, TypeOK

LEMMA StepAccepted == IInvEio /\ IInvAccepted /\ [Next]_vars => IInvAccepted'
<1> SUFFICES ASSUME IInvEio, IInvAccepted, [Next]_vars PROVE IInvAccepted'
  OBVIOUS
<1>1. /\ TypeOK /\ Unaccepted /\ Ending /\ (opened => Accepted)
      /\ answers \in Seq({"accept", "refuse"}) /\ opened \in BOOLEAN /\ writable \in BOOLEAN
  BY DEF IInvEio, IInvAccepted, TypeOK
<1>2. ASSUME NEW c \in Calls, AnswerConnect(c) PROVE IInvAccepted'
  <2>1. opened' /\ Accepted'
    BY <1>1, <1>2, AppendAnswer DEF AnswerConnect, Accepted
  <2>2. Ending'
    BY <1>1, <1>2 DEF AnswerConnect, BetweenTurns, socketVars, Ending
  <2> QED
    BY <2>1, <2>2 DEF IInvAccepted, Unaccepted
<1>3. ASSUME NEW c \in Calls, Post(c) \/ Resume(c) \/ Deliver(c) \/ PostFails(c)
      PROVE  IInvAccepted'
  <2>1. opened /\ opened' /\ answers' = answers
    BY <1>1, <1>3 DEF Unaccepted, Post, Resume, Deliver, PostFails
  <2>2. Ending'
    BY <1>1, <1>3 DEF Post, Resume, Deliver, PostFails, Quiet, BetweenTurns, socketVars, Ending
  <2> QED
    BY <1>1, <2>1, <2>2 DEF IInvAccepted, Unaccepted, Accepted
<1>4. CASE CloseTransport
  <2>1. CASE ~closing
    <3> DEFINE p == <<[no |-> created + 1, kind |-> "close"]>>
    <3>1. Send(p) /\ duty = "close" /\ duty' = "none" /\ engine' = "closed"
          /\ unit' = unit /\ delivered' = delivered /\ closeWhenDrained' = closeWhenDrained
      BY <1>4, <2>1 DEF CloseTransport, serviceVars
    <3>2. p \in Seq(Packet) /\ Len(p) = 1 /\ unit = << >>
      BY <1>1, <3>1 DEF TypeOK, Packet, Kind, Pure, Ending
    <3> HIDE DEF p
    <3>3. opened' = opened /\ (Accepted => Accepted')
      BY <1>1, <3>1, SendKeepsAccepted
    <3>4. Unaccepted'
      <4>1. CASE opened
        BY <3>3, <4>1 DEF Unaccepted
      <4>2. CASE ~opened
        <5>1. buffer' = << >> /\ \A c \in Calls : phase'[c] \in {"idle", "opening"} /\ payload'[c] = << >>
          BY <1>1, <3>1, <3>2, <4>2, FirstSend
        <5> QED
          BY <1>1, <3>1, <3>2, <4>2, <5>1 DEF Unaccepted
      <4> QED
        BY <4>1, <4>2
    <3>5. Ending'
      BY <1>1, <3>1, <3>2 DEF Ending
    <3> QED
      BY <1>1, <3>3, <3>4, <3>5 DEF IInvAccepted
  <2>2. CASE closing
    <3>1. /\ duty = "close" /\ duty' = "none" /\ engine' = "closed"
          /\ unit' = unit /\ delivered' = delivered /\ closeWhenDrained' = closeWhenDrained
          /\ UNCHANGED transportVars
      BY <1>4, <2>2 DEF CloseTransport, serviceVars
    <3>2. Unaccepted' /\ Ending'
      BY <1>1, <3>1 DEF Unaccepted, Ending, transportVars
    <3> QED
      BY <1>1, <3>1, <3>2 DEF IInvAccepted, Accepted, transportVars
  <2> QED
    BY <2>1, <2>2
<1>5. CASE CloseContext
  <2> DEFINE p == <<[no |-> created + 1, kind |-> "close"]>>
  <2>1. /\ Send(p) /\ unit = << >> /\ duty = "none" /\ shutDown = "now"
        /\ unit' = unit /\ duty' = duty /\ engine' = engine
        /\ closeWhenDrained' = closeWhenDrained /\ delivered' = delivered
    BY <1>5 DEF CloseContext, serviceVars
  <2>2. p \in Seq(Packet) /\ Len(p) = 1
    BY <1>1 DEF TypeOK, Packet, Kind, Pure
  <2> HIDE DEF p
  <2>3. opened' = opened /\ (Accepted => Accepted')
    BY <1>1, <2>1, SendKeepsAccepted
  <2>4. Unaccepted'
    <3>1. CASE opened
      BY <2>3, <3>1 DEF Unaccepted
    <3>2. CASE ~opened
      <4>1. buffer' = << >> /\ \A c \in Calls : phase'[c] \in {"idle", "opening"} /\ payload'[c] = << >>
        BY <1>1, <2>1, <2>2, <3>2, FirstSend
      <4> QED
        BY <1>1, <2>1, <3>2, <4>1 DEF Unaccepted
    <3> QED
      BY <3>1, <3>2
  <2>5. Ending'
    BY <1>1, <2>1 DEF Ending
  <2> QED
    BY <1>1, <2>3, <2>4, <2>5 DEF IInvAccepted
<1>6. CASE Write
  <2>1. /\ BetweenTurns /\ engine = "open" /\ created > 0 /\ UNCHANGED <<duty, shutDown>>
        /\ UNCHANGED socketVars /\ UNCHANGED transportVars /\ UNCHANGED serviceVars
    BY <1>6 DEF Write
  <2>2. ~opened => ~writable
    BY <2>1, OpenIsOpening
  <2>3. Unaccepted'
    BY <1>1, <2>1, <2>2 DEF Unaccepted, transportVars, serviceVars
  <2>4. Ending'
    BY <1>1, <2>1 DEF Ending, socketVars, BetweenTurns
  <2> QED
    BY <1>1, <2>1, <2>3, <2>4 DEF IInvAccepted, Accepted, transportVars
<1>7. CASE SendPacket
  <2>1. /\ unit # << >> /\ duty = "none" /\ duty' = "flush" /\ unit' = Tail(unit)
        /\ pending' = Append(pending, [no |-> created + 1, kind |-> Head(unit)])
        /\ UNCHANGED <<engine, closeWhenDrained, shutDown>>
        /\ UNCHANGED transportVars /\ UNCHANGED serviceVars
    BY <1>7 DEF SendPacket
  <2>2. Unaccepted'
    <3> SUFFICES ASSUME ~opened'
                 PROVE  Unaccepted'
      BY DEF Unaccepted
    <3>1. ~opened /\ writable' = writable
      BY <2>1 DEF transportVars
    <3>2. CASE writable
      <4>1. unit = <<"open">> /\ pending = << >>
        BY <1>1, <2>1, <3>1, <3>2 DEF Unaccepted
      <4>2. unit' = << >> /\ pending' = <<[no |-> created + 1, kind |-> "open"]>>
        BY <2>1, <4>1
      <4>3. Len(pending') = 1 /\ pending'[1].kind = "open"
        BY <4>2
      <4> QED
        BY <1>1, <2>1, <3>1, <4>2, <4>3 DEF Unaccepted, transportVars, serviceVars
    <3>3. CASE ~writable
      BY <1>1, <2>1, <3>1, <3>3 DEF Unaccepted, transportVars, serviceVars
    <3> QED
      BY <3>2, <3>3
  <2>3. Ending'
    BY <1>1, <2>1 DEF Ending
  <2> QED
    BY <1>1, <2>1, <2>2, <2>3 DEF IInvAccepted, Accepted, transportVars
<1>8. CASE Flush
  <2>1. CASE engine # "closed" /\ writable /\ pending # << >>
    <3>1. /\ duty = "flush" /\ Send(pending)
          /\ duty' = IF closeWhenDrained THEN "close" ELSE "none"
          /\ ~closeWhenDrained' /\ UNCHANGED <<unit, engine, shutDown, delivered>>
      BY <1>8, <2>1 DEF Flush, serviceVars
    <3>2. opened' = opened /\ (Accepted => Accepted')
      BY <1>1, <3>1, SendKeepsAccepted
    <3>3. Unaccepted'
      <4>1. CASE opened
        BY <3>2, <4>1 DEF Unaccepted
      <4>2. CASE ~opened
        <5>1. Len(pending) = 1 /\ pending[1].kind = "open" /\ pending \in Seq(Packet)
          BY <1>1, <2>1, <3>1, <4>2 DEF Unaccepted, TypeOK
        <5>2. /\ buffer' = << >> /\ ~writable'
              /\ \A c \in Calls : phase'[c] \in {"idle", "opening"} /\ payload'[c] = << >>
          BY <1>1, <3>1, <4>2, <5>1, FirstSend
        <5> QED
          BY <1>1, <3>1, <4>2, <5>2 DEF Unaccepted
      <4> QED
        BY <4>1, <4>2
    <3>4. Ending'
      BY <1>1, <3>1 DEF Ending
    <3> QED
      BY <1>1, <3>2, <3>3, <3>4 DEF IInvAccepted
  <2>2. CASE engine = "closed" \/ ~writable \/ pending = << >>
    <3>1. /\ duty' = "none" /\ UNCHANGED <<unit, engine, shutDown, delivered>>
          /\ UNCHANGED <<closeWhenDrained, pending>> /\ UNCHANGED transportVars
      BY <1>8, <2>2 DEF Flush, serviceVars
    <3>2. Unaccepted' /\ Ending'
      BY <1>1, <3>1 DEF Unaccepted, Ending, transportVars
    <3> QED
      BY <1>1, <3>1, <3>2 DEF IInvAccepted, Accepted, transportVars
  <2> QED
    BY <2>1, <2>2
<1>9. CASE Close \/ CloseServer
  <2>1. /\ unit = << >> /\ duty = "none" /\ unit' = unit /\ UNCHANGED transportVars
        /\ delivered' = delivered /\ engine' = "closing"
        /\ duty' \in {"none", "close"}
    BY <1>9 DEF Close, CloseServer, BetweenTurns, serviceVars
  <2>2. Unaccepted' /\ Ending'
    BY <1>1, <2>1 DEF Unaccepted, Ending, transportVars
  <2> QED
    BY <1>1, <2>1, <2>2 DEF IInvAccepted, Accepted, transportVars
<1>10. CASE PingTimeout \/ Disconnected
  <2>1. /\ opened /\ unit = << >> /\ unit' = unit /\ UNCHANGED transportVars
        /\ ~closeWhenDrained' /\ engine' = "closed"
    BY <1>10 DEF PingTimeout, Disconnected, Quiet, BetweenTurns, transportVars
  <2>2. Unaccepted' /\ Ending'
    BY <2>1 DEF Unaccepted, Ending, transportVars
  <2> QED
    BY <1>1, <2>1, <2>2 DEF IInvAccepted, Accepted, transportVars
<1>11. CASE UNCHANGED vars
  BY <1>1, <1>11 DEF vars, IInvAccepted, Accepted, Unaccepted, Ending
<1> QED
  BY <1>2, <1>3, <1>4, <1>5, <1>6, <1>7, <1>8, <1>9, <1>10, <1>11 DEF Next

\* While it is served a connection has been accepted or not answered, and it is
\* accepted once: the call that opens it is the only one.
Answered ==
    Serving => /\ answers = IF opened THEN <<"accept">> ELSE << >>
               /\ Opening => ~opened

\* A connection that is refused first is closed, with nothing to send, unless
\* the whole server has been closed.
Refused ==
    answers # << >> /\ answers[1] # "accept" /\ shutDown = "no" =>
        /\ engine = "closed" /\ duty # "close" /\ unit = << >>
        /\ buffer = << >> /\ delivered = << >>
        /\ \A c \in Calls : phase[c] \in {"idle", "opening"} /\ payload[c] = << >>

\* The first answer stays the first.
LEMMA FirstAnswer ==
    ASSUME NEW q \in Seq({"accept", "refuse"}), NEW a \in {"accept", "refuse"}
    PROVE  /\ Append(q, a) # << >>
           /\ q # << >> => Append(q, a)[1] = q[1]
           /\ q = << >> => Append(q, a) = <<a>> /\ Append(q, a)[1] = a
<1>1. /\ Len(q) \in Nat /\ Len(Append(q, a)) = Len(q) + 1
      /\ \A i \in 1..Len(q) : Append(q, a)[i] = q[i]
      /\ Append(q, a)[Len(q) + 1] = a
  BY LenProperties, AppendProperties
<1>2. Append(q, a) # << >>
  BY <1>1, EmptySeq
<1>3. ASSUME q # << >> PROVE Append(q, a)[1] = q[1]
  <2>1. Len(q) # 0
    BY <1>3, EmptySeq
  <2>2. 1 \in 1..Len(q)
    BY <1>1, <2>1
  <2> QED
    BY <1>1, <2>2
<1>4. ASSUME q = << >> PROVE Append(q, a) = <<a>> /\ Append(q, a)[1] = a
  BY <1>4
<1> QED
  BY <1>2, <1>3, <1>4

LEMMA InitAnswered == Init => Answered /\ Refused
BY DEF Init, Answered, Refused, Opening

LEMMA StepAnswered ==
    IInvEio /\ IInvAccepted /\ Answered /\ [Next]_vars => Answered'
<1> SUFFICES ASSUME IInvEio, IInvAccepted, Answered, [Next]_vars, Serving'
             PROVE  /\ answers' = IF opened' THEN <<"accept">> ELSE << >>
                    /\ Opening' => ~opened'
  BY DEF Answered
<1>1. /\ TypeOK /\ Unaccepted /\ phase \in [Calls -> Phase]
      /\ opened \in BOOLEAN /\ writable \in BOOLEAN
  BY DEF IInvEio, IInvAccepted, TypeOK
<1>2. ASSUME UNCHANGED <<engine, shutDown>>
      PROVE  /\ Serving /\ answers = IF opened THEN <<"accept">> ELSE << >>
             /\ Opening => ~opened
             /\ \A c, d \in Active : c = d
             /\ writable <=> Active = {}
  BY <1>2 DEF Serving, Answered, IInvEio, OneCallAtATime
<1>3. ASSUME NEW c \in Calls, AnswerConnect(c)
      PROVE  answers' = <<"accept">> /\ opened' /\ ~Opening'
  <2>1. /\ phase[c] = "opening" /\ opened' = TRUE /\ UNCHANGED <<engine, shutDown>>
        /\ answers' = Append(answers, "accept") /\ Loop(c, buffer, writable)
    BY <1>3 DEF AnswerConnect, socketVars
  <2>2. Opening
    BY <2>1 DEF Opening
  <2>3. answers = << >> /\ \A d \in Active : d = c
    BY <1>2, <2>1, <2>2 DEF Active
  <2>4. \A d \in Calls \ {c} : phase[d] = "idle"
    BY <1>1, <2>3 DEF Active
  <2>5. PICK p \in {"encoding", "idle"} : phase' = [phase EXCEPT ![c] = p]
    BY <2>1 DEF Loop
  <2>6. ~Opening'
    BY <1>1, <2>4, <2>5 DEF Opening
  <2> QED
    BY <2>1, <2>3, <2>6
<1>4. ASSUME NEW c \in Calls, Post(c) \/ Resume(c) \/ Deliver(c) \/ PostFails(c)
      PROVE  /\ answers' = IF opened' THEN <<"accept">> ELSE << >>
             /\ Opening' => ~opened'
  <2>1. UNCHANGED <<engine, shutDown, opened, answers>>
    BY <1>4 DEF Post, Resume, Deliver, PostFails, socketVars
  <2>2. PICK p \in {"encoding", "idle", "posting", "posted"} : phase' = [phase EXCEPT ![c] = p]
    BY <1>4 DEF Post, Resume, Deliver, PostFails, Loop
  <2>3. Opening' => Opening
    BY <1>1, <2>2 DEF Opening
  <2> QED
    BY <1>2, <2>1, <2>3
<1>5. ASSUME UNCHANGED <<engine, shutDown, opened, answers, phase>>
      PROVE  /\ answers' = IF opened' THEN <<"accept">> ELSE << >>
             /\ Opening' => ~opened'
  BY <1>2, <1>5 DEF Opening
<1>6. CASE Flush
  <2>1. CASE engine # "closed" /\ writable /\ pending # << >>
    <3>1. /\ duty = "flush" /\ Send(pending) /\ UNCHANGED <<engine, shutDown>>
      BY <1>6, <2>1 DEF Flush
    <3>2. ~opened => Len(pending) = 1 /\ pending[1].kind = "open" /\ buffer \o pending = pending
      <4> SUFFICES ASSUME ~opened
                   PROVE  /\ Len(pending) = 1 /\ pending[1].kind = "open"
                          /\ buffer \o pending = pending
        OBVIOUS
      <4>1. buffer = << >> /\ Len(pending) = 1 /\ pending[1].kind = "open" /\ pending \in Seq(Packet)
        BY <1>1, <2>1, <3>1 DEF Unaccepted, TypeOK
      <4> QED
        BY <4>1, ConcatEmptySeq
    <3>3. answers' = answers /\ opened' = opened
      BY <3>1, <3>2 DEF Send
    <3>4. opened => ~Opening'
      <4> SUFFICES ASSUME opened
                   PROVE  ~Opening'
        OBVIOUS
      <4>1. PICK c \in Calls : Loop(c, buffer \o pending, FALSE)
        BY <3>1 DEF Send
      <4>2. PICK p \in {"encoding", "idle"} : phase' = [phase EXCEPT ![c] = p]
        BY <4>1 DEF Loop
      <4>3. ~Opening
        BY <1>2, <3>1
      <4> QED
        BY <1>1, <4>2, <4>3 DEF Opening
    <3> QED
      BY <1>2, <3>1, <3>3, <3>4
  <2>2. CASE engine = "closed" \/ ~writable \/ pending = << >>
    BY <1>5, <1>6, <2>2 DEF Flush, transportVars
  <2> QED
    BY <2>1, <2>2
<1>7. CASE Write \/ SendPacket \/ UNCHANGED vars
  BY <1>5, <1>7 DEF Write, SendPacket, transportVars, socketVars, vars
<1>8. CASE Close
  \* The connection was served before, and no answer is given.
  BY <1>8, <1>1 DEF Close, transportVars, Serving, Answered, Opening
<1>9. CASE CloseTransport \/ CloseContext \/ CloseServer \/ PingTimeout \/ Disconnected
  BY <1>9 DEF CloseTransport, CloseContext, CloseServer, PingTimeout, Disconnected, Serving
<1> QED
  BY <1>3, <1>4, <1>6, <1>7, <1>8, <1>9 DEF Next

\* A call of send with one packet that is no open packet, as long as nothing is
\* accepted, refuses and leaves nothing to send.
LEMMA StepRefused ==
    IInvEio /\ IInvAccepted /\ Refused /\ [Next]_vars => Refused'
<1> SUFFICES ASSUME IInvEio, IInvAccepted, Refused, [Next]_vars, shutDown' = "no",
                    answers' # << >>, answers'[1] # "accept"
             PROVE  /\ engine' = "closed" /\ duty' # "close" /\ unit' = << >>
                    /\ buffer' = << >> /\ delivered' = << >>
                    /\ \A c \in Calls : phase'[c] \in {"idle", "opening"} /\ payload'[c] = << >>
  BY DEF Refused
<1>1. /\ TypeOK /\ Unaccepted /\ Ending /\ (opened => Accepted)
      /\ answers \in Seq({"accept", "refuse"})
      /\ phase \in [Calls -> Phase] /\ payload \in [Calls -> Seq(Packet)]
  BY DEF IInvEio, IInvAccepted, TypeOK
<1>2. shutDown = "no"
  BY DEF Next, vars, AnswerConnect, Post, Resume, Deliver, PostFails, CloseTransport,
         CloseContext, Write, SendPacket, Flush, Close, CloseServer, PingTimeout, Disconnected
<1> DEFINE Out ==
        /\ engine = "closed" /\ duty # "close" /\ unit = << >>
        /\ buffer = << >> /\ delivered = << >>
        /\ \A c \in Calls : phase[c] \in {"idle", "opening"} /\ payload[c] = << >>
<1>3. ASSUME answers # << >> /\ answers[1] # "accept" PROVE Out
  BY <1>2, <1>3 DEF Refused
<1>4. ASSUME answers' = answers PROVE Out
  BY <1>3, <1>4
<1>5. ASSUME NEW c \in Calls, AnswerConnect(c) PROVE Out'
  <2>1. /\ answers' = Append(answers, "accept") /\ phase[c] = "opening"
        /\ Loop(c, buffer, writable) /\ duty' # "close"
        /\ UNCHANGED <<engine, unit, delivered>>
    BY <1>5 DEF AnswerConnect, socketVars, serviceVars
  <2>2. answers # << >> /\ answers[1] # "accept"
    BY <1>1, <2>1, FirstAnswer
  <2>3. Out
    BY <1>3, <2>2
  <2>4. /\ buffer' = << >>
        /\ phase' = [phase EXCEPT ![c] = "idle"]
        /\ payload' = [payload EXCEPT ![c] = << >>]
    BY <1>1, <2>1, <2>3, EmptyLoop
  <2> QED
    BY <1>1, <2>1, <2>3, <2>4
<1>6. ASSUME NEW c \in Calls, Post(c) \/ Resume(c) \/ Deliver(c) \/ PostFails(c)
      PROVE  FALSE
  <2>1. answers' = answers /\ phase[c] \in {"encoding", "posting", "posted"}
    BY <1>6 DEF Post, Resume, Deliver, PostFails
  <2> QED
    BY <1>4, <2>1
<1>7. CASE CloseTransport
  <2>1. CASE ~closing
    <3> DEFINE p == <<[no |-> created + 1, kind |-> "close"]>>
    <3>1. Send(p) /\ duty = "close" /\ duty' = "none" /\ engine' = "closed"
          /\ unit' = unit /\ delivered' = delivered
      BY <1>7, <2>1 DEF CloseTransport, serviceVars
    <3>2. p \in Seq(Packet) /\ Len(p) = 1 /\ unit = << >>
      BY <1>1, <3>1 DEF TypeOK, Packet, Kind, Pure, Ending
    <3> HIDE DEF p
    <3>3. answers' # answers
      BY <1>4, <3>1
    <3>4. ~opened
      BY <3>1, <3>3 DEF Send
    <3>5. buffer' = << >> /\ \A c \in Calls : phase'[c] \in {"idle", "opening"} /\ payload'[c] = << >>
      BY <1>1, <3>1, <3>2, <3>4, FirstSend
    <3>6. delivered = << >>
      BY <1>1, <3>4 DEF Unaccepted
    <3> QED
      BY <3>1, <3>2, <3>5, <3>6
  <2>2. CASE closing
    <3>1. answers' = answers /\ duty = "close"
      BY <1>7, <2>2 DEF CloseTransport, transportVars
    <3> QED
      BY <1>4, <3>1
  <2> QED
    BY <2>1, <2>2
<1>8. CASE Flush
  <2>1. CASE engine # "closed" /\ writable /\ pending # << >>
    <3>1. duty = "flush" /\ Send(pending)
      BY <1>8, <2>1 DEF Flush
    <3>2. answers' # answers
      BY <1>4, <2>1
    <3>3. ~opened
      BY <3>1, <3>2 DEF Send
    <3>4. buffer = << >> /\ pending[1].kind = "open" /\ pending \in Seq(Packet)
      BY <1>1, <2>1, <3>1, <3>3 DEF Unaccepted, TypeOK
    <3>5. buffer \o pending = pending
      BY <3>4, ConcatEmptySeq
    <3>6. answers' = answers
      BY <3>1, <3>3, <3>4, <3>5 DEF Send
    <3> QED
      BY <3>2, <3>6
  <2>2. CASE engine = "closed" \/ ~writable \/ pending = << >>
    <3>1. duty' = "none" /\ UNCHANGED <<unit, engine, delivered>> /\ UNCHANGED transportVars
      BY <1>8, <2>2 DEF Flush, serviceVars
    <3>2. Out
      BY <1>4, <3>1 DEF transportVars
    <3> QED
      BY <3>1, <3>2 DEF transportVars
  <2> QED
    BY <2>1, <2>2
<1>9. CASE Write \/ SendPacket \/ Close \/ CloseServer \/ PingTimeout \/ Disconnected
  <2>1. answers' = answers
    BY <1>9 DEF Write, SendPacket, Close, CloseServer, PingTimeout, Disconnected, transportVars
  <2>2. engine = "closed" /\ unit = << >>
    BY <1>4, <2>1
  <2> QED
    BY <1>9, <2>2, <1>2 DEF Write, SendPacket, Close, CloseServer, PingTimeout, Disconnected
<1>10. CASE CloseContext
  BY <1>2, <1>10 DEF CloseContext
<1>11. CASE UNCHANGED vars
  BY <1>4, <1>11 DEF vars
<1> QED
  BY <1>5, <1>6, <1>7, <1>8, <1>9, <1>10, <1>11 DEF Next

\* A served connection has been accepted or not answered, and packets go only to
\* a connection whose first answer accepts it, unless the whole server has been
\* closed: send and the closes that run beside it keep to that together.
THEOREM AcceptanceComesFirst == Spec => []AcceptedFirst
<1> DEFINE IInv == IInvEio /\ Ordered /\ IInvAccepted /\ Answered /\ Refused
<1>1. Init => IInv
  BY InitOrdered, InitAccepted, InitAnswered
<1>2. IInv /\ [Next]_vars => IInv'
  BY StepOrdered, StepAccepted, StepAnswered, StepRefused
<1>3. IInv => AcceptedFirst
  <2> SUFFICES ASSUME IInv PROVE AcceptedFirst
    OBVIOUS
  <2>1. Serving => answers \in {<< >>, <<"accept">>}
    BY DEF Answered
  <2>2. ASSUME Carrying
        PROVE  "accept" \in Range(answers) /\ (shutDown = "no" => answers[1] = "accept")
    <3>1. opened
      BY <2>2 DEF IInvAccepted, Unaccepted, Carrying
    <3>2. "accept" \in Range(answers)
      BY <3>1 DEF IInvAccepted, Accepted
    <3>3. answers # << >>
      BY <3>2 DEF Range
    <3> QED
      BY <2>2, <3>2, <3>3 DEF Refused, Carrying
  <2> QED
    BY <2>1, <2>2 DEF AcceptedFirst
<1> QED
  BY <1>1, <1>2, <1>3, PTL DEF Spec

-----------------------------------------------------------------------------
\* How the loop of _getPacketNumberForNextSend is argued about

\* A set of natural numbers that is not empty has a least one: how the loop of
\* _getPacketNumberForNextSend is argued about, whatever its length.
LEMMA LeastNat ==
    ASSUME NEW T \in SUBSET Nat, T # {}
    PROVE  \E x \in T : \A y \in T : x <= y
<1> DEFINE U == {0..(x - 1) : x \in T}
           R == StrictSubsetOrdering(Nat)
<1>1. U \subseteq FiniteSubsetsOf(Nat) /\ U # {}
  <2> SUFFICES ASSUME NEW x \in T PROVE 0..(x - 1) \in FiniteSubsetsOf(Nat)
    OBVIOUS
  <2> QED
    BY FS_Interval DEF FiniteSubsetsOf
<1>2. PICK u \in U : \A v \in U : ~(<<v, u>> \in R)
  <2> HIDE DEF U
  <2> QED
    BY <1>1, FS_StrictSubsetOrderingWellFounded, WFMin
<1>3. PICK x \in T : u = 0..(x - 1)
  OBVIOUS
<1>4. \A y \in T : x <= y
  <2> SUFFICES ASSUME NEW y \in T, y < x PROVE FALSE
    OBVIOUS
  <2>1. 0..(y - 1) \in U /\ 0..(y - 1) \in SUBSET Nat /\ 0..(x - 1) \in SUBSET Nat
    OBVIOUS
  <2>2. 0..(y - 1) \subseteq 0..(x - 1) /\ y \in 0..(x - 1) /\ y \notin 0..(y - 1)
    OBVIOUS
  <2> QED
    BY <1>2, <1>3, <2>1, <2>2 DEF StrictSubsetOrdering
<1> QED
  BY <1>4

\* f holds what m rounds of the loop over k lead to, each from the one before.
IsRun(f, k, m) ==
    /\ f[0] = ScanStart
    /\ \A i \in 1..m : f[i] = Scan(f[i - 1], k[i])

\* There is such a run, and it is the recursive function of Scanned. The least
\* length without one is not zero and not one more than a length with one.
LEMMA RunExists ==
    ASSUME NEW k, NEW n \in Nat
    PROVE  \E f : f = [i \in 0..n |-> IF i = 0 THEN ScanStart ELSE Scan(f[i - 1], k[i])]
<1> DEFINE Grows(f, m) == f = [i \in 0..m |-> f[i]] /\ IsRun(f, k, m)
           T == {m \in Nat : ~ \E f : Grows(f, m)}
<1>1. T = {}
  <2> SUFFICES ASSUME T # {} PROVE FALSE
    OBVIOUS
  <2>1. PICK x \in T : \A y \in T : x <= y
    BY LeastNat
  <2>2. x # 0
    <3>1. Grows([i \in 0..0 |-> ScanStart], 0)
      BY DEF IsRun
    <3> QED
      BY <3>1
  <2>3. x - 1 \in Nat /\ x - 1 \notin T
    BY <2>1, <2>2
  <2>4. PICK g : Grows(g, x - 1)
    BY <2>3
  <2> DEFINE h == [i \in 0..x |-> IF i < x THEN g[i] ELSE Scan(g[x - 1], k[x])]
  <2>5. h = [i \in 0..x |-> h[i]] /\ h[0] = ScanStart
    BY <2>1, <2>2, <2>4 DEF IsRun
  <2>6. \A i \in 1..x : h[i] = Scan(h[i - 1], k[i])
    <3> TAKE i \in 1..x
    <3>1. CASE i < x
      <4>1. h[i] = g[i] /\ h[i - 1] = g[i - 1] /\ i \in 1..(x - 1)
        BY <2>1, <3>1
      <4> QED
        BY <2>4, <4>1 DEF IsRun
    <3>2. CASE i = x
      <4>1. h[i] = Scan(g[x - 1], k[x]) /\ h[i - 1] = g[x - 1]
        BY <2>1, <3>2
      <4> QED
        BY <3>2, <4>1
    <3> QED
      BY <2>1, <3>1, <3>2
  <2> HIDE DEF h
  <2>7. Grows(h, x)
    BY <2>5, <2>6 DEF IsRun
  <2> QED
    BY <2>1, <2>7
<1>2. PICK f : Grows(f, n)
  BY <1>1
<1> DEFINE e == [i \in 0..n |-> IF i = 0 THEN ScanStart ELSE Scan(f[i - 1], k[i])]
<1>3. DOMAIN e = 0..n /\ \A i \in 0..n : e[i] = IF i = 0 THEN ScanStart ELSE Scan(f[i - 1], k[i])
  OBVIOUS
<1>4. \A i \in 0..n : i # 0 => i \in 1..n
  OBVIOUS
<1>5. \A i \in 0..n : f[i] = e[i]
  BY <1>2, <1>3, <1>4 DEF IsRun
<1>6. f = e
  BY <1>2, <1>5
<1> QED
  BY <1>6

\* What Scanned computes is the end of such a run.
LEMMA ScannedRun ==
    ASSUME NEW k, Len(k) \in Nat
    PROVE  \E f : IsRun(f, k, Len(k)) /\ Scanned(k) = f[Len(k)]
<1> DEFINE after[i \in 0..Len(k)] == IF i = 0 THEN ScanStart ELSE Scan(after[i - 1], k[i])
<1>1. after = [i \in 0..Len(k) |-> IF i = 0 THEN ScanStart ELSE Scan(after[i - 1], k[i])]
  BY RunExists
<1>2. Scanned(k) = after[Len(k)]
  BY DEF Scanned
<1> HIDE DEF after
<1>3. \A i \in 0..Len(k) : after[i] = IF i = 0 THEN ScanStart ELSE Scan(after[i - 1], k[i])
  BY <1>1
<1>4. IsRun(after, k, Len(k))
  BY <1>3 DEF IsRun
<1> QED
  BY <1>2, <1>4

-----------------------------------------------------------------------------
\* The packets Engine.IO writes: headers are followed by their attachments as
\* far as these are written, and no attachment is without its header.
Legal(k) ==
    \A i \in 1..Len(k) :
        /\ k[i] \in Header /\ i < Len(k) => k[i + 1] = "att"
        /\ k[i] = "bin2" /\ i + 1 < Len(k) => k[i + 2] = "att"
        /\ k[i] = "att" =>
              /\ i > 1
              /\ \/ k[i - 1] \in Header
                 \/ i > 2 /\ k[i - 1] = "att" /\ k[i - 2] = "bin2"

\* Attachments that are due after the first i of the packets, and the end of
\* the last whole message among these.
Owed(k, i) ==
    IF i = 0 THEN 0
    ELSE IF k[i] = "att" THEN (IF k[i - 1] = "bin2" THEN 1 ELSE 0)
    ELSE Attachments(k[i])

\* The number of packets up to that end.
Cut(k, i) ==
    IF Owed(k, i) = 0 THEN i ELSE IF k[i] = "att" THEN i - 2 ELSE i - 1

\* Where i rounds of the loop lead to.
Acc == [idx : Int, last : Int, due : Int, bad : BOOLEAN]

IsAt(a, k, i) ==
    /\ a \in Acc /\ ~a.bad
    /\ a.idx = i /\ a.last = Cut(k, i) - 1 /\ a.due = Owed(k, i)

\* What a round does, by the kind of packet.
LEMMA ScanOf ==
    ASSUME NEW a \in Acc, ~a.bad, NEW k \in Kind, NEW b, b = Scan(a, k)
    PROVE  /\ b \in Acc /\ b.idx = a.idx + 1
           /\ k \in Pure => b.last = a.last + 1 /\ b.due = a.due /\ ~b.bad
           /\ k = "event" => b.last = a.last + 1 /\ b.due = a.due /\ (b.bad <=> a.due > 0)
           /\ k = "att" => /\ b.last = IF a.due = 1 THEN a.idx ELSE a.last
                           /\ b.due = a.due - 1 /\ (b.bad <=> a.due = 0)
           /\ k \in Header => b.last = a.last /\ b.due = Attachments(k) /\ (b.bad <=> a.due > 0)
<1>0. a.idx \in Int /\ a.last \in Int /\ a.due \in Int
  BY DEF Acc
<1>1. Attachments(k) \in Int
  BY DEF Attachments
<1>2. k \in Pure \/ k = "event" \/ k = "att" \/ k \in Header
  BY DEF Kind
<1>3. "att" \notin Pure \cup Header /\ "event" \notin Pure \cup Header /\ Pure \cap Header = {}
  BY DEF Pure, Header
<1>4. CASE k \in Pure
  <2>1. Scan(a, k) = [[a EXCEPT !.idx = a.idx + 1] EXCEPT !.last = a.last + 1]
    BY <1>3, <1>4 DEF Scan
  <2>2. b \in Acc /\ b.idx = a.idx + 1
    <3>1. b = [idx |-> a.idx + 1, last |-> a.last + 1, due |-> a.due, bad |-> a.bad]
      BY <2>1 DEF Acc
    <3>2. a.bad \in BOOLEAN /\ (a.due > 0) \in BOOLEAN /\ (a.due = 0) \in BOOLEAN
      BY DEF Acc
    <3> QED
      BY <1>0, <1>1, <3>1, <3>2 DEF Acc
  <2>3. b.last = a.last + 1 /\ b.due = a.due /\ ~b.bad
    BY <2>1 DEF Acc
  <2> QED
    BY <1>3, <1>4, <2>2, <2>3
<1>5. CASE k = "event"
  <2>1. Scan(a, k) = [[a EXCEPT !.idx = a.idx + 1] EXCEPT !.bad = (a.due > 0), !.last = a.last + 1]
    BY <1>3, <1>5 DEF Scan
  <2>2. b \in Acc /\ b.idx = a.idx + 1
    <3>1. b = [idx |-> a.idx + 1, last |-> a.last + 1, due |-> a.due, bad |-> (a.due > 0)]
      BY <2>1 DEF Acc
    <3>2. a.bad \in BOOLEAN /\ (a.due > 0) \in BOOLEAN /\ (a.due = 0) \in BOOLEAN
      BY DEF Acc
    <3> QED
      BY <1>0, <1>1, <3>1, <3>2 DEF Acc
  <2>3. b.last = a.last + 1 /\ b.due = a.due /\ (b.bad <=> a.due > 0)
    BY <2>1 DEF Acc
  <2> QED
    BY <1>3, <1>5, <2>2, <2>3
<1>6. CASE k = "att"
  <2>1. Scan(a, k) = [[a EXCEPT !.idx = a.idx + 1] EXCEPT !.bad = (a.due = 0), !.due = a.due - 1,
                      !.last = IF a.due = 1 THEN a.idx ELSE a.last]
    BY <1>3, <1>6 DEF Scan
  <2>2. b \in Acc /\ b.idx = a.idx + 1
    <3>1. b = [idx |-> a.idx + 1, last |-> IF a.due = 1 THEN a.idx ELSE a.last, due |-> a.due - 1, bad |-> (a.due = 0)]
      BY <2>1 DEF Acc
    <3>2. a.bad \in BOOLEAN /\ (a.due > 0) \in BOOLEAN /\ (a.due = 0) \in BOOLEAN
      BY DEF Acc
    <3> QED
      BY <1>0, <1>1, <3>1, <3>2 DEF Acc
  <2>3. /\ b.last = (IF a.due = 1 THEN a.idx ELSE a.last)
        /\ b.due = a.due - 1 /\ (b.bad <=> a.due = 0)
    BY <2>1 DEF Acc
  <2> QED
    BY <1>3, <1>6, <2>2, <2>3
<1>7. CASE k \in Header
  <2>1. Scan(a, k) = [[a EXCEPT !.idx = a.idx + 1] EXCEPT !.bad = (a.due > 0), !.due = Attachments(k)]
    BY <1>3, <1>7 DEF Scan
  <2>2. b \in Acc /\ b.idx = a.idx + 1
    <3>1. b = [idx |-> a.idx + 1, last |-> a.last, due |-> Attachments(k), bad |-> (a.due > 0)]
      BY <2>1 DEF Acc
    <3>2. a.bad \in BOOLEAN /\ (a.due > 0) \in BOOLEAN /\ (a.due = 0) \in BOOLEAN
      BY DEF Acc
    <3> QED
      BY <1>0, <1>1, <3>1, <3>2 DEF Acc
  <2>3. b.last = a.last /\ b.due = Attachments(k) /\ (b.bad <=> a.due > 0)
    BY <2>1 DEF Acc
  <2> QED
    BY <1>3, <1>7, <2>2, <2>3
<1> QED
  BY <1>2, <1>4, <1>5, <1>6, <1>7

\* How many attachments each kind announces.
LEMMA AttachmentsOf ==
    ASSUME NEW k \in Kind
    PROVE  /\ k \notin Header => Attachments(k) = 0
           /\ k = "bin1" => Attachments(k) = 1
           /\ k = "bin2" => Attachments(k) = 2
           /\ k \in Header => k \in {"bin1", "bin2"}
           /\ "att" \notin Header
BY DEF Kind, Header, Pure, Attachments

\* Nothing is due before a packet that is not an attachment.
LEMMA NothingDue ==
    ASSUME NEW k \in Seq(Kind), Legal(k), NEW i \in 1..Len(k), k[i] # "att"
    PROVE  Owed(k, i - 1) = 0 /\ Cut(k, i - 1) = i - 1
<1>1. Len(k) \in Nat /\ (i > 1 => k[i - 1] \in Kind)
  BY ElementOfSeq, LenProperties
<1>2. CASE i = 1
  BY <1>2 DEF Owed, Cut
<1>3. CASE i > 1
  <2>1. i - 1 \in 1..Len(k) /\ (i - 1) + 1 = i /\ i - 1 < Len(k) /\ i - 1 # 0
    BY <1>1, <1>3
  <2>2. k[i - 1] \notin Header
    BY <2>1 DEF Legal
  <2>3. Attachments(k[i - 1]) = 0
    BY <1>1, <1>3, <2>2, AttachmentsOf
  <2>4. CASE k[i - 1] = "att"
    <3>1. i - 1 > 1
      BY <2>1, <2>4 DEF Legal
    <3>2. i - 2 \in 1..Len(k) /\ (i - 2) + 2 = i /\ (i - 2) + 1 < Len(k) /\ (i - 1) - 1 = i - 2
      BY <1>1, <3>1
    <3>3. k[i - 2] # "bin2"
      BY <3>2 DEF Legal
    <3> QED
      BY <2>1, <2>4, <3>2, <3>3 DEF Owed, Cut
  <2>5. CASE k[i - 1] # "att"
    BY <2>1, <2>3, <2>5 DEF Owed, Cut
  <2> QED
    BY <2>4, <2>5
<1> QED
  BY <1>2, <1>3

\* One round goes from there to there.
LEMMA ScanRound ==
    ASSUME NEW k \in Seq(Kind), Legal(k), NEW i \in 1..Len(k), NEW a, IsAt(a, k, i - 1)
    PROVE  IsAt(Scan(a, k[i]), k, i)
<1>1. Len(k) \in Nat /\ k[i] \in Kind /\ (i > 1 => k[i - 1] \in Kind)
  BY ElementOfSeq, LenProperties
<1> DEFINE b == Scan(a, k[i])
<1>2. /\ a \in Acc /\ ~a.bad /\ a.idx = i - 1
      /\ a.last = Cut(k, i - 1) - 1 /\ a.due = Owed(k, i - 1)
  BY DEF IsAt
<1>3. /\ b \in Acc /\ b.idx = a.idx + 1
      /\ k[i] \in Pure => b.last = a.last + 1 /\ b.due = a.due /\ ~b.bad
      /\ k[i] = "event" => b.last = a.last + 1 /\ b.due = a.due /\ (b.bad <=> a.due > 0)
      /\ k[i] = "att" => /\ b.last = IF a.due = 1 THEN a.idx ELSE a.last
                         /\ b.due = a.due - 1 /\ (b.bad <=> a.due = 0)
      /\ k[i] \in Header =>
            b.last = a.last /\ b.due = Attachments(k[i]) /\ (b.bad <=> a.due > 0)
  BY <1>1, <1>2, ScanOf
<1>4. b.idx = i
  BY <1>2, <1>3
<1> HIDE DEF b
<1>5. CASE k[i] # "att"
  <2>1. a.last = i - 2 /\ a.due = 0
    <3>1. Owed(k, i - 1) = 0 /\ Cut(k, i - 1) = i - 1
      BY <1>5, NothingDue
    <3> QED
      BY <1>2, <3>1
  <2>2. Owed(k, i) = Attachments(k[i])
    BY <1>1, <1>5 DEF Owed
  <2>3. CASE k[i] \in Header
    <3>1. Attachments(k[i]) \in {1, 2}
      BY <1>1, <2>3, AttachmentsOf
    <3>2. Cut(k, i) = i - 1
      BY <1>5, <2>2, <3>1 DEF Cut
    <3> QED
      BY <1>3, <1>4, <2>1, <2>2, <2>3, <3>2 DEF IsAt, b
  <2>4. CASE k[i] \in Pure \cup {"event"}
    <3>1. Attachments(k[i]) = 0
      BY <1>1, <2>4, AttachmentsOf DEF Pure, Header
    <3>2. Cut(k, i) = i
      BY <1>5, <2>2, <3>1 DEF Cut
    <3>3. b.last = a.last + 1 /\ b.due = a.due /\ ~b.bad
      BY <1>3, <2>1, <2>4
    <3> QED
      BY <1>3, <1>4, <2>1, <2>2, <3>1, <3>2, <3>3 DEF IsAt, b
  <2> QED
    BY <1>1, <1>5, <2>3, <2>4 DEF Kind
<1>6. CASE k[i] = "att"
  <2>1. i > 1 /\ (k[i - 1] \in Header \/ (i > 2 /\ k[i - 1] = "att" /\ k[i - 2] = "bin2"))
    BY <1>6 DEF Legal
  <2>2. CASE k[i - 1] \in Header
    <3>1. k[i - 1] # "att"
      BY <1>1, <2>1, <2>2, AttachmentsOf
    <3>2. Owed(k, i - 1) = Attachments(k[i - 1])
      BY <2>1, <3>1 DEF Owed
    <3>3. Owed(k, i) = Attachments(k[i - 1]) - 1 /\ Attachments(k[i - 1]) \in {1, 2}
      BY <1>1, <1>6, <2>1, <2>2, AttachmentsOf DEF Owed
    <3>4. Cut(k, i - 1) = i - 2 /\ Cut(k, i) = IF Owed(k, i) = 0 THEN i ELSE i - 2
      BY <1>6, <3>1, <3>2, <3>3 DEF Cut
    <3> QED
      BY <1>2, <1>3, <1>4, <1>6, <3>2, <3>3, <3>4 DEF IsAt, b
  <2>3. CASE i > 2 /\ k[i - 1] = "att" /\ k[i - 2] = "bin2"
    <3>1. (i - 1) - 1 = i - 2 /\ i - 1 # 0
      BY <2>3
    <3>2. Owed(k, i - 1) = 1 /\ Owed(k, i) = 0
      BY <1>6, <2>3, <3>1 DEF Owed
    <3>3. Cut(k, i) = i
      BY <1>6, <2>3, <3>2 DEF Cut
    <3> QED
      BY <1>2, <1>3, <1>4, <1>6, <3>2, <3>3 DEF IsAt, b
  <2> QED
    BY <2>1, <2>2, <2>3
<1> QED
  BY <1>5, <1>6

\* What Scanned and NextSend compute, however many packets there are.
LEMMA ScannedLegal ==
    ASSUME NEW k \in Seq(Kind), Legal(k)
    PROVE  IsAt(Scanned(k), k, Len(k))
<1>1. Len(k) \in Nat
  BY LenProperties
<1>2. PICK f : IsRun(f, k, Len(k)) /\ Scanned(k) = f[Len(k)]
  BY <1>1, ScannedRun
<1> DEFINE T == {i \in 0..Len(k) : ~IsAt(f[i], k, i)}
<1>3. T = {}
  <2> SUFFICES ASSUME T # {} PROVE FALSE
    OBVIOUS
  <2>1. PICK x \in T : \A y \in T : x <= y
    <3>1. T \in SUBSET Nat
      BY <1>1
    <3> HIDE DEF T
    <3> QED
      BY <3>1, LeastNat
  <2>2. IsAt(f[0], k, 0)
    BY <1>2 DEF IsRun, ScanStart, IsAt, Acc, Cut, Owed
  <2>3. x \in 1..Len(k) /\ x - 1 \in 0..Len(k) /\ x - 1 \notin T
    BY <1>1, <2>1, <2>2
  <2>4. f[x] = Scan(f[x - 1], k[x]) /\ IsAt(f[x - 1], k, x - 1)
    BY <1>2, <2>3 DEF IsRun
  <2>5. IsAt(f[x], k, x)
    BY <2>3, <2>4, ScanRound
  <2> QED
    BY <2>1, <2>5
<1> QED
  BY <1>1, <1>2, <1>3

\* Of legal packets the caller takes those up to the cut: nothing is thrown.
LEMMA NextSendLegal ==
    ASSUME NEW k \in Seq(Kind), Legal(k)
    PROVE  NextSend(k) = Cut(k, Len(k)) /\ Cut(k, Len(k)) \in 0..Len(k)
<1>1. Len(k) \in Nat
  BY LenProperties
<1>2. Cut(k, Len(k)) \in Int
  BY <1>1 DEF Cut
<1>3. NextSend(k) = Cut(k, Len(k))
  BY <1>2, ScannedLegal DEF NextSend, IsAt
<1>4. Len(k) > 0 /\ k[Len(k)] = "att" => Len(k) > 1
  BY <1>1 DEF Legal
<1> QED
  BY <1>1, <1>3, <1>4 DEF Cut, Owed

\* Legal packets are whole if nothing is due after the last of them.
LEMMA WholeIfNothingDue ==
    ASSUME NEW k \in Seq(Kind), Legal(k)
    PROVE  Whole(k) <=> Owed(k, Len(k)) = 0
<1> DEFINE n == Len(k)
<1>1. n \in Nat /\ DOMAIN k = 1..n /\ \A i \in 1..n : k[i] \in Kind
  BY ElementOfSeq, LenProperties
<1>2. ASSUME Whole(k), n > 0 PROVE Owed(k, n) = 0
  <2>1. n \in 1..n /\ n + Attachments(k[n]) <= n /\ k[n] \in Kind
    BY <1>1, <1>2 DEF Whole
  <2>2. k[n] \notin Header
    BY <2>1, AttachmentsOf
  <2>3. Attachments(k[n]) = 0
    BY <2>1, <2>2, AttachmentsOf
  <2>4. CASE k[n] = "att"
    <3>1. n > 1 /\ n - 1 \in 1..n
      BY <1>1, <2>1, <2>4 DEF Legal
    <3>2. n - 1 + Attachments(k[n - 1]) <= n
      BY <1>1, <1>2, <3>1 DEF Whole
    <3>3. k[n - 1] # "bin2"
      BY <1>1, <3>1, <3>2, AttachmentsOf
    <3> QED
      BY <1>2, <2>4, <3>3 DEF Owed
  <2>5. CASE k[n] # "att"
    BY <1>2, <2>3, <2>5 DEF Owed
  <2> QED
    BY <2>4, <2>5
<1>3. ASSUME Owed(k, n) = 0, NEW i \in 1..n PROVE i + Attachments(k[i]) <= n
  <2>1. k[i] \in Kind
    BY <1>1
  <2>2. CASE k[i] \notin Header
    <3>1. Attachments(k[i]) = 0
      BY <2>1, <2>2, AttachmentsOf
    <3> QED
      BY <1>1, <3>1
  <2>3. CASE k[i] \in Header
    <3>1. k[i] # "att" /\ k[i] \in {"bin1", "bin2"} /\ Attachments(k[i]) \in {1, 2}
      BY <2>1, <2>3, AttachmentsOf
    <3>2. i # n
      BY <1>3, <3>1 DEF Owed
    <3>3. CASE k[i] = "bin1"
      <4>1. Attachments(k[i]) = 1
        BY <2>1, <3>3, AttachmentsOf
      <4>2. i + 1 <= n
        <5> HIDE DEF n
        <5> QED
          BY <1>1, <3>2
      <4> QED
        BY <4>1, <4>2
    <3>4. CASE k[i] = "bin2"
      <4>1. i # n - 1
        <5> SUFFICES ASSUME i = n - 1 PROVE FALSE
          OBVIOUS
        <5>1. i < n /\ i + 1 = n /\ n # 0
          BY <1>1, <3>2
        <5>2. k[n] = "att"
          BY <2>3, <5>1 DEF Legal
        <5> QED
          BY <1>3, <3>4, <5>1, <5>2 DEF Owed
      <4>2. Attachments(k[i]) = 2
        BY <2>1, <3>4, AttachmentsOf
      <4>3. i + 2 <= n
        <5> HIDE DEF n
        <5> QED
          BY <1>1, <3>2, <4>1
      <4> QED
        BY <4>2, <4>3
    <3> QED
      BY <3>1, <3>3, <3>4
  <2> QED
    BY <2>2, <2>3
<1>4. n = 0 => Owed(k, n) = 0
  BY DEF Owed
<1> QED
  BY <1>1, <1>2, <1>3, <1>4 DEF Whole

\* The first packets of legal ones are legal.
LEMMA PrefixLegal ==
    ASSUME NEW k \in Seq(Kind), Legal(k), NEW m \in 0..Len(k)
    PROVE  LET p == SubSeq(k, 1, m) IN
           /\ p \in Seq(Kind) /\ Len(p) = m /\ Legal(p)
           /\ Owed(p, m) = Owed(k, m) /\ Cut(p, m) = Cut(k, m)
<1> DEFINE p == SubSeq(k, 1, m)
<1>1. Len(k) \in Nat /\ \A i \in 1..Len(k) : k[i] \in Kind
  BY ElementOfSeq, LenProperties
<1>2. p \in Seq(Kind) /\ Len(p) = m /\ \A i \in 1..m : p[i] = k[i]
  BY <1>1, SubSeqProperties
<1> HIDE DEF p
<1>3. Legal(p)
  <2> SUFFICES ASSUME NEW i \in 1..m
               PROVE  /\ p[i] \in Header /\ i < m => p[i + 1] = "att"
                      /\ p[i] = "bin2" /\ i + 1 < m => p[i + 2] = "att"
                      /\ p[i] = "att" =>
                            /\ i > 1
                            /\ \/ p[i - 1] \in Header
                               \/ i > 2 /\ p[i - 1] = "att" /\ p[i - 2] = "bin2"
    BY <1>2 DEF Legal
  <2>1. p[i] = k[i] /\ i \in 1..Len(k)
    BY <1>1, <1>2
  <2>2. p[i] \in Header /\ i < m => p[i + 1] = "att"
    BY <1>1, <1>2, <2>1 DEF Legal
  <2>3. p[i] = "bin2" /\ i + 1 < m => p[i + 2] = "att"
    BY <1>1, <1>2, <2>1 DEF Legal
  <2>4. i > 1 => p[i - 1] = k[i - 1]
    BY <1>1, <1>2
  <2>5. i > 2 => p[i - 2] = k[i - 2]
    BY <1>1, <1>2
  <2> QED
    BY <2>1, <2>2, <2>3, <2>4, <2>5 DEF Legal
<1>4. Owed(p, m) = Owed(k, m) /\ Cut(p, m) = Cut(k, m)
  <2>1. m # 0 => p[m] = k[m]
    BY <1>2
  <2>2. m # 0 /\ k[m] = "att" => p[m - 1] = k[m - 1]
    BY <1>1, <1>2 DEF Legal
  <2> QED
    BY <2>1, <2>2 DEF Owed, Cut
<1> QED
  BY <1>2, <1>3, <1>4 DEF p

\* So are the rest, if nothing is due before them.
LEMMA RestLegal ==
    ASSUME NEW k \in Seq(Kind), Legal(k), NEW m \in 0..Len(k), Owed(k, m) = 0
    PROVE  LET r == SubSeq(k, m + 1, Len(k)) IN
           /\ r \in Seq(Kind) /\ Len(r) = Len(k) - m /\ Legal(r)
           /\ \A i \in 1..Len(r) : r[i] = k[m + i]
           /\ Owed(r, Len(r)) = IF Len(r) = 0 THEN 0 ELSE Owed(k, Len(k))
<1> DEFINE n == Len(k)
           r == SubSeq(k, m + 1, n)
<1>1. n \in Nat /\ \A i \in 1..n : k[i] \in Kind
  BY ElementOfSeq, LenProperties
<1>2. r \in Seq(Kind) /\ Len(r) = n - m /\ \A i \in 1..(n - m) : r[i] = k[m + i]
  <2>1. \A i \in (m + 1)..n : k[i] \in Kind
    BY <1>1
  <2>2. /\ r \in Seq(Kind) /\ Len(r) = IF m + 1 <= n THEN n - (m + 1) + 1 ELSE 0
        /\ \A i \in 1..(n - (m + 1) + 1) : r[i] = k[(m + 1) + i - 1]
    BY <1>1, <2>1, SubSeqProperties
  <2>3. \A i \in 1..(n - m) : (m + 1) + i - 1 = m + i /\ i \in 1..(n - (m + 1) + 1)
    BY <1>1
  <2>4. Len(r) = n - m
    BY <1>1, <2>2
  <2> QED
    BY <2>2, <2>3, <2>4
<1> HIDE DEF r
<1>3. Legal(r)
  <2> SUFFICES ASSUME NEW i \in 1..(n - m)
               PROVE  /\ r[i] \in Header /\ i < n - m => r[i + 1] = "att"
                      /\ r[i] = "bin2" /\ i + 1 < n - m => r[i + 2] = "att"
                      /\ r[i] = "att" =>
                            /\ i > 1
                            /\ \/ r[i - 1] \in Header
                               \/ i > 2 /\ r[i - 1] = "att" /\ r[i - 2] = "bin2"
    BY <1>2 DEF Legal
  <2>1. r[i] = k[m + i] /\ m + i \in 1..n
    BY <1>1, <1>2
  <2>2. r[i] \in Header /\ i < n - m => r[i + 1] = "att"
    <3> HAVE r[i] \in Header /\ i < n - m
    <3>1. r[i + 1] = k[m + (i + 1)] /\ m + (i + 1) = (m + i) + 1 /\ m + i < n
      BY <1>1, <1>2
    <3> QED
      BY <2>1, <3>1 DEF Legal
  <2>3. r[i] = "bin2" /\ i + 1 < n - m => r[i + 2] = "att"
    <3> HAVE r[i] = "bin2" /\ i + 1 < n - m
    <3>1. r[i + 2] = k[m + (i + 2)] /\ m + (i + 2) = (m + i) + 2 /\ (m + i) + 1 < n
      BY <1>1, <1>2
    <3> QED
      BY <2>1, <3>1 DEF Legal
  <2>4. ASSUME r[i] = "att"
        PROVE  i > 1 /\ (r[i - 1] \in Header \/ (i > 2 /\ r[i - 1] = "att" /\ r[i - 2] = "bin2"))
    <3>1. /\ m + i > 1
          /\ \/ k[(m + i) - 1] \in Header
             \/ m + i > 2 /\ k[(m + i) - 1] = "att" /\ k[(m + i) - 2] = "bin2"
      BY <2>1, <2>4 DEF Legal
    <3>2. m > 0 => k[m] \notin Header /\ (k[m] = "att" => k[m - 1] # "bin2")
      <4> HAVE m > 0
      <4>1. m # 0 /\ k[m] \in Kind
        BY <1>1
      <4>2. k[m] = "att" => k[m - 1] # "bin2"
        BY <4>1 DEF Owed
      <4>3. k[m] # "att" => Attachments(k[m]) = 0
        BY <4>1 DEF Owed
      <4> QED
        BY <4>1, <4>2, <4>3, AttachmentsOf
    <3>3. i # 1
      <4> SUFFICES ASSUME i = 1 PROVE FALSE
        OBVIOUS
      <4>1. (m + i) - 1 = m /\ (m + i) - 2 = m - 1 /\ (m + i > 1 => m > 0)
        OBVIOUS
      <4>2. m > 0 /\ (k[m] \in Header \/ (k[m] = "att" /\ k[m - 1] = "bin2"))
        BY <3>1, <4>1
      <4> QED
        BY <3>2, <4>2
    <3>4. i > 1 /\ i - 1 \in 1..(n - m) /\ r[i - 1] = k[(m + i) - 1]
      <4>1. i > 1 /\ i - 1 \in 1..(n - m) /\ m + (i - 1) = (m + i) - 1
        BY <1>1, <3>3
      <4> QED
        BY <1>2, <4>1
    <3>5. CASE i = 2
      <4>1. (m + i) - 2 = m /\ (m + i > 2 => m > 0) /\ "bin2" \in Header
        BY <3>5 DEF Header
      <4>2. k[(m + i) - 1] \in Header \/ (m > 0 /\ k[m] = "bin2")
        BY <3>1, <4>1
      <4> QED
        BY <3>2, <3>4, <4>1, <4>2
    <3>6. CASE i > 2
      <4>1. i - 2 \in 1..(n - m) /\ m + (i - 2) = (m + i) - 2
        BY <1>1, <3>6
      <4>2. r[i - 2] = k[(m + i) - 2]
        BY <1>2, <4>1
      <4> QED
        BY <3>1, <3>4, <3>6, <4>2
    <3> QED
      BY <3>4, <3>5, <3>6
  <2> QED
    BY <2>2, <2>3, <2>4
<1>4. Owed(r, n - m) = IF n - m = 0 THEN 0 ELSE Owed(k, n)
  <2>1. CASE n - m = 0
    BY <2>1 DEF Owed
  <2>2. CASE n - m # 0
    <3>1. n - m \in 1..(n - m) /\ m + (n - m) = n /\ n # 0
      BY <1>1, <2>2
    <3>2. r[n - m] = k[n]
      BY <1>2, <3>1
    <3>3. k[n] = "att" => r[(n - m) - 1] = k[n - 1]
      <4> HAVE k[n] = "att"
      <4>1. n - m > 1
        BY <1>2, <1>3, <3>1, <3>2 DEF Legal
      <4>2. (n - m) - 1 \in 1..(n - m) /\ m + ((n - m) - 1) = n - 1
        BY <1>1, <4>1
      <4> QED
        BY <1>2, <4>2
    <3> QED
      BY <2>2, <3>1, <3>2, <3>3 DEF Owed
  <2> QED
    BY <2>1, <2>2
<1> QED
  BY <1>2, <1>3, <1>4 DEF r

\* The cut is the last place at which nothing is due.
LEMMA CutIsLast ==
    ASSUME NEW k \in Seq(Kind), Legal(k), NEW n \in 0..Len(k)
    PROVE  /\ Cut(k, n) \in 0..n /\ Owed(k, Cut(k, n)) = 0
           /\ \A m \in 0..n : m > Cut(k, n) => Owed(k, m) # 0
<1>1. Len(k) \in Nat /\ \A i \in 1..Len(k) : k[i] \in Kind
  BY ElementOfSeq, LenProperties
<1>2. CASE Owed(k, n) = 0
  BY <1>2 DEF Cut
<1>3. CASE Owed(k, n) # 0 /\ k[n] # "att"
  <2>1. n # 0 /\ n \in 1..Len(k) /\ Cut(k, n) = n - 1
    BY <1>1, <1>3 DEF Cut, Owed
  <2>2. Owed(k, n - 1) = 0
    BY <1>3, <2>1, NothingDue
  <2>3. \A m \in 0..n : m > n - 1 => m = n
    BY <1>1
  <2> QED
    BY <1>1, <1>3, <2>1, <2>2, <2>3
<1>4. CASE Owed(k, n) # 0 /\ k[n] = "att"
  <2>1. n # 0 /\ n \in 1..Len(k) /\ Cut(k, n) = n - 2 /\ k[n - 1] = "bin2"
    BY <1>1, <1>4 DEF Cut, Owed
  <2>2. n > 1 /\ n - 1 \in 1..Len(k) /\ (n - 1) - 1 = n - 2
    BY <1>1, <1>4, <2>1 DEF Legal
  <2>3. Owed(k, n - 2) = 0
    BY <2>1, <2>2, NothingDue
  <2>4. Owed(k, n - 1) # 0
    <3>1. Attachments(k[n - 1]) = 2
      BY <1>1, <2>1, <2>2, AttachmentsOf
    <3> QED
      BY <2>1, <2>2, <3>1 DEF Owed
  <2>5. \A m \in 0..n : m > n - 2 => m = n \/ m = n - 1
    BY <1>1
  <2> QED
    BY <1>1, <1>4, <2>1, <2>2, <2>3, <2>4, <2>5
<1> QED
  BY <1>2, <1>3, <1>4

\* What the comment of _getPacketNumberForNextSend promises of legal packets.
LEMMA SentLargest ==
    ASSUME NEW k \in Seq(Kind), Legal(k)
    PROVE  /\ NextSend(k) = LargestWhole(k)
           /\ NextSend(SubSeq(k, NextSend(k) + 1, Len(k))) = 0
           /\ Owed(k, Len(k)) = 0 => NextSend(k) = Len(k)
<1> DEFINE c == Cut(k, Len(k))
           r == SubSeq(k, c + 1, Len(k))
           sizes == {n \in 0..Len(k) : Whole(SubSeq(k, 1, n))}
<1>1. Len(k) \in Nat /\ Len(k) \in 0..Len(k)
  BY LenProperties
<1>2. NextSend(k) = c /\ c \in 0..Len(k)
  BY NextSendLegal
<1>3. Owed(k, c) = 0 /\ \A m \in 0..Len(k) : m > c => Owed(k, m) # 0
  BY <1>1, CutIsLast
<1>4. Owed(k, Len(k)) = 0 => c = Len(k)
  BY DEF Cut
<1>5. NextSend(r) = 0
  <2>1. /\ r \in Seq(Kind) /\ Len(r) = Len(k) - c /\ Legal(r)
        /\ \A i \in 1..Len(r) : r[i] = k[c + i]
        /\ Owed(r, Len(r)) = IF Len(r) = 0 THEN 0 ELSE Owed(k, Len(k))
    <3> HIDE DEF c
    <3> QED
      BY <1>2, <1>3, RestLegal
  <2>2. NextSend(r) = Cut(r, Len(r))
    BY <2>1, NextSendLegal
  <2>3. CASE Len(r) = 0
    BY <2>2, <2>3 DEF Cut, Owed
  <2>4. CASE Len(r) # 0
    <3> HIDE DEF c, r
    <3>1. Len(r) \in 1..Len(r) /\ c + Len(r) = Len(k)
      BY <1>1, <1>2, <2>1, <2>4
    <3>2. r[Len(r)] = k[Len(k)]
      BY <2>1, <3>1
    <3>3. Owed(k, Len(k)) # 0
      BY <1>1, <1>2, <1>3, <2>1, <2>4
    <3>4. Len(r) = IF k[Len(k)] = "att" THEN 2 ELSE 1
      BY <1>1, <1>2, <2>1, <3>3 DEF Cut, c
    <3> QED
      BY <2>1, <2>2, <2>4, <3>2, <3>3, <3>4 DEF Cut
  <2> QED
    BY <2>3, <2>4
<1>6. \A n \in 0..Len(k) : n \in sizes <=> Owed(k, n) = 0
  <2> TAKE n \in 0..Len(k)
  <2> DEFINE p == SubSeq(k, 1, n)
  <2>1. p \in Seq(Kind) /\ Len(p) = n /\ Legal(p) /\ Owed(p, n) = Owed(k, n)
    BY PrefixLegal
  <2> HIDE DEF p
  <2>2. Whole(p) <=> Owed(k, n) = 0
    BY <2>1, WholeIfNothingDue
  <2> QED
    BY <2>2 DEF p
<1> HIDE DEF c
<1>7. c \in sizes /\ \A m \in sizes : m <= c
  <2>1. c \in sizes
    BY <1>2, <1>3, <1>6
  <2>2. ASSUME NEW m \in sizes PROVE m <= c
    <3>1. m \in 0..Len(k) /\ Owed(k, m) = 0
      BY <1>6
    <3> QED
      BY <1>1, <1>2, <1>3, <3>1
  <2> QED
    BY <2>1, <2>2
<1>8. LargestWhole(k) = c
  <2>1. LargestWhole(k) = CHOOSE n \in sizes : \A m \in sizes : m <= n
    BY DEF LargestWhole
  <2>2. sizes \subseteq Int
    BY <1>1
  <2> HIDE DEF sizes
  <2>3. \A n \in sizes : (\A m \in sizes : m <= n) => n = c
    BY <1>7, <2>2
  <2> QED
    BY <1>7, <2>1, <2>3
<1> QED
  BY <1>2, <1>4, <1>5, <1>8

\* What one call takes is whole and would be taken again as it is.
LEMMA TakenWhole ==
    ASSUME NEW k \in Seq(Kind), Legal(k)
    PROVE  LET p == SubSeq(k, 1, NextSend(k)) IN
           /\ p \in Seq(Kind) /\ Legal(p) /\ Owed(p, Len(p)) = 0
<1> DEFINE c == NextSend(k)
           p == SubSeq(k, 1, c)
<1>1. Len(k) \in Nat /\ Len(k) \in 0..Len(k)
  BY LenProperties
<1>2. c \in 0..Len(k) /\ Owed(k, c) = 0
  BY <1>1, NextSendLegal, CutIsLast
<1>3. p \in Seq(Kind) /\ Len(p) = c /\ Legal(p) /\ Owed(p, c) = Owed(k, c)
  BY <1>2, PrefixLegal
<1> QED
  BY <1>2, <1>3

\* Legal packets go on behind others behind which nothing is due.
LEMMA ConcatLegal ==
    ASSUME NEW a \in Seq(Kind), NEW b \in Seq(Kind),
           Legal(a), Owed(a, Len(a)) = 0, Legal(b)
    PROVE  /\ a \o b \in Seq(Kind) /\ Len(a \o b) = Len(a) + Len(b)
           /\ Legal(a \o b)
           /\ Owed(a \o b, Len(a \o b)) = Owed(b, Len(b))
<1> DEFINE k == a \o b
           l == Len(a)
           n == Len(a) + Len(b)
<1>1. /\ l \in Nat /\ Len(b) \in Nat
      /\ k \in Seq(Kind) /\ Len(k) = n
      /\ \A i \in 1..l : a[i] \in Kind
  BY ElementOfSeq, LenProperties, ConcatProperties
<1>2. /\ \A i \in 1..l : k[i] = a[i]
      /\ \A i \in 1..Len(b) : k[l + i] = b[i]
  <2>1. \A i \in 1..n : k[i] = IF i <= l THEN a[i] ELSE b[i - l]
    BY ConcatProperties
  <2>2. \A i \in 1..l : i \in 1..n /\ i <= l
    BY <1>1
  <2>3. \A i \in 1..Len(b) : l + i \in 1..n /\ ~(l + i <= l) /\ (l + i) - l = i
    BY <1>1
  <2> HIDE DEF k, l, n
  <2> QED
    BY <2>1, <2>2, <2>3
<1> HIDE DEF k, l, n
<1>3. \A i \in 1..l : i < l \/ a[i] \notin Header
  <2> TAKE i \in 1..l
  <2>1. ASSUME i = l PROVE a[i] \notin Header
    <3>1. i # 0 /\ a[i] \in Kind
      BY <1>1
    <3>2. a[i] # "att" => Attachments(a[i]) = 0
      BY <2>1, <3>1 DEF Owed, l
    <3> QED
      BY <3>1, <3>2, AttachmentsOf
  <2> QED
    BY <1>1, <2>1
<1>4. \A i \in 1..l : a[i] = "bin2" => i + 1 < l
  <2> TAKE i \in 1..l
  <2> HAVE a[i] = "bin2"
  <2>1. i < l /\ a[i] \in Header
    BY <1>3 DEF Header
  <2>2. a[i + 1] = "att"
    BY <1>1, <2>1 DEF Legal, l
  <2>3. i + 1 # l
    <3> SUFFICES ASSUME i + 1 = l PROVE FALSE
      OBVIOUS
    <3>1. l # 0 /\ l - 1 = i
      BY <1>1
    <3> QED
      BY <2>2, <3>1 DEF Owed, l
  <2> QED
    BY <1>1, <2>1, <2>3
<1>5. Legal(k)
  <2> SUFFICES ASSUME NEW i \in 1..n
               PROVE  /\ k[i] \in Header /\ i < n => k[i + 1] = "att"
                      /\ k[i] = "bin2" /\ i + 1 < n => k[i + 2] = "att"
                      /\ k[i] = "att" =>
                            /\ i > 1
                            /\ \/ k[i - 1] \in Header
                               \/ i > 2 /\ k[i - 1] = "att" /\ k[i - 2] = "bin2"
    BY <1>1 DEF Legal
  <2>1. CASE i <= l
    <3>1. i \in 1..l /\ k[i] = a[i]
      BY <1>1, <1>2, <2>1
    <3>2. k[i] \in Header => k[i + 1] = "att"
      <4> HAVE k[i] \in Header
      <4>1. i < l /\ i + 1 \in 1..l
        BY <1>1, <1>3, <3>1
      <4> QED
        BY <1>2, <3>1, <4>1 DEF Legal, l
    <3>3. k[i] = "bin2" => k[i + 2] = "att"
      <4> HAVE k[i] = "bin2"
      <4>1. i + 1 < l /\ i + 2 \in 1..l
        BY <1>1, <1>4, <3>1
      <4> QED
        BY <1>2, <3>1, <4>1 DEF Legal, l
    <3>4. ASSUME k[i] = "att"
          PROVE  i > 1 /\ (k[i - 1] \in Header \/ (i > 2 /\ k[i - 1] = "att" /\ k[i - 2] = "bin2"))
      <4>1. i > 1 /\ (a[i - 1] \in Header \/ (i > 2 /\ a[i - 1] = "att" /\ a[i - 2] = "bin2"))
        BY <3>1, <3>4 DEF Legal, l
      <4>2. i - 1 \in 1..l /\ (i > 2 => i - 2 \in 1..l)
        BY <1>1, <3>1, <4>1
      <4> QED
        BY <1>2, <4>1, <4>2
    <3> QED
      BY <3>2, <3>3, <3>4
  <2>2. CASE ~(i <= l)
    <3> DEFINE j == i - l
    <3>1. j \in 1..Len(b) /\ l + j = i
      BY <1>1, <2>2 DEF n, l
    <3> HIDE DEF j
    <3>2. k[i] = b[j]
      BY <1>2, <3>1
    <3>3. k[i] \in Header /\ i < n => k[i + 1] = "att"
      <4> HAVE k[i] \in Header /\ i < n
      <4>1. j < Len(b) /\ j + 1 \in 1..Len(b) /\ l + (j + 1) = i + 1
        <5>1. l \in Nat /\ i \in 1..n /\ n = l + Len(b) /\ j \in Nat
          BY <1>1, <3>1 DEF n, l
        <5> QED
          BY <1>1, <3>1, <5>1
      <4>2. b[j + 1] = "att"
        BY <3>1, <3>2, <4>1 DEF Legal
      <4> QED
        BY <1>2, <4>1, <4>2
    <3>4. k[i] = "bin2" /\ i + 1 < n => k[i + 2] = "att"
      <4> HAVE k[i] = "bin2" /\ i + 1 < n
      <4>1. j + 1 < Len(b) /\ j + 2 \in 1..Len(b) /\ l + (j + 2) = i + 2
        BY <1>1, <3>1 DEF n, l
      <4>2. b[j + 2] = "att"
        BY <3>1, <3>2, <4>1 DEF Legal
      <4> QED
        BY <1>2, <4>1, <4>2
    <3>5. ASSUME k[i] = "att"
          PROVE  i > 1 /\ (k[i - 1] \in Header \/ (i > 2 /\ k[i - 1] = "att" /\ k[i - 2] = "bin2"))
      <4>1. j > 1 /\ (b[j - 1] \in Header \/ (j > 2 /\ b[j - 1] = "att" /\ b[j - 2] = "bin2"))
        BY <3>1, <3>2, <3>5 DEF Legal
      <4>2. /\ i > 1 /\ (j > 2 => i > 2)
            /\ j - 1 \in 1..Len(b) /\ l + (j - 1) = i - 1
            /\ j > 2 => j - 2 \in 1..Len(b) /\ l + (j - 2) = i - 2
        BY <1>1, <3>1, <4>1
      <4>3. k[i - 1] = b[j - 1] /\ (j > 2 => k[i - 2] = b[j - 2])
        BY <1>2, <4>2
      <4> QED
        BY <4>1, <4>2, <4>3
    <3> QED
      BY <3>3, <3>4, <3>5
  <2> QED
    BY <2>1, <2>2
<1>6. Owed(k, n) = Owed(b, Len(b))
  <2>1. CASE Len(b) = 0
    <3>1. n = l
      BY <1>1, <2>1 DEF n, l
    <3>2. l # 0 => l \in 1..l /\ k[l] = a[l] /\ (a[l] = "att" => k[l - 1] = a[l - 1])
      <4> HAVE l # 0
      <4>1. l \in 1..l /\ k[l] = a[l]
        BY <1>1, <1>2
      <4>2. a[l] = "att" => l - 1 \in 1..l
        BY <1>1, <4>1 DEF Legal, l
      <4> QED
        BY <1>2, <4>1, <4>2
    <3>3. Owed(k, l) = Owed(a, l)
      BY <3>2 DEF Owed
    <3> QED
      BY <2>1, <3>1, <3>3 DEF Owed, l
  <2>2. CASE Len(b) # 0
    <3>1. n # 0 /\ Len(b) \in 1..Len(b) /\ l + Len(b) = n
      BY <1>1, <2>2 DEF n, l
    <3>2. k[n] = b[Len(b)]
      BY <1>2, <3>1
    <3>3. b[Len(b)] = "att" => k[n - 1] = b[Len(b) - 1]
      <4> HAVE b[Len(b)] = "att"
      <4>1. Len(b) > 1
        BY <3>1 DEF Legal
      <4>2. Len(b) - 1 \in 1..Len(b) /\ l + (Len(b) - 1) = n - 1
        BY <1>1, <3>1, <4>1
      <4> QED
        BY <1>2, <4>2
    <3> QED
      BY <2>2, <3>1, <3>2, <3>3 DEF Owed
  <2> QED
    BY <2>1, <2>2
<1> QED
  BY <1>1, <1>5, <1>6 DEF k, n, l

\* The front of legal packets, and, if nothing is due behind it, their end.
LEMMA PartsLegal ==
    ASSUME NEW a \in Seq(Kind), NEW b \in Seq(Kind), Legal(a \o b)
    PROVE  /\ Legal(a)
           /\ Owed(a, Len(a)) = 0 =>
                Legal(b) /\ Owed(b, Len(b)) = IF Len(b) = 0 THEN 0 ELSE Owed(a \o b, Len(a \o b))
<1> DEFINE k == a \o b
<1>1. /\ Len(a) \in Nat /\ Len(b) \in Nat
      /\ k \in Seq(Kind) /\ Len(k) = Len(a) + Len(b)
  BY LenProperties, ConcatProperties
<1>2. Len(a) \in 0..Len(k)
  BY <1>1
<1>3. SubSeq(k, 1, Len(a)) = a
  <2>1. CASE Len(a) = 0
    BY <1>1, <2>1, SubSeqEmpty, EmptySeq
  <2>2. CASE Len(a) # 0
    <3>1. 1 \in 1..Len(a) /\ Len(a) \in 1..Len(a)
      BY <1>1, <2>2
    <3>2. SubSeq(k, 1, Len(a)) = SubSeq(a, 1, Len(a))
      BY <3>1, SubSeqOfConcat1
    <3> QED
      BY <3>2, SubSeqFull
  <2> QED
    BY <2>1, <2>2
<1>4. SubSeq(k, Len(a) + 1, Len(k)) = b
  <2>1. CASE Len(b) = 0
    BY <1>1, <2>1, SubSeqEmpty, EmptySeq
  <2>2. CASE Len(b) # 0
    <3>1. /\ Len(a) + 1 \in Len(a) + 1..Len(a) + Len(b)
          /\ Len(a) + Len(b) \in Len(a) + 1..Len(a) + Len(b)
          /\ (Len(a) + 1) - Len(a) = 1 /\ (Len(a) + Len(b)) - Len(a) = Len(b)
      BY <1>1, <2>2
    <3>2. SubSeq(k, Len(a) + 1, Len(a) + Len(b)) = SubSeq(b, 1, Len(b))
      BY <3>1, SubSeqOfConcat2
    <3> QED
      BY <1>1, <3>2, SubSeqFull
  <2> QED
    BY <2>1, <2>2
<1> HIDE DEF k
<1>5. Legal(k)
  BY DEF k
<1>6. Legal(a) /\ Owed(a, Len(a)) = Owed(k, Len(a))
  BY <1>1, <1>2, <1>3, <1>5, PrefixLegal
<1>7. Owed(a, Len(a)) = 0 =>
        Legal(b) /\ Owed(b, Len(b)) = IF Len(b) = 0 THEN 0 ELSE Owed(k, Len(k))
  BY <1>1, <1>2, <1>4, <1>5, <1>6, RestLegal
<1> QED
  BY <1>6, <1>7 DEF k

-----------------------------------------------------------------------------
\* Whole messages

\* Legal packets behind which no attachment is due.
Entire(k) == k \in Seq(Kind) /\ Legal(k) /\ Owed(k, Len(k)) = 0

\* What waits for the next call of send, and what is still written behind it.
Line == InLine \o unit

\* A torn message is in the transport's buffer only within the turn that writes
\* it, and while the transport is writable nothing else waits there.
TornInTurn ==
    /\ \/ Entire(Kinds(buffer))
       \/ writable /\ engine = "open" /\ (unit # << >> \/ duty = "flush")
    /\ writable /\ engine = "open" =>
          /\ NextSend(Kinds(buffer)) = 0
          /\ NextSend(InLine) \in {0, Len(InLine)}
          /\ duty = "none" => pending = << >>

\* The inductive invariant behind BinaryKeptWhole and SendsLargestWhole.
IInvWhole ==
    /\ unit # << >> => engine = "open"
    /\ TornInTurn
    /\ Entire(Line)
    /\ \A c \in Calls : Entire(Kinds(payload[c]))

\* Nothing at all is entire.
LEMMA EntireEmpty == Entire(<< >>)
BY EmptySeq DEF Entire, Legal, Owed

\* Entire packets all go in one call.
LEMMA EntireSends ==
    ASSUME NEW k, Entire(k)
    PROVE  Whole(k) /\ NextSend(k) = Len(k)
BY WholeIfNothingDue, SentLargest DEF Entire

\* Entire packets behind entire packets are entire.
LEMMA EntireConcat ==
    ASSUME NEW a, NEW b, Entire(a), Entire(b)
    PROVE  Entire(a \o b)
BY ConcatLegal DEF Entire

\* What remains behind an entire front is entire.
LEMMA EntireRest ==
    ASSUME NEW a \in Seq(Kind), NEW b \in Seq(Kind), Entire(a \o b), Entire(a)
    PROVE  Entire(b)
BY PartsLegal DEF Entire

\* One more packet behind packets of which none may go: none or all may.
LEMMA OneMore ==
    ASSUME NEW k \in Seq(Kind), NEW x \in Kind, Legal(Append(k, x)), NextSend(k) = 0
    PROVE  NextSend(Append(k, x)) \in {0, Len(Append(k, x))}
<1> DEFINE t == Append(k, x)
           n == Len(k) + 1
<1>1. /\ Len(k) \in Nat /\ t \in Seq(Kind) /\ Len(t) = n /\ n \in 0..Len(t)
      /\ Len(k) \in 0..Len(t) /\ n \in 1..Len(t) /\ n - 1 = Len(k)
  BY LenProperties, AppendProperties
<1>2. SubSeq(t, 1, Len(k)) = k
  <2>1. \A i \in 1..Len(k) : t[i] = k[i] /\ k[i] \in Kind
    BY AppendProperties, ElementOfSeq
  <2>2. /\ SubSeq(t, 1, Len(k)) \in Seq(Kind) /\ Len(SubSeq(t, 1, Len(k))) = Len(k)
        /\ \A i \in 1..Len(k) : SubSeq(t, 1, Len(k))[i] = t[i]
    BY <1>1, <2>1, SubSeqProperties
  <2> HIDE DEF t
  <2> QED
    BY <1>1, <2>1, <2>2, SeqEqual
<1> SUFFICES NextSend(t) \in {0, Len(t)}
  OBVIOUS
<1> HIDE DEF t
<1>3. Legal(t)
  BY DEF t
<1>4. Legal(k) /\ Cut(k, Len(k)) = Cut(t, n - 1)
  <2>1. Legal(SubSeq(t, 1, Len(k))) /\ Cut(SubSeq(t, 1, Len(k)), Len(k)) = Cut(t, Len(k))
    BY <1>1, <1>3, PrefixLegal
  <2> QED
    BY <1>1, <1>2, <2>1
<1>5. NextSend(k) = Cut(t, n - 1) /\ NextSend(t) = Cut(t, n)
  BY <1>1, <1>3, <1>4, NextSendLegal
<1> HIDE DEF n
<1>6. CASE Owed(t, n) = 0
  BY <1>1, <1>5, <1>6 DEF Cut
<1>7. CASE Owed(t, n) # 0 /\ t[n] # "att"
  <2>1. Cut(t, n) = n - 1 /\ Cut(t, n - 1) = n - 1
    BY <1>1, <1>3, <1>7, NothingDue DEF Cut
  <2> QED
    BY <1>5, <2>1
<1>8. CASE Owed(t, n) # 0 /\ t[n] = "att"
  <2>1. Cut(t, n) = n - 2 /\ t[n - 1] = "bin2" /\ n > 1
    <3>1. n > 1
      BY <1>1, <1>3, <1>8 DEF Legal
    <3> QED
      BY <1>1, <1>8, <3>1 DEF Cut, Owed
  <2>2. Cut(t, n - 1) = n - 2
    <3>1. n - 1 # 0 /\ "bin2" # "att" /\ (n - 1) - 1 = n - 2
      BY <1>1, <2>1
    <3>2. Attachments(t[n - 1]) = 2
      BY <2>1, AttachmentsOf DEF Kind, Header
    <3> QED
      BY <2>1, <3>1, <3>2 DEF Cut, Owed
  <2> QED
    BY <1>5, <2>1, <2>2
<1> QED
  BY <1>6, <1>7, <1>8

\* The kinds of packets in line.
LEMMA KindsOf ==
    ASSUME NEW s \in Seq(Packet), NEW t \in Seq(Packet)
    PROVE  /\ Kinds(s) \in Seq(Kind) /\ Len(Kinds(s)) = Len(s)
           /\ Kinds(s \o t) = Kinds(s) \o Kinds(t)
           /\ s = << >> => Kinds(s) = << >>
           /\ Kinds(s) = << >> => s = << >>
<1>1. \A q \in Seq(Packet) :
        /\ Len(q) \in Nat /\ DOMAIN q = 1..Len(q) /\ \A i \in 1..Len(q) : q[i] \in Packet
        /\ DOMAIN Kinds(q) = 1..Len(q) /\ \A i \in 1..Len(q) : Kinds(q)[i] = q[i].kind
  BY LenProperties, ElementOfSeq DEF Kinds
<1>2. \A q \in Seq(Packet) : Kinds(q) \in Seq(Kind) /\ Len(Kinds(q)) = Len(q)
  <2> TAKE q \in Seq(Packet)
  <2>1. Kinds(q) = [i \in 1..Len(q) |-> q[i].kind] /\ \A i \in 1..Len(q) : q[i].kind \in Kind
    BY <1>1 DEF Kinds, Packet
  <2>2. Kinds(q) \in [1..Len(q) -> Kind]
    BY <2>1
  <2>3. Kinds(q) \in Seq(Kind)
    BY <1>1, <2>2, SeqDef
  <2> QED
    BY <1>1, <2>3, LenProperties
<1>3. s \o t \in Seq(Packet) /\ Len(s \o t) = Len(s) + Len(t)
  BY ConcatProperties
<1>4. /\ Kinds(s) \o Kinds(t) \in Seq(Kind)
      /\ Len(Kinds(s) \o Kinds(t)) = Len(s) + Len(t)
  <2>1. /\ Kinds(s) \in Seq(Kind) /\ Len(Kinds(s)) = Len(s)
        /\ Kinds(t) \in Seq(Kind) /\ Len(Kinds(t)) = Len(t)
    BY <1>2
  <2>2. /\ Kinds(s) \o Kinds(t) \in Seq(Kind)
        /\ Len(Kinds(s) \o Kinds(t)) = Len(Kinds(s)) + Len(Kinds(t))
    BY <2>1, ConcatProperties
  <2> QED
    BY <2>1, <2>2
<1>5. \A i \in 1..(Len(s) + Len(t)) : Kinds(s \o t)[i] = (Kinds(s) \o Kinds(t))[i]
  <2> TAKE i \in 1..(Len(s) + Len(t))
  <2>1. Kinds(s \o t)[i] = (s \o t)[i].kind
    BY <1>1, <1>3
  <2>2. (s \o t)[i] = IF i <= Len(s) THEN s[i] ELSE t[i - Len(s)]
    BY ConcatProperties
  <2>3. (Kinds(s) \o Kinds(t))[i] = IF i <= Len(s) THEN Kinds(s)[i] ELSE Kinds(t)[i - Len(s)]
    BY <1>2, ConcatProperties
  <2>4. i <= Len(s) => i \in 1..Len(s)
    BY <1>1
  <2>5. ~(i <= Len(s)) => i - Len(s) \in 1..Len(t)
    BY <1>1
  <2> QED
    BY <1>1, <2>1, <2>2, <2>3, <2>4, <2>5
<1>6. Kinds(s \o t) = Kinds(s) \o Kinds(t)
  <2>1. Kinds(s \o t) \in Seq(Kind) /\ Len(Kinds(s \o t)) = Len(s) + Len(t)
    BY <1>2, <1>3
  <2> QED
    BY <1>4, <1>5, <2>1, SeqEqual
<1>7. Kinds(s) \in Seq(Kind) /\ Len(Kinds(s)) = Len(s)
  BY <1>2
<1>8. s = << >> <=> Kinds(s) = << >>
  BY <1>7, EmptySeq
<1> QED
  BY <1>6, <1>7, <1>8

\* The loop of send, on a line of which none or all may go.
LEMMA LoopWhole ==
    ASSUME TypeOK, NEW c \in Calls, NEW buf \in Seq(Packet), NEW w \in BOOLEAN,
           Loop(c, buf, w), Legal(Kinds(buf)),
           NextSend(Kinds(buf)) \in {0, Len(Kinds(buf))},
           \A d \in Calls : Entire(Kinds(payload[d]))
    PROVE  /\ \A d \in Calls : Entire(Kinds(payload'[d]))
           /\ NextSend(Kinds(buf)) = 0 => buffer' = buf /\ writable' = TRUE /\ phase'[c] = "idle"
           /\ NextSend(Kinds(buf)) # 0 =>
                buffer' = << >> /\ writable' = w /\ phase'[c] = "encoding"
<1> DEFINE n == NextSend(Kinds(buf))
<1>1. /\ Len(buf) \in Nat /\ Kinds(buf) \in Seq(Kind) /\ Len(Kinds(buf)) = Len(buf)
      /\ phase \in [Calls -> Phase] /\ payload \in [Calls -> Seq(Packet)]
  BY LenProperties, KindsOf DEF TypeOK
<1>2. CASE n = 0
  <2>1. n \notin 1..Len(buf)
    BY <1>1, <1>2
  <2>2. /\ buffer' = buf /\ writable' = TRUE
        /\ payload' = [payload EXCEPT ![c] = << >>]
        /\ phase' = [phase EXCEPT ![c] = "idle"]
    BY <2>1 DEF Loop
  <2>3. Kinds(<< >>) = << >>
    BY EmptySeq, KindsOf
  <2>4. \A d \in Calls : payload'[d] = << >> \/ payload'[d] = payload[d]
    BY <1>1, <2>2
  <2>5. \A d \in Calls : Entire(Kinds(payload'[d]))
    BY <2>3, <2>4, EntireEmpty
  <2>6. phase'[c] = "idle"
    BY <1>1, <2>2
  <2> HIDE DEF n
  <2> QED
    BY <1>2, <2>2, <2>5, <2>6 DEF n
<1>3. CASE n # 0
  <2>1. n = Len(buf) /\ n \in 1..Len(buf)
    BY <1>1, <1>3
  <2>2. /\ buffer' = SubSeq(buf, Len(buf) + 1, Len(buf)) /\ writable' = w
        /\ payload' = [payload EXCEPT ![c] = SubSeq(buf, 1, Len(buf))]
        /\ phase' = [phase EXCEPT ![c] = "encoding"]
    BY <2>1 DEF Loop
  <2>3. buffer' = << >> /\ SubSeq(buf, 1, Len(buf)) = buf
    BY <1>1, <2>2, SubSeqEmpty, SubSeqFull
  <2>4. Entire(Kinds(buf))
    <3>1. SubSeq(Kinds(buf), 1, NextSend(Kinds(buf))) = Kinds(buf)
      BY <1>1, <2>1, SubSeqFull
    <3> QED
      BY <1>1, <3>1, TakenWhole DEF Entire
  <2>5. \A d \in Calls : payload'[d] = buf \/ payload'[d] = payload[d]
    BY <1>1, <2>2, <2>3
  <2>6. \A d \in Calls : Entire(Kinds(payload'[d]))
    BY <2>4, <2>5
  <2>7. phase'[c] = "encoding"
    BY <1>1, <2>2
  <2> HIDE DEF n
  <2> QED
    BY <1>3, <2>2, <2>3, <2>6, <2>7 DEF n
<1> QED
  BY <1>2, <1>3

\* What is in line is legal, and whole between two turns.
LEMMA InLineLegal ==
    ASSUME TypeOK, Entire(Line)
    PROVE  /\ InLine \in Seq(Kind) /\ Legal(InLine)
           /\ InLine = Kinds(buffer) \o Kinds(pending)
           /\ unit = << >> => Entire(InLine)
<1>1. buffer \in Seq(Packet) /\ pending \in Seq(Packet) /\ unit \in Seq(Kind)
  BY DEF TypeOK
<1>2. InLine \in Seq(Kind) /\ InLine = Kinds(buffer) \o Kinds(pending)
  BY <1>1, KindsOf, ConcatProperties DEF InLine
<1>3. Legal(InLine)
  BY <1>1, <1>2, PartsLegal DEF Entire, Line
<1>4. unit = << >> => Line = InLine
  BY <1>2, ConcatEmptySeq DEF Line
<1> QED
  BY <1>2, <1>3, <1>4

\* Between two turns, the transport's buffer and Engine.IO's are whole.
LEMMA BuffersEntire ==
    ASSUME TypeOK, IInvWhole, unit = << >>, duty # "flush"
    PROVE  Entire(Kinds(buffer)) /\ Entire(Kinds(pending)) /\ Entire(InLine)
<1>1. Entire(Kinds(buffer))
  BY DEF IInvWhole, TornInTurn
<1>2. Entire(InLine) /\ InLine = Kinds(buffer) \o Kinds(pending)
  BY InLineLegal DEF IInvWhole
<1>3. Kinds(buffer) \in Seq(Kind) /\ Kinds(pending) \in Seq(Kind)
  BY KindsOf DEF TypeOK
<1> QED
  BY <1>1, <1>2, <1>3, EntireRest

\* If all may go, nothing is due.
LEMMA SendsAllEntire ==
    ASSUME NEW k \in Seq(Kind), Legal(k), NextSend(k) = Len(k)
    PROVE  Entire(k)
<1>1. SubSeq(k, 1, NextSend(k)) = k
  BY SubSeqFull
<1> QED
  BY <1>1, TakenWhole DEF Entire

\* Nothing goes on a turn that neither writes nor closes.
LEMMA SameLines ==
    ASSUME IInvWhole, UNCHANGED <<unit, duty, buffer, pending, engine, writable>>,
           \A c \in Calls : Entire(Kinds(payload'[c]))
    PROVE  IInvWhole'
<1>1. InLine' = InLine /\ Line' = Line
  BY DEF InLine, Line
<1>2. TornInTurn'
  BY <1>1 DEF IInvWhole, TornInTurn
<1> QED
  BY <1>1, <1>2 DEF IInvWhole

\* Once Engine.IO's Socket closes, what is buffered is whole.
LEMMA ClosingLines ==
    ASSUME unit' = << >>, engine' # "open",
           buffer' \in Seq(Packet), pending' \in Seq(Packet),
           Entire(Kinds(buffer')), Entire(Kinds(pending')),
           \A c \in Calls : Entire(Kinds(payload'[c]))
    PROVE  IInvWhole'
<1>1. InLine' = Kinds(buffer') \o Kinds(pending')
  BY KindsOf DEF InLine
<1>2. Entire(InLine')
  BY <1>1, EntireConcat
<1>3. Line' = InLine'
  <2>1. Line' = InLine' \o << >> /\ InLine' \in Seq(Kind)
    BY <1>2 DEF Line, Entire
  <2> QED
    BY <2>1, ConcatEmptySeq
<1>4. TornInTurn'
  BY DEF TornInTurn
<1> QED
  BY <1>2, <1>3, <1>4 DEF IInvWhole

\* The loop goes on after an answer, or after the open packet is encoded.
LEMMA GoesOnWhole ==
    ASSUME TypeOK, TypeOK', IInvWhole, NEW c \in Calls, BetweenTurns,
           Loop(c, buffer, writable),
           duty' = IF phase'[c] = "idle" THEN "flush" ELSE "none",
           UNCHANGED <<unit, engine, pending>>
    PROVE  IInvWhole'
<1>1. /\ buffer \in Seq(Packet) /\ pending \in Seq(Packet) /\ writable \in BOOLEAN
      /\ unit = << >> /\ duty = "none"
  BY DEF TypeOK, BetweenTurns
<1>2. Entire(Kinds(buffer)) /\ Entire(Kinds(pending))
  BY <1>1, BuffersEntire
<1>3. /\ Legal(Kinds(buffer)) /\ NextSend(Kinds(buffer)) = Len(Kinds(buffer))
      /\ Kinds(buffer) \in Seq(Kind)
  BY <1>2, EntireSends DEF Entire
<1>4. /\ \A d \in Calls : Entire(Kinds(payload'[d]))
      /\ NextSend(Kinds(buffer)) = 0 => buffer' = buffer /\ phase'[c] = "idle"
      /\ NextSend(Kinds(buffer)) # 0 =>
           buffer' = << >> /\ writable' = writable /\ phase'[c] = "encoding"
  BY <1>1, <1>3, LoopWhole DEF IInvWhole
<1>5. buffer' = << >>
  <2>1. NextSend(Kinds(buffer)) = 0 => Kinds(buffer) = << >>
    BY <1>3, EmptySeq
  <2> QED
    BY <1>1, <1>4, <2>1, KindsOf
<1>6. Kinds(buffer') = << >>
  BY <1>5, KindsOf, EmptySeq
<1>7. InLine' = Kinds(pending)
  <2>1. buffer' \o pending = pending
    BY <1>1, <1>5, ConcatEmptySeq
  <2> QED
    BY <2>1 DEF InLine
<1>8. Entire(Line')
  <2>1. Line' = Kinds(pending) \o << >>
    BY <1>1, <1>7 DEF Line
  <2> QED
    BY <1>2, <2>1, ConcatEmptySeq DEF Entire
<1>9. TornInTurn'
  <2>1. Entire(Kinds(buffer')) /\ NextSend(Kinds(buffer')) = 0
    BY <1>6, EntireEmpty, EntireSends, EmptySeq
  <2>2. NextSend(InLine') = Len(InLine')
    BY <1>2, <1>7, EntireSends
  <2>3. ASSUME writable', engine' = "open", duty' = "none" PROVE pending' = << >>
    <3>1. phase'[c] # "idle"
      BY <2>3
    <3>2. NextSend(Kinds(buffer)) # 0 /\ writable
      BY <1>4, <2>3, <3>1
    <3> QED
      BY <2>3, <3>2 DEF IInvWhole, TornInTurn
  <2> QED
    BY <2>1, <2>2, <2>3 DEF TornInTurn
<1> QED
  BY <1>1, <1>4, <1>8, <1>9 DEF IInvWhole

\* A close packet, sent when nothing is being written, takes all there is.
LEMMA CloseSends ==
    ASSUME TypeOK, IInvWhole, Unaccepted, unit = << >>, duty # "flush",
           NEW p \in Packet, p.kind = "close", Send(<<p>>)
    PROVE  buffer' = << >> /\ \A c \in Calls : Entire(Kinds(payload'[c]))
<1>1. /\ <<p>> \in Seq(Packet) /\ Len(<<p>>) = 1 /\ <<p>>[1] = p
      /\ buffer \in Seq(Packet) /\ opened \in BOOLEAN
  BY DEF TypeOK
<1>2. CASE ~opened
  <2>1. buffer' = << >> /\ \A c \in Calls : payload'[c] = << >>
    BY <1>1, <1>2, FirstSend
  <2>2. Kinds(<< >>) = << >>
    BY KindsOf, EmptySeq
  <2>3. \A c \in Calls : Entire(Kinds(payload'[c]))
    BY <2>1, <2>2, EntireEmpty
  <2> QED
    BY <2>1, <2>3
<1>3. CASE opened
  <2> DEFINE buf == buffer \o <<p>>
  <2>1. PICK c \in Calls : Loop(c, buf, FALSE)
    BY <1>3 DEF Send
  <2>2. buf \in Seq(Packet) /\ Kinds(buf) = Kinds(buffer) \o Kinds(<<p>>)
    BY <1>1, ConcatProperties, KindsOf
  <2>3. Entire(Kinds(<<p>>))
    <3>1. Kinds(<<p>>) = <<"close">>
      BY <1>1 DEF Kinds
    <3>2. <<"close">> \in Seq(Kind) /\ Len(<<"close">>) = 1 /\ <<"close">>[1] = "close"
      BY DEF Kind, Pure
    <3>3. "close" \notin Header /\ "close" # "att" /\ Attachments("close") = 0
      BY DEF Header, Attachments
    <3> QED
      BY <3>1, <3>2, <3>3 DEF Entire, Legal, Owed
  <2>4. Entire(Kinds(buf))
    BY <2>2, <2>3, BuffersEntire, EntireConcat
  <2> HIDE DEF buf
  <2>5. Kinds(buf) \in Seq(Kind) /\ Legal(Kinds(buf)) /\ NextSend(Kinds(buf)) = Len(Kinds(buf))
    BY <2>4, EntireSends DEF Entire
  <2>6. /\ \A d \in Calls : Entire(Kinds(payload'[d]))
        /\ NextSend(Kinds(buf)) = 0 => buffer' = buf
        /\ NextSend(Kinds(buf)) # 0 => buffer' = << >>
    BY <2>1, <2>2, <2>5, LoopWhole DEF IInvWhole
  <2>7. NextSend(Kinds(buf)) = 0 => buf = << >>
    <3>1. NextSend(Kinds(buf)) = 0 => Kinds(buf) = << >>
      BY <2>5, EmptySeq
    <3> QED
      BY <2>2, <3>1, KindsOf
  <2> QED
    BY <2>6, <2>7
<1> QED
  BY <1>1, <1>2, <1>3

\* What a flush sends: all that is in line, or nothing.
LEMMA FlushSends ==
    ASSUME TypeOK, IInvWhole, Unaccepted, duty = "flush", engine # "closed", writable,
           pending # << >>, Send(pending)
    PROVE  /\ \A c \in Calls : Entire(Kinds(payload'[c]))
           /\ \/ buffer' = << >> /\ ~writable' /\ Entire(InLine)
              \/ buffer' = buffer \o pending /\ writable' /\ NextSend(InLine) = 0
<1>1. /\ buffer \in Seq(Packet) /\ pending \in Seq(Packet) /\ opened \in BOOLEAN
      /\ InLine \in Seq(Kind) /\ Legal(InLine)
      /\ unit = << >> => Entire(InLine)
  BY InLineLegal DEF TypeOK, IInvWhole
<1>2. CASE ~opened
  <2>1. unit = << >> /\ Len(pending) = 1 /\ pending[1].kind = "open"
    BY <1>2 DEF Unaccepted
  <2>2. buffer' = << >> /\ ~writable' /\ \A c \in Calls : payload'[c] = << >>
    BY <1>1, <1>2, <2>1, FirstSend
  <2>3. Kinds(<< >>) = << >>
    BY KindsOf, EmptySeq
  <2>4. \A c \in Calls : Entire(Kinds(payload'[c]))
    BY <2>2, <2>3, EntireEmpty
  <2> QED
    BY <1>1, <2>1, <2>2, <2>4
<1>3. CASE opened
  <2> DEFINE buf == buffer \o pending
  <2>1. PICK c \in Calls : Loop(c, buf, FALSE)
    BY <1>3 DEF Send
  <2>2. buf \in Seq(Packet) /\ Kinds(buf) = InLine
    BY <1>1, ConcatProperties DEF InLine
  <2>3. NextSend(InLine) \in {0, Len(InLine)}
    <3>1. CASE engine = "open"
      BY <3>1 DEF IInvWhole, TornInTurn
    <3>2. CASE engine # "open"
      <4>1. Entire(InLine)
        BY <1>1, <3>2 DEF IInvWhole
      <4> QED
        BY <4>1, EntireSends
    <3> QED
      BY <3>1, <3>2
  <2> HIDE DEF buf
  <2>4. /\ \A d \in Calls : Entire(Kinds(payload'[d]))
        /\ NextSend(InLine) = 0 => buffer' = buf /\ writable' = TRUE
        /\ NextSend(InLine) # 0 => buffer' = << >> /\ writable' = FALSE
    BY <1>1, <2>1, <2>2, <2>3, LoopWhole DEF IInvWhole
  <2>5. NextSend(InLine) # 0 => Entire(InLine)
    BY <1>1, <2>3, SendsAllEntire
  <2> QED
    BY <2>4, <2>5 DEF buf
<1> QED
  BY <1>1, <1>2, <1>3

\* Socket.flush, in the turn of a write or after a call has ended.
LEMMA FlushWhole ==
    ASSUME TypeOK, TypeOK', IInvWhole, Unaccepted, Ending, Flush
    PROVE  IInvWhole'
<1>1. /\ buffer \in Seq(Packet) /\ pending \in Seq(Packet) /\ unit \in Seq(Kind)
      /\ buffer' \in Seq(Packet) /\ pending' \in Seq(Packet)
      /\ unit' = unit /\ engine' = engine /\ duty = "flush" /\ writable \in BOOLEAN
  BY DEF TypeOK, Flush
<1>2. /\ InLine \in Seq(Kind) /\ Legal(InLine)
      /\ InLine = Kinds(buffer) \o Kinds(pending)
      /\ unit = << >> => Entire(InLine)
      /\ Entire(Line)
  BY InLineLegal DEF IInvWhole
<1>3. CASE engine # "closed" /\ writable /\ pending # << >> /\ Send(pending) /\ pending' = << >>
  <2>1. \A c \in Calls : Entire(Kinds(payload'[c]))
    BY <1>1, <1>3, FlushSends
  <2>2. buffer' \o pending' = buffer'
    BY <1>1, <1>3, ConcatEmptySeq
  <2>3. InLine' = Kinds(buffer')
    BY <2>2 DEF InLine
  <2>4. CASE buffer' = << >> /\ ~writable' /\ Entire(InLine)
    <3>1. Kinds(buffer') = << >>
      BY <1>1, <2>4, KindsOf
    <3>2. Line' = unit
      BY <1>1, <2>3, <3>1, ConcatEmptySeq DEF Line
    <3>3. Entire(unit)
      BY <1>1, <1>2, <2>4, EntireRest DEF Line
    <3>4. TornInTurn'
      BY <2>4, <3>1, EntireEmpty DEF TornInTurn
    <3> QED
      BY <1>1, <2>1, <3>2, <3>3, <3>4 DEF IInvWhole
  <2>5. CASE buffer' = buffer \o pending /\ writable' /\ NextSend(InLine) = 0
    <3>1. InLine' = InLine /\ Kinds(buffer') = InLine
      BY <2>3, <2>5 DEF InLine
    <3>2. Line' = Line
      BY <1>1, <3>1 DEF Line
    <3>3. Entire(Kinds(buffer')) \/ (engine = "open" /\ unit # << >>)
      BY <1>2, <3>1 DEF IInvWhole
    <3>4. TornInTurn'
      BY <1>1, <1>3, <2>5, <3>1, <3>3 DEF TornInTurn
    <3> QED
      BY <1>1, <1>2, <2>1, <3>2, <3>4 DEF IInvWhole
  <2> QED
    BY <1>1, <1>3, <2>4, <2>5, FlushSends
<1>4. CASE /\ engine = "closed" \/ ~writable \/ pending = << >>
           /\ duty' = "none"
           /\ UNCHANGED <<pending, transportVars>>
  <2>1. UNCHANGED <<pending, buffer, writable, payload>>
    BY <1>4 DEF transportVars
  <2>2. InLine' = InLine /\ Line' = Line
    BY <1>1, <2>1 DEF InLine, Line
  <2>3. writable /\ engine = "open" => pending = << >> /\ InLine = Kinds(buffer)
    <3> HAVE writable /\ engine = "open"
    <3>1. pending = << >>
      BY <1>4
    <3>2. buffer \o pending = buffer
      BY <1>1, <3>1, ConcatEmptySeq
    <3> QED
      BY <3>1, <3>2 DEF InLine
  <2>4. Entire(Kinds(buffer)) \/ (writable /\ engine = "open" /\ unit # << >>)
    BY <1>2, <2>3 DEF IInvWhole, TornInTurn
  <2>5. writable /\ engine = "open" =>
          NextSend(Kinds(buffer)) = 0 /\ NextSend(InLine) \in {0, Len(InLine)}
    BY DEF IInvWhole, TornInTurn
  <2>6. TornInTurn'
    BY <1>1, <2>1, <2>2, <2>3, <2>4, <2>5 DEF TornInTurn
  <2> QED
    BY <1>1, <2>1, <2>2, <2>6 DEF IInvWhole
<1> QED
  BY <1>3, <1>4 DEF Flush

\* One more packet of the turn reaches Engine.IO's buffer.
LEMMA SendPacketWhole ==
    ASSUME TypeOK, IInvWhole, SendPacket
    PROVE  IInvWhole'
<1> DEFINE p == [no |-> created', kind |-> Head(unit)]
<1>1. /\ unit # << >> /\ duty = "none" /\ duty' = "flush"
      /\ pending' = Append(pending, p) /\ unit' = Tail(unit)
      /\ UNCHANGED <<engine, writable, buffer, payload>>
      /\ buffer \in Seq(Packet) /\ pending \in Seq(Packet) /\ unit \in Seq(Kind)
      /\ writable \in BOOLEAN
  BY DEF SendPacket, TypeOK, transportVars
<1>2. engine = "open"
  BY <1>1 DEF IInvWhole
<1>3. Head(unit) \in Kind /\ Tail(unit) \in Seq(Kind) /\ p \in Packet
  <2>1. Head(unit) \in Kind /\ Tail(unit) \in Seq(Kind)
    BY <1>1, HeadTailProperties
  <2> QED
    BY <2>1 DEF SendPacket, TypeOK, Packet
<1>4. p.kind = Head(unit)
  OBVIOUS
<1> HIDE DEF p
<1>5. /\ <<p>> \in Seq(Packet) /\ Kinds(<<p>>) = <<Head(unit)>>
      /\ <<Head(unit)>> \in Seq(Kind)
  BY <1>3, <1>4 DEF Kinds
<1>6. InLine \in Seq(Kind)
  BY InLineLegal DEF IInvWhole
<1>7. InLine' = InLine \o <<Head(unit)>> /\ InLine' = Append(InLine, Head(unit))
  <2>1. Append(pending, p) = pending \o <<p>>
    BY <1>1, <1>3, AppendIsConcat
  <2>2. buffer \o (pending \o <<p>>) = (buffer \o pending) \o <<p>>
    BY <1>1, <1>5, ConcatAssociative
  <2>3. Kinds((buffer \o pending) \o <<p>>) = Kinds(buffer \o pending) \o Kinds(<<p>>)
    BY <1>1, <1>5, ConcatProperties, KindsOf
  <2>4. InLine' = Kinds(buffer \o (pending \o <<p>>))
    BY <1>1, <2>1 DEF InLine
  <2>5. InLine' = InLine \o <<Head(unit)>>
    BY <1>5, <2>2, <2>3, <2>4 DEF InLine
  <2> QED
    BY <1>3, <1>6, <2>5, AppendIsConcat
<1>8. Line' = Line
  <2>1. <<Head(unit)>> \o Tail(unit) = unit
    <3>1. /\ Len(unit) \in Nat \ {0} /\ unit[1] = Head(unit)
          /\ Len(Tail(unit)) = Len(unit) - 1
          /\ \A i \in 1..Len(Tail(unit)) : Tail(unit)[i] = unit[i + 1]
      BY <1>1, EmptySeq, HeadTailProperties
    <3>2. /\ <<Head(unit)>> \o Tail(unit) \in Seq(Kind)
          /\ Len(<<Head(unit)>> \o Tail(unit)) = 1 + Len(Tail(unit))
          /\ \A i \in 1..(1 + Len(Tail(unit))) :
               (<<Head(unit)>> \o Tail(unit))[i] =
                  IF i <= 1 THEN <<Head(unit)>>[i] ELSE Tail(unit)[i - 1]
      <4>1. Len(<<Head(unit)>>) = 1
        OBVIOUS
      <4> QED
        BY <1>3, <1>5, <4>1, ConcatProperties
    <3>3. \A i \in 1..Len(unit) : (<<Head(unit)>> \o Tail(unit))[i] = unit[i]
      <4> TAKE i \in 1..Len(unit)
      <4>1. CASE i = 1
        BY <3>1, <3>2, <4>1
      <4>2. CASE i > 1
        <5>1. i - 1 \in 1..Len(Tail(unit)) /\ (i - 1) + 1 = i /\ ~(i <= 1)
              /\ i \in 1..(1 + Len(Tail(unit)))
          BY <3>1, <4>2
        <5> QED
          BY <3>1, <3>2, <5>1
      <4> QED
        BY <3>1, <4>1, <4>2
    <3>4. Len(<<Head(unit)>> \o Tail(unit)) = Len(unit)
      BY <3>1, <3>2
    <3> QED
      BY <1>1, <3>2, <3>3, <3>4, SeqEqual
  <2>2. (InLine \o <<Head(unit)>>) \o Tail(unit) = InLine \o (<<Head(unit)>> \o Tail(unit))
    BY <1>3, <1>5, <1>6, ConcatAssociative
  <2>3. Line' = InLine' \o Tail(unit)
    BY <1>1 DEF Line
  <2> QED
    BY <1>7, <2>1, <2>2, <2>3 DEF Line
<1>9. TornInTurn'
  <2>1. Entire(Kinds(buffer')) \/ (writable' /\ engine' = "open" /\ duty' = "flush")
    BY <1>1, <1>2 DEF IInvWhole, TornInTurn
  <2>2. ASSUME writable'
        PROVE  NextSend(Kinds(buffer')) = 0 /\ NextSend(InLine') \in {0, Len(InLine')}
    <3>1. NextSend(Kinds(buffer)) = 0 /\ pending = << >>
      BY <1>1, <1>2, <2>2 DEF IInvWhole, TornInTurn
    <3>2. InLine = Kinds(buffer)
      <4>1. buffer \o pending = buffer
        BY <1>1, <3>1, ConcatEmptySeq
      <4> QED
        BY <4>1 DEF InLine
    <3>3. Legal(InLine')
      <4>1. Line = InLine' \o Tail(unit) /\ InLine' \in Seq(Kind)
        <5>1. InLine' \in Seq(Kind)
          BY <1>3, <1>6, <1>7, AppendProperties
        <5> QED
          BY <1>1, <1>8, <5>1 DEF Line
      <4> QED
        BY <1>3, <4>1, PartsLegal DEF IInvWhole, Entire
    <3> QED
      BY <1>1, <1>3, <1>6, <1>7, <3>1, <3>2, <3>3, OneMore
  <2> QED
    BY <1>1, <2>1, <2>2 DEF TornInTurn
<1> QED
  BY <1>1, <1>2, <1>8, <1>9 DEF IInvWhole

\* At first the open packet is to be written and nothing waits.
LEMMA InitWhole == Init => IInvWhole
<1> SUFFICES ASSUME Init PROVE IInvWhole
  OBVIOUS
<1>1. /\ unit = <<"open">> /\ engine = "open" /\ pending = << >> /\ buffer = << >>
      /\ \A c \in Calls : payload[c] = << >>
  BY DEF Init
<1>2. Kinds(<< >>) = << >> /\ << >> \o << >> = << >> /\ Entire(<< >>)
  BY KindsOf, EmptySeq, ConcatEmptySeq, EntireEmpty
<1>3. InLine = << >>
  BY <1>1, <1>2 DEF InLine
<1>4. <<"open">> \in Seq(Kind) /\ Len(<<"open">>) = 1 /\ <<"open">>[1] = "open"
  BY DEF Kind, Pure
<1>5. "open" \notin Header /\ "open" # "att" /\ Attachments("open") = 0
  BY DEF Header, Attachments
<1>6. Entire(<<"open">>)
  BY <1>4, <1>5 DEF Entire, Legal, Owed
<1>7. Line = <<"open">>
  <2>1. Line = << >> \o <<"open">>
    BY <1>1, <1>3 DEF Line
  <2> QED
    BY <1>4, <2>1, ConcatEmptySeq
<1>8. NextSend(<< >>) = 0
  BY <1>2, EntireSends, EmptySeq
<1>9. TornInTurn
  BY <1>1, <1>2, <1>3, <1>8, EmptySeq DEF TornInTurn
<1> QED
  BY <1>1, <1>2, <1>6, <1>7, <1>9 DEF IInvWhole

\* What is written in one turn is whole.
LEMMA UnitEntire == ASSUME NEW u \in Unit PROVE Entire(u)
<1>1. Attachments("bin1") = 1 /\ Attachments("bin2") = 2
      /\ Attachments("ping") = 0 /\ Attachments("event") = 0
  BY DEF Attachments
<1>2. {"ping", "event", "bin1", "bin2", "att"} \subseteq Kind /\ Header = {"bin1", "bin2"}
  BY DEF Kind, Pure, Header
<1>3. CASE u = <<"ping">>
  BY <1>1, <1>2, <1>3 DEF Entire, Legal, Owed
<1>4. CASE u = <<"event">>
  BY <1>1, <1>2, <1>4 DEF Entire, Legal, Owed
<1>5. CASE u = <<"bin1", "att">>
  BY <1>1, <1>2, <1>5 DEF Entire, Legal, Owed
<1>6. CASE u = <<"bin2", "att", "att">>
  BY <1>1, <1>2, <1>6 DEF Entire, Legal, Owed
<1> QED
  BY <1>3, <1>4, <1>5, <1>6 DEF Unit

\* The invariant is kept by every step.
LEMMA StepWhole == IInvEio /\ IInvAccepted /\ IInvWhole /\ [Next]_vars => IInvWhole'
<1> SUFFICES ASSUME IInvEio, IInvAccepted, IInvWhole, [Next]_vars PROVE IInvWhole'
  OBVIOUS
<1>1. TypeOK /\ Carried /\ Unaccepted /\ Ending
  BY DEF IInvEio, IInvAccepted
<1>2. TypeOK'
  BY <1>1, StepTypes
<1>3. /\ buffer \in Seq(Packet) /\ pending \in Seq(Packet)
      /\ buffer' \in Seq(Packet) /\ pending' \in Seq(Packet)
      /\ payload \in [Calls -> Seq(Packet)] /\ phase \in [Calls -> Phase]
      /\ Kinds(<< >>) = << >>
  BY <1>1, <1>2, KindsOf, EmptySeq DEF TypeOK
<1>4. \A c \in Calls : Entire(Kinds(payload[c]))
  BY DEF IInvWhole
<1>5. BetweenTurns => Entire(Kinds(buffer)) /\ Entire(Kinds(pending))
  BY <1>1, BuffersEntire DEF BetweenTurns
<1>6. ASSUME NEW c \in Calls, AnswerConnect(c) PROVE IInvWhole'
  BY <1>1, <1>2, <1>6, GoesOnWhole DEF AnswerConnect, socketVars
<1>7. ASSUME NEW c \in Calls, Post(c) PROVE IInvWhole'
  BY <1>4, <1>7, SameLines DEF Post, socketVars
<1>8. ASSUME NEW c \in Calls, Resume(c) PROVE IInvWhole'
  BY <1>1, <1>2, <1>8, GoesOnWhole DEF Resume, Quiet, socketVars
<1>9. ASSUME NEW c \in Calls, Deliver(c) \/ PostFails(c) PROVE IInvWhole'
  <2>1. /\ payload' = [payload EXCEPT ![c] = << >>]
        /\ UNCHANGED <<unit, duty, buffer, pending, engine, writable>>
    BY <1>9 DEF Deliver, PostFails, socketVars
  <2>2. \A d \in Calls : payload'[d] = << >> \/ payload'[d] = payload[d]
    BY <1>3, <2>1
  <2>3. \A d \in Calls : Entire(Kinds(payload'[d]))
    BY <1>3, <1>4, <2>2, EntireEmpty
  <2> QED
    BY <2>1, <2>3, SameLines
<1>10. ASSUME CloseTransport \/ CloseContext PROVE IInvWhole'
  <2>1. unit = << >> /\ duty # "flush" /\ unit' = << >> /\ pending' = pending /\ engine' # "open"
    BY <1>1, <1>10 DEF CloseTransport, CloseContext, Ending
  <2>2. Entire(Kinds(buffer)) /\ Entire(Kinds(pending))
    BY <1>1, <2>1, BuffersEntire
  <2>3. Entire(Kinds(buffer')) /\ \A c \in Calls : Entire(Kinds(payload'[c]))
    <3>1. CASE Send(<<[no |-> created', kind |-> "close"]>>)
      <4>1. [no |-> created', kind |-> "close"] \in Packet
        BY <1>2 DEF TypeOK, Packet, Kind, Pure
      <4>2. buffer' = << >> /\ \A c \in Calls : Entire(Kinds(payload'[c]))
        BY <1>1, <2>1, <3>1, <4>1, CloseSends
      <4> QED
        BY <1>3, <4>2, EntireEmpty
    <3>2. CASE UNCHANGED transportVars
      BY <1>4, <2>2, <3>2 DEF transportVars
    <3> QED
      BY <1>10, <3>1, <3>2 DEF CloseTransport, CloseContext
  <2> QED
    BY <1>3, <2>1, <2>2, <2>3, ClosingLines
<1>11. ASSUME Write PROVE IInvWhole'
  <2>1. PICK u \in Unit : unit' = u
    BY <1>11 DEF Write
  <2>2. /\ BetweenTurns /\ engine = "open"
        /\ UNCHANGED <<duty, buffer, pending, engine, writable, payload>>
    BY <1>11 DEF Write, socketVars, transportVars
  <2>3. InLine' = InLine /\ Entire(InLine)
    BY <1>1, <2>2, BuffersEntire DEF BetweenTurns, InLine
  <2>4. Entire(Line')
    BY <2>1, <2>3, UnitEntire, EntireConcat DEF Line
  <2>5. TornInTurn'
    BY <1>5, <2>2, <2>3 DEF IInvWhole, TornInTurn
  <2> QED
    BY <1>4, <2>2, <2>4, <2>5 DEF IInvWhole
<1>12. ASSUME SendPacket PROVE IInvWhole'
  BY <1>1, <1>12, SendPacketWhole
<1>13. ASSUME Flush PROVE IInvWhole'
  BY <1>1, <1>2, <1>13, FlushWhole
<1>14. ASSUME Close \/ CloseServer \/ PingTimeout \/ Disconnected PROVE IInvWhole'
  <2>1. /\ BetweenTurns /\ unit' = unit /\ engine' # "open"
        /\ UNCHANGED <<buffer, payload>> /\ (pending' = pending \/ pending' = << >>)
    BY <1>14 DEF Close, CloseServer, PingTimeout, Disconnected, Quiet, transportVars
  <2>2. Entire(Kinds(pending'))
    BY <1>3, <1>5, <2>1, EntireEmpty
  <2> QED
    BY <1>3, <1>4, <1>5, <2>1, <2>2, ClosingLines DEF BetweenTurns
<1>15. ASSUME UNCHANGED vars PROVE IInvWhole'
  BY <1>4, <1>15, SameLines DEF vars
<1> QED
  BY <1>6, <1>7, <1>8, <1>9, <1>10, <1>11, <1>12, <1>13, <1>14, <1>15 DEF Next

\* IInvWhole, with it BinaryKeptWhole: no call of the service carries a part of
\* a binary message, whatever closes or fails (send and
\* _getPacketNumberForNextSend).
THEOREM MessagesKeptWhole == Spec => []BinaryKeptWhole
<1> DEFINE IInv == IInvEio /\ Ordered /\ IInvAccepted /\ IInvWhole
<1>1. Init => IInv
  BY InitOrdered, InitAccepted, InitWhole
<1>2. IInv /\ [Next]_vars => IInv'
  BY StepOrdered, StepAccepted, StepWhole
<1>3. IInv => BinaryKeptWhole
  <2> SUFFICES ASSUME IInv, NEW c \in Calls
               PROVE  /\ Whole(Kinds(payload[c]))
                      /\ NextSend(Kinds(payload[c])) = Len(payload[c])
    BY DEF BinaryKeptWhole
  <2>1. Entire(Kinds(payload[c])) /\ payload[c] \in Seq(Packet)
    BY DEF IInvWhole, IInvEio, TypeOK
  <2> QED
    BY <2>1, EntireSends, KindsOf
<1> QED
  BY <1>1, <1>2, <1>3, PTL DEF Spec

\* SendsLargestWhole: what one call takes is the largest part of the packets in
\* line that tears no binary message, and what is left waits for attachments
\* that are still being written (_getPacketNumberForNextSend and its comment).
THEOREM LargestPartSent == Spec => []SendsLargestWhole
<1> DEFINE IInv == IInvEio /\ Ordered /\ IInvAccepted /\ IInvWhole
<1>1. Init => IInv
  BY InitOrdered, InitAccepted, InitWhole
<1>2. IInv /\ [Next]_vars => IInv'
  BY StepOrdered, StepAccepted, StepWhole
<1>3. IInv => SendsLargestWhole
  <2> HAVE IInv
  <2>1. /\ InLine \in Seq(Kind) /\ Legal(InLine)
        /\ unit = << >> => Entire(InLine)
    BY InLineLegal DEF IInvWhole, IInvEio
  <2>2. unit = << >> => NextSend(InLine) = Len(InLine)
    BY <2>1, EntireSends
  <2> QED
    BY <2>1, <2>2, SentLargest DEF SendsLargestWhole
<1> QED
  BY <1>1, <1>2, <1>3, PTL DEF Spec
=============================================================================
