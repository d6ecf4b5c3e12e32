------------------------- MODULE RoomAdapter_proofs -------------------------
(***************************************************************************)
(* What the filters of RoomFilter select, for any rooms and exceptions;    *)
(* and IInvRooms is an invariant of RoomAdapter for any sockets, rooms,    *)
(* selections and number of calls, from which its safety properties        *)
(* follow.                                                                 *)
(***************************************************************************)
EXTENDS RoomAdapter, SequenceTheorems, TLAPS

-----------------------------------------------------------------------------
(* The filters.                                                            *)

\* A sequence written as a function on 1..n
LEMMA IsSequence ==
    ASSUME NEW S, NEW n \in Nat, NEW f \in [1..n -> S]
    PROVE  f \in Seq(S) /\ Len(f) = n /\ DOMAIN f = 1..n
<1>1. f \in Seq(S)
  BY SeqDef
<1>2. DOMAIN f = 1..n
  OBVIOUS
<1>3. Len(f) \in Nat /\ DOMAIN f = 1..Len(f)
  BY <1>1, LenProperties
<1>4. QED BY <1>1, <1>2, <1>3

\* The text of a filter: n literals of the rooms, or that of the namespace, and
\* then those of the exceptions.
IsTextOf(filter, named, excepts, n) ==
    /\ n \in Nat /\ n >= 1 /\ Len(excepts) \in Nat
    /\ Len(filter) = n + Len(excepts)
    /\ DOMAIN filter = 1..(n + Len(excepts))
    /\ \A i \in 1..n : /\ filter[i].op = "or" /\ filter[i].isIn = TRUE
                        /\ filter[i].group = Allowed(named)[i]
    /\ \A i \in 1..Len(excepts) :
        /\ filter[n + i].op = "and" /\ filter[n + i].isIn = FALSE
        /\ filter[n + i].group = excepts[i]

LEMMA FilterFields ==
    ASSUME NEW S, NEW named \in Seq(S), NEW excepts \in Seq(S)
    PROVE  IsTextOf(BuildODataFilter(named, excepts), named, excepts, Len(Allowed(named)))
<1> DEFINE allowed == Allowed(named)
           n == Len(allowed)
           T == S \cup {Namespace}
           L == {Literal("or", TRUE, g) : g \in T} \cup {Literal("and", FALSE, g) : g \in T}
<1>1. allowed \in Seq(T) /\ n \in Nat /\ n >= 1 /\ excepts \in Seq(T)
  <2>1. named \in Seq(T) /\ excepts \in Seq(T)
    OBVIOUS
  <2>2. <<Namespace>> \in Seq(T) /\ Len(<<Namespace>>) = 1
    OBVIOUS
  <2>3. named # << >> => Len(named) \in Nat /\ Len(named) >= 1
    BY <2>1
  <2>4. allowed \in Seq(T)
    BY <2>1, <2>2 DEF Allowed
  <2>5. n \in Nat /\ n >= 1
    BY <2>2, <2>3 DEF Allowed
  <2>6. QED BY <2>1, <2>4, <2>5
<1>2. AllowFilter(allowed) \in Seq(L) /\ Len(AllowFilter(allowed)) = n
      /\ \A i \in 1..n : AllowFilter(allowed)[i] = Literal("or", TRUE, allowed[i])
  <2>1. DOMAIN allowed = 1..n /\ \A i \in 1..n : allowed[i] \in T
    BY <1>1, LenProperties
  <2> HIDE DEF allowed, n, T
  <2>2. AllowFilter(allowed) = [i \in 1..n |-> Literal("or", TRUE, allowed[i])]
    BY <2>1 DEF AllowFilter
  <2>3. AllowFilter(allowed) \in [1..n -> L]
    BY <2>1, <2>2
  <2> HIDE DEF L
  <2>4. AllowFilter(allowed) \in Seq(L) /\ Len(AllowFilter(allowed)) = n
    BY <1>1, <2>3, IsSequence
  <2>5. QED BY <2>2, <2>4
<1>3. DenyFilter(excepts) \in Seq(L) /\ Len(DenyFilter(excepts)) = Len(excepts)
      /\ \A i \in 1..Len(excepts) : DenyFilter(excepts)[i] = Literal("and", FALSE, excepts[i])
  <2>1. DOMAIN excepts = 1..Len(excepts) /\ Len(excepts) \in Nat
        /\ \A i \in 1..Len(excepts) : excepts[i] \in T
    BY <1>1
  <2> HIDE DEF T
  <2>2. DenyFilter(excepts) = [i \in 1..Len(excepts) |-> Literal("and", FALSE, excepts[i])]
    BY <2>1 DEF DenyFilter
  <2>3. DenyFilter(excepts) \in [1..Len(excepts) -> L]
    BY <2>1, <2>2
  <2> HIDE DEF L
  <2>4. DenyFilter(excepts) \in Seq(L) /\ Len(DenyFilter(excepts)) = Len(excepts)
    BY <2>1, <2>3, IsSequence
  <2>5. QED BY <2>2, <2>4
<1>4. BuildODataFilter(named, excepts) = AllowFilter(allowed) \o DenyFilter(excepts)
  BY DEF BuildODataFilter
<1> HIDE DEF allowed, n, T, L
<1>5. /\ Len(BuildODataFilter(named, excepts)) = n + Len(excepts)
      /\ DOMAIN BuildODataFilter(named, excepts) = 1..(n + Len(excepts))
      /\ \A i \in 1..n : BuildODataFilter(named, excepts)[i] = AllowFilter(allowed)[i]
      /\ \A i \in 1..Len(excepts) :
            BuildODataFilter(named, excepts)[n + i] = DenyFilter(excepts)[i]
  <2> DEFINE A == AllowFilter(allowed)
             D == DenyFilter(excepts)
             m == Len(excepts)
  <2>1. A \in Seq(L) /\ D \in Seq(L) /\ Len(A) = n /\ Len(D) = m
    BY <1>2, <1>3
  <2>2. m \in Nat
    BY <1>1, LenProperties
  <2> HIDE DEF A, D, m
  <2>3. A \o D \in Seq(L) /\ Len(A \o D) = n + m
        /\ \A i \in 1..(n + m) : (A \o D)[i] = IF i <= n THEN A[i] ELSE D[i - n]
    BY <2>1, ConcatProperties
  <2>4. DOMAIN (A \o D) = 1..(n + m)
    BY <2>3, LenProperties
  <2>5. \A i \in 1..n : (A \o D)[i] = A[i]
    BY <1>1, <2>2, <2>3
  <2>6. \A i \in 1..m : (A \o D)[n + i] = D[i]
    <3>1. SUFFICES ASSUME NEW i \in 1..m PROVE (A \o D)[n + i] = D[i]
      OBVIOUS
    <3>2. n + i \in 1..(n + m) /\ ~(n + i <= n) /\ (n + i) - n = i
      BY <1>1, <2>2
    <3>3. QED BY <2>3, <3>2
  <2>7. QED BY <1>4, <2>3, <2>4, <2>5, <2>6 DEF A, D, m
<1> DEFINE filter == BuildODataFilter(named, excepts)
           m == Len(excepts)
<1>6. m \in Nat
  BY LenProperties
<1> HIDE DEF filter, m
<1>7. \A i \in 1..n : /\ filter[i].op = "or" /\ filter[i].isIn = TRUE
                     /\ filter[i].group = allowed[i]
  <2>1. \A i \in 1..n : filter[i] = Literal("or", TRUE, allowed[i])
    BY <1>2, <1>5 DEF filter
  <2> SUFFICES ASSUME NEW i \in 1..n
               PROVE  /\ filter[i].op = "or" /\ filter[i].isIn = TRUE
                      /\ filter[i].group = allowed[i]
    OBVIOUS
  <2>2. filter[i] = Literal("or", TRUE, allowed[i])
    BY <2>1
  <2>3. QED BY <2>2 DEF Literal
<1>8. \A i \in 1..m : /\ filter[n + i].op = "and" /\ filter[n + i].isIn = FALSE
                     /\ filter[n + i].group = excepts[i]
  <2>1. \A i \in 1..m : filter[n + i] = Literal("and", FALSE, excepts[i])
    BY <1>3, <1>5 DEF filter, m
  <2> SUFFICES ASSUME NEW i \in 1..m
               PROVE  /\ filter[n + i].op = "and" /\ filter[n + i].isIn = FALSE
                      /\ filter[n + i].group = excepts[i]
    OBVIOUS
  <2>2. filter[n + i] = Literal("and", FALSE, excepts[i])
    BY <2>1
  <2>3. QED BY <2>2 DEF Literal
<1>9. Len(filter) = n + m /\ DOMAIN filter = 1..(n + m)
  BY <1>5 DEF filter, m
<1>10. QED BY <1>1, <1>6, <1>7, <1>8, <1>9 DEF IsTextOf, filter, m, n, allowed

\* What Selected means, in terms of positions
LEMMA SelectedText ==
    ASSUME NEW S, NEW named \in Seq(S), NEW excepts \in Seq(S), NEW held
    PROVE  Selected(held, named, excepts) <=>
            /\ named = << >> \/ \E i \in 1..Len(named) : named[i] \in held
            /\ \A i \in 1..Len(excepts) : excepts[i] \notin held
<1>1. DOMAIN named = 1..Len(named) /\ DOMAIN excepts = 1..Len(excepts)
  BY LenProperties
<1>2. QED BY <1>1 DEF Selected, ToSet

\* Nobody who is meant is missed: whatever the rooms and the exceptions, the
\* filter _buildODataFilter writes holds on every connection of the namespace
\* that Socket.IO itself would pick.
THEOREM NobodyIsMissed ==
    ASSUME NEW S, NEW named \in Seq(S), NEW excepts \in Seq(S), NEW names,
           Selected(names, named, excepts), \A i \in 1..Len(excepts) : excepts[i] # Namespace
    PROVE  Holds(BuildODataFilter(named, excepts), names \cup {Namespace})
<1> DEFINE n == Len(Allowed(named))
           filter == BuildODataFilter(named, excepts)
           held == names \cup {Namespace}
<1>1. IsTextOf(filter, named, excepts, n)
  BY FilterFields
<1>2. Len(excepts) \in Nat
  BY LenProperties
<1>3. PICK i \in 1..n : Allowed(named)[i] \in held
  <2>1. CASE named = << >>
    <3>1. n = 1 /\ Allowed(named)[1] = Namespace
      BY <2>1 DEF Allowed
    <3>2. QED BY <3>1
  <2>2. CASE named # << >>
    BY <2>2, SelectedText DEF Allowed
  <2>3. QED BY <2>1, <2>2
<1>4. \A k \in 1..Len(excepts) : excepts[k] \notin held
  BY SelectedText
<1> HIDE DEF n, filter, held
<1>5. i \in DOMAIN filter /\ filter[i].op = "or"
  BY <1>1, <1>2, <1>3 DEF IsTextOf
<1>6. ASSUME NEW j \in i..Len(filter), \A k \in (i + 1)..j : filter[k].op = "and"
      PROVE  filter[j].group \in held <=> filter[j].isIn
  <2>1. CASE j = i
    BY <2>1, <1>1, <1>3 DEF IsTextOf
  <2>2. CASE j # i /\ j <= n
    <3>1. j \in 1..n /\ j \in (i + 1)..j
      BY <2>2, <1>1, <1>3 DEF IsTextOf
    <3>2. filter[j].op = "or"
      BY <3>1, <1>1 DEF IsTextOf
    <3>3. QED BY <3>1, <3>2, <1>6
  <2>3. CASE j > n
    <3>1. j - n \in 1..Len(excepts) /\ n + (j - n) = j
      BY <2>3, <1>1, <1>2, <1>3 DEF IsTextOf
    <3>2. filter[j].isIn = FALSE /\ filter[j].group = excepts[j - n]
      BY <3>1, <1>1 DEF IsTextOf
    <3>3. QED BY <3>1, <3>2, <1>4
  <2>4. QED BY <2>1, <2>2, <2>3, <1>1, <1>3 DEF IsTextOf
<1>7. Holds(filter, held)
  BY <1>5, <1>6 DEF Holds
<1>8. QED BY <1>7 DEF filter, held

\* Selections of one room at most, or without exceptions, are exact: the
\* filter holds on the connections Socket.IO would pick and on no other.
THEOREM PlainSelectionsAreExact ==
    ASSUME NEW S, NEW named \in Seq(S), NEW excepts \in Seq(S), NEW names,
           ~Ambiguous(named, excepts), Namespace \notin S
    PROVE  Holds(BuildODataFilter(named, excepts), names \cup {Namespace})
            <=> Selected(names, named, excepts)
<1> DEFINE n == Len(Allowed(named))
           filter == BuildODataFilter(named, excepts)
           held == names \cup {Namespace}
<1>1. IsTextOf(filter, named, excepts, n)
  BY FilterFields
<1>2. Len(excepts) \in Nat /\ Len(named) \in Nat
  BY LenProperties
<1>3. \A i \in 1..Len(excepts) : excepts[i] # Namespace
  BY LenProperties
<1>4. Selected(names, named, excepts) => Holds(filter, held)
  BY <1>3, NobodyIsMissed
<1>5. ASSUME Holds(filter, held)
      PROVE  Selected(names, named, excepts)
  <2>1. filter # << >>
    BY <1>1, <1>2 DEF IsTextOf
  <2>2. PICK i \in DOMAIN filter :
          /\ i = 1 \/ filter[i].op = "or"
          /\ \A j \in i..Len(filter) :
                (\A k \in (i + 1)..j : filter[k].op = "and")
                    => (filter[j].group \in held <=> filter[j].isIn)
    BY <1>5, <2>1 DEF Holds
  <2>3. n = 1 \/ Len(excepts) = 0
    <3>1. CASE Len(named) > 1
      <4>1. excepts = << >>
        BY <3>1 DEF Ambiguous
      <4>2. QED BY <4>1
    <3>2. CASE ~(Len(named) > 1)
      BY <3>2, <1>1, <1>2 DEF Allowed, IsTextOf
    <3>3. QED BY <3>1, <3>2
  <2> HIDE DEF n, filter, held
  <2>4. i \in 1..n
    <3>1. CASE i > n
      <4>1. i - n \in 1..Len(excepts) /\ n + (i - n) = i
        BY <3>1, <1>1, <1>2, <2>2 DEF IsTextOf
      <4>2. filter[i].op = "and"
        BY <4>1, <1>1 DEF IsTextOf
      <4>3. i # 1
        BY <3>1, <1>1 DEF IsTextOf
      <4>4. QED BY <4>2, <4>3, <2>2
    <3>2. QED BY <3>1, <1>1, <1>2, <2>2 DEF IsTextOf
  <2>5. Allowed(named)[i] \in held
    <3>1. i \in i..Len(filter) /\ \A k \in (i + 1)..i : filter[k].op = "and"
      BY <1>1, <1>2, <2>4 DEF IsTextOf
    <3>2. filter[i].group \in held <=> filter[i].isIn
      BY <3>1, <2>2
    <3>3. QED BY <3>2, <1>1, <2>4 DEF IsTextOf
  <2>6. ASSUME NEW e \in 1..Len(excepts)
        PROVE  excepts[e] \notin held
    <3>1. n = 1 /\ i = 1
      BY <2>3, <2>4, <1>2
    <3>2. 1 + e \in i..Len(filter)
      BY <3>1, <1>1, <1>2 DEF IsTextOf
    <3>3. \A k \in (i + 1)..(1 + e) : filter[k].op = "and"
      <4>1. SUFFICES ASSUME NEW k \in (i + 1)..(1 + e) PROVE filter[k].op = "and"
        OBVIOUS
      <4>2. k - 1 \in 1..Len(excepts) /\ 1 + (k - 1) = k
        BY <3>1, <1>2
      <4>3. filter[n + (k - 1)].op = "and"
        BY <4>2, <1>1 DEF IsTextOf
      <4>4. QED BY <4>2, <4>3, <3>1
    <3>4. filter[1 + e].group \in held <=> filter[1 + e].isIn
      BY <3>2, <3>3, <2>2
    <3>5. filter[1 + e].isIn = FALSE /\ filter[1 + e].group = excepts[e]
      BY <3>1, <1>1 DEF IsTextOf
    <3>6. QED BY <3>4, <3>5
  <2>7. named = << >> \/ \E k \in 1..Len(named) : named[k] \in names
    <3>1. CASE named # << >>
      <4>1. i \in 1..Len(named) /\ named[i] \in held
        BY <3>1, <2>4, <2>5 DEF Allowed, n
      <4>2. named[i] # Namespace
        BY <4>1, LenProperties
      <4>3. QED BY <4>1, <4>2 DEF held
    <3>2. QED BY <3>1
  <2>8. \A e \in 1..Len(excepts) : excepts[e] \notin names
    BY <2>6 DEF held
  <2>9. QED BY <2>7, <2>8, SelectedText
<1>6. QED BY <1>4, <1>5

\* A connection in none of the groups a filter names is not selected.
LEMMA NothingNamed ==
    ASSUME NEW S, NEW named \in Seq(S), NEW excepts \in Seq(S)
    PROVE  ~Holds(BuildODataFilter(named, excepts), {})
<1> DEFINE n == Len(Allowed(named))
           filter == BuildODataFilter(named, excepts)
<1>1. IsTextOf(filter, named, excepts, n)
  BY FilterFields
<1>2. Len(excepts) \in Nat
  BY LenProperties
<1>3. filter # << >>
  BY <1>1, <1>2 DEF IsTextOf
<1> HIDE DEF n, filter
<1>4. ASSUME NEW i \in DOMAIN filter, i = 1 \/ filter[i].op = "or"
      PROVE  \E j \in i..Len(filter) :
                /\ \A k \in (i + 1)..j : filter[k].op = "and"
                /\ ~(filter[j].group \in {} <=> filter[j].isIn)
  <2>1. CASE i <= n
    <3>1. i \in i..Len(filter) /\ \A k \in (i + 1)..i : filter[k].op = "and"
      BY <2>1, <1>1, <1>2 DEF IsTextOf
    <3>2. filter[i].isIn = TRUE
      BY <2>1, <1>1, <1>2 DEF IsTextOf
    <3>3. QED BY <3>1, <3>2
  <2>2. CASE i > n
    <3>1. i - n \in 1..Len(excepts) /\ n + (i - n) = i /\ i # 1
      BY <2>2, <1>1, <1>2 DEF IsTextOf
    <3>2. filter[i].op = "and"
      BY <3>1, <1>1 DEF IsTextOf
    <3>3. QED BY <3>1, <3>2, <1>4
  <2>3. QED BY <2>1, <2>2, <1>1 DEF IsTextOf
<1>5. QED BY <1>3, <1>4 DEF Holds, filter

-----------------------------------------------------------------------------
(* The adapter.                                                            *)

USE AdapterAssumption

\* What IInvRooms says of one socket.
Fine(s) ==
    /\ \A i \in DOMAIN queue[s] : i > 1 => queue[s][i].at = "waiting"
    /\ Unregistered(s) /\ Leaving(s) /\ Undisturbed(s) /\ InStep(s) /\ Heading(s)

\* The invariant is a fact about each socket.
LEMMA InvariantBySocket == IInvRooms <=> TypeOK /\ \A s \in Sockets : Fine(s)
BY DEF IInvRooms, OneAtATime, Fine

-----------------------------------------------------------------------------
\* Queues

\* A call put at the end
LEMMA Appended ==
    ASSUME NEW q \in Seq(Call), NEW call \in Call
    PROVE  /\ Append(q, call) \in Seq(Call) /\ Append(q, call) # << >>
           /\ DOMAIN Append(q, call) = 1..(Len(q) + 1) /\ DOMAIN q = 1..Len(q)
           /\ Len(q) \in Nat
           /\ \A i \in 1..Len(q) : Append(q, call)[i] = q[i]
           /\ Append(q, call)[Len(q) + 1] = call
<1>1. /\ Append(q, call) \in Seq(Call) /\ Len(Append(q, call)) = Len(q) + 1
      /\ \A i \in 1..Len(q) : Append(q, call)[i] = q[i]
      /\ Append(q, call)[Len(q) + 1] = call
  BY AppendProperties
<1>2. Len(q) \in Nat /\ DOMAIN q = 1..Len(q)
  BY LenProperties
<1>3. DOMAIN Append(q, call) = 1..(Len(q) + 1)
  BY <1>1, LenProperties
<1>4. Append(q, call) # << >>
  BY <1>1, <1>2
<1>5. QED BY <1>1, <1>2, <1>3, <1>4

\* The first call taken away
LEMMA FirstRemoved ==
    ASSUME NEW q \in Seq(Call), q # << >>
    PROVE  /\ RemoveAt(q, 1) \in Seq(Call)
           /\ Len(q) \in Nat /\ Len(q) >= 1 /\ DOMAIN q = 1..Len(q)
           /\ DOMAIN RemoveAt(q, 1) = 1..(Len(q) - 1)
           /\ \A i \in 1..(Len(q) - 1) : RemoveAt(q, 1)[i] = q[i + 1]
           /\ Len(q) = 1 <=> RemoveAt(q, 1) = << >>
<1>1. Len(q) \in Nat /\ Len(q) >= 1 /\ DOMAIN q = 1..Len(q)
  BY LenProperties, EmptySeq
<1>2. RemoveAt(q, 1) = SubSeq(q, 1, 0) \o SubSeq(q, 2, Len(q))
  BY DEF RemoveAt
<1>3. SubSeq(q, 1, 0) = << >>
  BY <1>1
<1>4. /\ SubSeq(q, 2, Len(q)) \in Seq(Call)
      /\ Len(SubSeq(q, 2, Len(q))) = Len(q) - 1
      /\ \A i \in 1..(Len(q) - 1) : SubSeq(q, 2, Len(q))[i] = q[i + 1]
  BY <1>1
<1>5. RemoveAt(q, 1) = SubSeq(q, 2, Len(q))
  BY <1>2, <1>3, <1>4
<1>6. DOMAIN RemoveAt(q, 1) = 1..(Len(q) - 1)
  BY <1>4, <1>5, LenProperties
<1>7. Len(q) = 1 <=> RemoveAt(q, 1) = << >>
  BY <1>1, <1>4, <1>5
<1>8. QED BY <1>1, <1>4, <1>5, <1>6, <1>7

\* p is q, with its i-th call at another place.
IsMoved(p, q, i, place) ==
    /\ p \in Seq(Call) /\ DOMAIN p = DOMAIN q /\ p # << >> /\ q # << >> /\ 1 \in DOMAIN q
    /\ \A j \in DOMAIN q : /\ p[j].kind = q[j].kind /\ p[j].names = q[j].names
                           /\ p[j].at = IF j = i THEN place ELSE q[j].at

\* It is again a queue.
LEMMA Moved ==
    ASSUME NEW q \in Seq(Call), NEW i \in DOMAIN q,
           NEW place \in {"waiting", "asked", "served"}
    PROVE  IsMoved(Reached(q, i, place), q, i, place)
<1> DEFINE p == Reached(q, i, place)
<1>1. Len(q) \in Nat /\ DOMAIN q = 1..Len(q) /\ q \in [1..Len(q) -> Call]
  BY LenProperties
<1>2. [q[i] EXCEPT !.at = place] \in Call
  BY <1>1 DEF Call
<1>3. p \in [1..Len(q) -> Call]
  BY <1>1, <1>2 DEF Reached
<1>4. p \in Seq(Call) /\ DOMAIN p = 1..Len(q)
  BY <1>1, <1>3, IsSequence
<1>5. \A j \in DOMAIN q : /\ p[j].kind = q[j].kind /\ p[j].names = q[j].names
                          /\ p[j].at = IF j = i THEN place ELSE q[j].at
  <2> SUFFICES ASSUME NEW j \in DOMAIN q
               PROVE  /\ p[j].kind = q[j].kind /\ p[j].names = q[j].names
                      /\ p[j].at = IF j = i THEN place ELSE q[j].at
    OBVIOUS
  <2>1. q[j] \in Call
    BY <1>1
  <2>2. CASE j = i
    <3>1. p[j] = [q[j] EXCEPT !.at = place]
      BY <2>2, <1>1 DEF Reached
    <3>2. QED BY <2>1, <2>2, <3>1 DEF Call
  <2>3. CASE j # i
    <3>1. p[j] = q[j]
      BY <2>3, <1>1 DEF Reached
    <3>2. QED BY <2>3, <3>1
  <2>4. QED BY <2>2, <2>3
<1>6. 1 \in DOMAIN q /\ p # << >> /\ q # << >>
  BY <1>1, <1>4
<1>7. QED BY <1>1, <1>4, <1>5, <1>6 DEF IsMoved

-----------------------------------------------------------------------------
\* Outcomes

\* No call, no change.
LEMMA NothingPending ==
    ASSUME NEW names \in SUBSET Name
    PROVE  Outcome(<< >>, names) = names
BY DEF Outcome

\* A call put at the end has the last word.
LEMMA OutcomeOfMore ==
    ASSUME NEW q \in Seq(Call), NEW call \in Call, call.kind # "delAll",
           NEW names \in SUBSET Name
    PROVE  Outcome(Append(q, call), names) = Applied(call, Outcome(q, names))
<1> DEFINE p == Append(q, call)
           n == Len(q)
<1>1. /\ p \in Seq(Call) /\ DOMAIN p = 1..(n + 1) /\ DOMAIN q = 1..n /\ n \in Nat
      /\ \A i \in 1..n : p[i] = q[i]
      /\ p[n + 1] = call
  BY Appended
<1>2. call.names \subseteq Name /\ call.kind \in {"addAll", "del"}
  BY DEF Call
<1> HIDE DEF p, n
<1>3. ASSUME NEW r \in Name, r \in call.names
      PROVE  r \in Outcome(p, names) <=> call.kind = "addAll"
  <2>1. \A i \in DOMAIN p : (\A j \in DOMAIN p : j > i => r \notin p[j].names) => i = n + 1
    BY <1>1, <1>3
  <2>2. \A j \in DOMAIN p : ~(j > n + 1)
    BY <1>1
  <2>3. n + 1 \in DOMAIN p
    BY <1>1
  <2>4. QED BY <1>1, <1>3, <2>1, <2>2, <2>3 DEF Outcome
<1>4. ASSUME NEW r \in Name, r \notin call.names
      PROVE  r \in Outcome(p, names) <=> r \in Outcome(q, names)
  <2>1. (\A i \in DOMAIN p : r \notin p[i].names) <=> \A i \in DOMAIN q : r \notin q[i].names
    BY <1>1, <1>4
  <2>2. \A i \in DOMAIN q :
          (\A j \in DOMAIN p : j > i => r \notin p[j].names)
            <=> \A j \in DOMAIN q : j > i => r \notin q[j].names
    BY <1>1, <1>4
  <2>3. \A i \in DOMAIN p : r \in p[i].names => i \in DOMAIN q /\ p[i] = q[i]
    BY <1>1, <1>4
  <2>4. \A i \in DOMAIN q : i \in DOMAIN p /\ p[i] = q[i]
    BY <1>1
  <2>5. QED BY <2>1, <2>2, <2>3, <2>4 DEF Outcome
<1>5. Outcome(p, names) \subseteq Name /\ Outcome(q, names) \subseteq Name
  BY DEF Outcome
<1>6. QED BY <1>2, <1>3, <1>4, <1>5 DEF Applied, p

\* Doing the first call leads to the same.
LEMMA OutcomeOfRest ==
    ASSUME NEW q \in Seq(Call), q # << >>, q[1].kind # "delAll",
           NEW names \in SUBSET Name
    PROVE  Outcome(RemoveAt(q, 1), Applied(q[1], names)) = Outcome(q, names)
<1> DEFINE p == RemoveAt(q, 1)
           n == Len(q)
           done == Applied(q[1], names)
<1>1. /\ n \in Nat /\ n >= 1 /\ DOMAIN q = 1..n /\ DOMAIN p = 1..(n - 1)
      /\ \A i \in 1..(n - 1) : p[i] = q[i + 1]
  BY FirstRemoved
<1>2. q[1] \in Call
  BY <1>1, LenProperties
<1>3. q[1].kind \in {"addAll", "del"}
  BY <1>2 DEF Call
<1> HIDE DEF p, n
<1>4. ASSUME NEW r \in Name
      PROVE  r \in Outcome(p, done) <=> r \in Outcome(q, names)
  <2>1. CASE \A i \in DOMAIN p : r \notin p[i].names
    <3>1. \A i \in DOMAIN q : i > 1 => r \notin q[i].names
      <4>1. SUFFICES ASSUME NEW i \in DOMAIN q, i > 1 PROVE r \notin q[i].names
        OBVIOUS
      <4>2. i - 1 \in DOMAIN p /\ p[i - 1] = q[i]
        BY <1>1, <4>1
      <4>3. QED BY <2>1, <4>2
    <3>2. r \in Outcome(p, done) <=> r \in done
      BY <2>1 DEF Outcome
    <3>3. 1 \in DOMAIN q /\ \A i \in DOMAIN q : i = 1 \/ i > 1
      BY <1>1
    <3>4. CASE r \in q[1].names
      <4>1. r \in Outcome(q, names) <=> q[1].kind = "addAll"
        BY <3>1, <3>3, <3>4 DEF Outcome
      <4>2. QED BY <3>2, <3>4, <4>1 DEF Applied
    <3>5. CASE r \notin q[1].names
      <4>1. r \in Outcome(q, names) <=> r \in names
        BY <3>1, <3>3, <3>5 DEF Outcome
      <4>2. QED BY <3>2, <3>5, <4>1 DEF Applied
    <3>6. QED BY <3>4, <3>5
  <2>2. CASE \E i \in DOMAIN p : r \in p[i].names
    <3>1. PICK k \in DOMAIN p : r \in p[k].names
      BY <2>2
    <3>2. k + 1 \in DOMAIN q /\ r \in q[k + 1].names /\ k + 1 > 1
      BY <1>1, <3>1
    <3>3. r \in Outcome(q, names) <=>
            \E i \in DOMAIN q : /\ q[i].kind = "addAll" /\ r \in q[i].names
                                /\ \A j \in DOMAIN q : j > i => r \notin q[j].names
      BY <3>2 DEF Outcome
    <3>4. r \in Outcome(p, done) <=>
            \E i \in DOMAIN p : /\ p[i].kind = "addAll" /\ r \in p[i].names
                                /\ \A j \in DOMAIN p : j > i => r \notin p[j].names
      BY <3>1 DEF Outcome
    <3>5. ASSUME NEW i \in DOMAIN q, \A j \in DOMAIN q : j > i => r \notin q[j].names
          PROVE  i - 1 \in DOMAIN p /\ p[i - 1] = q[i]
                 /\ \A j \in DOMAIN p : j > i - 1 => r \notin p[j].names
      <4>1. i # 1
        BY <3>2, <3>5
      <4>2. i - 1 \in DOMAIN p /\ p[i - 1] = q[i]
        BY <1>1, <4>1
      <4>3. ASSUME NEW j \in DOMAIN p, j > i - 1 PROVE r \notin p[j].names
        <5>1. j + 1 \in DOMAIN q /\ j + 1 > i /\ p[j] = q[j + 1]
          BY <1>1, <4>3
        <5>2. QED BY <3>5, <5>1
      <4>4. QED BY <4>2, <4>3
    <3>6. ASSUME NEW i \in DOMAIN p, \A j \in DOMAIN p : j > i => r \notin p[j].names
          PROVE  i + 1 \in DOMAIN q /\ p[i] = q[i + 1]
                 /\ \A j \in DOMAIN q : j > i + 1 => r \notin q[j].names
      <4>1. i + 1 \in DOMAIN q /\ p[i] = q[i + 1]
        BY <1>1
      <4>2. ASSUME NEW j \in DOMAIN q, j > i + 1 PROVE r \notin q[j].names
        <5>1. j - 1 \in DOMAIN p /\ j - 1 > i /\ p[j - 1] = q[j]
          BY <1>1, <4>2
        <5>2. QED BY <3>6, <5>1
      <4>3. QED BY <4>1, <4>2
    <3>7. QED BY <3>3, <3>4, <3>5, <3>6
  <2>3. QED BY <2>1, <2>2
<1>5. Outcome(p, done) \subseteq Name /\ Outcome(q, names) \subseteq Name
  BY DEF Outcome
<1>6. QED BY <1>4, <1>5 DEF p

\* How far a call has got does not matter.
LEMMA OutcomeOfMoved ==
    ASSUME NEW q, NEW p, DOMAIN p = DOMAIN q, NEW names,
           \A j \in DOMAIN q : p[j].kind = q[j].kind /\ p[j].names = q[j].names
    PROVE  Outcome(p, names) = Outcome(q, names)
BY DEF Outcome

-----------------------------------------------------------------------------
\* Types

\* The pieces of TypeOK' that asking for a call and Spoil change
LEMMA AskTyped ==
    ASSUME TypeOK, NEW s \in Sockets, NEW kind \in {"addAll", "del", "delAll"},
           NEW names \in SUBSET Name, Ask(s, kind, names)
    PROVE  queue' \in [Sockets -> Seq(Call)]
<1>1. [kind |-> kind, names |-> names, at |-> "waiting"] \in Call
  BY DEF Call
<1>2. queue[s] \in Seq(Call)
  BY DEF TypeOK
<1>3. Append(queue[s], [kind |-> kind, names |-> names, at |-> "waiting"]) \in Seq(Call)
  BY <1>1, <1>2, Appended
<1>4. QED BY <1>3 DEF Ask, TypeOK

\* Spoil adds causes only.
LEMMA SpoilTyped ==
    ASSUME TypeOK, NEW s \in Sockets, Spoil(s)
    PROVE  spoiled' \in [Sockets -> SUBSET Cause]
BY DEF Spoil, TypeOK, Cause

\* The steps of the sockets keep the types.
LEMMA SocketsTyped ==
    ASSUME TypeOK, NEW s \in Sockets,
           \/ \E names \in SUBSET Rooms \ {{}} : Join(s, names)
           \/ \E name \in Rooms : Leave(s, name)
           \/ Connect(s) \/ Disconnect(s) \/ Lose(s)
    PROVE  TypeOK'
<1>1. CASE \E names \in SUBSET Rooms \ {{}} : Join(s, names)
  <2>1. PICK names \in SUBSET Rooms \ {{}} : Join(s, names)
    BY <1>1
  <2>2. names \in SUBSET Name
    BY DEF Name
  <2>3. queue' \in [Sockets -> Seq(Call)] /\ spoiled' \in [Sockets -> SUBSET Cause]
    BY <2>1, <2>2, AskTyped, SpoilTyped DEF Join
  <2>4. want' \in [Sockets -> SUBSET Name] /\ calls' \in 0..MaxCalls
    BY <2>1, <2>2 DEF Join, TypeOK
  <2>5. QED BY <2>1, <2>3, <2>4 DEF Join, TypeOK
<1>2. CASE \E name \in Rooms : Leave(s, name)
  <2>1. PICK name \in Rooms : Leave(s, name)
    BY <1>2
  <2>2. {name} \in SUBSET Name
    BY DEF Name
  <2>3. queue' \in [Sockets -> Seq(Call)] /\ spoiled' \in [Sockets -> SUBSET Cause]
    BY <2>1, <2>2, AskTyped, SpoilTyped DEF Leave
  <2>4. want' \in [Sockets -> SUBSET Name] /\ calls' \in 0..MaxCalls
    BY <2>1, <2>2 DEF Leave, TypeOK
  <2>5. QED BY <2>1, <2>3, <2>4 DEF Leave, TypeOK
<1>3. CASE Connect(s)
  <2>1. {s} \in SUBSET Name
    BY DEF Name
  <2>2. queue' \in [Sockets -> Seq(Call)] /\ spoiled' \in [Sockets -> SUBSET Cause]
    BY <1>3, <2>1, AskTyped, SpoilTyped DEF Connect
  <2>3. want' \in [Sockets -> SUBSET Name]
        /\ where' \in [Sockets -> {"checking", "present", "gone"}]
    BY <1>3, <2>1 DEF Connect, TypeOK
  <2>4. QED BY <1>3, <2>2, <2>3 DEF Connect, TypeOK
<1>4. CASE Disconnect(s)
  <2>1. queue' \in [Sockets -> Seq(Call)] /\ spoiled' \in [Sockets -> SUBSET Cause]
    BY <1>4, AskTyped, SpoilTyped DEF Disconnect
  <2>2. want' \in [Sockets -> SUBSET Name]
        /\ where' \in [Sockets -> {"checking", "present", "gone"}]
    BY <1>4 DEF Disconnect, TypeOK
  <2>3. QED BY <1>4, <2>1, <2>2 DEF Disconnect, TypeOK
<1>5. CASE Lose(s)
  BY <1>5 DEF Lose, TypeOK
<1>6. QED BY <1>1, <1>2, <1>3, <1>4, <1>5

\* A call that gets further leaves a queue.
LEMMA AtTyped ==
    ASSUME TypeOK, NEW s \in Sockets, NEW i \in DOMAIN queue[s],
           NEW place \in {"waiting", "asked", "served"}, At(s, i, place)
    PROVE  queue' \in [Sockets -> Seq(Call)]
<1>1. queue[s] \in Seq(Call)
  BY DEF TypeOK
<1>2. Reached(queue[s], i, place) \in Seq(Call)
  BY <1>1, Moved DEF IsMoved
<1>3. QED BY <1>2 DEF At, TypeOK

\* A call that has begun is the first.
LEMMA HolderIsFirst ==
    ASSUME NEW s \in Sockets, Fine(s), TypeOK, NEW i \in DOMAIN queue[s],
           queue[s][i].at # "waiting"
    PROVE  i = 1
<1>1. queue[s] \in Seq(Call)
  BY DEF TypeOK
<1>2. DOMAIN queue[s] = 1..Len(queue[s]) /\ Len(queue[s]) \in Nat
  BY <1>1, LenProperties
<1>3. ~(i > 1)
  BY DEF Fine
<1>4. QED BY <1>2, <1>3

\* A call that ends leaves a queue.
LEMMA ReleaseTyped ==
    ASSUME TypeOK, NEW s \in Sockets, 1 \in DOMAIN queue[s], Release(s, 1)
    PROVE  queue' \in [Sockets -> Seq(Call)] /\ queue[s] # << >>
<1>1. queue[s] \in Seq(Call) /\ queue[s] # << >>
  BY DEF TypeOK
<1>2. RemoveAt(queue[s], 1) \in Seq(Call)
  BY <1>1, FirstRemoved
<1>3. QED BY <1>1, <1>2 DEF Release, TypeOK

\* The steps of the calls keep the types.
LEMMA CallsTyped ==
    ASSUME TypeOK, NEW s \in Sockets, Fine(s), NEW i \in DOMAIN queue[s], CallStep(s, i)
    PROVE  TypeOK'
<1>1. queue[s] \in Seq(Call) /\ queue[s][i] \in Call
  <2>1. queue[s] \in Seq(Call)
    BY DEF TypeOK
  <2>2. QED BY <2>1, LenProperties
<1>2. queue[s][i].names \in SUBSET Name /\ queue[s][i].kind \in {"addAll", "del", "delAll"}
  BY <1>1 DEF Call
<1>3. CASE Begin(s, i)
  <2>1. queue' \in [Sockets -> Seq(Call)]
    BY <1>3, AtTyped DEF Begin
  <2>2. QED BY <1>3, <2>1 DEF Begin, TypeOK
<1>4. CASE BeginAbsent(s, i)
  <2>1. queue' \in [Sockets -> Seq(Call)]
    BY <1>4, ReleaseTyped DEF BeginAbsent, HoldsLock
  <2>2. spoiled' \in [Sockets -> SUBSET Cause]
    BY <1>4 DEF BeginAbsent, TypeOK, Cause
  <2>3. QED BY <1>4, <2>1, <2>2 DEF BeginAbsent, TypeOK
<1>5. CASE Serve(s, i)
  <2>1. queue' \in [Sockets -> Seq(Call)]
    BY <1>5, AtTyped DEF Serve
  <2>2. groups' \in [Sockets -> SUBSET Name]
    <3>1. CASE queue[s][i].kind = "addAll" /\ open[s]
      <4>1. groups' = [groups EXCEPT ![s] = @ \cup queue[s][i].names]
        BY <1>5, <3>1 DEF Serve
      <4>2. QED BY <4>1, <1>2 DEF TypeOK
    <3>2. CASE queue[s][i].kind = "del"
      <4>1. groups' = [groups EXCEPT ![s] = @ \ queue[s][i].names]
        BY <1>5, <3>2 DEF Serve
      <4>2. QED BY <4>1, <1>2 DEF TypeOK
    <3>3. CASE ~(queue[s][i].kind = "addAll" /\ open[s]) /\ queue[s][i].kind # "del"
      <4>1. groups' = groups
        BY <1>5, <3>3 DEF Serve
      <4>2. QED BY <4>1 DEF TypeOK
    <3>4. QED BY <3>1, <3>2, <3>3
  <2>3. QED BY <1>5, <2>1, <2>2 DEF Serve, TypeOK
<1>6. CASE Answer(s, i)
  <2>1. i = 1
    BY <1>6, HolderIsFirst DEF Answer
  <2>2. queue' \in [Sockets -> Seq(Call)]
    BY <1>6, <2>1, ReleaseTyped DEF Answer
  <2>3. Remembered(s, queue[s][i]) \in SUBSET Name
    BY <1>2 DEF Remembered, TypeOK
  <2>4. rooms' \in [Sockets -> SUBSET Name]
    BY <1>6, <2>3 DEF Answer, TypeOK
  <2>5. QED BY <1>6, <2>2, <2>4 DEF Answer, TypeOK
<1>7. CASE Fail(s, i)
  <2>1. i = 1
    BY <1>7, HolderIsFirst DEF Fail
  <2>2. queue' \in [Sockets -> Seq(Call)]
    BY <1>7, <2>1, ReleaseTyped DEF Fail
  <2>3. rooms' \in [Sockets -> SUBSET Name] /\ spoiled' \in [Sockets -> SUBSET Cause]
    BY <1>7 DEF Fail, TypeOK, Cause
  <2>4. QED BY <1>7, <2>2, <2>3 DEF Fail, TypeOK
<1>8. QED BY <1>3, <1>4, <1>5, <1>6, <1>7 DEF CallStep

\* The steps of bulk operations keep the types.
LEMMA BulkTyped ==
    ASSUME TypeOK,
           \/ \E kind \in {"addSockets", "delSockets"}, selection \in Selections, room \in Rooms :
                BulkAsk(kind, selection, room)
           \/ BulkStep
    PROVE  TypeOK'
<1>1. ASSUME NEW kind \in {"addSockets", "delSockets"}, NEW selection \in Selections,
             NEW room \in Rooms, BulkAsk(kind, selection, room)
      PROVE  TypeOK'
  <2>1. bulk' \in Bulk \cup {None}
    BY <1>1 DEF BulkAsk, Bulk
  <2>2. \A s \in Sockets : Changed(kind, want[s], room) \in SUBSET Name
    BY DEF Changed, TypeOK, Name
  <2>3. want' \in [Sockets -> SUBSET Name]
    BY <1>1, <2>2 DEF BulkAsk, TypeOK
  <2>4. spoiled' \in [Sockets -> SUBSET Cause]
    BY <1>1 DEF BulkAsk, TypeOK, Cause
  <2>5. calls' \in 0..MaxCalls
    BY <1>1 DEF BulkAsk, TypeOK
  <2>6. QED BY <1>1, <2>1, <2>3, <2>4, <2>5 DEF BulkAsk, TypeOK
<1>2. bulk # None => bulk \in Bulk /\ bulk.room \in Rooms /\ bulk.room \in Name
  BY DEF TypeOK, Bulk, Name
<1>3. CASE BulkServe
  <2>1. bulk' \in Bulk \cup {None}
    BY <1>2, <1>3 DEF BulkServe, Bulk
  <2>2. \A s \in Sockets : Changed(bulk.kind, groups[s], bulk.room) \in SUBSET Name
    BY <1>2, <1>3 DEF BulkServe, Changed, TypeOK
  <2>3. groups' \in [Sockets -> SUBSET Name]
    BY <1>3, <2>2 DEF BulkServe, TypeOK
  <2>4. QED BY <1>3, <2>1, <2>3 DEF BulkServe, TypeOK
<1>4. CASE BulkAnswer
  <2> DEFINE call == [kind |-> IF bulk.kind = "addSockets" THEN "addAll" ELSE "del",
                      names |-> {bulk.room}, at |-> "waiting"]
  <2>1. call \in Call
    BY <1>2, <1>4 DEF BulkAnswer, Call
  <2>2. queue' = [s \in Sockets |-> IF Picked(s, rooms[s], bulk.selection)
                                    THEN Append(queue[s], call) ELSE queue[s]]
    BY <1>4 DEF BulkAnswer
  <2> HIDE DEF call
  <2>3. \A s \in Sockets : queue[s] \in Seq(Call) /\ Append(queue[s], call) \in Seq(Call)
    BY <2>1, Appended DEF TypeOK
  <2>4. queue' \in [Sockets -> Seq(Call)]
    BY <2>2, <2>3
  <2>5. QED BY <1>4, <2>4 DEF BulkAnswer, TypeOK
<1>5. CASE BulkFail
  BY <1>5 DEF BulkFail, TypeOK, Cause
<1>6. QED BY <1>1, <1>3, <1>4, <1>5 DEF BulkStep

-----------------------------------------------------------------------------
\* A step of one socket leaves the others as they are.
LEMMA Frame ==
    ASSUME NEW t \in Sockets, Fine(t),
           where'[t] = where[t], rooms'[t] = rooms[t], queue'[t] = queue[t],
           groups'[t] = groups[t], open'[t] = open[t], want'[t] = want[t],
           spoiled'[t] = spoiled[t], bulk' = bulk
    PROVE  Fine(t)'
<1>1. /\ \A i \in DOMAIN queue'[t] : i > 1 => queue'[t][i].at = "waiting"
      /\ Unregistered(t)' /\ Leaving(t)' /\ Undisturbed(t)'
  BY DEF Fine, Unregistered, Leaving, Undisturbed
<1>2. InStep(t)'
  BY DEF Fine, InStep, AfterBulk, Picked, Applied
<1>3. Heading(t)'
  BY DEF Fine, Heading, AfterBulk, Picked, Outcome
<1>4. QED BY <1>1, <1>2, <1>3 DEF Fine

\* p is q with the call at its end; only the first call of p may have begun.
IsAsked(p, q, call) ==
    /\ \A i \in DOMAIN p : i > 1 => p[i].at = "waiting"
    /\ p # << >>
    /\ \A i \in DOMAIN q : i \in DOMAIN p /\ p[i] = q[i]
    /\ \A i \in DOMAIN p : i \in DOMAIN q \/ p[i] = call
    /\ \E i \in DOMAIN p : p[i] = call
    /\ 1 \in DOMAIN p
    /\ p[1] = IF q = << >> THEN call ELSE q[1]

\* The queue of a socket when a call is put at its end
LEMMA AskedQueue ==
    ASSUME TypeOK, NEW s \in Sockets, Fine(s), NEW call \in Call, call.at = "waiting",
           queue'[s] = Append(queue[s], call)
    PROVE  IsAsked(queue'[s], queue[s], call)
<1>1. queue[s] \in Seq(Call)
  BY DEF TypeOK
<1> DEFINE q == queue[s]
           p == Append(q, call)
<1>2. /\ p # << >> /\ DOMAIN p = 1..(Len(q) + 1) /\ DOMAIN q = 1..Len(q) /\ Len(q) \in Nat
      /\ \A i \in 1..Len(q) : p[i] = q[i]
      /\ p[Len(q) + 1] = call
  BY <1>1, Appended
<1>3. q = << >> <=> Len(q) = 0
  BY <1>1, EmptySeq
<1>4. \A i \in DOMAIN q : i > 1 => q[i].at = "waiting"
  BY DEF Fine
<1>5. queue'[s] = p
  OBVIOUS
<1> HIDE DEF p, q
<1>6. \A i \in DOMAIN p : i \in 1..Len(q) \/ i = Len(q) + 1
  BY <1>2
<1>7. \A i \in DOMAIN p : i > 1 => p[i].at = "waiting"
  BY <1>2, <1>4, <1>6
<1>8. p[1] = IF q = << >> THEN call ELSE q[1]
  BY <1>2, <1>3
<1>9. /\ \A i \in DOMAIN q : i \in DOMAIN p /\ p[i] = q[i]
      /\ \A i \in DOMAIN p : i \in DOMAIN q \/ p[i] = call
      /\ \E i \in DOMAIN p : p[i] = call
      /\ 1 \in DOMAIN p
  BY <1>2, <1>6
<1>10. QED BY <1>2, <1>5, <1>7, <1>8, <1>9 DEF q, IsAsked

\* join, leave and connect of a socket
LEMMA AskedFine ==
    ASSUME TypeOK, NEW s \in Sockets, Fine(s),
           NEW call \in Call, call.at = "waiting", call.kind # "delAll",
           queue'[s] = Append(queue[s], call),
           where'[s] = "gone" <=> where[s] = "gone",
           where'[s] = "checking" => where[s] = "checking",
           rooms'[s] = rooms[s], groups'[s] = groups[s], open'[s] = open[s],
           bulk' = bulk, want'[s] = Applied(call, want[s]), Spoil(s)
    PROVE  Fine(s)'
<1>1. /\ \A i \in DOMAIN queue'[s] : i > 1 => queue'[s][i].at = "waiting"
      /\ queue'[s] # << >>
      /\ \A i \in DOMAIN queue[s] : i \in DOMAIN queue'[s] /\ queue'[s][i] = queue[s][i]
      /\ \A i \in DOMAIN queue'[s] : i \in DOMAIN queue[s] \/ queue'[s][i] = call
      /\ queue'[s][1] = IF queue[s] = << >> THEN call ELSE queue[s][1]
  <2>1. IsAsked(queue'[s], queue[s], call)
    BY AskedQueue
  <2>2. QED BY <2>1 DEF IsAsked
<1>2. /\ bulk # None => "overlap" \in spoiled'[s]
      /\ spoiled[s] \subseteq spoiled'[s]
  BY DEF Spoil, TypeOK
<1>3. Unregistered(s)' /\ Leaving(s)'
  BY <1>1 DEF Fine, Unregistered, Leaving
<1>4. Undisturbed(s)'
  BY <1>2 DEF Fine, Undisturbed
<1>5. InStep(s)'
  <2>1. SUFFICES ASSUME where'[s] # "gone", open'[s], spoiled'[s] \subseteq {"early"}
                 PROVE  /\ bulk' = None /\ queue'[s] # << >>
                        /\ groups'[s] \in {rooms'[s], Applied(queue'[s][1], rooms'[s])}
                        /\ queue'[s][1].at = "served"
                                => groups'[s] = Applied(queue'[s][1], rooms'[s])
    BY DEF InStep, Applied
  <2>2. bulk = None /\ spoiled[s] \subseteq {"early"} /\ where[s] # "gone" /\ open[s]
    BY <1>2, <2>1
  <2>3. CASE queue[s] = << >>
    BY <1>1, <2>2, <2>3 DEF Fine, InStep
  <2>4. CASE queue[s] # << >>
    BY <1>1, <2>2, <2>4 DEF Fine, InStep
  <2>5. QED BY <2>3, <2>4
<1>6. Heading(s)'
  <2>1. SUFFICES ASSUME where'[s] # "gone", spoiled'[s] = {}
                 PROVE  bulk' = None /\ want'[s] = Outcome(queue'[s], rooms'[s])
    BY DEF Heading, Outcome
  <2>2. bulk = None /\ spoiled[s] = {} /\ where[s] # "gone"
    BY <1>2, <2>1
  <2>3. want[s] = Outcome(queue[s], rooms[s])
    BY <2>2 DEF Fine, Heading
  <2>4. queue[s] \in Seq(Call) /\ rooms[s] \in SUBSET Name
    BY DEF TypeOK
  <2>5. Outcome(Append(queue[s], call), rooms[s]) = Applied(call, want[s])
    BY <2>3, <2>4, OutcomeOfMore
  <2>6. QED BY <2>2, <2>5
<1>7. QED BY <1>1, <1>3, <1>4, <1>5, <1>6 DEF Fine

\* The socket goes: only Leaving has anything left to say.
LEMMA GoneFine ==
    ASSUME TypeOK, NEW s \in Sockets, Fine(s), Disconnect(s)
    PROVE  Fine(s)'
<1> DEFINE call == [kind |-> "delAll", names |-> {}, at |-> "waiting"]
<1>1. call \in Call /\ call.at = "waiting" /\ call.kind = "delAll"
  BY DEF Call
<1>2. queue'[s] = Append(queue[s], call) /\ where'[s] = "gone"
  BY DEF Disconnect, Ask, TypeOK
<1> HIDE DEF call
<1>3. /\ \A i \in DOMAIN queue'[s] : i > 1 => queue'[s][i].at = "waiting"
      /\ \E i \in DOMAIN queue'[s] : queue'[s][i] = call
  <2>1. IsAsked(queue'[s], queue[s], call)
    BY <1>1, <1>2, AskedQueue
  <2>2. QED BY <2>1 DEF IsAsked
<1>4. Unregistered(s)' /\ Leaving(s)' /\ Undisturbed(s)' /\ InStep(s)' /\ Heading(s)'
  BY <1>1, <1>2, <1>3 DEF Unregistered, Leaving, Undisturbed, InStep, Heading
<1>5. QED BY <1>3, <1>4 DEF Fine

\* The connection goes: the service owes it nothing.
LEMMA LostFine ==
    ASSUME TypeOK, NEW s \in Sockets, Fine(s), Lose(s)
    PROVE  Fine(s)'
<1>1. groups'[s] = {} /\ open'[s] = FALSE
      /\ UNCHANGED <<where, rooms, queue, bulk, want, spoiled>>
  BY DEF Lose, TypeOK
<1>2. /\ \A i \in DOMAIN queue'[s] : i > 1 => queue'[s][i].at = "waiting"
      /\ Unregistered(s)' /\ Leaving(s)' /\ Undisturbed(s)'
  BY <1>1 DEF Fine, Unregistered, Leaving, Undisturbed
<1>3. InStep(s)'
  BY <1>1 DEF InStep
<1>4. Heading(s)'
  BY <1>1 DEF Fine, Heading, AfterBulk, Picked, Outcome
<1>5. QED BY <1>2, <1>3, <1>4 DEF Fine

\* The steps of the sockets
LEMMA SocketsFine ==
    ASSUME TypeOK, \A t \in Sockets : Fine(t), NEW s \in Sockets,
           \/ \E names \in SUBSET Rooms \ {{}} : Join(s, names)
           \/ \E name \in Rooms : Leave(s, name)
           \/ Connect(s) \/ Disconnect(s) \/ Lose(s)
    PROVE  \A t \in Sockets : Fine(t)'
<1>1. ASSUME NEW t \in Sockets, t # s
      PROVE  Fine(t)'
  <2>1. where'[t] = where[t] /\ want'[t] = want[t]
    BY <1>1 DEF Join, Leave, Connect, Disconnect, Lose, TypeOK
  <2>2. rooms'[t] = rooms[t] /\ bulk' = bulk
    BY DEF Join, Leave, Connect, Disconnect, Lose
  <2>3. groups'[t] = groups[t] /\ open'[t] = open[t]
    BY <1>1 DEF Join, Leave, Connect, Disconnect, Lose, TypeOK
  <2>4. queue'[t] = queue[t]
    BY <1>1 DEF Join, Leave, Connect, Disconnect, Lose, Ask, TypeOK
  <2>5. spoiled'[t] = spoiled[t]
    BY <1>1 DEF Join, Leave, Connect, Disconnect, Lose, Spoil, TypeOK
  <2>6. QED BY <2>1, <2>2, <2>3, <2>4, <2>5, Frame
<1>2. ASSUME NEW names \in SUBSET Rooms \ {{}}, Join(s, names)
      PROVE  Fine(s)'
  <2> DEFINE call == [kind |-> "addAll", names |-> names, at |-> "waiting"]
  <2>1. call \in Call /\ call.at = "waiting" /\ call.kind = "addAll" /\ call.names = names
    BY DEF Call, Name
  <2>2. queue'[s] = Append(queue[s], call) /\ want'[s] = want[s] \cup names
    BY <1>2 DEF Join, Ask, TypeOK
  <2> HIDE DEF call
  <2>3. want'[s] = Applied(call, want[s])
    BY <2>1, <2>2 DEF Applied
  <2>4. QED BY <1>2, <2>1, <2>2, <2>3, AskedFine DEF Join
<1>3. ASSUME NEW name \in Rooms, Leave(s, name)
      PROVE  Fine(s)'
  <2> DEFINE call == [kind |-> "del", names |-> {name}, at |-> "waiting"]
  <2>1. call \in Call /\ call.at = "waiting" /\ call.kind = "del" /\ call.names = {name}
    BY DEF Call, Name
  <2>2. queue'[s] = Append(queue[s], call) /\ want'[s] = want[s] \ {name}
    BY <1>3 DEF Leave, Ask, TypeOK
  <2> HIDE DEF call
  <2>3. want'[s] = Applied(call, want[s])
    BY <2>1, <2>2 DEF Applied
  <2>4. QED BY <1>3, <2>1, <2>2, <2>3, AskedFine DEF Leave
<1>4. ASSUME Connect(s)
      PROVE  Fine(s)'
  <2> DEFINE call == [kind |-> "addAll", names |-> {s}, at |-> "waiting"]
  <2>1. call \in Call /\ call.at = "waiting" /\ call.kind = "addAll" /\ call.names = {s}
    BY DEF Call, Name
  <2>2. /\ queue'[s] = Append(queue[s], call) /\ want'[s] = want[s] \cup {s}
        /\ where[s] = "checking" /\ where'[s] = "present"
    BY <1>4 DEF Connect, Ask, TypeOK
  <2> HIDE DEF call
  <2>3. want'[s] = Applied(call, want[s])
    BY <2>1, <2>2 DEF Applied
  <2>4. QED BY <1>4, <2>1, <2>2, <2>3, AskedFine DEF Connect
<1>5. Disconnect(s) => Fine(s)'
  BY GoneFine
<1>6. Lose(s) => Fine(s)'
  BY LostFine
<1>7. Fine(s)'
  BY <1>2, <1>3, <1>4, <1>5, <1>6
<1>8. QED BY <1>1, <1>7

-----------------------------------------------------------------------------
\* The steps of a call

\* The first call of a socket gets further, and nothing but groups changes.
LEMMA MovedFine ==
    ASSUME TypeOK, NEW s \in Sockets, Fine(s), NEW i \in DOMAIN queue[s],
           NEW place \in {"asked", "served"}, i = 1, where[s] # "checking",
           queue'[s] = Reached(queue[s], i, place),
           where' = where, rooms' = rooms, open' = open, want' = want,
           spoiled' = spoiled, bulk' = bulk,
           where[s] # "gone" /\ open[s] /\ spoiled[s] \subseteq {"early"} /\ bulk = None
                => groups'[s] = IF place = "served" THEN Applied(queue[s][1], rooms[s])
                                ELSE groups[s]
    PROVE  Fine(s)'
<1>1. queue[s] \in Seq(Call) /\ place \in {"waiting", "asked", "served"}
  BY DEF TypeOK
<1>2. /\ DOMAIN queue'[s] = DOMAIN queue[s] /\ queue'[s] # << >> /\ queue[s] # << >>
      /\ 1 \in DOMAIN queue[s]
      /\ \A j \in DOMAIN queue[s] :
            /\ queue'[s][j].kind = queue[s][j].kind /\ queue'[s][j].names = queue[s][j].names
            /\ queue'[s][j].at = IF j = i THEN place ELSE queue[s][j].at
  <2>1. IsMoved(queue'[s], queue[s], i, place)
    BY <1>1, Moved
  <2>2. QED BY <2>1 DEF IsMoved
<1>3. \A j \in DOMAIN queue'[s] : j > 1 => queue'[s][j].at = "waiting"
  BY <1>2 DEF Fine
<1>4. Unregistered(s)' /\ Leaving(s)' /\ Undisturbed(s)'
  <2>1. Unregistered(s)'
    BY DEF Unregistered
  <2>2. \A j \in DOMAIN queue'[s] : j \in DOMAIN queue[s] /\ queue'[s][j].kind = queue[s][j].kind
    BY <1>2
  <2>3. (\E j \in DOMAIN queue[s] : queue[s][j].kind = "delAll")
            => \E j \in DOMAIN queue'[s] : queue'[s][j].kind = "delAll"
    BY <1>2
  <2>4. Leaving(s)'
    BY <2>2, <2>3 DEF Fine, Leaving
  <2>5. Undisturbed(s)'
    BY <1>2 DEF Fine, Undisturbed
  <2>6. QED BY <2>1, <2>4, <2>5
<1>5. where[s] # "gone" /\ bulk # None => "overlap" \in spoiled[s]
  BY <1>2 DEF Fine, Undisturbed
<1>6. InStep(s)'
  <2>1. SUFFICES ASSUME where[s] # "gone", open[s], spoiled[s] \subseteq {"early"}
                 PROVE  /\ bulk' = None /\ queue'[s] # << >>
                        /\ groups'[s] \in {rooms'[s], Applied(queue'[s][1], rooms'[s])}
                        /\ queue'[s][1].at = "served"
                                => groups'[s] = Applied(queue'[s][1], rooms'[s])
    BY DEF InStep, Applied
  <2>2. bulk = None
    BY <1>5, <2>1
  <2>3. groups[s] \in {rooms[s], Applied(queue[s][1], rooms[s])}
    BY <1>2, <2>1, <2>2 DEF Fine, InStep
  <2>4. Applied(queue'[s][1], rooms'[s]) = Applied(queue[s][1], rooms[s])
    BY <1>2 DEF Applied
  <2>5. QED BY <1>2, <2>1, <2>2, <2>3, <2>4
<1>7. Heading(s)'
  <2>1. SUFFICES ASSUME where[s] # "gone", spoiled[s] = {}
                 PROVE  bulk' = None /\ want'[s] = Outcome(queue'[s], rooms'[s])
    BY DEF Heading, Outcome
  <2>2. bulk = None
    BY <1>5, <2>1
  <2>3. want[s] = Outcome(queue[s], rooms[s])
    BY <2>1, <2>2 DEF Fine, Heading
  <2>4. Outcome(queue'[s], rooms[s]) = Outcome(queue[s], rooms[s])
    BY <1>2, OutcomeOfMoved
  <2>5. QED BY <2>2, <2>3, <2>4
<1>8. QED BY <1>3, <1>4, <1>6, <1>7 DEF Fine

\* The queue of a socket when its first call is taken away
LEMMA ReleasedQueue ==
    ASSUME TypeOK, NEW s \in Sockets, Fine(s), 1 \in DOMAIN queue[s], Release(s, 1)
    PROVE  /\ queue[s] \in Seq(Call) /\ queue[s] # << >> /\ queue[s][1] \in Call
           /\ queue'[s] = RemoveAt(queue[s], 1)
           /\ \A i \in DOMAIN queue'[s] : queue'[s][i].at = "waiting"
           /\ \A i \in DOMAIN queue[s] : i = 1 \/ \E j \in DOMAIN queue'[s] : queue'[s][j] = queue[s][i]
           /\ \A i \in DOMAIN queue'[s] : \E j \in DOMAIN queue[s] : queue'[s][i] = queue[s][j]
           /\ queue'[s] = << >> \/ 1 \in DOMAIN queue'[s]
<1> DEFINE q == queue[s]
           p == RemoveAt(q, 1)
<1>1. q \in Seq(Call) /\ q # << >> /\ queue'[s] = p
  BY DEF TypeOK, Release
<1>2. /\ Len(q) \in Nat /\ Len(q) >= 1 /\ DOMAIN q = 1..Len(q)
      /\ DOMAIN p = 1..(Len(q) - 1)
      /\ \A i \in 1..(Len(q) - 1) : p[i] = q[i + 1]
      /\ Len(q) = 1 <=> p = << >>
  BY <1>1, FirstRemoved
<1>3. q[1] \in Call
  BY <1>1, <1>2, LenProperties
<1>4. \A i \in DOMAIN q : i > 1 => q[i].at = "waiting"
  BY DEF Fine
<1> HIDE DEF p, q
<1>5. ASSUME NEW i \in DOMAIN p
      PROVE  i + 1 \in DOMAIN q /\ i + 1 > 1 /\ p[i] = q[i + 1]
  BY <1>2
<1>6. ASSUME NEW i \in DOMAIN q, i # 1
      PROVE  i - 1 \in DOMAIN p /\ p[i - 1] = q[i]
  <2>1. i - 1 \in 1..(Len(q) - 1) /\ (i - 1) + 1 = i
    BY <1>2, <1>6
  <2>2. QED BY <1>2, <2>1
<1>7. \A i \in DOMAIN p : p[i].at = "waiting"
  BY <1>4, <1>5
<1>8. p = << >> \/ 1 \in DOMAIN p
  BY <1>2
<1>9. /\ \A i \in DOMAIN q : i = 1 \/ \E j \in DOMAIN p : p[j] = q[i]
      /\ \A i \in DOMAIN p : \E j \in DOMAIN q : p[i] = q[j]
  BY <1>5, <1>6
<1>10. QED BY <1>1, <1>3, <1>7, <1>8, <1>9 DEF p, q

\* _getEioSid throws.
LEMMA AbsentFine ==
    ASSUME TypeOK, NEW s \in Sockets, Fine(s), NEW i \in DOMAIN queue[s], BeginAbsent(s, i)
    PROVE  Fine(s)'
<1>1. i = 1 /\ 1 \in DOMAIN queue[s] /\ Release(s, 1)
      /\ where[s] # "present" /\ queue[s][1].kind # "delAll"
      /\ UNCHANGED <<where, rooms, groups, open, bulk, want>>
      /\ spoiled'[s] = spoiled[s] \cup {"early"}
  BY DEF BeginAbsent, HoldsLock, TypeOK
<1>2. /\ queue[s] # << >>
      /\ \A j \in DOMAIN queue'[s] : queue'[s][j].at = "waiting"
      /\ \A j \in DOMAIN queue[s] : j = 1 \/ \E k \in DOMAIN queue'[s] : queue'[s][k] = queue[s][j]
      /\ \A j \in DOMAIN queue'[s] : \E k \in DOMAIN queue[s] : queue'[s][j] = queue[s][k]
      /\ queue'[s] = << >> \/ 1 \in DOMAIN queue'[s]
  BY <1>1, ReleasedQueue
<1>3. Unregistered(s)'
  BY <1>1, <1>2 DEF Fine, Unregistered
<1>4. Leaving(s)'
  BY <1>1, <1>2 DEF Fine, Leaving
<1>5. Undisturbed(s)'
  BY <1>1, <1>2 DEF Fine, Undisturbed
<1>6. InStep(s)'
  <2>1. SUFFICES ASSUME where[s] = "checking", spoiled'[s] \subseteq {"early"}
                 PROVE  /\ bulk' = None /\ groups'[s] = rooms'[s]
                        /\ queue'[s] = << >> \/ queue'[s][1].at = "waiting"
    <3>1. where[s] \in {"checking", "present", "gone"}
      BY DEF TypeOK
    <3>2. QED BY <1>1, <3>1 DEF InStep, Applied
  <2>2. bulk = None
    BY <1>1, <1>2, <2>1 DEF Fine, Undisturbed
  <2>3. groups[s] = {} /\ rooms[s] = {}
    BY <2>1 DEF Fine, Unregistered
  <2>4. QED BY <1>1, <1>2, <2>2, <2>3
<1>7. Heading(s)'
  BY <1>1 DEF Heading
<1>8. QED BY <1>2, <1>3, <1>4, <1>5, <1>6, <1>7 DEF Fine

\* The call ends well.
LEMMA AnsweredFine ==
    ASSUME TypeOK, NEW s \in Sockets, Fine(s), NEW i \in DOMAIN queue[s], Answer(s, i)
    PROVE  Fine(s)'
<1>1. i = 1
  BY HolderIsFirst DEF Answer
<1>2. 1 \in DOMAIN queue[s] /\ Release(s, 1) /\ queue[s][1].at = "served"
      /\ UNCHANGED <<where, groups, open, bulk, want, spoiled>>
      /\ rooms'[s] = Remembered(s, queue[s][1])
  BY <1>1 DEF Answer, TypeOK
<1>3. /\ queue[s] \in Seq(Call) /\ queue[s] # << >> /\ queue[s][1] \in Call
      /\ queue'[s] = RemoveAt(queue[s], 1)
      /\ \A j \in DOMAIN queue'[s] : queue'[s][j].at = "waiting"
      /\ \A j \in DOMAIN queue[s] : j = 1 \/ \E k \in DOMAIN queue'[s] : queue'[s][k] = queue[s][j]
      /\ \A j \in DOMAIN queue'[s] : \E k \in DOMAIN queue[s] : queue'[s][j] = queue[s][k]
      /\ queue'[s] = << >> \/ 1 \in DOMAIN queue'[s]
  BY <1>2, ReleasedQueue
<1>4. queue[s][1].kind \in {"addAll", "del", "delAll"}
  BY <1>3 DEF Call
<1>5. where[s] # "checking"
  BY <1>2 DEF Fine, Unregistered
<1>6. where[s] \in {"present", "gone"}
  BY <1>5 DEF TypeOK
<1>7. Unregistered(s)'
  BY <1>2, <1>5 DEF Unregistered
<1>8. Leaving(s)'
  <2>1. CASE where[s] = "gone"
    <3>1. CASE queue[s][1].kind = "delAll"
      <4>1. rooms'[s] = {}
        BY <1>2, <3>1 DEF Remembered
      <4>2. QED BY <1>2, <2>1, <4>1 DEF Leaving
    <3>2. CASE queue[s][1].kind # "delAll" /\ rooms[s] = {}
      <4>1. rooms'[s] = {}
        BY <1>2, <1>4, <2>1, <3>2 DEF Remembered
      <4>2. QED BY <1>2, <2>1, <4>1 DEF Leaving
    <3>3. CASE queue[s][1].kind # "delAll" /\ \E j \in DOMAIN queue[s] : queue[s][j].kind = "delAll"
      <4>1. \E k \in DOMAIN queue'[s] : queue'[s][k].kind = "delAll"
        BY <1>3, <3>3
      <4>2. QED BY <1>2, <2>1, <4>1 DEF Leaving
    <3>4. QED BY <2>1, <3>1, <3>2, <3>3 DEF Fine, Leaving
  <2>2. CASE where[s] = "present"
    BY <1>2, <1>3, <2>2 DEF Fine, Leaving
  <2>3. QED BY <1>6, <2>1, <2>2
<1>9. Undisturbed(s)'
  BY <1>2, <1>3 DEF Fine, Undisturbed
<1>10. where[s] # "gone" /\ bulk # None => "overlap" \in spoiled[s]
  BY <1>3 DEF Fine, Undisturbed
<1>11. where[s] # "gone" =>
          queue[s][1].kind # "delAll" /\ rooms'[s] = Applied(queue[s][1], rooms[s])
  <2>1. where[s] # "gone" => queue[s][1].kind # "delAll" /\ where[s] = "present"
    BY <1>2, <1>6 DEF Fine, Leaving
  <2>2. QED BY <1>2, <1>4, <2>1 DEF Remembered, Applied
<1>12. InStep(s)'
  <2>1. SUFFICES ASSUME where[s] # "gone", open[s], spoiled[s] \subseteq {"early"}
                 PROVE  /\ bulk' = None /\ groups'[s] = rooms'[s]
                        /\ queue'[s] = << >> \/ queue'[s][1].at = "waiting"
    BY <1>2 DEF InStep, Applied
  <2>2. bulk = None
    BY <1>10, <2>1
  <2>3. groups[s] = Applied(queue[s][1], rooms[s])
    BY <1>2, <1>3, <2>1, <2>2 DEF Fine, InStep
  <2>4. QED BY <1>2, <1>3, <1>11, <2>1, <2>2, <2>3
<1>13. Heading(s)'
  <2>1. SUFFICES ASSUME where[s] # "gone", spoiled[s] = {}
                 PROVE  bulk' = None /\ want'[s] = Outcome(queue'[s], rooms'[s])
    BY <1>2 DEF Heading, Outcome
  <2>2. bulk = None
    BY <1>10, <2>1
  <2>3. want[s] = Outcome(queue[s], rooms[s])
    BY <2>1, <2>2 DEF Fine, Heading
  <2>4. rooms[s] \in SUBSET Name
    BY DEF TypeOK
  <2>5. Outcome(RemoveAt(queue[s], 1), Applied(queue[s][1], rooms[s])) = Outcome(queue[s], rooms[s])
    BY <1>3, <1>11, <2>1, <2>4, OutcomeOfRest
  <2>6. QED BY <1>2, <1>3, <1>11, <2>1, <2>2, <2>3, <2>5
<1>14. QED BY <1>3, <1>7, <1>8, <1>9, <1>12, <1>13 DEF Fine

\* The call fails.
LEMMA FailedFine ==
    ASSUME TypeOK, NEW s \in Sockets, Fine(s), NEW i \in DOMAIN queue[s], Fail(s, i)
    PROVE  Fine(s)'
<1>1. i = 1
  BY HolderIsFirst DEF Fail
<1>2. 1 \in DOMAIN queue[s] /\ Release(s, 1) /\ queue[s][1].at \in {"asked", "served"}
      /\ UNCHANGED <<where, groups, open, bulk, want>>
      /\ spoiled'[s] = spoiled[s] \cup {"failed"}
      /\ rooms'[s] = IF queue[s][1].kind = "delAll" THEN {} ELSE rooms[s]
  BY <1>1 DEF Fail, TypeOK
<1>3. /\ queue[s] # << >>
      /\ \A j \in DOMAIN queue'[s] : queue'[s][j].at = "waiting"
      /\ \A j \in DOMAIN queue[s] : j = 1 \/ \E k \in DOMAIN queue'[s] : queue'[s][k] = queue[s][j]
      /\ \A j \in DOMAIN queue'[s] : \E k \in DOMAIN queue[s] : queue'[s][j] = queue[s][k]
  BY <1>2, ReleasedQueue
<1>4. where[s] # "checking"
  BY <1>2 DEF Fine, Unregistered
<1>5. Unregistered(s)' /\ InStep(s)' /\ Heading(s)'
  <2>1. Unregistered(s)'
    BY <1>2, <1>4 DEF Unregistered
  <2>2. "failed" \in spoiled'[s]
    BY <1>2
  <2>3. InStep(s)' /\ Heading(s)'
    BY <2>2 DEF InStep, Heading
  <2>4. QED BY <2>1, <2>3
<1>6. Leaving(s)'
  BY <1>2, <1>3 DEF Fine, Leaving
<1>7. Undisturbed(s)'
  BY <1>2, <1>3 DEF Fine, Undisturbed
<1>8. QED BY <1>3, <1>5, <1>6, <1>7 DEF Fine

\* The steps of the calls
LEMMA CallsFine ==
    ASSUME TypeOK, \A t \in Sockets : Fine(t), NEW s \in Sockets,
           NEW i \in DOMAIN queue[s], CallStep(s, i)
    PROVE  \A t \in Sockets : Fine(t)'
<1>1. ASSUME NEW t \in Sockets, t # s
      PROVE  Fine(t)'
  <2>1. where'[t] = where[t] /\ open'[t] = open[t] /\ want'[t] = want[t] /\ bulk' = bulk
    BY DEF CallStep, Begin, BeginAbsent, Serve, Answer, Fail
  <2>2. queue'[t] = queue[t]
    BY <1>1 DEF CallStep, Begin, BeginAbsent, Serve, Answer, Fail, At, Release, TypeOK
  <2>3. rooms'[t] = rooms[t] /\ spoiled'[t] = spoiled[t]
    BY <1>1 DEF CallStep, Begin, BeginAbsent, Serve, Answer, Fail, TypeOK
  <2>4. groups'[t] = groups[t]
    <3>1. CASE Serve(s, i)
      BY <1>1, <3>1 DEF Serve, TypeOK
    <3>2. CASE ~Serve(s, i)
      BY <3>2 DEF CallStep, Begin, BeginAbsent, Answer, Fail
    <3>3. QED BY <3>1, <3>2
  <2>5. QED BY <2>1, <2>2, <2>3, <2>4, Frame
<1>2. queue[s] \in Seq(Call) /\ queue[s][i] \in Call
  <2>1. queue[s] \in Seq(Call)
    BY DEF TypeOK
  <2>2. QED BY <2>1, LenProperties
<1>3. Begin(s, i) => Fine(s)'
  <2>1. SUFFICES ASSUME Begin(s, i) PROVE Fine(s)'
    OBVIOUS
  <2>2. i = 1 /\ UNCHANGED <<where, rooms, groups, open, bulk, want, spoiled>>
        /\ (where[s] = "present" \/ queue[s][i].kind = "delAll")
    BY <2>1 DEF Begin, HoldsLock
  <2>3. queue'[s] = Reached(queue[s], i, "asked")
    BY <2>1 DEF Begin, At, TypeOK
  <2>4. where[s] # "checking"
    BY <2>2 DEF Fine, Leaving
  <2>5. QED BY <2>2, <2>3, <2>4, MovedFine
<1>4. Serve(s, i) => Fine(s)'
  <2>1. SUFFICES ASSUME Serve(s, i) PROVE Fine(s)'
    OBVIOUS
  <2>2. i = 1
    BY <2>1, HolderIsFirst DEF Serve
  <2>3. queue'[s] = Reached(queue[s], i, "served")
    BY <2>1 DEF Serve, At, TypeOK
  <2>4. where[s] # "checking"
    BY <2>1 DEF Serve, Fine, Unregistered
  <2>5. UNCHANGED <<where, rooms, open, bulk, want, spoiled>>
    BY <2>1 DEF Serve
  <2>6. ASSUME where[s] # "gone", open[s], spoiled[s] \subseteq {"early"}, bulk = None
        PROVE  groups'[s] = Applied(queue[s][1], rooms[s])
    <3>1. queue[s][1].kind \in {"addAll", "del"}
      BY <1>2, <2>2, <2>6 DEF Fine, Leaving, Call
    <3>2. groups[s] \in {rooms[s], Applied(queue[s][1], rooms[s])}
      BY <2>2, <2>6 DEF Fine, InStep
    <3>3. groups'[s] = Applied(queue[s][1], groups[s])
      <4>1. CASE queue[s][1].kind = "addAll"
        <5>1. groups' = [groups EXCEPT ![s] = @ \cup queue[s][1].names]
          BY <2>1, <2>2, <2>6, <4>1 DEF Serve
        <5>2. QED BY <4>1, <5>1 DEF Applied, TypeOK
      <4>2. CASE queue[s][1].kind = "del"
        <5>1. groups' = [groups EXCEPT ![s] = @ \ queue[s][1].names]
          BY <2>1, <2>2, <4>2 DEF Serve
        <5>2. QED BY <4>2, <5>1 DEF Applied, TypeOK
      <4>3. QED BY <3>1, <4>1, <4>2
    <3>4. QED BY <3>2, <3>3 DEF Applied
  <2>7. QED BY <2>2, <2>3, <2>4, <2>5, <2>6, MovedFine
<1>5. BeginAbsent(s, i) => Fine(s)'
  BY AbsentFine
<1>6. Answer(s, i) => Fine(s)'
  BY AnsweredFine
<1>7. Fail(s, i) => Fine(s)'
  BY FailedFine
<1>8. Fine(s)'
  BY <1>3, <1>4, <1>5, <1>6, <1>7 DEF CallStep
<1>9. QED BY <1>1, <1>8

-----------------------------------------------------------------------------
\* The steps of a bulk operation

\* The operation starts: it finds no call, or spoils what it overlaps.
LEMMA BulkAskFine ==
    ASSUME TypeOK, NEW kind \in {"addSockets", "delSockets"}, NEW selection \in Selections,
           NEW room \in Rooms, BulkAsk(kind, selection, room), NEW s \in Sockets, Fine(s)
    PROVE  Fine(s)'
<1>1. /\ bulk = None /\ bulk' # None
      /\ bulk' = [kind |-> kind, selection |-> selection, room |-> room, at |-> "asked"]
      /\ UNCHANGED <<where, rooms, queue, groups, open>>
  BY DEF BulkAsk, Bulk
<1>2. bulk'.kind = kind /\ bulk'.selection = selection /\ bulk'.room = room /\ bulk'.at = "asked"
  BY <1>1
<1>3. /\ spoiled[s] \subseteq spoiled'[s]
      /\ queue[s] # << >> => "overlap" \in spoiled'[s]
      /\ Ambiguous(selection.rooms, selection.excepts) => "filter" \in spoiled'[s]
      /\ want'[s] = IF Picked(s, want[s], selection) THEN Changed(kind, want[s], room) ELSE want[s]
  BY DEF BulkAsk
<1>4. Unregistered(s)' /\ Leaving(s)'
  BY <1>1 DEF Fine, Unregistered, Leaving
<1>5. Undisturbed(s)'
  BY <1>1, <1>2, <1>3 DEF Undisturbed
<1>6. InStep(s)'
  <2>1. SUFFICES ASSUME where[s] # "gone", open[s], spoiled'[s] \subseteq {"early"}
                 PROVE  groups'[s] = rooms'[s]
    BY <1>1, <1>2 DEF InStep
  <2>2. queue[s] = << >> /\ spoiled[s] \subseteq {"early"}
    BY <1>3, <2>1
  <2>3. QED BY <1>1, <2>1, <2>2 DEF Fine, InStep
<1>7. Heading(s)'
  <2>1. SUFFICES ASSUME where[s] # "gone", spoiled'[s] = {}
                 PROVE  want'[s] = AfterBulk(s)'
    BY <1>1 DEF Heading
  <2>2. queue[s] = << >> /\ spoiled[s] = {}
    BY <1>3, <2>1
  <2>3. rooms[s] \in SUBSET Name
    BY DEF TypeOK
  <2>4. want[s] = rooms[s]
    BY <1>1, <2>1, <2>2, <2>3, NothingPending DEF Fine, Heading
  <2>5. QED BY <1>1, <1>2, <1>3, <2>4 DEF AfterBulk, Picked, Changed
<1>8. QED BY <1>1, <1>4, <1>5, <1>6, <1>7 DEF Fine

\* The filter picks at the service whom the memory will pick.
LEMMA BulkServeFine ==
    ASSUME TypeOK, BulkServe, NEW s \in Sockets, Fine(s)
    PROVE  Fine(s)'
<1>1. /\ bulk \in Bulk /\ bulk # None /\ bulk' # None /\ bulk.at = "asked"
      /\ bulk'.kind = bulk.kind /\ bulk'.selection = bulk.selection /\ bulk'.room = bulk.room
      /\ bulk'.at = "served"
      /\ UNCHANGED <<where, rooms, queue, open, want, spoiled>>
  <2>1. bulk \in Bulk /\ bulk # None /\ bulk.at = "asked" /\ bulk' = [bulk EXCEPT !.at = "served"]
        /\ UNCHANGED <<where, rooms, queue, open, want, spoiled>>
    BY DEF BulkServe, TypeOK
  <2>2. bulk' \in Bulk
    BY <2>1 DEF Bulk
  <2>3. QED BY <2>1, <2>2 DEF Bulk
<1>2. groups'[s] = IF open[s] /\ Served(s, bulk.selection)
                   THEN Changed(bulk.kind, groups[s], bulk.room) ELSE groups[s]
  BY DEF BulkServe
<1>3. bulk.selection.rooms \in Seq(Name) /\ bulk.selection.excepts \in Seq(Name)
  <2>1. bulk.selection \in Selections
    BY <1>1 DEF Bulk
  <2>2. bulk.selection \in [rooms : Seq(Name), excepts : Seq(Name)]
    BY <2>1
  <2>3. QED BY <2>2
<1>4. where[s] = "checking" => ~Served(s, bulk.selection)
  <2>1. SUFFICES ASSUME where[s] = "checking" PROVE ~Served(s, bulk.selection)
    OBVIOUS
  <2>2. groups[s] \cup (IF where[s] = "present" THEN {Namespace} ELSE {}) = {}
    BY <2>1 DEF Fine, Unregistered
  <2>3. ~Holds(BuildODataFilter(bulk.selection.rooms, bulk.selection.excepts), {})
    BY <1>3, NothingNamed
  <2>4. QED BY <2>2, <2>3 DEF Served
<1>5. ASSUME where[s] = "present", ~Ambiguous(bulk.selection.rooms, bulk.selection.excepts)
      PROVE  Served(s, bulk.selection) <=> Picked(s, groups[s], bulk.selection)
  <2>1. Namespace \notin Name
    OBVIOUS
  <2>2. Holds(BuildODataFilter(bulk.selection.rooms, bulk.selection.excepts), groups[s] \cup {Namespace})
          <=> Selected(groups[s], bulk.selection.rooms, bulk.selection.excepts)
    BY <1>3, <1>5, <2>1, PlainSelectionsAreExact
  <2>3. Served(s, bulk.selection)
          <=> Holds(BuildODataFilter(bulk.selection.rooms, bulk.selection.excepts),
                    groups[s] \cup {Namespace})
    BY <1>5 DEF Served
  <2>4. QED BY <1>5, <2>2, <2>3 DEF Picked
<1>6. Unregistered(s)'
  BY <1>1, <1>2, <1>4 DEF Fine, Unregistered
<1>7. Leaving(s)' /\ Undisturbed(s)'
  BY <1>1 DEF Fine, Leaving, Undisturbed
<1>8. InStep(s)'
  <2>1. SUFFICES ASSUME where[s] # "gone", open[s], spoiled[s] \subseteq {"early"}
                 PROVE  groups'[s] = AfterBulk(s)'
    BY <1>1 DEF InStep
  <2>2. groups[s] = rooms[s] /\ ~Ambiguous(bulk.selection.rooms, bulk.selection.excepts)
    BY <1>1, <2>1 DEF Fine, InStep, Undisturbed
  <2>3. CASE where[s] = "present"
    <3>1. Served(s, bulk.selection) <=> Picked(s, rooms[s], bulk.selection)
      BY <1>5, <2>2, <2>3
    <3>2. groups'[s] = IF Picked(s, rooms[s], bulk.selection)
                       THEN Changed(bulk.kind, rooms[s], bulk.room) ELSE rooms[s]
      BY <1>2, <2>1, <2>2, <3>1
    <3>3. QED BY <1>1, <3>2 DEF AfterBulk, Picked, Changed
  <2>4. CASE where[s] = "checking"
    <3>1. groups'[s] = rooms[s]
      BY <1>2, <1>4, <2>2, <2>4
    <3>2. QED BY <1>1, <2>4, <3>1 DEF AfterBulk, Picked
  <2>5. where[s] \in {"checking", "present", "gone"}
    BY DEF TypeOK
  <2>6. QED BY <2>1, <2>3, <2>4, <2>5
<1>9. Heading(s)'
  BY <1>1 DEF Fine, Heading, AfterBulk, Picked, Changed
<1>10. QED BY <1>1, <1>6, <1>7, <1>8, <1>9 DEF Fine

\* The sockets picked join or leave in the memory, too.
LEMMA BulkAnswerFine ==
    ASSUME TypeOK, BulkAnswer, NEW s \in Sockets, Fine(s)
    PROVE  Fine(s)'
<1> DEFINE call == [kind |-> IF bulk.kind = "addSockets" THEN "addAll" ELSE "del",
                    names |-> {bulk.room}, at |-> "waiting"]
           picked == Picked(s, rooms[s], bulk.selection)
<1>1. /\ bulk \in Bulk /\ bulk # None /\ bulk' = None /\ bulk.at = "served"
      /\ UNCHANGED <<where, rooms, groups, open, want, spoiled>>
  BY DEF BulkAnswer, TypeOK
<1>2. queue'[s] = IF picked THEN Append(queue[s], call) ELSE queue[s]
  BY DEF BulkAnswer
<1>3. call \in Call /\ call.at = "waiting" /\ call.kind # "delAll"
      /\ call.names = {bulk.room}
      /\ call.kind = IF bulk.kind = "addSockets" THEN "addAll" ELSE "del"
  <2>1. bulk.room \in Name
    BY <1>1 DEF Bulk, Name
  <2>2. QED BY <2>1 DEF Call
<1> HIDE DEF call
<1>4. Applied(call, rooms[s]) = Changed(bulk.kind, rooms[s], bulk.room)
  BY <1>3 DEF Applied, Changed
<1>5. ASSUME picked
      PROVE  /\ \A i \in DOMAIN queue'[s] : i > 1 => queue'[s][i].at = "waiting"
             /\ queue'[s] # << >>
             /\ \A i \in DOMAIN queue'[s] : i \in DOMAIN queue[s] \/ queue'[s][i] = call
             /\ \A i \in DOMAIN queue[s] : i \in DOMAIN queue'[s] /\ queue'[s][i] = queue[s][i]
             /\ queue'[s][1] = IF queue[s] = << >> THEN call ELSE queue[s][1]
  <2>1. queue'[s] = Append(queue[s], call)
    BY <1>2, <1>5
  <2>2. IsAsked(queue'[s], queue[s], call)
    BY <1>3, <2>1, AskedQueue
  <2>3. QED BY <2>2 DEF IsAsked
<1>6. \A i \in DOMAIN queue'[s] : i > 1 => queue'[s][i].at = "waiting"
  BY <1>2, <1>5 DEF Fine
<1>7. picked => where[s] = "present"
  BY DEF Picked
<1> HIDE DEF picked
<1>8. Unregistered(s)'
  BY <1>1, <1>2, <1>7 DEF Fine, Unregistered
<1>9. Leaving(s)'
  BY <1>1, <1>2, <1>3, <1>5, <1>7 DEF Fine, Leaving
<1>10. Undisturbed(s)'
  BY <1>1 DEF Undisturbed
<1>11. AfterBulk(s) = IF picked THEN Applied(call, rooms[s]) ELSE rooms[s]
  BY <1>4 DEF AfterBulk, picked
<1>12. InStep(s)'
  <2>1. SUFFICES ASSUME where[s] # "gone", open[s], spoiled[s] \subseteq {"early"}
                 PROVE  IF queue'[s] = << >> THEN groups[s] = rooms[s]
                        ELSE /\ groups[s] = Applied(queue'[s][1], rooms[s])
                             /\ queue'[s][1].at = "waiting"
    BY <1>1 DEF InStep, Applied
  <2>2. queue[s] = << >> /\ groups[s] = AfterBulk(s)
    BY <1>1, <2>1 DEF Fine, Undisturbed, InStep
  <2>3. QED BY <1>2, <1>3, <1>5, <1>11, <2>2
<1>13. Heading(s)'
  <2>1. SUFFICES ASSUME where[s] # "gone", spoiled[s] = {}
                 PROVE  want[s] = Outcome(queue'[s], rooms[s])
    BY <1>1 DEF Heading, Outcome
  <2>2. queue[s] = << >> /\ want[s] = AfterBulk(s)
    BY <1>1, <2>1 DEF Fine, Undisturbed, Heading
  <2>3. rooms[s] \in SUBSET Name /\ queue[s] \in Seq(Call)
    BY DEF TypeOK
  <2>4. Outcome(queue[s], rooms[s]) = rooms[s]
    BY <2>2, <2>3, NothingPending
  <2>5. Outcome(Append(queue[s], call), rooms[s]) = Applied(call, rooms[s])
    BY <1>3, <2>3, <2>4, OutcomeOfMore
  <2>6. QED BY <1>2, <1>11, <2>2, <2>4, <2>5
<1>14. QED BY <1>6, <1>8, <1>9, <1>10, <1>12, <1>13 DEF Fine

\* The operation fails: everything is spoiled.
LEMMA BulkFailFine ==
    ASSUME TypeOK, BulkFail, NEW s \in Sockets, Fine(s)
    PROVE  Fine(s)'
<1>1. /\ bulk' = None /\ "failed" \in spoiled'[s]
      /\ UNCHANGED <<where, rooms, queue, groups, open, want>>
  BY DEF BulkFail
<1>2. Unregistered(s)' /\ Leaving(s)'
  BY <1>1 DEF Fine, Unregistered, Leaving
<1>3. Undisturbed(s)' /\ InStep(s)' /\ Heading(s)'
  BY <1>1 DEF Undisturbed, InStep, Heading
<1>4. QED BY <1>1, <1>2, <1>3 DEF Fine

-----------------------------------------------------------------------------
\* IInvRooms is inductive.
LEMMA NextKeepsIInvRooms == IInvRooms /\ [Next]_vars => IInvRooms'
<1>1. SUFFICES ASSUME TypeOK, \A s \in Sockets : Fine(s), [Next]_vars
               PROVE  TypeOK' /\ \A s \in Sockets : Fine(s)'
  BY DEF IInvRooms, OneAtATime, Fine
<1>2. ASSUME NEW s \in Sockets,
             \/ \E names \in SUBSET Rooms \ {{}} : Join(s, names)
             \/ \E name \in Rooms : Leave(s, name)
             \/ Connect(s) \/ Disconnect(s) \/ Lose(s)
      PROVE  TypeOK' /\ \A t \in Sockets : Fine(t)'
  BY <1>1, <1>2, SocketsTyped, SocketsFine
<1>3. ASSUME NEW s \in Sockets, NEW i \in DOMAIN queue[s], CallStep(s, i)
      PROVE  TypeOK' /\ \A t \in Sockets : Fine(t)'
  BY <1>1, <1>3, CallsTyped, CallsFine
<1>4. ASSUME NEW kind \in {"addSockets", "delSockets"}, NEW selection \in Selections,
             NEW room \in Rooms, BulkAsk(kind, selection, room)
      PROVE  TypeOK' /\ \A t \in Sockets : Fine(t)'
  BY <1>1, <1>4, BulkTyped, BulkAskFine
<1>5. CASE BulkStep
  <2>1. TypeOK'
    BY <1>1, <1>5, BulkTyped
  <2>2. ASSUME NEW t \in Sockets PROVE Fine(t)'
    BY <1>1, <1>5, BulkServeFine, BulkAnswerFine, BulkFailFine DEF BulkStep
  <2>3. QED BY <2>1, <2>2
<1>6. CASE UNCHANGED vars
  <2>1. TypeOK'
    BY <1>1, <1>6 DEF vars, TypeOK
  <2>2. ASSUME NEW t \in Sockets PROVE Fine(t)'
    BY <1>1, <1>6, Frame DEF vars
  <2>3. QED BY <2>1, <2>2
<1>7. QED BY <1>1, <1>2, <1>3, <1>4, <1>5, <1>6 DEF Next, SocketStep

\* It holds when no socket is connected yet.
LEMMA InitIsIInvRooms == Init => IInvRooms
<1>1. SUFFICES ASSUME Init PROVE TypeOK /\ \A s \in Sockets : Fine(s)
  BY InvariantBySocket
<1>2. TypeOK
  BY <1>1 DEF Init, TypeOK
<1>3. ASSUME NEW s \in Sockets PROVE Fine(s)
  <2>1. /\ where[s] = "checking" /\ rooms[s] = {} /\ groups[s] = {} /\ want[s] = {}
        /\ queue[s] = << >> /\ bulk = None
    BY <1>1 DEF Init
  <2>2. Outcome(<< >>, {}) = {}
    BY NothingPending
  <2>3. QED BY <2>1, <2>2 DEF Fine, Unregistered, Leaving, Undisturbed, InStep, Heading
<1>4. QED BY <1>2, <1>3

\* The invariant holds for any number of sockets, rooms, selections and calls.
THEOREM SafeIInvRooms == Spec => []IInvRooms
<1>1. QED BY InitIsIInvRooms, NextKeepsIInvRooms, PTL DEF Spec

\* Settled sockets are in the rooms their calls, done one after the other,
\* give, in the memory of the server and at the service.
THEOREM SafeAsIfAtOnce == Spec => []AsIfAtOnce
<1>1. IInvRooms => AsIfAtOnce
  <2>1. SUFFICES ASSUME IInvRooms, NEW s \in Sockets, Settled(s), spoiled[s] = {}
                 PROVE  rooms[s] = want[s] /\ groups[s] = want[s]
    BY DEF AsIfAtOnce
  <2>2. TypeOK /\ Fine(s) /\ where[s] # "gone" /\ open[s] /\ queue[s] = << >> /\ bulk = None
    BY <2>1, InvariantBySocket DEF Settled
  <2>3. groups[s] = rooms[s]
    BY <2>1, <2>2 DEF Fine, InStep
  <2>4. Outcome(<< >>, rooms[s]) = rooms[s]
    BY <2>2, NothingPending DEF TypeOK
  <2>5. want[s] = rooms[s]
    BY <2>1, <2>2, <2>4 DEF Fine, Heading
  <2>6. QED BY <2>3, <2>5
<1>2. QED BY <1>1, SafeIInvRooms, PTL

\* A room the server shows is one the service delivers to, unless it is being
\* left.
THEOREM SafeSeenIsServed == Spec => []SeenIsServed
<1>1. IInvRooms => SeenIsServed
  <2>1. SUFFICES ASSUME IInvRooms, NEW s \in Sockets, where[s] = "present", open[s],
                        spoiled[s] \subseteq {"early"}, NEW r \in rooms[s] \ groups[s]
                 PROVE  \/ \E i \in DOMAIN queue[s] :
                            queue[s][i].kind = "del" /\ r \in queue[s][i].names
                        \/ bulk # None /\ bulk.kind = "delSockets" /\ bulk.room = r
    BY DEF SeenIsServed
  <2>2. TypeOK /\ Fine(s)
    BY <2>1, InvariantBySocket
  <2>3. CASE bulk # None
    <3>1. groups[s] = AfterBulk(s) /\ groups[s] # rooms[s]
      BY <2>1, <2>2, <2>3 DEF Fine, InStep
    <3>2. groups[s] = Changed(bulk.kind, rooms[s], bulk.room)
      BY <3>1 DEF AfterBulk
    <3>3. bulk.kind \in {"addSockets", "delSockets"}
      BY <2>2, <2>3 DEF TypeOK, Bulk
    <3>4. QED BY <2>1, <2>3, <3>2, <3>3 DEF Changed
  <2>4. CASE bulk = None
    <3>1. queue[s] # << >> /\ groups[s] = Applied(queue[s][1], rooms[s])
      BY <2>1, <2>2, <2>4 DEF Fine, InStep
    <3>2. 1 \in DOMAIN queue[s] /\ queue[s][1] \in Call
      <4>1. queue[s] \in Seq(Call)
        BY <2>2 DEF TypeOK
      <4>2. QED BY <3>1, <4>1
    <3>3. queue[s][1].kind \in {"addAll", "del"}
      BY <2>1, <2>2, <3>2 DEF Fine, Leaving, Call
    <3>4. QED BY <2>1, <3>1, <3>2, <3>3 DEF Applied
  <2>5. QED BY <2>3, <2>4
<1>2. QED BY <1>1, SafeIInvRooms, PTL

\* Nothing is remembered of a socket that is gone.
THEOREM SafeGoneLeavesNothing == Spec => []GoneLeavesNothing
<1>1. IInvRooms => GoneLeavesNothing
  BY DEF IInvRooms, Leaving, GoneLeavesNothing
<1>2. QED BY <1>1, SafeIInvRooms, PTL
=============================================================================
