------------------------------ MODULE RoomOrder ------------------------------
(***************************************************************************)
(* What the consistent keys of the tunnel promise, free of connections,    *)
(* acks and locks: requests carry a room; they are submitted one after the *)
(* other; each is performed at most once; and a request is not performed   *)
(* while an earlier one of its room is outstanding, unless the promise has *)
(* been withdrawn for one of the two.  TunnelConnection implements it.     *)
(***************************************************************************)
EXTENDS Integers

CONSTANTS
    Request,
    Room,
    NoRoom    \* the room of requests that ask for no order



VARIABLES
    room,      \* the room of a request
    position,  \* its position in the order of submission, 0 if not submitted
    last,      \* number of requests submitted
    performed, \* requests performed
    excused    \* outstanding requests the promise does not cover (any more)

roomVars == <<room, position, last, performed, excused>>

Init ==
    /\ room = [r \in Request |-> NoRoom]
    /\ position = [r \in Request |-> 0]
    /\ last = 0
    /\ performed = {}
    /\ excused = {}

\* A request is assigned to its room before it is submitted.
Prepare(r, k) ==
    /\ position[r] = 0
    /\ room' = [room EXCEPT ![r] = k]

Submit(r) ==
    /\ position[r] = 0
    /\ last' = last + 1
    /\ position' = [position EXCEPT ![r] = last']

\* Requests a performed request r would overtake.
Overtaken(r) ==
    {q \in Request \ (performed \cup excused) :
        room[q] = room[r] /\ 0 < position[q] /\ position[q] < position[r]}

Perform(r) ==
    /\ position[r] > 0
    /\ r \notin performed
    /\ r \notin excused /\ room[r] # NoRoom => Overtaken(r) = {}
    /\ performed' = performed \cup {r}
    /\ excused' = excused \ {r}

Next ==
    \/ \E r \in Request, k \in Room \cup {NoRoom} :
          /\ Prepare(r, k)
          /\ \/ UNCHANGED <<position, last>>
             \/ Submit(r)
          /\ UNCHANGED performed
          /\ excused \subseteq excused'
    \/ \E r \in Request :
          /\ Submit(r)
          /\ UNCHANGED <<room, performed>>
          /\ excused \subseteq excused'
    \/ \E r \in Request :
          /\ Perform(r)
          /\ UNCHANGED <<room, position, last>>
    \/ \* the promise is withdrawn for some requests
       /\ excused \subseteq excused'
       /\ UNCHANGED <<room, position, last, performed>>

Spec == Init /\ [][Next]_roomVars
=============================================================================
