---------------------------- MODULE MCRoomFilter ----------------------------
(***************************************************************************)
(* Every call of broadcast over a small set of rooms, and every connection *)
(* of the namespace it may reach.                                          *)
(***************************************************************************)
EXTENDS RoomFilter

CONSTANT Room

VARIABLES rooms, excepts, groups

Init == rooms = << >> /\ excepts = << >> /\ groups = {Namespace}

To(r) ==
    /\ r \notin ToSet(rooms)
    /\ rooms' = Append(rooms, r)
    /\ UNCHANGED <<excepts, groups>>

Except(r) ==
    /\ r \notin ToSet(excepts)
    /\ excepts' = Append(excepts, r)
    /\ UNCHANGED <<rooms, groups>>

Joined(r) ==
    /\ groups' = groups \cup {r}
    /\ UNCHANGED <<rooms, excepts>>

Next == \E r \in Room : To(r) \/ Except(r) \/ Joined(r)
Spec == Init /\ [][Next]_<<rooms, excepts, groups>>

\* The rooms given as exceptions are excluded: "@param excepts - a set of
\* Rooms to exclude".
ExceptsAreExcluded ==
    ToSet(excepts) \cap groups # {} => ~Reaches(groups, rooms, excepts)
=============================================================================
