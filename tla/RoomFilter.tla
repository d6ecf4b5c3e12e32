----------------------------- MODULE RoomFilter -----------------------------
(***************************************************************************)
(* Which connections an operation on rooms selects.  The adapter writes an *)
(* OData filter from the rooms to include and the rooms to exclude         *)
(* (_buildODataFilter, _buildODataFilterForExceptsOnly in                  *)
(* SIO/components/web-pubsub-adapter.ts), the service evaluates it on the  *)
(* groups of a connection.                                                 *)
(*                                                                         *)
(* The text of a filter is a sequence of literals "'g' in groups" and      *)
(* "not ('g' in groups)", each with the operator written before it.  A     *)
(* group stands for its room: _getGroupName is injective.                  *)
(***************************************************************************)
EXTENDS Naturals, Sequences, SequencesExt

CONSTANT Namespace   \* the group of the whole namespace (the room "")

Literal(op, isIn, group) == [op |-> op, isIn |-> isIn, group |-> group]

\* rooms and excepts are sequences without repetition: the order in which
\* the Set of the code enumerates its elements.  No rooms means all.
Allowed(rooms) == IF rooms = << >> THEN <<Namespace>> ELSE rooms

AllowFilter(rooms) ==
    [i \in DOMAIN rooms |-> Literal("or", TRUE, rooms[i])]

\* Mutated form of DenyFilter: the exceptions are joined by "or".
DenyFilterOr(excepts) ==
    [i \in DOMAIN excepts |-> Literal("or", FALSE, excepts[i])]

DenyFilter(excepts) ==
    [i \in DOMAIN excepts |-> Literal("and", FALSE, excepts[i])]

\* No parentheses are written around either part.
BuildODataFilter(rooms, excepts) ==
    AllowFilter(Allowed(rooms)) \o DenyFilter(excepts)

\* OData: "and" binds tighter than "or", so a filter holds if all literals
\* of one of its runs without "or" do.  The first literal's operator is not
\* written.  The empty filter selects everything.
Holds(filter, groups) ==
    \/ filter = << >>
    \/ \E i \in DOMAIN filter :
        /\ i = 1 \/ filter[i].op = "or"
        /\ \A j \in i..Len(filter) :
            (\A k \in (i + 1)..j : filter[k].op = "and")
                => (filter[j].group \in groups <=> filter[j].isIn)

\* Whether broadcast reaches a connection in these groups: one room is sent
\* to as a group with a filter of the exceptions only.
Reaches(groups, rooms, excepts) ==
    IF Len(rooms) = 1
      THEN rooms[1] \in groups /\ Holds(DenyFilter(excepts), groups)
      ELSE Holds(BuildODataFilter(rooms, excepts), groups)

-----------------------------------------------------------------------------
\* What is meant: Socket.IO's own in-memory adapter (apply, computeExceptSids).
Selected(groups, rooms, excepts) ==
    /\ rooms = << >> \/ ToSet(rooms) \cap groups # {}
    /\ ToSet(excepts) \cap groups = {}

\* The selections for which the filter means just that: with several rooms
\* the exceptions are bound to the last one only.
Ambiguous(rooms, excepts) == Len(rooms) > 1 /\ excepts # << >>
=============================================================================
