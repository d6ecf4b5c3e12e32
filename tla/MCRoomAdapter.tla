---------------------------- MODULE MCRoomAdapter ---------------------------
EXTENDS RoomAdapter, TLC

CONSTANTS a, b

\* all sockets, those in a, those in a or b, those not in b, those in a or b
\* but not in a
AnySelection ==
    {[rooms |-> << >>, excepts |-> << >>], [rooms |-> <<a>>, excepts |-> << >>],
     [rooms |-> <<a, b>>, excepts |-> << >>], [rooms |-> << >>, excepts |-> <<b>>],
     [rooms |-> <<a, b>>, excepts |-> <<a>>]}

=============================================================================
