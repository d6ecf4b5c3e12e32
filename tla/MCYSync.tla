------------------------------- MODULE MCYSync ------------------------------
(* Instances of YSync for TLC.                                             *)
EXTENDS YSync, TLC

CONSTANTS c1, c2

Bounds(m, n, edits, touches, questions, drops, twice) ==
    [sockets |-> c1 :> m @@ c2 :> n, edits |-> edits, touches |-> touches,
     resyncs |-> questions, drops |-> drops, twice |-> twice]

\* Two editors; a client that comes back after two edits, or with its resync
\* timer running; one whose start is called twice; the presence of two clients.
AllPlans == {
    Bounds(1, 1, 2, 0, 0, {}, {}),
    Bounds(2, 0, 2, 0, 0, {c1}, {}),
    Bounds(2, 0, 1, 0, 1, {c1}, {}),
    Bounds(2, 0, 1, 0, 0, {c1}, {c1}),
    Bounds(1, 1, 0, 1, 0, {c1}, {})}
=============================================================================
