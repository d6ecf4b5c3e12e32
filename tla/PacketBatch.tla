---------------------------- MODULE PacketBatch -----------------------------
(***************************************************************************)
(* How many Engine.IO packets go into the next call of the service         *)
(* (WebPubSubTransport._getPacketNumberForNextSend): a Socket.IO packet    *)
(* with binary data is a header followed by its attachments, and they must *)
(* not be split over two calls.                                            *)
(*                                                                         *)
(* A packet is its kind: "open", "close" and "ping" carry nothing,         *)
(* "event" is a text message, "bin1" and "bin2" are the headers of one and *)
(* two attachments, "att" is an attachment.                                *)
(***************************************************************************)
EXTENDS Integers, Sequences, Functions

Pure == {"open", "close", "ping"}
Header == {"bin1", "bin2"}
Kind == Pure \cup Header \cup {"event", "att"}

\* attachments announced by a header (decodeStringPartial)
Attachments(k) == CASE k = "bin1" -> 1 [] k = "bin2" -> 2 [] OTHER -> 0

\* Mutated form of Scan: a completed sequence advances last by one, as every
\* other packet does.
ScanByOne(acc, k) ==
    LET next == [acc EXCEPT !.idx = acc.idx + 1] IN
    CASE acc.bad -> acc
      [] ~acc.bad /\ k \in Pure \cup {"event"} -> [next EXCEPT !.last = acc.last + 1]
      [] ~acc.bad /\ k = "att" ->
           [next EXCEPT !.due = acc.due - 1,
                        !.last = IF acc.due = 1 THEN acc.last + 1 ELSE acc.last]
      [] ~acc.bad /\ k \in Header -> [next EXCEPT !.due = Attachments(k)]

\* One round of the loop. idx is the packet's index and last the index
\* lastSentPacketIdx, from 0 as in the code; due stands for shouldBeAttachment
\* with expectedAttachments - attachmentCount; bad for a thrown error.
Scan(acc, k) ==
    LET next == [acc EXCEPT !.idx = acc.idx + 1] IN
    CASE acc.bad -> acc
      [] ~acc.bad /\ k \in Pure -> [next EXCEPT !.last = acc.last + 1]
      [] ~acc.bad /\ k = "att" ->
           [next EXCEPT !.bad = (acc.due = 0), !.due = acc.due - 1,
                        !.last = IF acc.due = 1 THEN acc.idx ELSE acc.last]
      [] ~acc.bad /\ k \in Header ->
           [next EXCEPT !.bad = (acc.due > 0), !.due = Attachments(k)]
      [] ~acc.bad /\ k = "event" ->
           [next EXCEPT !.bad = (acc.due > 0), !.last = acc.last + 1]

ScanStart == [idx |-> 0, last |-> -1, due |-> 0, bad |-> FALSE]

\* The loop over the packets: after[i] is where i rounds of it have led.
Scanned(packets) ==
    LET after[i \in 0..Len(packets)] ==
            IF i = 0 THEN ScanStart ELSE Scan(after[i - 1], packets[i])
    IN after[Len(packets)]

\* Mutated form of NextSend: whatever is buffered is sent.
NextSendAll(packets) == Len(packets)

\* With the caller's catch: after an error everything is sent.  (So it is without
\* _sioMode, but createTransport makes every transport with it.)
NextSend(packets) ==
    LET end == Scanned(packets) IN
    IF end.bad THEN Len(packets) ELSE end.last + 1

-----------------------------------------------------------------------------
\* No header of the sequence still waits for an attachment.
Whole(packets) ==
    \A i \in DOMAIN packets : i + Attachments(packets[i]) <= Len(packets)

\* What the comment of _getPacketNumberForNextSend promises: the largest n
\* such that the first n packets hold no incomplete sequence.
LargestWhole(packets) ==
    LET sizes == {n \in 0..Len(packets) : Whole(SubSeq(packets, 1, n))}
    IN CHOOSE n \in sizes : \A m \in sizes : m <= n
=============================================================================
