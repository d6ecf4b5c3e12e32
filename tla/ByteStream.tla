----------------------------- MODULE ByteStream -----------------------------
(***************************************************************************)
(* What a caller of the tunnel is promised about a response body: the      *)
(* pieces in order, each once, then the end; or, if the invocation was     *)
(* cancelled, an error at some point instead.                              *)
(***************************************************************************)
EXTENDS Naturals

CONSTANT Pieces   \* lengths a body may have

VARIABLES
    total,      \* pieces of this body
    delivered,  \* pieces the caller has got
    cancelled,  \* the caller withdrew its interest
    outcome     \* "open", "ended" or "failed", as the caller sees it

streamVars == <<total, delivered, cancelled, outcome>>

Init ==
    /\ total \in Pieces
    /\ delivered = 0
    /\ cancelled = FALSE
    /\ outcome = "open"

Deliver ==
    /\ outcome = "open"
    /\ delivered < total
    /\ delivered' = delivered + 1
    /\ UNCHANGED <<total, cancelled, outcome>>

End ==
    /\ outcome = "open"
    /\ delivered = total
    /\ outcome' = "ended"
    /\ UNCHANGED <<total, delivered, cancelled>>

Cancel ==
    /\ cancelled' = TRUE
    /\ UNCHANGED <<total, delivered, outcome>>

Fail ==
    /\ outcome = "open"
    /\ cancelled
    /\ outcome' = "failed"
    /\ UNCHANGED <<total, delivered, cancelled>>

Next == Deliver \/ End \/ Cancel \/ Fail

Spec == Init /\ [][Next]_streamVars
=============================================================================
