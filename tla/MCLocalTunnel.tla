---------------------------- MODULE MCLocalTunnel ----------------------------
(* Instances of LocalTunnel for TLC.                                       *)
EXTENDS LocalTunnel

Calm == [requests |-> 1, cuts |-> 0, clears |-> 0, starts |-> 0, stops |-> 0,
         drops |-> 0, fails |-> 0, reports |-> FALSE, port |-> "free"]
\* One difficulty, or two that meet, at a time.
AllPlans ==
    { [Calm EXCEPT !.requests = 2, !.clears = 1],
      [Calm EXCEPT !.clears = 1, !.fails = 2],
      [Calm EXCEPT !.requests = 2, !.drops = 1],
      [Calm EXCEPT !.requests = 2, !.cuts = 1],
      [Calm EXCEPT !.drops = 1, !.reports = TRUE],
      [Calm EXCEPT !.starts = 2, !.stops = 2],
      [Calm EXCEPT !.starts = 1, !.port = "taken"],
      [Calm EXCEPT !.starts = 2, !.stops = 1, !.port = "none"] }
AllStatus == {"ok", "error"}
==============================================================================
