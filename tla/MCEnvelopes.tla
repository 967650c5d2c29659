---------------------------- MODULE MCEnvelopes ----------------------------
(***************************************************************************)
(* A process and the operator, one budgeted power domain and one cooling   *)
(* zone.  Limits are a declaration without expiry, an observation made a   *)
(* tick ago and one dated ahead; loads are observed now or a tick ago,     *)
(* above or below the limit or in another unit.  Two publications of each  *)
(* envelope, after which its counter is exhausted.                         *)
(***************************************************************************)
EXTENDS Envelopes

CONSTANTS b1, p1, z1

OneBoot == {b1}
OneDomain == {p1}
OneZone == {z1}

Declared == [prov |-> "Physical", age |-> 0, ttl |-> 0, durable |-> TRUE, reval |-> FALSE]
Observed(age) ==
    [prov |-> "Physical", age |-> age, ttl |-> Ttl, durable |-> FALSE, reval |-> FALSE]

SomeLimits ==
    {[value |-> 1, unit |-> "Watts", ev |-> Declared],
     [value |-> 2, unit |-> "Watts", ev |-> Observed(1)],
     [value |-> 1, unit |-> "Watts", ev |-> Observed(-1)]}

SomeDraws ==
    {NoQuantity,
     [value |-> 1, unit |-> "Watts", ev |-> Observed(1)],
     [value |-> 2, unit |-> "Watts", ev |-> Observed(0)],
     [value |-> 1, unit |-> "Amperes", ev |-> Observed(0)]}
=============================================================================
