------------------------------ MODULE Evidence ------------------------------
(***************************************************************************)
(* Observations and how long they are statements about the present.  Time  *)
(* is the age of an observation, now - observed_at: negative for one dated *)
(* in the future, and no older than one tick past the only time-to-live    *)
(* used, after which nothing changes.  A time-to-live of 0 makes it a      *)
(* declaration without expiry, whose age is not kept.                      *)
(***************************************************************************)
EXTENDS Integers

CONSTANT Ttl    \* the time-to-live of expiring evidence, in ticks

ASSUME TtlAssumption == Ttl \in Nat \ {0}

\* "Physical" stands for the provenance classes Measured, Reported and Derived,
\* "Synthetic" for Estimated, Synthetic and Reconstructed.
Provenance == {"Unknown", "Physical", "Synthetic"}

is_physical_provenance(p) == p = "Physical"

Ages == -1..(Ttl + 1)

EvidenceValue ==
    [prov : Provenance, age : Ages, ttl : {0, Ttl}, durable : BOOLEAN, reval : BOOLEAN]

\* What a default-constructed value asserts.
NoEvidence == [prov |-> "Unknown", age |-> 0, ttl |-> 0, durable |-> TRUE, reval |-> FALSE]

has_evidence(ev) == ev.prov # "Unknown"

\* A flag comes first, then whether anything is known, then the age.  Evidence
\* has an observation time exactly when it has a provenance.  An ephemeral value
\* without a lifetime is never fresh.
freshness_at(ev) ==
    CASE ev.reval -> "RevalidationRequired"
      [] ~ev.reval /\ ~has_evidence(ev) -> "Unknown"
      [] ~ev.reval /\ has_evidence(ev) /\ ev.durable /\ ev.ttl = 0 -> "Fresh"
      [] OTHER -> IF ev.ttl # 0 /\ ev.age \in 0..ev.ttl THEN "Fresh" ELSE "Stale"

is_current(ev) == freshness_at(ev) = "Fresh"

\* What validate_evidence lets through: ephemeral evidence states a lifetime, and
\* provenance and observation time come together or not at all (evidence without
\* either is taken in its default form).
validate_evidence(ev) ==
    /\ ~ev.durable => ev.ttl # 0
    /\ ev.prov = "Unknown" => ev = NoEvidence

\* What is left when observation time and lifetime are cleared: nothing that could
\* be current.  Its durability stays.
Cleared(ev) == [NoEvidence EXCEPT !.durable = ev.durable]

\* One tick later.
Aged(ev) ==
    IF has_evidence(ev) /\ ev.ttl # 0 /\ ev.age <= Ttl THEN [ev EXCEPT !.age = @ + 1] ELSE ev
=============================================================================
