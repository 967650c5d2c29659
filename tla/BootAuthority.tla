---------------------------- MODULE BootAuthority ----------------------------
(***************************************************************************)
(* What the coordinator promises about a process incarnation, whatever     *)
(* records it publishes.  A boot identity is unknown until it is admitted, *)
(* may publish while it is live, and once revoked is dead for good.        *)
(*                                                                         *)
(* This is an abstract specification: it models no code of its own.  The   *)
(* module Authority implements it.                                         *)
(***************************************************************************)
EXTENDS Naturals

CONSTANTS
    Boots,      \* boot identities of agent processes
    MaxGen      \* the largest value a generation counter can hold

VARIABLES
    phase,      \* phase[b] is "unknown", "live" or "dead"
    published   \* published[b] is b's publication generation

bootVars == <<phase, published>>

Phases == {"unknown", "live", "dead"}

BootInit ==
    /\ phase = [b \in Boots |-> "unknown"]
    /\ published = [b \in Boots |-> 0]

\* A boot identity becomes live once, with the first publication generation.
Admit(b) ==
    /\ phase[b] = "unknown"
    /\ phase' = [phase EXCEPT ![b] = "live"]
    /\ published' = [published EXCEPT ![b] = 1]

\* Only a live boot identity publishes; a counter at its limit stays there.
Publish(b) ==
    /\ phase[b] = "live"
    /\ published' = [published EXCEPT ![b] = IF @ < MaxGen THEN @ + 1 ELSE @]
    /\ UNCHANGED phase

\* One live boot identity loses its authority.
Revoke(b) ==
    /\ phase[b] = "live"
    /\ phase' = [phase EXCEPT ![b] = "dead"]
    /\ UNCHANGED published

\* The rack closes: every live identity dies in one step, and at most one of
\* them, the one that asked for it, publishes in that step.
Close ==
    /\ phase' = [b \in Boots |-> IF phase[b] = "live" THEN "dead" ELSE phase[b]]
    /\ \/ UNCHANGED published
       \/ \E b \in Boots :
            /\ phase[b] = "live"
            /\ published' = [published EXCEPT ![b] = IF @ < MaxGen THEN @ + 1 ELSE @]

BootNext ==
    \/ \E b \in Boots : Admit(b) \/ Publish(b) \/ Revoke(b)
    \/ Close

BootSpec == BootInit /\ [][BootNext]_bootVars
=============================================================================
