---------------------------- MODULE BoundedService ----------------------------
(***************************************************************************)
(* What EngineAdapter.verify promises its callers: a request is served, at *)
(* most Limit requests are served at a time, and nobody waits for ever.    *)
(* No order of service is promised here.                                   *)
(***************************************************************************)
EXTENDS Integers, FiniteSets

CONSTANTS Callers, Limit

VARIABLE phase    \* phase[c]: "idle", "asked" or "served"

Served == {c \in Callers : phase[c] = "served"}

AbsInit == phase = [c \in Callers |-> "idle"]

Ask(c) ==
  /\ phase[c] = "idle"
  /\ phase' = [phase EXCEPT ![c] = "asked"]

Serve(c) ==
  /\ phase[c] = "asked"
  /\ Cardinality(Served) < Limit
  /\ phase' = [phase EXCEPT ![c] = "served"]

Leave(c) ==
  /\ phase[c] = "served"
  /\ phase' = [phase EXCEPT ![c] = "idle"]

AbsNext == \E c \in Callers : Ask(c) \/ Serve(c) \/ Leave(c)

AbsSafety   == AbsInit /\ [][AbsNext]_phase
AbsFairness == \A c \in Callers : SF_phase(Serve(c)) /\ WF_phase(Leave(c))
AbsSpec     == AbsSafety /\ AbsFairness
=============================================================================
