------------------------- MODULE BridgeAttestations -------------------------
(***************************************************************************)
(* evaluateBridgeAttestationQuorum (services/bridge-service/src/           *)
(* attestations.ts).  A canonical event has an identity and a hash of its  *)
(* whole payload; an attestation repeats both.  Both hashes are taken to   *)
(* be injective: an event is its own identity, its payload its own hash.   *)
(***************************************************************************)
EXTENDS Naturals, FiniteSets

\* A policy is [relayers, required]; relayerIds without duplicates.
PolicyValid(policy) ==
  /\ policy.relayers # {}
  /\ policy.required \in Nat \ {0} /\ policy.required <= Cardinality(policy.relayers)

\* Messages are [sender, relayer, event, payload, copy]: what arrived twice counts as two.
\* Only relayer, event and payload are read: an attestation's signature is never checked.
Matches_AnyRelayer(m, policy, event, payload) == m.event = event /\ m.payload = payload

Matches(m, policy, event, payload) ==
  m.relayer \in policy.relayers /\ m.event = event /\ m.payload = payload

ValidCount(messages, policy, event, payload) ==
  Cardinality({m.relayer : m \in {n \in messages : Matches(n, policy, event, payload)}})

Duplicated(messages, policy, event, payload) ==
  \E m \in messages, n \in messages :
    /\ m # n /\ m.relayer = n.relayer
    /\ Matches(m, policy, event, payload) /\ Matches(n, policy, event, payload)

\* One unknown relayer, wrong payload or duplicate takes the event to the operator for
\* good; only missing finality and missing attestations make it wait.
ManualReview(messages, policy, event, payload) ==
  \/ ~PolicyValid(policy)
  \/ \E m \in messages : ~Matches(m, policy, event, payload)
  \/ Duplicated(messages, policy, event, payload)

QuorumStatus(messages, policy, event, payload, final) ==
  IF ManualReview(messages, policy, event, payload) THEN "manual_review"
  ELSE IF ~final \/ ValidCount(messages, policy, event, payload) < policy.required THEN "wait"
  ELSE "approved"
=============================================================================
