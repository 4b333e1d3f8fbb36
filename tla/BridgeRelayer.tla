---------------------------- MODULE BridgeRelayer ----------------------------
(***************************************************************************)
(* The decisions of the bridge's relayers (services/bridge-service/src:    *)
(* relayer-policy.ts, attestations.ts, reconciliation.ts and               *)
(* watch-registration.ts), composed with the exits of BridgeExits: Pearl   *)
(* deposits seen by the indexer, attestations of deposits and exits that   *)
(* arrive from correct and faulty relayers, and the mints and releases     *)
(* that are prepared from them.                                            *)
(***************************************************************************)
EXTENDS BridgeExits, BridgeAttestations

CONSTANTS
  Outpoints,  \* Pearl outputs that pay a deposit address
  WatchOf,    \* the deposit watch of each
  Senders,    \* who may send attestations: the policy's relayers and others
  Relay,      \* [config -> [policy, faulty, under, classes, events, messages]]: the quorum
              \* policy, senders that lie, the relayer ids each of them may speak under, what the
              \* indexer may take each deposit for, the events that are attested, and a bound on
              \* the messages about one of them
  MinDeposit, MaxDeposit

\* The ids of the policy that may stand on the attestation of a liar.
Spoken(c) ==
  {id \in Relay[c].policy.relayers : \E r \in Relay[c].faulty \cap Senders : id \in Relay[c].under[r]}

\* evaluateBridgeAttestationQuorum takes the relayer id of an attestation as it stands and
\* checks no signature: whoever collects the attestations has to see to it that liars speak
\* under fewer ids of the policy, their own and others', than a quorum needs.
ASSUME RelayerAssumption ==
  /\ Outpoints \cap Exits = {} /\ IsFiniteSet(Senders)
  /\ \A c \in Configs : /\ Relay[c].policy.relayers \subseteq Senders
                        /\ Cardinality(Spoken(c)) < Relay[c].policy.required

VARIABLES
  deposits,      \* observations of deposit watches, by outpoint
  attestations,  \* messages received
  mints          \* outpoints whose mint was prepared

relayVars == <<deposits, attestations, mints>>
relayerVars == <<vars, relayVars>>

NoObservation == [match |-> "absent", class |-> "none"]
relay == Relay[config]

-----------------------------------------------------------------------------
(* Deposits, as the Pearl indexer reports them *)

OfWatch(w) == {o \in Outpoints : WatchOf[o] = w /\ deposits[o] # NoObservation}
LiveOf(w) == {o \in OfWatch(w) : deposits[o].match # "detached"}
Watches == {WatchOf[o] : o \in Outpoints}

\* A second output of a watch is a duplicate.  A watch of buildBridgeDepositWatch lacks
\* expected_amount_grains, without which the indexer says unknown_funding.
IndexDeposit(o) ==
  /\ deposits[o].match \in {"absent", "detached"}
  /\ \E class \in relay.classes[o] :
       deposits' = [deposits EXCEPT ![o] =
         [match |-> "pending", class |-> IF LiveOf(WatchOf[o]) = {} THEN class ELSE "duplicate"]]
  /\ UNCHANGED <<vars, attestations, mints>>

DepositTurns(o, from, to) ==
  /\ deposits[o].match \in from
  /\ deposits' = [deposits EXCEPT ![o].match = to]
  /\ UNCHANGED <<vars, attestations, mints>>

ConfirmDeposit(o) == DepositTurns(o, {"pending"}, "confirmed")
DetachDeposit(o) == DepositTurns(o, {"pending", "confirmed"}, "detached")
SpendDeposit(o) == DepositTurns(o, {"confirmed"}, "spent")

-----------------------------------------------------------------------------
(* Attestations *)

True == "payload"       \* of the event as it is on its chain
Forged == "forged"

Honest == Senders \ relay.faulty
About(x) == {m \in attestations : m.event = x}

Happened(x) == IF x \in Exits THEN Requested(x) ELSE deposits[x].match \in {"confirmed", "spent"}

\* A correct relayer attests under its id what it has seen, a faulty one anything, under
\* any id it may speak under; the transport may deliver a message twice.  "sender" is a
\* history field: no decision looks at it.
Attest(r, id, x, payload) ==
  /\ x \in relay.events /\ Cardinality(About(x)) < relay.messages
  /\ r \in Honest => id = r /\ payload = True /\ Happened(x)
  /\ r \in relay.faulty => id \in relay.under[r]
  /\ \E copy \in {1, 2} :
       LET m == [sender |-> r, relayer |-> id, event |-> x, payload |-> payload, copy |-> copy] IN
       /\ m \notin attestations /\ (copy = 2 => [m EXCEPT !.copy = 1] \in attestations)
       /\ attestations' = attestations \cup {m}
  /\ UNCHANGED <<vars, deposits, mints>>

\* getAttestationQuorumDecision lets an approved quorum of the decided event pass.
\* Outside relay.events it is taken as reached: a late attestation is a late approval.
Attested(x, final) ==
  x \in relay.events => QuorumStatus(About(x), relay.policy, x, True, final) = "approved"

-----------------------------------------------------------------------------
(* Decisions *)

\* reconcileDepositWatch: reorged or unsafe, which blocks every release.
UnsafeWatch(w) ==
  \/ OfWatch(w) # LiveOf(w) \/ Cardinality(LiveOf(w)) > 1
  \/ LiveOf(w) # {} /\ (ClaimAmount < MinDeposit \/ ClaimAmount > MaxDeposit)
  \/ \E o \in LiveOf(w) : deposits[o].class \in {"late", "underpaid", "duplicate"}

ApproveAttested(e) ==
  /\ Attested(e, rows[e] # NoRow)
  /\ ~\E w \in Watches : UnsafeWatch(w)
  /\ Approve(e)
  /\ UNCHANGED relayVars

\* decideDepositMint returns prepare_mint: getDepositBlocker finds nothing, the deposit is
\* confirmed and the quorum approved.  The reconciliation is not asked.
DepositBlocked(o) ==
  \/ LiveOf(WatchOf[o]) # {o}
  \/ deposits[o].class # "on_time" \/ deposits[o].match = "spent"
  \/ ClaimAmount < MinDeposit \/ ClaimAmount > MaxDeposit
  \/ Supply + ClaimAmount > PilotCap

PrepareMint(o) ==
  /\ o \notin mints
  /\ ~DepositBlocked(o) /\ deposits[o].match = "confirmed" /\ Attested(o, TRUE)
  /\ mints' = mints \cup {o}
  /\ UNCHANGED <<vars, deposits, attestations>>

\* The prepared mints are claimed on Igra, each outpoint once.
ClaimPrepared == Claims < Cardinality(mints) /\ ClaimDeposit /\ UNCHANGED relayVars

-----------------------------------------------------------------------------
RelayerInit == Init /\ deposits = [o \in Outpoints |-> NoObservation] /\ attestations = {} /\ mints = {}

DepositStep ==
  \E o \in Outpoints :
    \/ IndexDeposit(o) \/ ConfirmDeposit(o) \/ DetachDeposit(o) \/ SpendDeposit(o) \/ PrepareMint(o)

RelayerNext ==
  \/ ExitStep /\ UNCHANGED relayVars
  \/ DepositStep \/ ClaimPrepared
  \/ \E e \in Exits : ApproveAttested(e)
  \/ \E x \in relay.events \cap (Exits \cup Outpoints) :
       \E r \in Senders, id \in Senders, payload \in {True, Forged} : Attest(r, id, x, payload)

RelayerSpec == RelayerInit /\ [][RelayerNext]_relayerVars /\ Fairness

-----------------------------------------------------------------------------
(* Properties *)

\* As long as liars speak under fewer ids of the policy than a quorum needs, nothing is
\* prepared on their word alone: a correct relayer of the policy has attested this very
\* event, so an exit whose release is prepared was requested, and a claimed deposit was
\* confirmed, whatever was forged, repeated, sent by strangers or in the name of a correct
\* relayer, or kept back.
PreparedIsAttested ==
  \A x \in {y \in approved \cup mints : y \in relay.events} :
    \E m \in attestations :
      m.event = x /\ m.sender \in Honest \cap relay.policy.relayers /\ m.payload = True
=============================================================================
