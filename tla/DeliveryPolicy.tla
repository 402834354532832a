--------------------------- MODULE DeliveryPolicy ---------------------------
(***************************************************************************)
(* How radrootsd turns the outcomes of one publish attempt into the status *)
(* of the publish job: the pure functions of core/transport_publish.rs     *)
(* that the publish path and the start-up recovery share.                  *)
(*                                                                         *)
(* A Target stands for the triple (transport kind, endpoint URI, scope):   *)
(* the key of a row of transport_publish_target_results and what a target  *)
(* fingerprint identifies.  Several targets may share one relay URL, so    *)
(* RelayOf names the relay behind a target.                                *)
(*                                                                         *)
(* The seventeen outcome kinds matter to this code only through four       *)
(* predicates of the protocol crate (counts_toward_accepted_delivery,      *)
(* is_retryable, is_terminal_failure, = DeferredUntilImplemented), so a    *)
(* kind is modelled by the predicate it satisfies, "Unclassified" being a  *)
(* kind that satisfies none of them.                                       *)
(***************************************************************************)
EXTENDS Naturals, Sequences, FiniteSets

CONSTANTS
  Targets,   \* target keys
  Relays,    \* relay URLs
  RelayOf    \* the relay URL of each target

ASSUME TargetAssumption ==
  /\ IsFiniteSet(Targets)
  /\ RelayOf \in [Targets -> Relays]

Kinds == {"Accepted", "Retryable", "Terminal", "Deferred", "Unclassified"}

Outcome == [target : Targets, kind : Kinds]

Policy == [type : {"Any", "All", "Quorum", "RequiredTargets"},
           quorum : Nat, targets : SUBSET Targets]

FinalStatus == {"DeliverySatisfied", "DeliveryUnsatisfiedRetryable",
                "DeliveryDeferredUntilImplemented",
                "DeliveryUnsatisfiedTerminal", "Rejected"}

(* What resolve_targets_for_request returns: the relays to contact, and    *)
(* outcomes already decided for targets that will not be contacted.        *)
Resolution == [targets : Seq(Targets), outcomes : Seq(Outcome)]

target_count(res) == Len(res.targets) + Len(res.outcomes)

(* The relay set handed to the adapter: sorted and without duplicates.     *)
RelaySet(res) == {RelayOf[res.targets[i]] : i \in DOMAIN res.targets}

-----------------------------------------------------------------------------
(* DeliveryPolicy::required_target_count of the protocol crate.            *)
required_target_count(policy, n) ==
  CASE policy.type = "Any"    -> 1
    [] policy.type = "All"    -> n
    [] policy.type = "Quorum" -> policy.quorum
    [] OTHER                  -> Cardinality(policy.targets)

\* Mutant: any kind that is not a terminal failure counts as delivered.
AcknowledgedUnlessTerminal(outs) ==
  {i \in DOMAIN outs : outs[i].kind # "Terminal"}

Acknowledged(outs) == {i \in DOMAIN outs : outs[i].kind = "Accepted"}

(* Indices of the first outcome of each required target that has one.      *)
required_outcomes_for_policy(required, outs) ==
  {i \in DOMAIN outs : /\ outs[i].target \in required
                       /\ \A j \in DOMAIN outs :
                            outs[j].target = outs[i].target => i <= j}

(* Indices of the outcomes a policy looks at.                              *)
StatusOutcomes(policy, outs) ==
  IF policy.type = "RequiredTargets"
  THEN required_outcomes_for_policy(policy.targets, outs)
  ELSE DOMAIN outs

Satisfied(policy, n, outs) ==
  IF policy.type = "RequiredTargets"
  THEN LET found == required_outcomes_for_policy(policy.targets, outs)
       IN  /\ Cardinality(found) = Cardinality(policy.targets)
           /\ \A i \in found : outs[i].kind = "Accepted"
  ELSE Cardinality(Acknowledged(outs)) >= required_target_count(policy, n)

delivery_status(policy, n, outs) ==
  LET kinds == {outs[i].kind : i \in StatusOutcomes(policy, outs)}
  IN  CASE Satisfied(policy, n, outs) -> "DeliverySatisfied"
        [] ~Satisfied(policy, n, outs) /\ "Retryable" \in kinds
             -> "DeliveryUnsatisfiedRetryable"
        [] /\ ~Satisfied(policy, n, outs)
           /\ "Retryable" \notin kinds
           /\ "Deferred" \in kinds
           /\ "Terminal" \notin kinds
             -> "DeliveryDeferredUntilImplemented"
        [] OTHER -> "DeliveryUnsatisfiedTerminal"

last_error_for_status(status) ==
  CASE status = "DeliverySatisfied" -> "none"
    [] status = "Rejected"          -> "no_transport_publish_targets"
    [] status = "DeliveryDeferredUntilImplemented"
                                    -> "delivery_deferred_until_implemented"
    [] OTHER                        -> "delivery_unsatisfied"

-----------------------------------------------------------------------------
\* Mutant: only the targets that already failed are stored with the job.
SnapshotsOfFailures(res) == res.outcomes

(* What is known to have happened before any relay is contacted; stored    *)
(* with the job and used by recovery if the attempt is interrupted.        *)
target_snapshots_from_resolution(res) ==
  res.outcomes \o
    [i \in DOMAIN res.targets |->
       [target |-> res.targets[i], kind |-> "Retryable"]]

\* Mutant: the outcomes decided during resolution are forgotten.
OutcomesOfReceiptsOnly(res, receipts) ==
  [i \in DOMAIN res.targets |->
     [target |-> res.targets[i],
      kind   |-> receipts[RelayOf[res.targets[i]]]]]

(* The outcomes of the attempt when each relay r answered receipts[r]: one *)
(* outcome per target of the relay.                                        *)
outcomes_from_receipts(res, receipts) ==
  res.outcomes \o
    [i \in DOMAIN res.targets |->
       [target |-> res.targets[i],
        kind   |-> receipts[RelayOf[res.targets[i]]]]]

(* timeout_receipts and transport_error_receipts: every relay of the set   *)
(* is reported Timeout or ConnectionFailed, both retryable, whatever it    *)
(* may have answered meanwhile.                                            *)
aborted_receipts(res) == [r \in RelaySet(res) |-> "Retryable"]
=============================================================================
