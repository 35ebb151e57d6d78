---------------------------- MODULE CaseJournal ----------------------------
(***************************************************************************)
(* The pure part of an epistemic case (epistemic_case.py): who may add     *)
(* which record to a journal, and what replay_case accepts.  A journal is  *)
(* a plan, an observation of what the plan predicted, a verdict on the     *)
(* observation and a decision on the verdict, each by somebody else.       *)
(*                                                                         *)
(* Digests are symbolic: a record names the record its digest field        *)
(* commits to, and a SHA-256 is the content it was taken of.  The bytes of *)
(* the assertion and of the input never change and are left out; the       *)
(* artifact ID of an output is made from its content, so it never is theirs. *)
(***************************************************************************)
EXTENDS Naturals, Sequences

CONSTANTS
    Actors,         \* the declared actors and any other a record may name
    KindOf,         \* actor -> CaseActorKind
    Scopes,
    CaseGrants,     \* CaseGrants, as triples <<actor_id, scope, role>>
    Ids,            \* request and operation IDs
    Contents,       \* byte strings an adapter may observe
    NoContent       \* None

Kinds == {"model", "tool", "human", "policy"}
CaseRoles == {"propose", "observe", "evaluate", "decide"}
ObservationStatuses == {"observed", "unavailable", "error"}
VerdictOutcomes == {"supported", "refuted", "inconclusive"}
Dispositions == {"approve", "reject", "defer"}

\* The roles an actor of a kind may be granted at all.
RolesOf == [model |-> {"propose"},
            tool |-> {"observe", "evaluate"},
            human |-> {"propose", "evaluate", "decide"},
            policy |-> {"evaluate", "decide"}]

\* A CaseAuthority: declared actors, with grants that fit their kind.
CaseAuthority ==
    /\ KindOf \in [Actors -> Kinds]
    /\ CaseGrants \subseteq Actors \X Scopes \X CaseRoles
    /\ \A g \in CaseGrants : g[3] \in RolesOf[KindOf[g[1]]]

ASSUME CaseAuthorityAssumption == CaseAuthority /\ NoContent \notin Contents

CasePermits(actor, scope, role) == <<actor, scope, role>> \in CaseGrants

-----------------------------------------------------------------------------
(***************************************************************************)
(* The records.                                                            *)
(***************************************************************************)
CasePlan == [type: {"plan"}, proposer: Actors, scope: Scopes, prediction: Contents]

\* Only an observed status commits to output.
Results == {r \in [status: ObservationStatuses, output: Contents \cup {NoContent}] :
                r.status = "observed" <=> r.output # NoContent}

CaseObservation == [type: {"observation"}, plan: CasePlan, request: Ids,
                    observer: Actors, result: Results]

CaseVerdict == [type: {"verdict"}, observation: CaseObservation,
                evaluator: Actors, outcome: VerdictOutcomes]

CaseDecision == [type: {"decision"}, verdict: CaseVerdict,
                 decider: Actors, disposition: Dispositions]

CaseRecord == CasePlan \cup CaseObservation \cup CaseVerdict \cup CaseDecision

-----------------------------------------------------------------------------
(***************************************************************************)
(* What replay_case asks of the next record of a journal it has accepted.  *)
(* The phase of such a journal is its length.                              *)
(***************************************************************************)
AdmitsPlan(j, r) ==
    /\ r \in CasePlan
    /\ j = <<>>
    /\ CasePermits(r.proposer, r.scope, "propose")

AdmitsObservation(j, r) ==
    /\ r \in CaseObservation
    /\ Len(j) = 1
    /\ r.plan = j[1]
    /\ r.observer # j[1].proposer
    /\ KindOf[r.observer] = "tool"
    /\ CasePermits(r.observer, j[1].scope, "observe")

\* The only verdict the committed observation earns.
Earned(plan, result) ==
    IF result.status # "observed" THEN "inconclusive"
    ELSE IF result.output = plan.prediction THEN "supported" ELSE "refuted"

\* Mutant: the proposer may judge the observation of its own plan.
AdmitsAnyVerdict(j, r) ==
    /\ r \in CaseVerdict
    /\ Len(j) = 2
    /\ r.observation = j[2]
    /\ r.evaluator # j[2].observer
    /\ KindOf[r.evaluator] # "model"
    /\ CasePermits(r.evaluator, j[1].scope, "evaluate")
    /\ r.outcome = Earned(j[1], j[2].result)

AdmitsVerdict(j, r) ==
    /\ r \in CaseVerdict
    /\ Len(j) = 2
    /\ r.observation = j[2]
    /\ r.evaluator \notin {j[1].proposer, j[2].observer}
    /\ KindOf[r.evaluator] # "model"
    /\ CasePermits(r.evaluator, j[1].scope, "evaluate")
    /\ r.outcome = Earned(j[1], j[2].result)

AdmitsDecision(j, r) ==
    /\ r \in CaseDecision
    /\ Len(j) = 3
    /\ r.verdict = j[3]
    /\ r.decider \notin {j[1].proposer, j[2].observer, j[3].evaluator}
    /\ KindOf[r.decider] \in {"human", "policy"}
    /\ CasePermits(r.decider, j[1].scope, "decide")
    /\ r.disposition = "approve" => j[3].outcome = "supported"

Admits(j, r) ==
    \/ AdmitsPlan(j, r)
    \/ AdmitsObservation(j, r)
    \/ AdmitsVerdict(j, r)
    \/ AdmitsDecision(j, r)

\* replay_case succeeds.
ReplaysCase(j) == \A i \in 1..Len(j) : Admits(SubSeq(j, 1, i - 1), j[i])
=============================================================================
