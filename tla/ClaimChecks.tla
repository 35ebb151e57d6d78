----------------------------- MODULE ClaimChecks -----------------------------
(***************************************************************************)
(* The semantic gate over an approved claim (checks.py,                    *)
(* check_workflow.py), composed with the workflow that approves it.  A     *)
(* plan of rules over committed JSON documents and an evaluation of it are *)
(* ordinary artifacts of a claim.  verify_claim_checks replays the         *)
(* workflow to a head its caller retained, recomputes the plan that its    *)
(* policy pins on the bytes somebody else kept, and accepts the claim only *)
(* if it is approved there and the recomputation passes.                   *)
(*                                                                         *)
(* Contents are named by their digests.  A bundle is a prefix of the       *)
(* workflow's receipts, and as the chain is collision-free its head is the *)
(* length of the prefix.  Work units are left out; they only refuse.       *)
(***************************************************************************)
EXTENDS Workflow, Integers, SequencesExt

CONSTANTS
    Documents,      \* content -> JSON value, for the contents inside the check profile
    Plans,          \* content -> plan, for the contents that are the canonical bytes of one
    Evaluations,    \* content -> evaluation, for the contents that are the bytes of one
    Media,          \* artifact ID -> "application/json" or another media type
    Statement,      \* claim ID -> its statement
    AuthorityDigest, EvidenceHead,  \* of this workflow's policy and ledger
    Policies,       \* the CheckPolicies that verifiers pin
    Heads,          \* evidence heads that verifiers retain
    MaxInputs       \* limits.max_inputs

ASSUME GateAssumption ==
    /\ \A policy \in Policies : policy.claim \in ClaimIds
    /\ \A d \in DOMAIN Plans : \A i \in DOMAIN Plans[d].rules :
           Plans[d].rules[i].operator \in {"exists", "equals", "integer_range", "same_value", "bytes_equal"}

-----------------------------------------------------------------------------
(***************************************************************************)
(* Values and paths.  A JSON value is [type, value, members]; members is a *)
(* function on the keys of an object and a sequence for an array.  A part  *)
(* of a path is [kind, key, index].                                        *)
(***************************************************************************)
Missing == [type |-> "absent", value |-> 0, members |-> <<>>]

Scalar(v) == v.type \in {"null", "bool", "int", "str"}

Step(v, part) ==
    IF part.kind = "key" /\ v.type = "object" THEN
        IF part.key \in DOMAIN v.members THEN v.members[part.key] ELSE Missing
    ELSE IF part.kind = "index" /\ v.type = "array" THEN
        IF part.index < Len(v.members) THEN v.members[part.index + 1] ELSE Missing
    ELSE Missing

At(v, path) == FoldLeft(Step, v, path)

\* Equal means of one type: True is not 1.
Equal(v, w) == v.type = w.type /\ v.value = w.value

-----------------------------------------------------------------------------
(***************************************************************************)
(* Rules and their three outcomes.                                         *)
(***************************************************************************)
Passed(b) == IF b THEN "pass" ELSE "fail"

\* Mutant: two paths that both lead nowhere are not missed.
UndecidedUnlessBoth(rule, v, w) ==
    \/ v.type = "absent" /\ ~(rule.operator = "same_value" /\ w.type = "absent")
    \/ v.type # "absent" /\ ~Scalar(v)

\* path_missing or type_unsupported: the rule knows nothing.
Undecided(rule, v, w) ==
    \/ v.type = "absent" \/ ~Scalar(v)
    \/ rule.operator = "same_value" /\ (w.type = "absent" \/ ~Scalar(w))
    \/ rule.operator = "integer_range" /\ v.type # "int"

RuleOutcome(rule, contents) ==
    IF rule.operator = "bytes_equal" THEN Passed(contents[rule.artifact] = contents[rule.other])
    ELSE LET v == At(Documents[contents[rule.artifact]], rule.path)
             w == IF rule.operator = "same_value"
                  THEN At(Documents[contents[rule.other]], rule.other_path) ELSE rule.expected
         IN  IF rule.operator = "exists" THEN Passed(v.type # "absent")
             ELSE IF Undecided(rule, v, w) THEN "unknown"
             ELSE IF rule.operator = "integer_range"
                  THEN Passed(rule.minimum <= v.value /\ v.value <= rule.maximum)
             ELSE Passed(Equal(v, w))

\* Mutant: only a failed rule spoils the outcome.
OutcomeWithoutFail(results) ==
    IF \E i \in DOMAIN results : results[i] = "fail" THEN "fail" ELSE "pass"

\* CheckEvaluation.outcome
Outcome(results) ==
    IF \E i \in DOMAIN results : results[i] = "fail" THEN "fail"
    ELSE IF \E i \in DOMAIN results : results[i] = "unknown" THEN "unknown" ELSE "pass"

\* The inputs of a rule that are parsed, and all of them.
JsonInputs(rule) ==
    IF rule.operator = "bytes_equal" THEN {}
    ELSE {rule.artifact} \cup (IF rule.operator = "same_value" THEN {rule.other} ELSE {})
RuleInputs(rule) == JsonInputs(rule) \cup (IF rule.operator = "bytes_equal" THEN {rule.artifact, rule.other} ELSE {})

\* CheckRule.__post_init__
ValidRule(rule) ==
    /\ rule.operator = "equals" => Scalar(rule.expected)
    /\ rule.operator = "integer_range" => rule.minimum <= rule.maximum
    /\ rule.operator = "bytes_equal" => rule.path = <<>>

\* CheckPlan.__post_init__: every input is used, every use declared, rules are unique.
ValidPlan(plan) ==
    /\ DOMAIN plan.inputs # {} /\ plan.rules # <<>>
    /\ \A i \in DOMAIN plan.rules : ValidRule(plan.rules[i])
    /\ \A i, j \in DOMAIN plan.rules : plan.rules[i].id = plan.rules[j].id => i = j
    /\ UNION {RuleInputs(plan.rules[i]) : i \in DOMAIN plan.rules} = DOMAIN plan.inputs
    /\ \A i \in DOMAIN plan.rules : \A a \in JsonInputs(plan.rules[i]) : Media[a] = "application/json"

\* _evaluate raises unless the retained inputs are exactly the committed ones
\* and every document a rule looks into is one.
Evaluable(plan, contents) ==
    /\ Cardinality(DOMAIN plan.inputs) <= MaxInputs
    /\ contents = plan.inputs
    /\ \A i \in DOMAIN plan.rules : \A a \in JsonInputs(plan.rules[i]) : contents[a] \in DOMAIN Documents

Results(plan, contents) == [i \in DOMAIN plan.rules |-> RuleOutcome(plan.rules[i], contents)]

-----------------------------------------------------------------------------
(***************************************************************************)
(* The gate.                                                               *)
(***************************************************************************)
\* replay_workflow on a prefix of the receipts: a bundle, as its head and its claims.
Replayed(k, receipts) ==
    FoldLeft(LAMBDA c, i : IF i.transition.claim = k THEN After(c, i.transition) ELSE c,
             Absent, receipts)

Bundle(n) == [head |-> n, claims |-> [k \in ClaimIds |-> Replayed(k, SubSeq(records, 1, n))]]

\* The newest bundle, replayed one receipt after the other as they were appended.
Present == [head |-> Len(records), claims |-> claims]

\* Mutant: any bundle of this workflow will do.
HeadPinnedLoosely(bundle, head) == bundle.head \in 0..Len(records)

HeadPinned(bundle, head) == bundle.head = head

\* Mutant: the plan and the evaluation count as inputs.
AdmittedInputs(contents) == Cardinality(DOMAIN contents) <= MaxInputs

\* _snapshot with extra=2
Admitted(contents) == Cardinality(DOMAIN contents) <= MaxInputs + 2

\* The plan and the evaluation are bound JSON artifacts and the bytes are theirs.
MetadataBound(c, policy, contents) ==
    \A a \in {policy.plan_artifact, policy.evaluation_artifact} :
        /\ a \in DOMAIN Manifest /\ a \in c.artifacts /\ a \in DOMAIN contents
        /\ Manifest[a].claim = policy.claim /\ Manifest[a].scope = c.scope
        /\ Media[a] = "application/json"
        /\ contents[a] = Manifest[a].digest

\* Mutant: any plan of the claim will do.
PlanPinnedLoosely(policy, contents) == contents[policy.plan_artifact] \in DOMAIN Plans

PlanPinned(policy, contents) ==
    /\ contents[policy.plan_artifact] = policy.plan_digest
    /\ policy.plan_digest \in DOMAIN Plans

PlanInContext(plan, c, policy, evidence) ==
    /\ plan.scope = c.scope /\ plan.claim = policy.claim
    /\ plan.authority = AuthorityDigest /\ plan.evidence = evidence
    /\ plan.statement = Statement[policy.claim]

InputsBound(plan, c) ==
    \A a \in DOMAIN plan.inputs :
        a \in c.artifacts /\ a \in DOMAIN Manifest /\ Manifest[a].digest = plan.inputs[a]

\* The mapping holds the inputs, the plan and the evaluation and nothing else.
InventoryExact(plan, policy, contents) ==
    LET metadata == {policy.plan_artifact, policy.evaluation_artifact}
    IN  /\ DOMAIN plan.inputs \cap metadata = {}
        /\ DOMAIN contents = DOMAIN plan.inputs \cup metadata

\* Mutant: any evaluation is believed.
ReportParses(policy, contents, results) == contents[policy.evaluation_artifact] \in DOMAIN Evaluations

ReportRecomputed(policy, contents, results) ==
    /\ contents[policy.evaluation_artifact] \in DOMAIN Evaluations
    /\ Evaluations[contents[policy.evaluation_artifact]] = [plan |-> contents[policy.plan_artifact], results |-> results]

\* verify_claim_checks raises: no result.
Raised == [raised |-> TRUE, status |-> "absent", results |-> <<>>]

\* Everything it requires of the bundle and the metadata, and then of the plan.
Presentable(bundle, policy, contents, head, evidence) ==
    LET c == bundle.claims[policy.claim]
    IN  /\ policy.authority = AuthorityDigest /\ evidence = EvidenceHead
        /\ HeadPinned(bundle, head)
        /\ c.status # "absent" /\ c.scope = policy.scope
        /\ Admitted(contents)
        /\ MetadataBound(c, policy, contents)
        /\ PlanPinned(policy, contents)

Checkable(plan, c, policy, contents, evidence) ==
    /\ ValidPlan(plan)
    /\ PlanInContext(plan, c, policy, evidence)
    /\ InventoryExact(plan, policy, contents)
    /\ InputsBound(plan, c)
    /\ Evaluable(plan, [a \in DOMAIN plan.inputs |-> contents[a]])

VerifyClaimChecks(bundle, policy, contents, head, evidence) ==
    IF ~Presentable(bundle, policy, contents, head, evidence) THEN Raised
    ELSE LET c == bundle.claims[policy.claim]
             plan == Plans[contents[policy.plan_artifact]]
         IN  IF ~Checkable(plan, c, policy, contents, evidence) THEN Raised
             ELSE LET results == Results(plan, contents)
                  IN  IF ReportRecomputed(policy, contents, results)
                      THEN [raised |-> FALSE, status |-> c.status, results |-> results]
                      ELSE Raised

\* CheckedClaim.accepted
Accepted(checked) == ~checked.raised /\ checked.status = "approved" /\ Outcome(checked.results) = "pass"

-----------------------------------------------------------------------------
(***************************************************************************)
(* Properties, over every policy, every head and everything the keeper of  *)
(* the contents may hand over: the committed files, with one of them       *)
(* exchanged, left out or added.                                           *)
(***************************************************************************)
Committed(ids) == [a \in ids |-> Manifest[a].digest]

Handed ==
    [policy \in Policies |->
        LET honest == Committed(DOMAIN Plans[Manifest[policy.plan_artifact].digest].inputs
                                \cup {policy.plan_artifact, policy.evaluation_artifact})
        IN  {honest}
            \cup {[honest EXCEPT ![a] = d] : a \in DOMAIN honest, d \in Digests}
            \cup {[a \in DOMAIN honest \ {b} |-> honest[a]] : b \in DOMAIN honest}
            \cup {Committed(DOMAIN honest \cup {b}) : b \in DOMAIN Manifest}]

\* The newest bundle and the one before it, against either head.
Recent == {Len(records), IF records = <<>> THEN 0 ELSE Len(records) - 1}

\* What a rule says, on the committed contents.
Holds(rule) ==
    LET v == At(Documents[Manifest[rule.artifact].digest], rule.path)
    IN  CASE rule.operator = "exists" -> v.type # "absent"
          [] rule.operator = "equals" -> v.type # "absent" /\ Equal(v, rule.expected)
          [] rule.operator = "integer_range" ->
                 v.type = "int" /\ rule.minimum <= v.value /\ v.value <= rule.maximum
          [] rule.operator = "same_value" ->
                 LET w == At(Documents[Manifest[rule.other].digest], rule.other_path)
                 IN  Scalar(v) /\ Scalar(w) /\ Equal(v, w)
          [] rule.operator = "bytes_equal" -> Manifest[rule.artifact].digest = Manifest[rule.other].digest

\* The claim c is approved, by an independent quorum, and the rules of the pinned plan
\* hold on the committed contents of artifacts bound to it.
ApprovedAndTrue(policy, c) ==
    LET plan == Plans[policy.plan_digest]
    IN  /\ c.status = "approved" /\ Endorsed(policy.claim, c)
        /\ \A i \in DOMAIN plan.rules : Holds(plan.rules[i])
        /\ \A i \in DOMAIN plan.rules : RuleInputs(plan.rules[i]) \subseteq c.artifacts

\* A verifier with this policy and these heads is handed the newest bundle and some
\* contents.  Whatever comes back without an error is what the claim has on file: the
\* evaluation bound to it is exactly this recomputation of the pinned plan; and a claim
\* is accepted only if it is approved and its rules are true.
AnswerEarned(policy, head, contents, evidence) ==
    LET checked == VerifyClaimChecks(Present, policy, contents, head, evidence)
        c == claims[policy.claim]
    IN  /\ ~checked.raised =>
               /\ head = Len(records) /\ evidence = EvidenceHead
               /\ policy.evaluation_artifact \in c.artifacts
               /\ Evaluations[Manifest[policy.evaluation_artifact].digest] =
                      [plan |-> policy.plan_digest, results |-> checked.results]
        /\ Accepted(checked) => ApprovedAndTrue(policy, c)

\* What the gate answers is earned, whatever its verifier is handed by the keeper of the
\* contents and whichever heads it retained (verify_claim_checks).
GateEarned ==
    intents = {} /\ records # <<>> =>
        \A policy \in Policies, head \in Recent, evidence \in Heads :
          \A contents \in Handed[policy] : AnswerEarned(policy, head, contents, evidence)

\* An older bundle is good for its own head, on its own claims: nothing is accepted for
\* a head at which it was not approved (verify_claim_checks).
OlderIsSound ==
    intents = {} =>
        \A n \in Recent \ {Len(records)}, policy \in Policies, head \in Recent :
          \A contents \in Handed[policy], evidence \in Heads :
            Accepted(VerifyClaimChecks(Bundle(n), policy, contents, head, evidence)) =>
                evidence = EvidenceHead /\ ApprovedAndTrue(policy, Bundle(head).claims[policy.claim])

\* A bundle that is replayed from its first receipt says what appending them said.
ReplayedIsPresent == intents = {} => Bundle(Len(records)) = Present

\* The workflow of an honest author verifies: with plan, inputs and evaluation
\* bound and the committed files handed over, the gate does not raise, and it
\* accepts an approved claim whose evaluation says pass.
HonestVerifies ==
    intents = {} => \A policy \in Policies :
        LET c == claims[policy.claim]
            plan == Plans[policy.plan_digest]
            ids == DOMAIN plan.inputs \cup {policy.plan_artifact, policy.evaluation_artifact}
            report == Evaluations[Manifest[policy.evaluation_artifact].digest]
            checked == VerifyClaimChecks(Bundle(Len(records)), policy, Committed(ids), Len(records), EvidenceHead)
        IN  /\ ids \subseteq c.artifacts
            /\ Manifest[policy.plan_artifact].digest = policy.plan_digest
            /\ report = [plan |-> policy.plan_digest, results |-> Results(plan, plan.inputs)]
            => /\ ~checked.raised
               /\ Accepted(checked) <=> c.status = "approved" /\ Outcome(report.results) = "pass"

\* The value without one of the members of the object it is.
Lacking(v, key) == [v EXCEPT !.members = [k \in DOMAIN v.members \ {key} |-> v.members[k]]]

\* Absence passes nothing: without a member of its document no rule that looks
\* inside passes unless it passed with it.
AbsencePassesNothing ==
    intents = {} => \A policy \in Policies :
        LET plan == Plans[policy.plan_digest]
        IN  \A i \in DOMAIN plan.rules :
                plan.rules[i].operator # "bytes_equal" /\ plan.rules[i].artifact \in claims[policy.claim].artifacts =>
                    \A d \in DOMAIN Documents : Documents[d].type = "object" =>
                        \A d2 \in DOMAIN Documents, key \in DOMAIN Documents[d].members :
                            /\ Documents[d2] = Lacking(Documents[d], key)
                            /\ RuleOutcome(plan.rules[i], [a \in DOMAIN plan.inputs |-> d2]) = "pass"
                            => RuleOutcome(plan.rules[i], [a \in DOMAIN plan.inputs |-> d]) = "pass"
=============================================================================
