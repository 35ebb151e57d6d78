---------------------------- MODULE CaseProtocol ----------------------------
(***************************************************************************)
(* What the durable case store promises of one planned case, without its   *)
(* file, its transactions, its checkpoints and the processes that die: the *)
(* case is claimed once for one tool, an adapter is entered once for that  *)
(* claim, one observation of the claimed tool is recorded, somebody else   *)
(* records the verdict it earns, and decisions are taken on that verdict.  *)
(***************************************************************************)
EXTENDS CaseJournal

CONSTANTS
    Callers,    \* those who decide
    Plan,       \* the plan of the case
    NoRecord    \* nothing is claimed, observed, judged or decided yet

VARIABLES
    claim,      \* who observes, and under which request: [request, observer]
    entered,    \* the requests an adapter was entered for
    observation,
    judgement,
    decision    \* per caller: the decision it took

protocol == <<claim, entered, observation, judgement, decision>>

Init ==
    /\ claim = NoRecord /\ entered = <<>>
    /\ observation = NoRecord /\ judgement = NoRecord
    /\ decision = [p \in Callers |-> NoRecord]

\* A tool that may observe, and not for its own plan.
Claim ==
    /\ claim = NoRecord
    /\ claim' \in [request: Ids,
                   observer: {a \in Actors \ {Plan.proposer} :
                                  KindOf[a] = "tool" /\ CasePermits(a, Plan.scope, "observe")}]
    /\ UNCHANGED <<entered, observation, judgement, decision>>

Enter ==
    /\ entered = <<>> /\ claim # NoRecord
    /\ entered' = <<claim.request>>
    /\ UNCHANGED <<claim, observation, judgement, decision>>

\* The observation is the claimed tool's, whoever brings it.
Observe ==
    /\ observation = NoRecord /\ claim # NoRecord
    /\ observation' \in [type: {"observation"}, plan: {Plan}, request: {claim.request},
                         observer: {claim.observer}, result: Results]
    /\ UNCHANGED <<claim, entered, judgement, decision>>

\* Nobody judges what it proposed or observed, and no model judges.
Judge ==
    /\ judgement = NoRecord /\ observation # NoRecord
    /\ judgement' \in [type: {"verdict"}, observation: {observation},
                       evaluator: {a \in Actors \ {Plan.proposer, claim.observer} :
                                       KindOf[a] # "model" /\ CasePermits(a, Plan.scope, "evaluate")},
                       outcome: {Earned(Plan, observation.result)}]
    /\ UNCHANGED <<claim, entered, observation, decision>>

\* A fourth actor decides, once per caller, and approves only what is supported.
Decide(p) ==
    /\ decision[p] = NoRecord /\ judgement # NoRecord
    /\ \E d \in [type: {"decision"}, verdict: {judgement},
                  decider: {a \in Actors \ {Plan.proposer, claim.observer, judgement.evaluator} :
                                /\ KindOf[a] \in {"human", "policy"}
                                /\ CasePermits(a, Plan.scope, "decide")},
                  disposition: Dispositions] :
           /\ d.disposition = "approve" => judgement.outcome = "supported"
           /\ decision' = [decision EXCEPT ![p] = d]
    /\ UNCHANGED <<claim, entered, observation, judgement>>

Next == Claim \/ Enter \/ Observe \/ Judge \/ \E p \in Callers : Decide(p)

Spec == Init /\ [][Next]_protocol
=============================================================================
