------------------------------ MODULE Workflow ------------------------------
(***************************************************************************)
(* The workflow lifecycle as its submitters meet it.  Somebody reads the   *)
(* replayed state, decides on a transition and names the claim revision    *)
(* they read; other transitions may land before theirs does.  An append    *)
(* replays the whole bundle with the new receipt at its end and either     *)
(* yields the longer bundle or raises and leaves the old one untouched, so *)
(* a denied transition is no step of this specification.                   *)
(*                                                                         *)
(* `seen` is a history field, not part of the program: the content its     *)
(* submitter read before deciding.                                         *)
(***************************************************************************)
EXTENDS Authority

CONSTANTS
    Commands,           \* the transitions submitters consider, at any revision
    MaxRecords,         \* MAX_WORKFLOW_RECORDS
    MaxOutstanding      \* bound: transitions decided on and not yet appended

ASSUME CommandAssumption ==
    /\ Commands \subseteq Transition
    /\ MaxRecords \in Nat

VARIABLES
    claims,     \* the replayed state: claim ID -> Claim
    records,    \* the bundle's receipts, in order
    intents     \* transitions decided on, each with what its submitter saw

vars == <<claims, records, intents>>

Content(c) == [evidence |-> c.evidence, artifacts |-> c.artifacts]

Intent == [transition: Transition,
           seen: [evidence: SUBSET EvidenceIds, artifacts: SUBSET ArtifactIds]]

RecordedIds == {records[i].transition.transition_id : i \in DOMAIN records}

Init ==
    /\ claims = [k \in ClaimIds |-> Absent]
    /\ records = <<>>
    /\ intents = {}

-----------------------------------------------------------------------------
\* Somebody reads the current state and decides on a transition.
Decide(t) ==
    /\ Cardinality(intents) < MaxOutstanding
    /\ intents' = intents \cup
           {[transition |-> [t EXCEPT !.expected_revision = claims[t.claim].revision],
             seen |-> Content(claims[t.claim])]}
    /\ UNCHANGED <<claims, records>>

\* The submitter gives up, or forgets an intent already appended.
Withdraw(i) ==
    /\ intents' = intents \ {i}
    /\ UNCHANGED <<claims, records>>

(***************************************************************************)
(* WorkflowBundle.append of one transition.  The intent stays with its     *)
(* submitter, who may submit it again.                                     *)
(***************************************************************************)
Append1(i) ==
    LET t == i.transition
    IN  /\ Len(records) < MaxRecords
        /\ t.transition_id \notin RecordedIds
        /\ Accepts(claims[t.claim], t)
        /\ claims' = [claims EXCEPT ![t.claim] = After(@, t)]
        /\ records' = Append(records, i)
        /\ UNCHANGED intents

Create(i) == i.transition.action = "create" /\ Append1(i)
BindEvidence(i) == i.transition.action = "bind_evidence" /\ Append1(i)
BindArtifact(i) == i.transition.action = "bind_artifact" /\ Append1(i)
Submit(i) == i.transition.action = "submit" /\ Append1(i)
Approve(i) == i.transition.action = "approve" /\ Append1(i)
Reject(i) == i.transition.action = "reject" /\ Append1(i)
Revoke(i) == i.transition.action = "revoke" /\ Append1(i)

Next ==
    \/ \E t \in Commands : Decide(t)
    \/ \E i \in intents :
        \/ Withdraw(i)
        \/ Create(i)
        \/ BindEvidence(i)
        \/ BindArtifact(i)
        \/ Submit(i)
        \/ Approve(i)
        \/ Reject(i)
        \/ Revoke(i)

Spec == Init /\ [][Next]_vars

-----------------------------------------------------------------------------
(***************************************************************************)
(* Type invariant.                                                         *)
(***************************************************************************)
TypeOK ==
    /\ claims \in [ClaimIds -> Claim]
    /\ records \in Seq(Intent)
    /\ intents \subseteq Intent

(***************************************************************************)
(* An approved or revoked claim has exactly the quorum of approvals, every *)
(* one by a declared human who holds the reviewer grant in the claim's own *)
(* scope and authored nothing of the claim; and it rests on evidence and   *)
(* artifacts registered for this claim in this scope.  A claim still under *)
(* review is short of the quorum.  (replay_workflow, the approve branch)   *)
(***************************************************************************)
Endorsed(k, c) ==
    /\ \A a \in c.approvals :
           a \in Humans /\ a \notin c.authors /\ Permits(a, c.scope, "reviewer")
    /\ \A e \in c.evidence : /\ e \in DOMAIN Ledger
                             /\ Ledger[e].claim = k /\ Ledger[e].scope = c.scope
    /\ \A a \in c.artifacts : /\ a \in DOMAIN Manifest
                              /\ Manifest[a].claim = k /\ Manifest[a].scope = c.scope
    /\ c.status \in {"absent", "draft"} => c.approvals = {}
    /\ c.status \in {"submitted", "rejected"} => Cardinality(c.approvals) < Quorum
    /\ c.status \in {"approved", "revoked"} => Cardinality(c.approvals) = Quorum
    /\ c.status \notin {"absent", "draft"} => c.evidence # {} /\ c.artifacts # {}

ApprovalIsEndorsed == \A k \in ClaimIds : Endorsed(k, claims[k])

(***************************************************************************)
(* Reviewers approve, and revokers revoke, exactly the content they read:  *)
(* nothing was bound between the read their decision rests on and the      *)
(* receipt, and nothing is ever bound after it.  This is what the exact    *)
(* expected_revision check and the freeze after submit are for.            *)
(***************************************************************************)
ReviewedAsSeen ==
    \A i \in DOMAIN records :
        LET t == records[i].transition
        IN  Role(t.action) # "author" => records[i].seen = Content(claims[t.claim])

(***************************************************************************)
(* The revisions account for every receipt: the receipts of a claim were   *)
(* decided at revisions 0, 1, 2, ... without a gap or a repeat, and the    *)
(* claim's revision is their number.  Summed over the claims this is the   *)
(* check WorkflowState raises on.                                          *)
(***************************************************************************)
ReceiptsOf(rs, k, n) == {i \in 1..n : rs[i].transition.claim = k}

RevisionsAccount ==
    /\ \A k \in ClaimIds :
           claims[k].revision = Cardinality(ReceiptsOf(records, k, Len(records)))
    /\ \A i \in DOMAIN records :
           LET t == records[i].transition
           IN  t.expected_revision = Cardinality(ReceiptsOf(records, t.claim, i - 1))

(***************************************************************************)
(* Once submitted, a claim's content, authors and scope never change, its  *)
(* approvals only grow, and rejected and revoked are final: the only step  *)
(* out of approved is to revoked.  (docs/authority-workflows.md)           *)
(***************************************************************************)
Frozen(c, d) ==
    /\ c.status \notin {"absent", "draft"} =>
           /\ Content(d) = Content(c)
           /\ d.authors = c.authors /\ d.scope = c.scope
           /\ c.approvals \subseteq d.approvals
           /\ d.status \notin {"absent", "draft"}
    /\ c.status \in {"rejected", "revoked"} => d = c
    /\ c.status = "approved" => d = c \/ d.status = "revoked"

FrozenAfterSubmit == [][\A k \in ClaimIds : Frozen(claims[k], claims'[k])]_vars
=============================================================================
