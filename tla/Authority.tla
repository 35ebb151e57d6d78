----------------------------- MODULE Authority -----------------------------
(***************************************************************************)
(* The pure part of authority-checked claim workflows: the trusted policy  *)
(* (authority.py) and the judgement replay_workflow passes on one          *)
(* transition of one claim (workflow.py).  There are no variables here:    *)
(* Workflow turns these operators into a state machine, and the instance   *)
(* of the durable store authorizes whole batches with them.                *)
(*                                                                         *)
(* Digests are symbolic values: two contents have the same digest exactly  *)
(* when they are the same content.  Statements and reasons are left out,   *)
(* their presence is settled by the transition's constructor.              *)
(***************************************************************************)
EXTENDS Naturals, FiniteSets, Sequences

CONSTANTS
    Actors,         \* actor IDs a transition may name; one without grants is undeclared
    Humans,         \* the actors whose kind is HUMAN; the others are AUTOMATION
    Scopes,         \* scope identifiers
    Grants,         \* ScopeGrants, as triples <<actor_id, scope, role>>
    Quorum,         \* approval_quorum
    ClaimIds,
    EvidenceIds,    \* event IDs a transition may name
    Ledger,         \* event ID -> [digest, claim, scope], for the ledger's entries
    ArtifactIds,    \* artifact IDs a transition may name
    Manifest,       \* artifact ID -> [digest, claim, scope], for the manifest
    Digests,        \* content digests
    TransitionIds   \* transition IDs callers may choose

Roles == {"author", "reviewer", "revoker"}
BindActions == {"bind_evidence", "bind_artifact"}
WorkflowActions == {"create", "submit", "approve", "reject", "revoke"} \cup BindActions
ClaimStatuses == {"draft", "submitted", "approved", "rejected", "revoked"}

NoScope == "no scope"

\* reference_id and reference_digest of a transition that binds nothing.
NoReference == [id |-> "none", digest |-> "none"]

\* What a reference resolves to: a ledger entry or a manifest item.  An event
\* without the workflow_scope attribute has no scope and matches no claim.
Resolved == [digest: Digests, claim: ClaimIds, scope: Scopes \cup {NoScope}]

\* An AuthorityPolicy: declared actors with grants, and an approval quorum.
AuthorityPolicy ==
    /\ IsFiniteSet(Actors)
    /\ Humans \subseteq Actors
    /\ Grants \subseteq Actors \X Scopes \X Roles
    /\ Quorum \in 1..16

ASSUME PolicyAssumption ==
    /\ AuthorityPolicy
    /\ NoScope \notin Scopes
    /\ NoReference.id \notin EvidenceIds \cup ArtifactIds
    \* Registered entries only: an ID outside the domain names nothing.
    /\ DOMAIN Ledger \subseteq EvidenceIds
    /\ \A e \in DOMAIN Ledger : Ledger[e] \in Resolved
    /\ DOMAIN Manifest \subseteq ArtifactIds
    /\ \A a \in DOMAIN Manifest : Manifest[a] \in Resolved

(***************************************************************************)
(* A WorkflowTransition.  Only bind actions carry a reference.             *)
(***************************************************************************)
References == [id: EvidenceIds \cup ArtifactIds, digest: Digests]

Transition ==
    {t \in [transition_id: TransitionIds, action: WorkflowActions, actor: Actors,
            scope: Scopes, claim: ClaimIds, expected_revision: Nat,
            reference: References \cup {NoReference}] :
        t.action \in BindActions <=> t.reference # NoReference}

(***************************************************************************)
(* The replayed state of one claim.  claims.get(id) returning None is the  *)
(* status "absent" at revision 0; the tuples of the class hold distinct    *)
(* identities, so they are sets here.                                      *)
(***************************************************************************)
Claim == [status: ClaimStatuses \cup {"absent"}, scope: Scopes \cup {NoScope},
          revision: Nat, authors: SUBSET Actors, evidence: SUBSET EvidenceIds,
          artifacts: SUBSET ArtifactIds, approvals: SUBSET Actors]

Absent == [status |-> "absent", scope |-> NoScope, revision |-> 0, authors |-> {},
           evidence |-> {}, artifacts |-> {}, approvals |-> {}]

(***************************************************************************)
(* The permission every transition needs, whatever it does.                *)
(***************************************************************************)
Role(action) ==
    IF action \in {"approve", "reject"} THEN "reviewer"
    ELSE IF action = "revoke" THEN "revoker" ELSE "author"

Permits(actor, scope, role) == <<actor, scope, role>> \in Grants

Permitted(t) ==
    /\ Permits(t.actor, t.scope, Role(t.action))
    /\ Role(t.action) # "author" => t.actor \in Humans

\* Mutant: the revision the submitter names is not compared.
TargetAtAnyRevision(c, t) == c.status # "absent" /\ c.scope = t.scope

(***************************************************************************)
(* What each action asks of the claim.  Target is the precondition of      *)
(* every action but create: the claim exists in the transition's scope and *)
(* has not moved since the revision the submitter names.                   *)
(***************************************************************************)
Target(c, t) ==
    /\ c.status # "absent"
    /\ c.scope = t.scope
    /\ c.revision = t.expected_revision

\* The registry resolves the reference, for this claim and scope, once.
Binds(registry, bound, c, t) ==
    /\ t.reference.id \in DOMAIN registry
    /\ registry[t.reference.id] =
           [digest |-> t.reference.digest, claim |-> t.claim, scope |-> c.scope]
    /\ t.reference.id \notin bound

\* Mutant: an author may review what others approved.
HasNotApproved(c, actor) == actor \notin c.approvals

Independent(c, actor) == actor \notin c.authors \cup c.approvals

CreateGuard(c, t) == c.status = "absent" /\ t.expected_revision = 0
BindEvidenceGuard(c, t) ==
    Target(c, t) /\ c.status = "draft" /\ Binds(Ledger, c.evidence, c, t)
\* Mutant: artifacts can still be bound after submission.
BindArtifactAnytime(c, t) == Target(c, t) /\ Binds(Manifest, c.artifacts, c, t)
BindArtifactGuard(c, t) ==
    Target(c, t) /\ c.status = "draft" /\ Binds(Manifest, c.artifacts, c, t)
SubmitGuard(c, t) ==
    Target(c, t) /\ c.status = "draft" /\ c.evidence # {} /\ c.artifacts # {}
ReviewGuard(c, t) ==
    Target(c, t) /\ c.status = "submitted" /\ Independent(c, t.actor)
RevokeGuard(c, t) ==
    Target(c, t) /\ c.status = "approved" /\ Independent(c, t.actor)

Accepts(c, t) ==
    /\ Permitted(t)
    /\ CASE t.action = "create" -> CreateGuard(c, t)
         [] t.action = "bind_evidence" -> BindEvidenceGuard(c, t)
         [] t.action = "bind_artifact" -> BindArtifactGuard(c, t)
         [] t.action = "submit" -> SubmitGuard(c, t)
         [] t.action \in {"approve", "reject"} -> ReviewGuard(c, t)
         [] t.action = "revoke" -> RevokeGuard(c, t)

\* Mutant: the action's name where the status belongs.
CreatedAs(t) == [status |-> t.action, scope |-> t.scope, revision |-> 1,
                 authors |-> {t.actor}, evidence |-> {}, artifacts |-> {}, approvals |-> {}]

(***************************************************************************)
(* The claim an accepted transition leaves.  Every author action makes its *)
(* actor an author; every action but create adds one to the revision.      *)
(***************************************************************************)
Created(t) == [status |-> "draft", scope |-> t.scope, revision |-> 1,
               authors |-> {t.actor}, evidence |-> {}, artifacts |-> {}, approvals |-> {}]

Authored(c, t) == [c EXCEPT !.authors = @ \cup {t.actor}]

EvidenceBound(c, t) == [c EXCEPT !.evidence = @ \cup {t.reference.id}]

ArtifactBound(c, t) == [c EXCEPT !.artifacts = @ \cup {t.reference.id}]

Submitted(c) == [c EXCEPT !.status = "submitted"]

Voted(c, t) == [c EXCEPT !.approvals = @ \cup {t.actor}]

Approved(c) ==
    [c EXCEPT !.status = IF Cardinality(c.approvals) >= Quorum
                         THEN "approved" ELSE "submitted"]

Rejected(c) == [c EXCEPT !.status = "rejected"]

Revoked(c) == [c EXCEPT !.status = "revoked"]

\* Mutant: a rejection does not count as a revision.
RevisedUnlessRejected(c) == IF c.status = "rejected" THEN c ELSE [c EXCEPT !.revision = @ + 1]

Revised(c) == [c EXCEPT !.revision = @ + 1]

After(c, t) ==
    CASE t.action = "create" -> Created(t)
      [] t.action = "bind_evidence" -> Revised(Authored(EvidenceBound(c, t), t))
      [] t.action = "bind_artifact" -> Revised(Authored(ArtifactBound(c, t), t))
      [] t.action = "submit" -> Revised(Authored(Submitted(c), t))
      [] t.action = "approve" -> Revised(Approved(Voted(c, t)))
      [] t.action = "reject" -> Revised(Rejected(c))
      [] t.action = "revoke" -> Revised(Revoked(c))
=============================================================================
