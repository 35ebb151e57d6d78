-------------------------- MODULE WorkflowProofs ---------------------------
(***************************************************************************)
(* Proofs about Workflow for every policy, evidence ledger, manifest and   *)
(* set of submitters, and about the gate of ClaimChecks over the claims    *)
(* that it approves, for every plan, policy of checks and contents.        *)
(***************************************************************************)
EXTENDS ClaimChecks, FiniteSetTheorems, TLAPS

(***************************************************************************)
(* Appending one transition moves one claim to After of it and leaves the  *)
(* others; this is all the invariants below need to know of a step.        *)
(***************************************************************************)
LEMMA TransitionCases ==
    ASSUME NEW t \in Transition
    PROVE  /\ t.action \in {"create", "bind_evidence", "bind_artifact", "submit",
                            "approve", "reject", "revoke"}
           /\ t.claim \in ClaimIds /\ t.actor \in Actors /\ t.scope \in Scopes
           /\ t.expected_revision \in Nat
  BY DEF Transition, WorkflowActions, BindActions

\* The guard and the result of an accepted transition, action by action.
LEMMA AcceptedCases ==
    ASSUME NEW c \in Claim, NEW t \in Transition, Accepts(c, t)
    PROVE  /\ Permitted(t)
           /\ \/ t.action = "create" /\ CreateGuard(c, t) /\ After(c, t) = Created(t)
              \/ /\ t.action = "bind_evidence" /\ BindEvidenceGuard(c, t)
                 /\ After(c, t) = Revised(Authored(EvidenceBound(c, t), t))
              \/ /\ t.action = "bind_artifact" /\ BindArtifactGuard(c, t)
                 /\ After(c, t) = Revised(Authored(ArtifactBound(c, t), t))
              \/ /\ t.action = "submit" /\ SubmitGuard(c, t)
                 /\ After(c, t) = Revised(Authored(Submitted(c), t))
              \/ /\ t.action = "approve" /\ ReviewGuard(c, t)
                 /\ After(c, t) = Revised(Approved(Voted(c, t)))
              \/ /\ t.action = "reject" /\ ReviewGuard(c, t)
                 /\ After(c, t) = Revised(Rejected(c))
              \/ /\ t.action = "revoke" /\ RevokeGuard(c, t)
                 /\ After(c, t) = Revised(Revoked(c))
  BY TransitionCases DEF Accepts, After

\* Each update of a claim yields a claim.
LEMMA UpdatesAreClaims ==
    ASSUME NEW c \in Claim, NEW t \in Transition
    PROVE  /\ Created(t) \in Claim /\ Authored(c, t) \in Claim
           /\ Submitted(c) \in Claim /\ Voted(c, t) \in Claim /\ Approved(c) \in Claim
           /\ Rejected(c) \in Claim /\ Revoked(c) \in Claim /\ Revised(c) \in Claim
           /\ t.reference.id \in EvidenceIds => EvidenceBound(c, t) \in Claim
           /\ t.reference.id \in ArtifactIds => ArtifactBound(c, t) \in Claim
  <1>1. t.actor \in Actors /\ t.scope \in Scopes
    BY TransitionCases
  <1>2. Created(t) \in Claim
    BY <1>1 DEF Created, Claim, ClaimStatuses
  <1>3. Authored(c, t) \in Claim
    BY <1>1 DEF Authored, Claim
  <1>4. Submitted(c) \in Claim
    BY DEF Submitted, Claim, ClaimStatuses
  <1>5. Voted(c, t) \in Claim
    BY <1>1 DEF Voted, Claim
  <1>6. Approved(c) \in Claim
    BY DEF Approved, Claim, ClaimStatuses
  <1>7. Rejected(c) \in Claim
    BY DEF Rejected, Claim, ClaimStatuses
  <1>8. Revoked(c) \in Claim
    BY DEF Revoked, Claim, ClaimStatuses
  <1>9. Revised(c) \in Claim
    BY DEF Revised, Claim
  <1>10. t.reference.id \in EvidenceIds => EvidenceBound(c, t) \in Claim
    BY DEF EvidenceBound, Claim
  <1>11. t.reference.id \in ArtifactIds => ArtifactBound(c, t) \in Claim
    BY DEF ArtifactBound, Claim
  <1> QED
    BY <1>2, <1>3, <1>4, <1>5, <1>6, <1>7, <1>8, <1>9, <1>10, <1>11

LEMMA AfterIsClaim ==
    ASSUME NEW c \in Claim, NEW t \in Transition, Accepts(c, t)
    PROVE  After(c, t) \in Claim
  <1>1. BindEvidenceGuard(c, t) => t.reference.id \in EvidenceIds
    BY PolicyAssumption DEF BindEvidenceGuard, Binds
  <1>2. BindArtifactGuard(c, t) => t.reference.id \in ArtifactIds
    BY PolicyAssumption DEF BindArtifactGuard, Binds
  <1> QED
    BY <1>1, <1>2, AcceptedCases, UpdatesAreClaims

-----------------------------------------------------------------------------
\* A step either leaves claims and records alone or appends one accepted intent.
LEMMA StepCases ==
    ASSUME TypeOK, [Next]_vars
    PROVE  \/ UNCHANGED <<claims, records>>
           \/ \E i \in intents : Append1(i)
  BY DEF Next, vars, Decide, Withdraw, Create, BindEvidence, BindArtifact, Submit,
         Approve, Reject, Revoke

LEMMA IntentsStep ==
    ASSUME TypeOK, [Next]_vars
    PROVE  \/ intents' \subseteq intents
           \/ \E t \in Commands : Decide(t)
  BY DEF Next, vars, Withdraw, Create, BindEvidence, BindArtifact, Submit,
         Approve, Reject, Revoke, Append1

LEMMA DecidedIsIntent ==
    ASSUME TypeOK, NEW t \in Commands, Decide(t)
    PROVE  intents' \subseteq Intent
  <1>1. t \in Transition /\ claims[t.claim] \in Claim
    BY CommandAssumption, TransitionCases DEF TypeOK
  <1>2. [t EXCEPT !.expected_revision = claims[t.claim].revision] \in Transition
    BY <1>1 DEF Transition, Claim
  <1>3. Content(claims[t.claim]) \in
            [evidence: SUBSET EvidenceIds, artifacts: SUBSET ArtifactIds]
    BY <1>1 DEF Content, Claim
  <1> QED
    BY <1>2, <1>3 DEF Decide, TypeOK, Intent

LEMMA InitTypeOK == Init => TypeOK
  BY DEF Init, TypeOK, Absent, Claim

LEMMA NextTypeOK == TypeOK /\ [Next]_vars => TypeOK'
  <1> SUFFICES ASSUME TypeOK, [Next]_vars PROVE TypeOK'
    OBVIOUS
  <1>1. intents' \subseteq Intent
    BY IntentsStep, DecidedIsIntent DEF TypeOK
  <1>2. CASE UNCHANGED <<claims, records>>
    BY <1>1, <1>2 DEF TypeOK
  <1>3. ASSUME NEW i \in intents, Append1(i)
        PROVE  TypeOK'
    <2>1. i \in Intent /\ i.transition \in Transition
      BY DEF TypeOK, Intent
    <2>2. claims[i.transition.claim] \in Claim
      BY <2>1, TransitionCases DEF TypeOK
    <2>3. After(claims[i.transition.claim], i.transition) \in Claim
      BY <1>3, <2>1, <2>2, AfterIsClaim DEF Append1
    <2>4. claims' \in [ClaimIds -> Claim]
      BY <1>3, <2>3 DEF Append1, TypeOK
    <2>5. records' \in Seq(Intent)
      BY <1>3, <2>1 DEF Append1, TypeOK
    <2> QED
      BY <1>1, <2>4, <2>5 DEF TypeOK
  <1> QED
    BY <1>2, <1>3, StepCases

(***************************************************************************)
(* Every reachable state of the lifecycle is well typed: replay builds     *)
(* only claims its constructor accepts, from whatever was submitted.       *)
(***************************************************************************)
THEOREM TypeCorrect == Spec => []TypeOK
  BY InitTypeOK, NextTypeOK, PTL DEF Spec

-----------------------------------------------------------------------------
(***************************************************************************)
(* Endorsement.  The invariant is inductive given the types: reviewers     *)
(* vote only on a submitted claim that is short of the quorum, so one vote *)
(* can reach the quorum but not exceed it.                                 *)
(***************************************************************************)
LEMMA VoteCount ==
    ASSUME NEW c \in Claim, NEW t \in Transition, t.actor \notin c.approvals
    PROVE  /\ Cardinality(c.approvals) \in Nat
           /\ Cardinality(c.approvals \cup {t.actor}) = Cardinality(c.approvals) + 1
  <1>1. c.approvals \subseteq Actors
    BY DEF Claim
  <1>2. IsFiniteSet(c.approvals)
    BY <1>1, PolicyAssumption, FS_Subset DEF AuthorityPolicy
  <1> QED
    BY <1>2, FS_AddElement, FS_CardinalityType

LEMMA AfterEndorsed ==
    ASSUME NEW c \in Claim, NEW t \in Transition, Accepts(c, t), Endorsed(t.claim, c)
    PROVE  Endorsed(t.claim, After(c, t))
  <1>1. c.status \in ClaimStatuses \cup {"absent"} /\ c.revision \in Nat
    BY DEF Claim
  <1>2. CASE t.action = "create" /\ After(c, t) = Created(t)
    BY <1>2 DEF Endorsed, Created
  <1>3. CASE BindEvidenceGuard(c, t) /\ After(c, t) = Revised(Authored(EvidenceBound(c, t), t))
    BY <1>3 DEF Endorsed, BindEvidenceGuard, Binds, Revised, Authored, EvidenceBound, Claim
  <1>4. CASE BindArtifactGuard(c, t) /\ After(c, t) = Revised(Authored(ArtifactBound(c, t), t))
    BY <1>4 DEF Endorsed, BindArtifactGuard, Binds, Revised, Authored, ArtifactBound, Claim
  <1>5. CASE SubmitGuard(c, t) /\ After(c, t) = Revised(Authored(Submitted(c), t))
    <2>1. Cardinality({}) = 0 /\ Quorum \in Nat /\ Quorum >= 1
      BY FS_EmptySet, PolicyAssumption DEF AuthorityPolicy
    <2>2. c.approvals = {} /\ c.evidence # {} /\ c.artifacts # {}
      BY <1>5 DEF SubmitGuard, Endorsed
    <2> DEFINE d == After(c, t)
    <2>3. /\ d.approvals = c.approvals /\ d.scope = c.scope /\ d.evidence = c.evidence
          /\ d.artifacts = c.artifacts /\ d.status = "submitted"
      BY <1>5 DEF Revised, Authored, Submitted, Claim
    <2> HIDE DEF d
    <2>4. Cardinality(d.approvals) < Quorum
      BY <2>1, <2>2, <2>3
    <2>5. Endorsed(t.claim, d)
      BY <2>2, <2>3, <2>4 DEF Endorsed
    <2> QED
      BY <2>5 DEF d
  <1>6. CASE /\ t.action = "approve" /\ ReviewGuard(c, t)
             /\ After(c, t) = Revised(Approved(Voted(c, t)))
    <2>a. Permitted(t) /\ Role(t.action) = "reviewer"
      BY <1>6, AcceptedCases DEF Role
    <2>b. c.scope = t.scope
      BY <1>6 DEF ReviewGuard, Target
    <2>1. t.actor \in Humans /\ Permits(t.actor, c.scope, "reviewer")
      BY <2>a, <2>b DEF Permitted
    <2>2. t.actor \notin c.authors /\ t.actor \notin c.approvals /\ c.status = "submitted"
      BY <1>6 DEF ReviewGuard, Independent
    <2>3. /\ Cardinality(c.approvals \cup {t.actor}) = Cardinality(c.approvals) + 1
          /\ Cardinality(c.approvals) \in Nat /\ Quorum \in Nat
      BY <2>2, VoteCount, PolicyAssumption DEF AuthorityPolicy
    <2>4. Cardinality(c.approvals) < Quorum /\ c.evidence # {} /\ c.artifacts # {}
      BY <2>2 DEF Endorsed
    <2> DEFINE d == After(c, t)
    <2>5. /\ d.approvals = c.approvals \cup {t.actor} /\ d.authors = c.authors
          /\ d.scope = c.scope /\ d.evidence = c.evidence /\ d.artifacts = c.artifacts
          /\ d.status = IF Cardinality(c.approvals \cup {t.actor}) >= Quorum
                        THEN "approved" ELSE "submitted"
      BY <1>6 DEF Revised, Approved, Voted, Claim
    <2> HIDE DEF d
    <2>6. /\ d.status \in {"submitted", "rejected"} => Cardinality(d.approvals) < Quorum
          /\ d.status \in {"approved", "revoked"} => Cardinality(d.approvals) = Quorum
          /\ d.status \in {"approved", "submitted"}
      BY <2>3, <2>4, <2>5
    <2>7. Endorsed(t.claim, d)
      BY <2>1, <2>2, <2>4, <2>5, <2>6 DEF Endorsed
    <2> QED
      BY <2>7 DEF d
  <1>7. CASE ReviewGuard(c, t) /\ After(c, t) = Revised(Rejected(c))
    BY <1>7 DEF Endorsed, ReviewGuard, Revised, Rejected, Claim
  <1>8. CASE RevokeGuard(c, t) /\ After(c, t) = Revised(Revoked(c))
    BY <1>8 DEF Endorsed, RevokeGuard, Revised, Revoked, Claim
  <1> QED
    BY <1>2, <1>3, <1>4, <1>5, <1>6, <1>7, <1>8, AcceptedCases

(***************************************************************************)
(* One step of the lifecycle, for any predicate of a claim that an         *)
(* accepted transition preserves: stated for the two uses below as what a  *)
(* step does to each claim.                                                *)
(***************************************************************************)
LEMMA ClaimStep ==
    ASSUME TypeOK, [Next]_vars, NEW k \in ClaimIds
    PROVE  \/ claims'[k] = claims[k]
           \/ \E i \in intents :
                 /\ i.transition \in Transition /\ i.transition.claim = k
                 /\ claims[k] \in Claim /\ Accepts(claims[k], i.transition)
                 /\ claims'[k] = After(claims[k], i.transition)
                 /\ records' = Append(records, i)
  <1>1. CASE UNCHANGED <<claims, records>>
    BY <1>1
  <1>2. ASSUME NEW i \in intents, Append1(i)
        PROVE  \/ claims'[k] = claims[k]
               \/ /\ i.transition \in Transition /\ i.transition.claim = k
                  /\ claims[k] \in Claim /\ Accepts(claims[k], i.transition)
                  /\ claims'[k] = After(claims[k], i.transition)
                  /\ records' = Append(records, i)
    BY <1>2 DEF Append1, TypeOK, Intent
  <1> QED
    BY <1>1, <1>2, StepCases

LEMMA NextEndorsed == TypeOK /\ ApprovalIsEndorsed /\ [Next]_vars => ApprovalIsEndorsed'
  BY ClaimStep, AfterEndorsed DEF ApprovalIsEndorsed

(***************************************************************************)
(* For every policy and quorum: an approved claim carries exactly a quorum *)
(* of approvals by independent humans granted the reviewer role in its     *)
(* scope, over content registered for it.                                  *)
(***************************************************************************)
THEOREM ApprovalEndorsed == Spec => []ApprovalIsEndorsed
  <1>1. Init => ApprovalIsEndorsed
    BY DEF Init, ApprovalIsEndorsed, Endorsed, Absent
  <1> QED
    BY <1>1, NextEndorsed, TypeCorrect, PTL DEF Spec

-----------------------------------------------------------------------------
LEMMA AfterFrozen ==
    ASSUME NEW c \in Claim, NEW t \in Transition, Accepts(c, t)
    PROVE  Frozen(c, After(c, t))
  <1>1. CASE c.status \in {"absent", "draft"}
    BY <1>1 DEF Frozen
  <1>2. CASE /\ t.action = "approve" /\ ReviewGuard(c, t)
             /\ After(c, t) = Revised(Approved(Voted(c, t)))
    BY <1>2 DEF ReviewGuard, Frozen, Content, Revised, Approved, Voted, Claim
  <1>3. CASE ReviewGuard(c, t) /\ After(c, t) = Revised(Rejected(c))
    BY <1>3 DEF ReviewGuard, Frozen, Content, Revised, Rejected, Claim
  <1>4. CASE RevokeGuard(c, t) /\ After(c, t) = Revised(Revoked(c))
    BY <1>4 DEF RevokeGuard, Frozen, Content, Revised, Revoked, Claim
  <1> QED
    BY <1>1, <1>2, <1>3, <1>4, AcceptedCases
    DEF CreateGuard, BindEvidenceGuard, BindArtifactGuard, SubmitGuard

(***************************************************************************)
(* No step of any submitter changes the content, authorship or scope of a  *)
(* submitted claim, or leaves a final status.                              *)
(***************************************************************************)
THEOREM ContentFrozen == Spec => FrozenAfterSubmit
  <1>1. TypeOK /\ [Next]_vars => [\A k \in ClaimIds : Frozen(claims[k], claims'[k])]_vars
    <2> SUFFICES ASSUME TypeOK, [Next]_vars, NEW k \in ClaimIds
                 PROVE  Frozen(claims[k], claims'[k])
      OBVIOUS
    <2>1. Frozen(claims[k], claims[k])
      BY DEF Frozen
    <2> QED
      BY <2>1, ClaimStep, AfterFrozen
  <1> QED
    BY <1>1, TypeCorrect, PTL DEF Spec, FrozenAfterSubmit

-----------------------------------------------------------------------------
(***************************************************************************)
(* Reviewed as seen.  The strengthening says why the revision identifies   *)
(* the content: an intent's revision is never ahead of its claim's, and    *)
(* while they agree the content is the one its submitter saw.              *)
(***************************************************************************)
IntentsCurrent ==
    \A i \in intents :
        LET c == claims[i.transition.claim]
        IN  /\ i.transition.expected_revision <= c.revision
            /\ i.transition.expected_revision = c.revision => i.seen = Content(c)

AbsentAtZero == \A k \in ClaimIds : claims[k].status = "absent" => claims[k].revision = 0

ReviewsFollowSubmit ==
    \A i \in DOMAIN records :
        LET t == records[i].transition
        IN  Role(t.action) # "author" => claims[t.claim].status \notin {"absent", "draft"}

SeenInv == IntentsCurrent /\ AbsentAtZero /\ ReviewsFollowSubmit /\ ReviewedAsSeen

\* Every accepted transition adds exactly one to the revision of its claim, and
\* was decided at the revision it found.
LEMMA AfterRevision ==
    ASSUME NEW c \in Claim, NEW t \in Transition, Accepts(c, t),
           c.status = "absent" => c.revision = 0
    PROVE  /\ After(c, t).revision = c.revision + 1
           /\ After(c, t).status # "absent"
           /\ t.expected_revision = c.revision
           /\ Role(t.action) # "author" =>
                  /\ c.status \notin {"absent", "draft"}
                  /\ Content(After(c, t)) = Content(c)
                  /\ After(c, t).status \notin {"absent", "draft"}
  <1>1. c.revision \in Nat
    BY DEF Claim
  <1>2. CASE t.action = "create" /\ CreateGuard(c, t) /\ After(c, t) = Created(t)
    BY <1>2 DEF CreateGuard, Created, Role
  <1>3. CASE /\ t.action = "bind_evidence" /\ BindEvidenceGuard(c, t)
             /\ After(c, t) = Revised(Authored(EvidenceBound(c, t), t))
    BY <1>3, <1>1 DEF BindEvidenceGuard, Target, Revised, Authored, EvidenceBound, Role, Claim
  <1>4. CASE /\ t.action = "bind_artifact" /\ BindArtifactGuard(c, t)
             /\ After(c, t) = Revised(Authored(ArtifactBound(c, t), t))
    BY <1>4, <1>1 DEF BindArtifactGuard, Target, Revised, Authored, ArtifactBound, Role, Claim
  <1>5. CASE /\ t.action = "submit" /\ SubmitGuard(c, t)
             /\ After(c, t) = Revised(Authored(Submitted(c), t))
    BY <1>5, <1>1 DEF SubmitGuard, Target, Revised, Authored, Submitted, Role, Claim
  <1>6. CASE ReviewGuard(c, t) /\ After(c, t) = Revised(Approved(Voted(c, t)))
    BY <1>6, <1>1 DEF ReviewGuard, Target, Revised, Approved, Voted, Content, Claim
  <1>7. CASE ReviewGuard(c, t) /\ After(c, t) = Revised(Rejected(c))
    BY <1>7, <1>1 DEF ReviewGuard, Target, Revised, Rejected, Content, Claim
  <1>8. CASE RevokeGuard(c, t) /\ After(c, t) = Revised(Revoked(c))
    BY <1>8, <1>1 DEF RevokeGuard, Target, Revised, Revoked, Content, Claim
  <1> QED
    BY <1>2, <1>3, <1>4, <1>5, <1>6, <1>7, <1>8, AcceptedCases

LEMMA NextSeen == TypeOK /\ SeenInv /\ [Next]_vars => SeenInv'
  <1> SUFFICES ASSUME TypeOK, SeenInv, [Next]_vars PROVE SeenInv'
    OBVIOUS
  <1>1. CASE UNCHANGED <<claims, records>>
    <2>1. IntentsCurrent'
      <3>1. CASE intents' \subseteq intents
        BY <1>1, <3>1 DEF SeenInv, IntentsCurrent
      <3>2. ASSUME NEW t \in Commands, Decide(t) PROVE IntentsCurrent'
        <4>1. t \in Transition /\ claims[t.claim] \in Claim
          BY CommandAssumption, TransitionCases DEF TypeOK
        <4> DEFINE u == [t EXCEPT !.expected_revision = claims[t.claim].revision]
        <4>2. u.claim = t.claim /\ u.expected_revision = claims[t.claim].revision
          BY <4>1 DEF Transition
        <4>3. claims[t.claim].revision \in Nat
          BY <4>1 DEF Claim
        <4> HIDE DEF u
        <4>4. intents' = intents \cup {[transition |-> u, seen |-> Content(claims[t.claim])]}
          BY <3>2 DEF Decide, u
        <4> QED
          BY <1>1, <4>2, <4>3, <4>4 DEF SeenInv, IntentsCurrent
      <3> QED
        BY <3>1, <3>2, IntentsStep
    <2> QED
      BY <1>1, <2>1 DEF SeenInv, AbsentAtZero, ReviewsFollowSubmit, ReviewedAsSeen
  <1>2. ASSUME NEW i \in intents, Append1(i) PROVE SeenInv'
    <2> DEFINE t == i.transition
               c == claims[t.claim]
               d == After(c, t)
    <2>1. t \in Transition /\ t.claim \in ClaimIds /\ c \in Claim /\ Accepts(c, t)
      BY <1>2, TransitionCases DEF Append1, TypeOK, Intent
    <2>2. /\ d.revision = c.revision + 1 /\ d.status # "absent"
          /\ t.expected_revision = c.revision
          /\ Role(t.action) # "author" => /\ c.status \notin {"absent", "draft"}
                                          /\ Content(d) = Content(c)
                                          /\ d.status \notin {"absent", "draft"}
      BY <2>1, AfterRevision DEF SeenInv, AbsentAtZero
    <2>3. Frozen(c, d)
      BY <2>1, AfterFrozen
    <2>4. c.revision \in Nat
      BY <2>1 DEF Claim
    <2>5. /\ claims' = [claims EXCEPT ![t.claim] = d]
          /\ records' = Append(records, i) /\ intents' = intents
      BY <1>2 DEF Append1
    <2>6. /\ claims'[t.claim] = d
          /\ \A k \in ClaimIds \ {t.claim} : claims'[k] = claims[k]
      BY <2>1, <2>5 DEF TypeOK
    <2>7. i.seen = Content(c)
      BY <2>2 DEF SeenInv, IntentsCurrent
    <2> HIDE DEF d
    <2>8. IntentsCurrent'
      <3> SUFFICES ASSUME NEW j \in intents
                   PROVE  LET e == claims'[j.transition.claim]
                          IN  /\ j.transition.expected_revision <= e.revision
                              /\ j.transition.expected_revision = e.revision =>
                                     j.seen = Content(e)
        BY <2>5 DEF IntentsCurrent, Content
      <3>1. /\ j.transition.claim \in ClaimIds /\ j.transition.expected_revision \in Nat
        BY TransitionCases DEF TypeOK, Intent
      <3>2. CASE j.transition.claim = t.claim
        <4>1. j.transition.expected_revision <= c.revision
          BY <3>2 DEF SeenInv, IntentsCurrent
        <4> QED
          BY <3>1, <3>2, <4>1, <2>2, <2>4, <2>6
      <3>3. CASE j.transition.claim # t.claim
        BY <3>1, <3>3, <2>6 DEF SeenInv, IntentsCurrent
      <3> QED
        BY <3>2, <3>3
    <2>9. AbsentAtZero'
      BY <2>2, <2>6 DEF SeenInv, AbsentAtZero
    <2>10. ASSUME NEW n \in DOMAIN records',
                  Role(records'[n].transition.action) # "author"
           PROVE  LET r == records'[n]
                      e == claims'[r.transition.claim]
                  IN  e.status \notin {"absent", "draft"} /\ r.seen = Content(e)
      <3>1. CASE n \in DOMAIN records
        <4> DEFINE r == records[n]
        <4>a. records'[n] = r
          BY <3>1, <2>5 DEF TypeOK
        <4>b. r \in Intent
          BY <3>1 DEF TypeOK
        <4>1. records'[n] = r /\ r \in Intent /\ r.transition.claim \in ClaimIds
          BY <4>a, <4>b, TransitionCases DEF Intent
        <4>2. /\ claims[r.transition.claim].status \notin {"absent", "draft"}
              /\ r.seen = Content(claims[r.transition.claim])
          BY <2>10, <3>1, <4>1 DEF SeenInv, ReviewsFollowSubmit, ReviewedAsSeen
        <4>3. CASE r.transition.claim = t.claim
          BY <4>1, <4>2, <4>3, <2>3, <2>6 DEF Frozen
        <4>4. CASE r.transition.claim # t.claim
          BY <4>1, <4>2, <4>4, <2>6
        <4> QED
          BY <4>3, <4>4
      <3>2. CASE n \notin DOMAIN records
        <4>1. records'[n] = i
          BY <3>2, <2>5 DEF TypeOK
        <4> QED
          BY <4>1, <2>10, <2>2, <2>6, <2>7
      <3> QED
        BY <3>1, <3>2
    <2> QED
      BY <2>8, <2>9, <2>10 DEF SeenInv, ReviewsFollowSubmit, ReviewedAsSeen, Content
  <1> QED
    BY <1>1, <1>2, StepCases

(***************************************************************************)
(* For every interleaving of submitters working from stale reads: each     *)
(* recorded review or revocation was decided on exactly the content the    *)
(* claim has, then and ever after.                                         *)
(***************************************************************************)
THEOREM ReviewsSawContent == Spec => []ReviewedAsSeen
  <1>1. Init => SeenInv
    BY DEF Init, SeenInv, IntentsCurrent, AbsentAtZero, ReviewsFollowSubmit, ReviewedAsSeen,
           Absent
  <1>2. SeenInv => ReviewedAsSeen
    BY DEF SeenInv
  <1> QED
    BY <1>1, <1>2, NextSeen, TypeCorrect, PTL DEF Spec

-----------------------------------------------------------------------------
(***************************************************************************)
(* Revisions account for the receipts.  Appending a receipt of claim k     *)
(* adds the new position to the receipts of k and to no other's.           *)
(***************************************************************************)
LEMMA ReceiptsFinite ==
    ASSUME NEW rs, NEW k, NEW n \in Nat
    PROVE  /\ IsFiniteSet(ReceiptsOf(rs, k, n))
           /\ Cardinality(ReceiptsOf(rs, k, n)) \in Nat
  <1>1. IsFiniteSet(1..n)
    BY FS_Interval
  <1>2. ReceiptsOf(rs, k, n) \subseteq 1..n
    BY DEF ReceiptsOf
  <1> QED
    BY <1>1, <1>2, FS_Subset, FS_CardinalityType

LEMMA ReceiptsGrow ==
    ASSUME NEW rs \in Seq(Intent), NEW i \in Intent, NEW k
    PROVE  /\ \A n \in 0..Len(rs) : ReceiptsOf(Append(rs, i), k, n) = ReceiptsOf(rs, k, n)
           /\ Cardinality(ReceiptsOf(Append(rs, i), k, Len(rs) + 1)) =
                  IF i.transition.claim = k THEN Cardinality(ReceiptsOf(rs, k, Len(rs))) + 1
                  ELSE Cardinality(ReceiptsOf(rs, k, Len(rs)))
  <1> DEFINE n == Len(rs)
             rt == Append(rs, i)
  <1>1. n \in Nat /\ rt[n + 1] = i /\ \A j \in 1..n : rt[j] = rs[j]
    OBVIOUS
  <1> HIDE DEF rt
  <1>2. \A m \in 0..n : ReceiptsOf(rt, k, m) = ReceiptsOf(rs, k, m)
    BY <1>1 DEF ReceiptsOf
  <1>3. CASE i.transition.claim = k
    <2>1. ReceiptsOf(rt, k, n + 1) = ReceiptsOf(rs, k, n) \cup {n + 1}
      BY <1>1, <1>3 DEF ReceiptsOf
    <2>2. n + 1 \notin ReceiptsOf(rs, k, n)
      BY <1>1 DEF ReceiptsOf
    <2>3. IsFiniteSet(ReceiptsOf(rs, k, n))
      BY <1>1, ReceiptsFinite
    <2>4. Cardinality(ReceiptsOf(rs, k, n) \cup {n + 1}) = Cardinality(ReceiptsOf(rs, k, n)) + 1
      BY <2>2, <2>3, FS_AddElement
    <2> QED
      BY <1>2, <1>3, <2>1, <2>4 DEF rt
  <1>4. CASE i.transition.claim # k
    <2>1. ReceiptsOf(rt, k, n + 1) = ReceiptsOf(rs, k, n)
      BY <1>1, <1>4 DEF ReceiptsOf
    <2> QED
      BY <1>2, <1>4, <2>1 DEF rt
  <1> QED
    BY <1>3, <1>4

LEMMA NextRevisions ==
    TypeOK /\ AbsentAtZero /\ RevisionsAccount /\ [Next]_vars => RevisionsAccount'
  <1> SUFFICES ASSUME TypeOK, AbsentAtZero, RevisionsAccount, [Next]_vars
               PROVE  RevisionsAccount'
    OBVIOUS
  <1>1. CASE UNCHANGED <<claims, records>>
    BY <1>1 DEF RevisionsAccount, ReceiptsOf
  <1>2. ASSUME NEW i \in intents, Append1(i) PROVE RevisionsAccount'
    <2> DEFINE t == i.transition
               c == claims[t.claim]
               n == Len(records)
    <2>1. /\ i \in Intent /\ t \in Transition /\ t.claim \in ClaimIds /\ c \in Claim
          /\ Accepts(c, t) /\ n \in Nat /\ records \in Seq(Intent)
      BY <1>2, TransitionCases DEF Append1, TypeOK, Intent
    <2>2. After(c, t).revision = c.revision + 1 /\ t.expected_revision = c.revision
      BY <2>1, AfterRevision DEF AbsentAtZero
    <2>3. claims' = [claims EXCEPT ![t.claim] = After(c, t)] /\ records' = Append(records, i)
      BY <1>2 DEF Append1
    <2>4. /\ Len(records') = n + 1 /\ DOMAIN records' = 1..(n + 1)
          /\ records'[n + 1] = i /\ \A j \in 1..n : records'[j] = records[j]
      BY <2>1, <2>3
    <2>5. \A k : /\ \A m \in 0..n : ReceiptsOf(records', k, m) = ReceiptsOf(records, k, m)
                 /\ Cardinality(ReceiptsOf(records', k, n + 1)) =
                        IF t.claim = k THEN Cardinality(ReceiptsOf(records, k, n)) + 1
                        ELSE Cardinality(ReceiptsOf(records, k, n))
      BY <2>1, <2>3, ReceiptsGrow
    <2>6. ASSUME NEW k \in ClaimIds
          PROVE  claims'[k].revision = Cardinality(ReceiptsOf(records', k, n + 1))
      <3>1. claims[k].revision = Cardinality(ReceiptsOf(records, k, n))
        BY DEF RevisionsAccount
      <3>2. claims'[k] = IF k = t.claim THEN After(c, t) ELSE claims[k]
        BY <2>1, <2>3 DEF TypeOK
      <3> QED
        BY <2>2, <2>5, <3>1, <3>2
    <2>7. ASSUME NEW j \in 1..(n + 1)
          PROVE  records'[j].transition.expected_revision =
                     Cardinality(ReceiptsOf(records', records'[j].transition.claim, j - 1))
      <3>1. CASE j = n + 1
        <4>1. t.expected_revision = Cardinality(ReceiptsOf(records, t.claim, n))
          BY <2>1, <2>2 DEF RevisionsAccount
        <4>2. records'[j] = i /\ j - 1 = n
          BY <2>1, <2>4, <3>1
        <4>3. ReceiptsOf(records', t.claim, n) = ReceiptsOf(records, t.claim, n)
          BY <2>1, <2>5
        <4> QED
          BY <4>1, <4>2, <4>3
      <3>2. CASE j # n + 1
        <4>1. j \in DOMAIN records /\ records'[j] = records[j] /\ j - 1 \in 0..n
          BY <2>1, <2>4, <3>2
        <4> QED
          BY <2>5, <4>1 DEF RevisionsAccount
      <3> QED
        BY <3>1, <3>2
    <2> QED
      BY <2>4, <2>6, <2>7 DEF RevisionsAccount
  <1> QED
    BY <1>1, <1>2, StepCases

(***************************************************************************)
(* For every interleaving: the check by which WorkflowState refuses to be  *)
(* built (the claim revisions account for every record) never fires on a   *)
(* replay that reached the end.                                            *)
(***************************************************************************)
THEOREM RevisionsAccounted == Spec => []RevisionsAccount
  <1>1. Init => SeenInv
    BY DEF Init, SeenInv, IntentsCurrent, AbsentAtZero, ReviewsFollowSubmit,
           ReviewedAsSeen, Absent
  <1>2. ASSUME Init PROVE RevisionsAccount
    <2>1. records = <<>> /\ \A k \in ClaimIds : claims[k].revision = 0
      BY <1>2 DEF Init, Absent
    <2>2. \A k \in ClaimIds : Cardinality(ReceiptsOf(records, k, Len(records))) = 0
      <3>1. \A k \in ClaimIds : ReceiptsOf(records, k, Len(records)) = {}
        BY <2>1 DEF ReceiptsOf
      <3> QED
        BY <3>1, FS_EmptySet
    <2>3. DOMAIN records = {}
      BY <2>1
    <2> QED
      BY <2>1, <2>2, <2>3 DEF RevisionsAccount
  <1>3. SeenInv => AbsentAtZero
    BY DEF SeenInv
  <1> QED
    BY <1>1, <1>2, <1>3, NextSeen, NextRevisions, TypeCorrect, PTL DEF Spec

-----------------------------------------------------------------------------
(***************************************************************************)
(* The gate over an approved claim (ClaimChecks).  It keeps no state: what *)
(* it answers about the newest bundle follows from what it compared, from  *)
(* the outcomes of the rules and from ApprovalIsEndorsed.                  *)
(***************************************************************************)
\* The outcome is "pass" only if every rule passed.
LEMMA OutcomePasses ==
    ASSUME NEW plan, NEW contents, Outcome(Results(plan, contents)) = "pass", NEW i \in DOMAIN plan.rules
    PROVE  RuleOutcome(plan.rules[i], contents) = "pass"
<1> DEFINE results == Results(plan, contents)
<1>1. DOMAIN results = DOMAIN plan.rules /\ results[i] = RuleOutcome(plan.rules[i], contents)
  BY DEF Results
<1>2. RuleOutcome(plan.rules[i], contents) \in {"pass", "fail", "unknown"}
  BY DEF RuleOutcome, Passed
<1> HIDE DEF results
<1>3. results[i] # "fail" /\ results[i] # "unknown"
  BY <1>1 DEF Outcome, results
<1> QED BY <1>1, <1>2, <1>3

\* A rule that passes is true of the committed contents, if it was given those.
LEMMA PassedHolds ==
    ASSUME NEW rule, NEW contents, RuleOutcome(rule, contents) = "pass",
           rule.operator \in {"exists", "equals", "integer_range", "same_value", "bytes_equal"},
           \A a \in RuleInputs(rule) : contents[a] = Manifest[a].digest
    PROVE  Holds(rule)
<1> DEFINE v == At(Documents[contents[rule.artifact]], rule.path)
           w == At(Documents[contents[rule.other]], rule.other_path)
<1>1. contents[rule.artifact] = Manifest[rule.artifact].digest
  BY DEF RuleInputs, JsonInputs
<1>2. rule.operator \in {"same_value", "bytes_equal"} => contents[rule.other] = Manifest[rule.other].digest
  BY DEF RuleInputs, JsonInputs
<1>3. CASE rule.operator = "bytes_equal"
  BY <1>1, <1>2, <1>3 DEF RuleOutcome, Passed, Holds
<1>4. CASE rule.operator = "exists"
  BY <1>1, <1>4 DEF RuleOutcome, Passed, Holds
<1>5. CASE rule.operator = "integer_range"
  BY <1>1, <1>5 DEF RuleOutcome, Undecided, Passed, Holds
<1>6. CASE rule.operator = "equals"
  BY <1>1, <1>6 DEF RuleOutcome, Undecided, Passed, Holds
<1>7. CASE rule.operator = "same_value"
  BY <1>1, <1>2, <1>7 DEF RuleOutcome, Undecided, Passed, Holds
<1> QED BY <1>3, <1>4, <1>5, <1>6, <1>7

\* What an answer that is no error has compared.
LEMMA AnswerFacts ==
    ASSUME NEW policy \in Policies, NEW head, NEW contents, NEW evidence,
           ~VerifyClaimChecks(Present, policy, contents, head, evidence).raised
    PROVE  LET plan == Plans[policy.plan_digest]
               c == claims[policy.claim]
               inputs == [a \in DOMAIN plan.inputs |-> contents[a]]
           IN  /\ Presentable(Present, policy, contents, head, evidence)
               /\ contents[policy.plan_artifact] = policy.plan_digest
               /\ Checkable(plan, c, policy, contents, evidence)
               /\ inputs = plan.inputs
               /\ ReportRecomputed(policy, contents, Results(plan, contents))
               /\ VerifyClaimChecks(Present, policy, contents, head, evidence) =
                      [raised |-> FALSE, status |-> c.status, results |-> Results(plan, contents)]
<1> DEFINE plan == Plans[policy.plan_digest]
           c == claims[policy.claim]
           inputs == [a \in DOMAIN plan.inputs |-> contents[a]]
<1>1. Presentable(Present, policy, contents, head, evidence)
  BY DEF VerifyClaimChecks, Raised
<1>2. contents[policy.plan_artifact] = policy.plan_digest /\ Present.claims[policy.claim] = c
  BY <1>1 DEF Presentable, PlanPinned, Present
<1>3. Checkable(plan, c, policy, contents, evidence)
  BY <1>1, <1>2 DEF VerifyClaimChecks, Raised
<1>4. inputs = plan.inputs
  BY <1>3 DEF Checkable, Evaluable
<1>5. ReportRecomputed(policy, contents, Results(plan, contents))
  BY <1>1, <1>2, <1>3 DEF VerifyClaimChecks, Raised
<1>6. VerifyClaimChecks(Present, policy, contents, head, evidence) =
          [raised |-> FALSE, status |-> c.status, results |-> Results(plan, contents)]
  BY <1>1, <1>2, <1>3, <1>5 DEF VerifyClaimChecks
<1> QED BY <1>1, <1>2, <1>3, <1>4, <1>5, <1>6

LEMMA AnswersAreEarned ==
    ASSUME ApprovalIsEndorsed, NEW policy \in Policies, NEW head, NEW contents, NEW evidence
    PROVE  AnswerEarned(policy, head, contents, evidence)
<1> DEFINE plan == Plans[policy.plan_digest]
           c == claims[policy.claim]
           results == Results(plan, contents)
           checked == VerifyClaimChecks(Present, policy, contents, head, evidence)
<1> SUFFICES ASSUME ~checked.raised
             PROVE  /\ head = Len(records) /\ evidence = EvidenceHead
                    /\ policy.evaluation_artifact \in c.artifacts
                    /\ Evaluations[Manifest[policy.evaluation_artifact].digest] =
                           [plan |-> policy.plan_digest, results |-> checked.results]
                    /\ Accepted(checked) => ApprovedAndTrue(policy, c)
  BY DEF AnswerEarned, Accepted
<1>1. /\ Presentable(Present, policy, contents, head, evidence)
      /\ contents[policy.plan_artifact] = policy.plan_digest
      /\ Checkable(plan, c, policy, contents, evidence)
      /\ [a \in DOMAIN plan.inputs |-> contents[a]] = plan.inputs
      /\ ReportRecomputed(policy, contents, results)
      /\ checked = [raised |-> FALSE, status |-> c.status, results |-> results]
  BY AnswerFacts
<1> HIDE DEF plan, results, checked
<1>2. head = Len(records) /\ evidence = EvidenceHead
  BY <1>1 DEF Presentable, HeadPinned, Present
<1>3. /\ policy.evaluation_artifact \in c.artifacts
      /\ contents[policy.evaluation_artifact] = Manifest[policy.evaluation_artifact].digest
      /\ policy.plan_digest \in DOMAIN Plans
  BY <1>1 DEF Presentable, MetadataBound, PlanPinned, Present
<1>4. Evaluations[Manifest[policy.evaluation_artifact].digest] =
          [plan |-> policy.plan_digest, results |-> checked.results]
  BY <1>1, <1>3 DEF ReportRecomputed
<1>5. ASSUME Accepted(checked) PROVE ApprovedAndTrue(policy, c)
  <2>1. c.status = "approved" /\ Outcome(results) = "pass"
    BY <1>1, <1>5 DEF Accepted
  <2>2. Endorsed(policy.claim, c)
    BY GateAssumption DEF ApprovalIsEndorsed
  <2>3. ASSUME NEW i \in DOMAIN plan.rules
        PROVE  Holds(plan.rules[i]) /\ RuleInputs(plan.rules[i]) \subseteq c.artifacts
    <3>1. RuleInputs(plan.rules[i]) \subseteq DOMAIN plan.inputs
      BY <1>1 DEF Checkable, ValidPlan
    <3>2. \A a \in DOMAIN plan.inputs : a \in c.artifacts /\ contents[a] = Manifest[a].digest
      BY <1>1 DEF Checkable, InputsBound
    <3>3. plan.rules[i].operator \in {"exists", "equals", "integer_range", "same_value", "bytes_equal"}
      BY <1>3, GateAssumption DEF plan
    <3>4. RuleOutcome(plan.rules[i], contents) = "pass"
      BY <2>1, OutcomePasses DEF results
    <3> QED BY <3>1, <3>2, <3>3, <3>4, PassedHolds
  <2> QED BY <2>1, <2>2, <2>3 DEF ApprovedAndTrue, plan
<1> QED BY <1>2, <1>3, <1>4, <1>5

\* Whatever contents, heads and policy of theirs verifiers bring: what the gate answers
\* about the newest bundle is on file there, and a claim it accepts is approved by an
\* independent quorum and its pinned rules are true of its committed contents
\* (verify_claim_checks, CheckedClaim.accepted).
THEOREM EveryAnswerIsEarned ==
    ASSUME NEW policy \in Policies, NEW head, NEW contents, NEW evidence
    PROVE  Spec => []AnswerEarned(policy, head, contents, evidence)
<1>1. ApprovalIsEndorsed => AnswerEarned(policy, head, contents, evidence)
  BY AnswersAreEarned
<1> QED BY <1>1, ApprovalEndorsed, PTL

\* In particular for the contents that differ from the committed ones by one file
\* (verify_claim_checks).
THEOREM GateIsEarned == Spec => []GateEarned
<1>1. ApprovalIsEndorsed => GateEarned
  BY AnswersAreEarned DEF GateEarned
<1> QED BY <1>1, ApprovalEndorsed, PTL
=============================================================================
