---------------------------- MODULE MCStoreValues ----------------------------
(***************************************************************************)
(* The bundles of the instances, with the real authority replay: claim k1  *)
(* is imported with its content bound, and two processes compete to submit *)
(* it, to approve it and to do both in one batch.  The replay refuses to   *)
(* approve a draft.                                                        *)
(***************************************************************************)
EXTENDS Naturals, Sequences
LOCAL INSTANCE Folds
LOCAL INSTANCE SequencesExt

Submitters == {"ann", "bob"}

A == INSTANCE Authority WITH
    Actors <- Submitters, Humans <- Submitters, Scopes <- {"s1"},
    Grants <- {<<"ann", "s1", "author">>, <<"ann", "s1", "reviewer">>,
               <<"bob", "s1", "reviewer">>},
    Quorum <- 1, ClaimIds <- {"k1"}, EvidenceIds <- {"e1"},
    Ledger <- [e1 |-> [digest |-> "d1", claim |-> "k1", scope |-> "s1"]],
    ArtifactIds <- {"a1"},
    Manifest <- [a1 |-> [digest |-> "d1", claim |-> "k1", scope |-> "s1"]],
    Digests <- {"d1"}, TransitionIds <- 1..9

Say(id, action, actor, revision, reference) ==
    [transition_id |-> id, action |-> action, actor |-> actor, scope |-> "s1",
     claim |-> "k1", expected_revision |-> revision, reference |-> reference]

MCImported == <<
    Say(1, "create", "ann", 0, A!NoReference),
    Say(2, "bind_evidence", "ann", 1, [id |-> "e1", digest |-> "d1"]),
    Say(3, "bind_artifact", "ann", 2, [id |-> "a1", digest |-> "d1"])>>

Submission == Say(4, "submit", "ann", 3, A!NoReference)
Approval == Say(5, "approve", "bob", 4, A!NoReference)

MCBatches == {<<Submission>>, <<Approval>>, <<Submission, Approval>>}

\* One fits in the run with the tight limits and the other does not.
MCShortBatches == {<<Submission>>, <<Submission, Approval>>}

MCTransitions == {MCImported[i] : i \in DOMAIN MCImported}
                    \cup {Submission, Approval}

\* replay_workflow: the transitions one after the other, with distinct IDs.
ReplayStep(state, t) ==
    IF ~state.ok THEN state
    ELSE [ok |-> A!Accepts(state.claim, t) /\ t.transition_id \notin state.ids,
          claim |-> IF A!Accepts(state.claim, t) THEN A!After(state.claim, t) ELSE state.claim,
          ids |-> state.ids \cup {t.transition_id}]

Replays(receipts) ==
    FoldLeft(ReplayStep, [ok |-> TRUE, claim |-> A!Absent, ids |-> {}], receipts).ok

\* The pairs are worked out once, for the bundles the batches can lead to.
Bundles == {MCImported} \cup {MCImported \o b : b \in MCBatches}

Allowed == {<<receipts, batch>> \in Bundles \X MCBatches : Replays(receipts \o batch)}

MCAuthorized(receipts, batch) == <<receipts, batch>> \in Allowed
=============================================================================
