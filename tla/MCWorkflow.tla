----------------------------- MODULE MCWorkflow -----------------------------
(***************************************************************************)
(* Workflow on a small policy.  bot is an automation that holds author and *)
(* reviewer grants; ann authors and reviews; bob and cat review, cat also  *)
(* revokes; dan has grants in the other scope only.                        *)
(***************************************************************************)
EXTENDS Workflow

MCActors == {"bot", "ann", "bob", "cat", "dan"}
MCHumans == MCActors \ {"bot"}
MCScopes == {"s1", "s2"}
MCGrants ==
    ({"bot", "ann"} \X {"s1"} \X {"author", "reviewer"}) \cup
    ({"bob", "cat"} \X {"s1"} \X {"reviewer"}) \cup
    ({"cat", "ann"} \X {"s1"} \X {"revoker"}) \cup
    ({"dan"} \X {"s2"} \X Roles)
MCClaimIds == {"k1", "k2"}
MCEvidenceIds == {"e1", "e2", "e3"}
MCLedger == [e1 |-> [digest |-> "d1", claim |-> "k1", scope |-> "s1"],
             e2 |-> [digest |-> "d2", claim |-> "k1", scope |-> NoScope]]
MCArtifactIds == {"a1", "a2"}
MCManifest == [a1 |-> [digest |-> "d1", claim |-> "k1", scope |-> "s1"],
               a2 |-> [digest |-> "d2", claim |-> "k1", scope |-> "s1"]]
MCDigests == {"d1", "d2"}
MCTransitionIds == 1..30

Say(id, action, actor, scope, claim, reference) ==
    [transition_id |-> id, action |-> action, actor |-> actor, scope |-> scope,
     claim |-> claim, expected_revision |-> 0, reference |-> reference]

Ref(i, d) == [id |-> i, digest |-> d]

\* Every action by somebody it fits, and by or about something it does not.
MCCommands == {
    Say(1, "create", "bot", "s1", "k1", NoReference),
    Say(3, "bind_evidence", "bot", "s1", "k1", Ref("e1", "d1")),
    Say(4, "bind_evidence", "ann", "s1", "k1", Ref("e2", "d2")),
    Say(5, "bind_artifact", "ann", "s1", "k1", Ref("a1", "d1")),
    Say(6, "bind_artifact", "bot", "s1", "k1", Ref("a2", "d2")),
    Say(7, "bind_artifact", "bot", "s1", "k1", Ref("a2", "d1")),
    Say(8, "submit", "bot", "s1", "k1", NoReference),
    Say(9, "approve", "ann", "s1", "k1", NoReference),
    Say(10, "approve", "bob", "s1", "k1", NoReference),
    Say(11, "approve", "bob", "s1", "k1", NoReference),
    Say(12, "approve", "cat", "s1", "k1", NoReference),
    Say(13, "approve", "bot", "s1", "k1", NoReference),
    Say(14, "reject", "cat", "s1", "k1", NoReference),
    Say(15, "revoke", "cat", "s1", "k1", NoReference),
    Say(16, "revoke", "ann", "s1", "k1", NoReference),
    Say(16, "approve", "dan", "s2", "k1", NoReference),
    Say(17, "create", "dan", "s2", "k2", NoReference)}
=============================================================================
