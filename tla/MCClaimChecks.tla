--------------------------- MODULE MCClaimChecks ---------------------------
(***************************************************************************)
(* One claim, one author, reviewer and revoker, and five artifacts: a      *)
(* document, two plans about it and an evaluation of each.  The rules of   *)
(* the first plan pass.  The second has a rule that finds nothing.         *)
(***************************************************************************)
EXTENDS ClaimChecks

MCGrants == {<<"ann", "s", "author">>, <<"bob", "s", "reviewer">>, <<"cat", "s", "revoker">>}
MCLedger == [e |-> [digest |-> "entry", claim |-> "k", scope |-> "s"]]
Item(digest) == [digest |-> digest, claim |-> "k", scope |-> "s"]
MCManifest == [doc |-> Item("both"), plan1 |-> Item("p1"), plan2 |-> Item("p2"),
               ev1 |-> Item("r1"), ev2 |-> Item("r2")]
MCMedia == [a \in DOMAIN MCManifest |-> "application/json"]

Say(id, action, actor, reference) ==
    [transition_id |-> id, action |-> action, actor |-> actor, scope |-> "s", claim |-> "k",
     expected_revision |-> 0, reference |-> reference]
Bind(id, a) == Say(id, "bind_artifact", "ann", [id |-> a, digest |-> MCManifest[a].digest])
MCCommands ==
    {Say(1, "create", "ann", NoReference), Say(2, "bind_evidence", "ann", [id |-> "e", digest |-> "entry"]),
     Bind(3, "doc"), Bind(4, "plan1"), Bind(5, "plan2"), Bind(6, "ev1"), Bind(7, "ev2"),
     Say(8, "submit", "ann", NoReference), Say(9, "approve", "bob", NoReference),
     Say(10, "revoke", "cat", NoReference)}

Json(type, value, members) == [type |-> type, value |-> value, members |-> members]
Number(n) == Json("int", n, <<>>)
Yes == Json("bool", 1, <<>>)
Array == Json("array", 0, <<Number(1), Yes>>)
\* {"a": 1, "b": 1, "list": [1, true]} and what is left without some of it.
MCDocuments ==
    [both |-> Json("object", 0, [a |-> Number(1), b |-> Number(1), list |-> Array]),
     noA |-> Json("object", 0, [b |-> Number(1), list |-> Array]),
     noB |-> Json("object", 0, [a |-> Number(1), list |-> Array]),
     list |-> Json("object", 0, [list |-> Array])]

Key(k) == [kind |-> "key", key |-> k, index |-> 0]
Index(i) == [kind |-> "index", key |-> "", index |-> i]
Rule(id, operator, path, expected, minimum, maximum, other_path) ==
    [id |-> id, operator |-> operator, artifact |-> "doc", path |-> path, expected |-> expected,
     minimum |-> minimum, maximum |-> maximum, other |-> "doc", other_path |-> other_path]

PassingRules ==
    <<Rule("x1", "exists", <<Key("list"), Index(1)>>, Missing, 0, 0, <<>>),
      Rule("x2", "equals", <<Key("list"), Index(1)>>, Yes, 0, 0, <<>>),
      Rule("x3", "integer_range", <<Key("a")>>, Missing, 1, 2, <<>>),
      Rule("x4", "same_value", <<Key("a")>>, Missing, 0, 0, <<Key("b")>>),
      Rule("x5", "bytes_equal", <<>>, Missing, 0, 0, <<>>)>>
OpenRules ==
    <<Rule("y1", "same_value", <<Key("a")>>, Missing, 0, 0, <<Key("list"), Index(0)>>),
      Rule("y2", "equals", <<Key("list"), Index(2)>>, Number(1), 0, 0, <<>>)>>

Plan(rules) ==
    [inputs |-> [doc |-> "both"], rules |-> rules, scope |-> "s", claim |-> "k",
     statement |-> "it works", authority |-> "auth", evidence |-> "head"]
MCPlans == [p1 |-> Plan(PassingRules), p2 |-> Plan(OpenRules)]

\* `forged` calls the rules of the second plan passed.
MCEvaluations ==
    [r1 |-> [plan |-> "p1", results |-> <<"pass", "pass", "pass", "pass", "pass">>],
     r2 |-> [plan |-> "p2", results |-> <<"pass", "unknown">>],
     forged |-> [plan |-> "p2", results |-> <<"pass", "pass">>]]
Policy(plan, digest, evaluation) ==
    [claim |-> "k", scope |-> "s", authority |-> "auth", plan_artifact |-> plan,
     plan_digest |-> digest, evaluation_artifact |-> evaluation]
MCPolicies == {Policy("plan1", "p1", "ev1"), Policy("plan2", "p2", "ev2"), Policy("plan1", "p2", "ev1"),
               Policy("plan2", "p2", "ev1")}
MCStatement == [k |-> "it works"]
=============================================================================
