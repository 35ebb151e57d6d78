---------------------------- MODULE MCCaseValues ----------------------------
(***************************************************************************)
(* The case of the instances: a human proposes, and two processes whose    *)
(* registries name different tools compete for it.  The proposer holds an  *)
(* evaluator's and the evaluator a decider's grant, so that only the       *)
(* independence rules keep them apart.                                     *)
(***************************************************************************)
MCActors == {"pat", "tess", "toby", "eve", "dan"}

MCKindOf == [a \in MCActors |-> IF a \in {"tess", "toby"} THEN "tool" ELSE "human"]

MCGrants == {<<"pat", "s", "propose">>, <<"pat", "s", "evaluate">>,
             <<"tess", "s", "observe">>, <<"toby", "s", "observe">>,
             <<"eve", "s", "evaluate">>, <<"eve", "s", "decide">>, <<"dan", "s", "decide">>}

MCPlan == [type |-> "plan", proposer |-> "pat", scope |-> "s", prediction |-> "yes"]

\* No bytes.
Nothing == "none"

Observed(bytes) == [status |-> "observed", output |-> bytes]

BridgeAnswers == {Observed("yes"), [status |-> "unavailable", output |-> Nothing]}

RunnerAnswers == {Observed("yes"), [status |-> "error", output |-> Nothing]}
=============================================================================
