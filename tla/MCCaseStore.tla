---------------------------- MODULE MCCaseStore ----------------------------
(***************************************************************************)
(* The case, with two processes, two threads of one process or one thread. *)
(***************************************************************************)
EXTENDS CaseStore, MCCaseValues, TLC

CONSTANTS p1, p2, o1, o2

\* Two processes of one thread each.
ApartOf == (p1 :> o1) @@ (p2 :> o2)

MCObserverOf == (o1 :> "tess") @@ (o2 :> "toby")
OneObserver == (o1 :> "tess")

\* One thread.
AloneOf == (p1 :> o1)
AloneUses == (p1 :> {"execute"})

\* Everybody runs the bridge, and p2 also finishes by hand.
BridgeUses == (p1 :> {"execute"}) @@ (p2 :> {"execute", "finish"})

\* p1 runs the bridge and decides; p2 claims by hand and judges.
JudgeUses == (p1 :> {"execute", "decide"}) @@ (p2 :> {"claim", "verdict"})

JudgeAnswers == {Observed("yes"), Observed("no")}

IdSymmetry == Permutations(Ids)
=============================================================================
