------------------------- MODULE MCEvaluationValues -------------------------
(***************************************************************************)
(* Policies and observations small enough to try every stream. Scores:     *)
(* three reports that meet or miss each part of the rules alone, as copies *)
(* and together. Judged: two reports from sources that are judged, late,   *)
(* from clocks that are ahead, and dated ahead.                            *)
(***************************************************************************)
EXTENDS Integers

CONSTANT NoGroup

Report(claim, signal, source, modality, group, confidence) ==
    [claim |-> claim, signal |-> signal, source |-> source, modality |-> modality,
     group |-> group, confidence |-> confidence]

ScoreObservations ==
    {Report("c", "support", "s1", "vision", "g", 2), Report("c", "support", "s2", "vision", "g", 2),
     Report("c", "support", "s2", "audio", "g", 2), Report("c", "support", "s2", "audio", NoGroup, 2),
     Report("c", "support", "s2", "vision", NoGroup, 1),
     Report("c", "contradict", "s2", "vision", "g", 2), Report("c", "contradict", "s1", "audio", NoGroup, 1),
     Report("c", "contradict", "s1", "audio", NoGroup, 2),
     Report("d", "contradict", "s2", "audio", NoGroup, 2), Report("d", "support", "s2", "audio", NoGroup, 2),
     Report("d", "support", "s2", "vision", NoGroup, 1)}

JudgedObservations ==
    {Report("c", "support", "s1", "vision", "g", 2), Report("d", "support", "s1", "vision", "g", 1),
     Report("c", "contradict", "s2", "vision", NoGroup, 2)}

RuleOf(support, contradiction, margin, quorum, sources, modalities, confidence, required) ==
    [support_threshold |-> support, contradiction_threshold |-> contradiction, min_margin |-> margin,
     quorum |-> quorum, min_sources |-> sources, min_modalities |-> modalities,
     min_evidence_confidence |-> confidence, required_modalities |-> required]

\* Sixteenths of a score of one; `unit` is ConfidenceUnit * ReliabilityUnit * DecayUnit.
Share(unit, n) == (n * unit) \div 16

ScoreRules ==
    LET S(n) == Share(2 * 4 * 16, n)
    IN  [c \in {"c", "d"} |-> IF c = "c" THEN RuleOf(S(10), S(4), S(1), 2, 2, 1, S(7), {"vision"})
                              ELSE RuleOf(S(15), S(4), S(1), 1, 1, 1, S(2), {})]
JudgedRules ==
    LET S(n) == Share(2 * 4 * 64, n)
    IN  [c \in {"c", "d"} |-> IF c = "c" THEN RuleOf(S(8), S(8), 0, 1, 1, 1, S(2), {})
                              ELSE RuleOf(S(4), S(8), S(1), 1, 1, 1, S(2), {})]

\* Late, as early as admitted, and one tick too early.
JudgedLags == {1, -1, -2}

ScoreDeclared == [s \in {"s1"} |-> 4]
JudgedDeclared == [s \in {"s1", "s2"} |-> 2]
Halvings == [m \in {"vision", "audio"} |-> IF m = "vision" THEN 1 ELSE 2]
=============================================================================
