---------------------------- MODULE MCDecisions -----------------------------
(***************************************************************************)
(* Decisions on evidence and on claims: the evaluation, with and without   *)
(* judgements, and the checks of approved claims.                          *)
(***************************************************************************)
EXTENDS MCClaimChecks, MCEvaluationValues

VARIABLES
    system,     \* "checks", or how the evaluation is instantiated
    now, stream, judged, recorded

engine == <<now, stream, judged, recorded>>

Scores == INSTANCE Evaluation WITH
    Ids <- {1, 2, 3}, Observations <- ScoreObservations, Lags <- {0}, Delays <- {0}, MaxTime <- 2,
    MaxJudgements <- 0, Sources <- {"s1", "s2"}, Modalities <- {"vision", "audio"},
    Claims <- {"c", "d"}, Declared <- ScoreDeclared, DefaultReliability <- 3, PriorWeight <- 1,
    MaxAdjustment <- 1, HalvingsPerTick <- Halvings, MaxSkew <- 0, Rules <- ScoreRules,
    ConfidenceUnit <- 2, ReliabilityUnit <- 4, DecayUnit <- 16

Judged == INSTANCE Evaluation WITH
    Ids <- {1, 2}, Observations <- JudgedObservations, Lags <- JudgedLags, Delays <- {0, 1},
    MaxTime <- 2, MaxJudgements <- 2, Sources <- {"s1", "s2"}, Modalities <- {"vision", "audio"},
    Claims <- {"c", "d"}, Declared <- JudgedDeclared, DefaultReliability <- 3, PriorWeight <- 1,
    MaxAdjustment <- 1, HalvingsPerTick <- Halvings, MaxSkew <- 1, Rules <- JudgedRules,
    ConfidenceUnit <- 2, ReliabilityUnit <- 4, DecayUnit <- 64

ASSUME Scores!RulesAssumption /\ Scores!ReliabilitiesAssumption /\ Scores!ExactnessAssumption
ASSUME Judged!RulesAssumption /\ Judged!ReliabilitiesAssumption /\ Judged!ExactnessAssumption

DecisionsInit ==
    /\ system \in {"checks", "scores", "judged"}
    /\ Init /\ Scores!Init

\* The components share nothing: a behaviour is one of a single component, beside
\* the initial state of the other.
DecisionsNext ==
    \/ system = "checks" /\ Next /\ UNCHANGED <<system, engine>>
    \/ system = "scores" /\ Scores!Next /\ UNCHANGED <<system, vars>>
    \/ system = "judged" /\ Judged!Next /\ UNCHANGED <<system, vars>>

allVars == <<system, vars, engine>>

DecisionsSpec == DecisionsInit /\ [][DecisionsNext]_allVars

-----------------------------------------------------------------------------
\* An older bundle is good for its own head only; an honest claim gets its verdict;
\* absent values pass nothing; and replaying a bundle agrees with having appended its
\* receipts (check_workflow.py, checks.py).
GateSound ==
    system = "checks" =>
        TypeOK /\ OlderIsSound /\ HonestVerifies /\ AbsencePassesNothing /\ ReplayedIsPresent

\* Copies make no quorum and the order of the input decides nothing (engine.py, grouping.py).
DecisionsEarned ==
    system = "scores" => Scores!TypeOK /\ Scores!DecisionEarned /\ Scores!OrderIndependent

\* What arrives later changes no decision of the past, replay agrees with evaluation
\* (replay.py), no admitted stream raises (engine.py), and leaving an event out moves
\* only what it bears on (robustness.py).
HistorySound ==
    system = "judged" =>
        /\ Judged!TypeOK /\ Judged!HistoryStands /\ Judged!ReplayAgrees
        /\ Judged!EvaluationTotal /\ Judged!ImpactsAreOwn

\* A new report never works against its own side (engine.py), and a judgement moves the
\* reliability of its source its own way and no other (reliability.py).
PullsItsOwnWay ==
    [][/\ system = "scores" => Scores!NoBackfire
       /\ system = "judged" => Judged!PullsItsWay]_allVars
=============================================================================
