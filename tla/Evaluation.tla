------------------------------ MODULE Evaluation ------------------------------
(***************************************************************************)
(* The evaluation engine (engine.py, grouping.py, decay.py,                *)
(* reliability.py, replay.py, robustness.py) over a stream that grows:     *)
(* events are ingested, judgements about them arrive, time passes, and the *)
(* same stream is evaluated at any instant, replayed, or evaluated with    *)
(* one event left out.                                                     *)
(*                                                                         *)
(* Numbers are exact.  Confidences, reliabilities and decay factors are    *)
(* integers over ConfidenceUnit, ReliabilityUnit and DecayUnit; the unit   *)
(* of an effective confidence is their product.  Ages are whole ticks and  *)
(* each tick is a whole number of half-lives, so nothing is rounded here   *)
(* and _stable_float is the identity on the values that occur.             *)
(***************************************************************************)
EXTENDS Integers, Sequences, FiniteSets, FiniteSetsExt, Folds

CONSTANTS
    Ids,                \* event identities, positive integers in their order
    Observations,       \* what a source may report: [claim, signal, source, modality, group, confidence]
    Lags,               \* ingestion time minus observation time; negative: the source's clock is ahead
    Delays,             \* how far ahead of the clock an ingestion or a judgement may be dated
    MaxTime,            \* bound: the last instant
    MaxJudgements,      \* bound: judgements in a stream
    NoGroup,            \* the event has no correlation group
    Sources, Modalities, Claims,
    Declared,           \* policy.sources: declared reliabilities, a function on some of Sources
    DefaultReliability,
    PriorWeight, MaxAdjustment,     \* policy.reliability_updates
    HalvingsPerTick,    \* policy.decay: by modality, how many half-lives one tick is
    MaxSkew,            \* policy.decay.max_future_skew_seconds, in ticks
    Rules,              \* policy.claims: a rule per claim
    ConfidenceUnit, ReliabilityUnit, DecayUnit

VARIABLES
    now,        \* the wall clock of the caller
    stream,     \* the events, in the order they arrived
    judged,     \* the adjudications
    recorded    \* for each instant that has passed, the decisions the caller got then

vars == <<now, stream, judged, recorded>>

-----------------------------------------------------------------------------
(***************************************************************************)
(* Units, and what the policy's validation admits.                         *)
(***************************************************************************)
MaxEvents == Cardinality(Ids)
Unit == ConfidenceUnit * ReliabilityUnit * DecayUnit
\* A score of one, at the common denominator of every score.
Whole == Unit ^ MaxEvents
\* A threshold of the policy at that denominator.
AtScore(share) == share * Unit ^ (MaxEvents - 1)

Signals == {"support", "contradict"}

ClaimRule ==
    [support_threshold : 0..Unit, contradiction_threshold : 0..Unit, min_margin : 0..Unit,
     quorum : Nat \ {0}, min_sources : Nat \ {0}, min_modalities : Nat \ {0},
     min_evidence_confidence : 0..Unit, required_modalities : SUBSET Modalities]

\* Policy.__post_init__: at least one claim, and a valid rule for each.
RulesAssumption == Claims # {} /\ Rules \in [Claims -> ClaimRule]

ReliabilitiesAssumption ==
    /\ DOMAIN Declared \subseteq Sources
    /\ \A s \in DOMAIN Declared : Declared[s] \in 0..ReliabilityUnit
    /\ DefaultReliability \in 0..ReliabilityUnit
    /\ PriorWeight \in Nat \ {0} /\ MaxAdjustment \in 0..ReliabilityUnit

\* The chosen units represent every decayed confidence and every adjusted
\* reliability the bounds allow, without a remainder.
ExactnessAssumption ==
    /\ \A m \in Modalities : DecayUnit % 2 ^ (HalvingsPerTick[m] * (MaxTime + Max(Lags \cup {0}))) = 0
    /\ \A s \in DOMAIN Declared : \A n \in 1..MaxJudgements : \A right \in 0..n :
           LET pull == ReliabilityUnit * right - n * Declared[s]
           IN  \/ pull >= MaxAdjustment * (PriorWeight + n)
               \/ pull <= -MaxAdjustment * (PriorWeight + n)
               \/ pull % (PriorWeight + n) = 0

EvidenceEvent ==
    [id : Ids, claim : Claims, signal : Signals, source : Sources, modality : Modalities,
     group : {o.group : o \in Observations}, confidence : 0..ConfidenceUnit,
     observed : Int, ingested : 0..MaxTime]

Adjudication ==
    [event : Ids, source : DOMAIN Declared, verdict : {"correct", "incorrect"}, at : 0..MaxTime]

-----------------------------------------------------------------------------
(***************************************************************************)
(* Validation of a stream.                                                 *)
(***************************************************************************)
\* Mutant: a source's clock may be any distance ahead.
WithinSkewAlways(e) == TRUE

WithinSkew(e) == e.observed - e.ingested <= MaxSkew

ValidEventSet(events) ==
    /\ \A i, j \in DOMAIN events : events[i].id = events[j].id => i = j
    /\ \A i \in DOMAIN events : events[i].claim \in Claims /\ WithinSkew(events[i])

\* An adjudication of an event outside the stream has nothing to be checked against.
ConsistentWith(j, e) == j.event = e.id => j.source = e.source /\ j.at >= e.ingested

ValidAdjudicationSet(events, js) ==
    /\ \A j, k \in js : j.event = k.event => j = k
    /\ \A j \in js : /\ j.source \in DOMAIN Declared
                     /\ \A i \in DOMAIN events : ConsistentWith(j, events[i])

Valid(events, js) == ValidEventSet(events) /\ ValidAdjudicationSet(events, js)

-----------------------------------------------------------------------------
(***************************************************************************)
(* Reliability of the sources.                                             *)
(***************************************************************************)
ReliabilityFor(s) == IF s \in DOMAIN Declared THEN Declared[s] ELSE DefaultReliability

\* Mutant: an update may move a reliability any distance down.
ClipUpwards(pull, weight) ==
    IF pull >= MaxAdjustment * weight THEN MaxAdjustment ELSE pull \div weight

\* delta: the pull of the verdicts over their weight, at most max_adjustment.
Clip(pull, weight) ==
    IF pull >= MaxAdjustment * weight THEN MaxAdjustment
    ELSE IF pull <= -MaxAdjustment * weight THEN -MaxAdjustment
    ELSE pull \div weight

\* Mutant: every verdict counts as a correct one.
CountedAlways(js, s, verdict) ==
    IF verdict = "correct" THEN {j.event : j \in {k \in js : k.source = s}} ELSE {}

Counted(js, s, verdict) == {j.event : j \in {k \in js : k.source = s /\ k.verdict = verdict}}

\* ReliabilityAdjustment: posterior - declared = (correct - n * declared) / (prior_weight + n)
Adjustment(js, s) ==
    LET correct == Counted(js, s, "correct")
        incorrect == Counted(js, s, "incorrect")
        n == Cardinality(correct) + Cardinality(incorrect)
        pull == ReliabilityUnit * Cardinality(correct) - n * ReliabilityFor(s)
    IN  [correct |-> correct, incorrect |-> incorrect,
         applied |-> ReliabilityFor(s) + Clip(pull, PriorWeight + n)]

AdjustReliabilities(js) == [s \in {j.source : j \in js} |-> Adjustment(js, s)]

\* The reliability weight_event applies, given the records of the updates.
Applied(adjustments, s) ==
    IF s \in DOMAIN adjustments THEN adjustments[s].applied ELSE ReliabilityFor(s)

-----------------------------------------------------------------------------
(***************************************************************************)
(* Weighing and collapsing.                                                *)
(***************************************************************************)
AgeOf(e, t) == IF t >= e.observed THEN t - e.observed ELSE 0

\* weight_event raises on an event too far in the future of the evaluation.
Weighable(e, t) == e.observed - t <= MaxSkew

\* Mutant: an observation of the future counts for more than it will.
DecayAmplified(e, t) ==
    IF t >= e.observed THEN DecayUnit \div 2 ^ (HalvingsPerTick[e.modality] * AgeOf(e, t))
    ELSE DecayUnit * 2 ^ (HalvingsPerTick[e.modality] * (e.observed - t))

Decay(e, t) == DecayUnit \div 2 ^ (HalvingsPerTick[e.modality] * AgeOf(e, t))

WeightEvent(e, t, adjustments) ==
    [event |-> e, effective |-> e.confidence * Applied(adjustments, e.source) * Decay(e, t)]

\* Mutant: every event is an origin of its own.
CorrelationKeyPerEvent(e) == <<"event", e.id>>

CorrelationKey(e) == IF e.group = NoGroup THEN <<"event", e.id>> ELSE <<"group", e.group>>

\* Mutant: the strongest, and the first of them in the order they were given.
FirstStrongest(w, x) == w.effective >= x.effective

\* w comes before x in the ranking of a bucket.
Outranks(w, x) ==
    \/ w.effective > x.effective
    \/ w.effective = x.effective /\ w.event.id <= x.event.id

\* The head of the ranking; where the ranking does not decide, the earliest of the input.
Strongest(candidates) ==
    candidates[Min({i \in DOMAIN candidates :
                        \A j \in DOMAIN candidates : Outranks(candidates[i], candidates[j])})]

Bucket(weighted, group, signal) ==
    SelectSeq(weighted, LAMBDA w : CorrelationKey(w.event) = group /\ w.event.signal = signal)

\* CorrelationSelection
Selection(weighted, group, signal) ==
    LET bucket == Bucket(weighted, group, signal)
    IN  [group |-> group, signal |-> signal, representative |-> Strongest(bucket),
         suppressed |-> {bucket[i].event.id : i \in DOMAIN bucket} \ {Strongest(bucket).event.id}]

CollapseCorrelated(weighted) ==
    {Selection(weighted, CorrelationKey(weighted[i].event), weighted[i].event.signal) : i \in DOMAIN weighted}

-----------------------------------------------------------------------------
(***************************************************************************)
(* Scores, gates and the outcome.                                          *)
(***************************************************************************)
\* 1 - (1 - e1)(1 - e2)...
CombinedConfidence(selections) ==
    LET Doubt(s) == Unit - s.representative.effective
    IN  Whole - MapThenFoldSet(LAMBDA x, y : x * y, Unit ^ (MaxEvents - Cardinality(selections)),
                               Doubt, LAMBDA S : CHOOSE s \in S : TRUE, selections)

\* Mutant: any evidence may carry the gate, however weak.
QualifyingAll(matching, rule) == matching

Qualifying(matching, rule) ==
    {s \in matching : s.representative.effective >= rule.min_evidence_confidence}

SummarizeSignal(signal, selections, rule) ==
    LET matching == {s \in selections : s.signal = signal}
        qualifying == Qualifying(matching, rule)
        sources == {s.representative.event.source : s \in qualifying}
        modalities == {s.representative.event.modality : s \in qualifying}
    IN  [score |-> CombinedConfidence(matching),
         qualifying_groups |-> Cardinality(qualifying),
         gate_passed |-> /\ Cardinality(qualifying) >= rule.quorum
                         /\ Cardinality(sources) >= rule.min_sources
                         /\ Cardinality(modalities) >= rule.min_modalities
                         /\ rule.required_modalities \subseteq modalities]

SupportsEscalation(support, contradict, rule) ==
    /\ support.gate_passed
    /\ support.score >= AtScore(rule.support_threshold)
    /\ support.score - contradict.score >= AtScore(rule.min_margin)

\* Mutant: the margin of a rejection is the size of the margin.
SupportsRejectionEitherWay(support, contradict, rule) ==
    /\ contradict.gate_passed
    /\ contradict.score >= AtScore(rule.contradiction_threshold)
    /\ \/ contradict.score - support.score >= AtScore(rule.min_margin)
       \/ support.score - contradict.score >= AtScore(rule.min_margin)

SupportsRejection(support, contradict, rule) ==
    /\ contradict.gate_passed
    /\ contradict.score >= AtScore(rule.contradiction_threshold)
    /\ contradict.score - support.score >= AtScore(rule.min_margin)

\* The reason that goes with a review.
ReviewReason(support, contradict, rule) ==
    IF SupportsEscalation(support, contradict, rule) THEN "conflicting_thresholds"
    ELSE IF support.score >= AtScore(rule.support_threshold) /\ ~support.gate_passed
         THEN "support_score_met_but_independence_gate_failed"
    ELSE IF contradict.score >= AtScore(rule.contradiction_threshold) /\ ~contradict.gate_passed
         THEN "contradiction_score_met_but_independence_gate_failed"
    ELSE IF /\ support.score - contradict.score < AtScore(rule.min_margin)
            /\ contradict.score - support.score < AtScore(rule.min_margin)
         THEN "evidence_margin_too_small"
    ELSE "decision_threshold_not_met"

ChooseOutcome(support, contradict, rule) ==
    LET escalate == SupportsEscalation(support, contradict, rule)
        reject == SupportsRejection(support, contradict, rule)
    IN  IF escalate = reject THEN <<"review", ReviewReason(support, contradict, rule)>>
        ELSE IF escalate THEN <<"escalate", "support_threshold_and_independence_gates_met">>
        ELSE <<"reject", "contradiction_threshold_and_independence_gates_met">>

\* ClaimDecision
EvaluateClaim(c, events, t, adjustments) ==
    LET weighted == [i \in DOMAIN events |-> WeightEvent(events[i], t, adjustments)]
        selections == CollapseCorrelated(weighted)
        support == SummarizeSignal("support", selections, Rules[c])
        contradict == SummarizeSignal("contradict", selections, Rules[c])
        choice == ChooseOutcome(support, contradict, Rules[c])
    IN  [outcome |-> choice[1], reason |-> choice[2],
         support |-> support, contradict |-> contradict,
         trace |-> {e.id : e \in {events[i] : i \in DOMAIN events}},
         correlations |-> {[representative |-> s.representative.event.id, suppressed |-> s.suppressed] : s \in selections}]

\* Mutant: judgements count as soon as the caller has them.
KnowableAlways(js, t) == js

Knowable(js, t) == {j \in js : j.at <= t}

\* Mutant: an event counts when it was observed.
ConsideredObserved(events, t) == SelectSeq(events, LAMBDA e : e.observed <= t)

Considered(events, t) == SelectSeq(events, LAMBDA e : e.ingested <= t)

Evaluate(events, js, t) ==
    LET adjustments == AdjustReliabilities(Knowable(js, t))
    IN  [c \in Claims |->
            EvaluateClaim(c, SelectSeq(Considered(events, t), LAMBDA e : e.claim = c), t, adjustments)]

-----------------------------------------------------------------------------
(***************************************************************************)
(* Replay: the prefix that was known at every instant something arrived.   *)
(***************************************************************************)
Boundaries(events, js) == {events[i].ingested : i \in DOMAIN events} \cup {j.at : j \in js}

\* Mutant: a snapshot leaves out what arrived at its own instant.
PrefixBefore(events, t) == SelectSeq(events, LAMBDA e : e.ingested < t)

Prefix(events, t) == Considered(events, t)

Replay(events, js) ==
    [t \in Boundaries(events, js) |-> Evaluate(Prefix(events, t), Knowable(js, t), t)]

-----------------------------------------------------------------------------
(***************************************************************************)
(* Robustness: one visible event left out, and the judgement of it.        *)
(***************************************************************************)
\* Mutant: an event goes with everything that shares its origin.
WithoutGroup(events, e) == SelectSeq(events, LAMBDA x : CorrelationKey(x) # CorrelationKey(e))

Without(events, e) == SelectSeq(events, LAMBDA x : x.id # e.id)

Unjudged(js, e) == {j \in js : j.event # e.id}

\* RobustnessImpact, for every visible event and claim whose outcome it decides.
Impacts(events, js, t) ==
    LET seen == Considered(events, t)
        base == Evaluate(events, js, t)
        Left(i) == Evaluate(Without(events, seen[i]), Unjudged(js, seen[i]), t)
    IN  {[event |-> seen[i].id, claim |-> c, baseline |-> base[c].outcome, without |-> Left(i)[c].outcome] :
            i \in DOMAIN seen, c \in Claims}
        \ {[event |-> seen[i].id, claim |-> c, baseline |-> o, without |-> o] :
            i \in DOMAIN seen, c \in Claims, o \in {"escalate", "reject", "review"}}

-----------------------------------------------------------------------------
(***************************************************************************)
(* The stream grows.  What its validation refuses never gets in: evaluate, *)
(* replay and robustness raise on it.                                      *)
(***************************************************************************)
Dates == {now + d : d \in Delays} \cap 0..MaxTime

Init ==
    /\ now = 0 /\ stream = <<>> /\ judged = {} /\ recorded = <<>>

Arrive(o, id, ingested, lag) ==
    LET e == [id |-> id, claim |-> o.claim, signal |-> o.signal, source |-> o.source,
              modality |-> o.modality, group |-> o.group, confidence |-> o.confidence,
              observed |-> ingested - lag, ingested |-> ingested]
    IN  /\ Valid(Append(stream, e), judged)
        /\ stream' = Append(stream, e)
        /\ UNCHANGED <<now, judged, recorded>>

Adjudicate(event, source, verdict, at) ==
    LET j == [event |-> event, source |-> source, verdict |-> verdict, at |-> at]
    IN  /\ Cardinality(judged) < MaxJudgements
        /\ j \notin judged
        /\ Valid(stream, judged \cup {j})
        /\ judged' = judged \cup {j}
        /\ UNCHANGED <<now, stream, recorded>>

Tick ==
    /\ now < MaxTime
    /\ recorded' = Append(recorded, Evaluate(stream, judged, now))
    /\ now' = now + 1
    /\ UNCHANGED <<stream, judged>>

Next ==
    \/ \E o \in Observations, id \in Ids, ingested \in Dates, lag \in Lags : Arrive(o, id, ingested, lag)
    \/ \E id \in Ids, s \in Sources, v \in {"correct", "incorrect"}, at \in Dates : Adjudicate(id, s, v, at)
    \/ Tick

Spec == Init /\ [][Next]_vars

-----------------------------------------------------------------------------
(***************************************************************************)
(* Properties.                                                             *)
(***************************************************************************)
\* The state has the types of the models, and every score lies in [0, 1].
TypeOK ==
    /\ now \in 0..MaxTime /\ Len(recorded) = now
    /\ \A i \in DOMAIN stream : stream[i] \in EvidenceEvent
    /\ judged \subseteq Adjudication
    /\ \A c \in Claims : LET d == Evaluate(stream, judged, now)[c]
                         IN  d.support.score \in 0..Whole /\ d.contradict.score \in 0..Whole

\* What was decided at an instant is what the same instant evaluates to for
\* ever after, whatever arrives later or was already on file with a later date:
\* no hindsight (evaluate's filters on ingested_at and adjudicated_at).
HistoryStands == \A t \in DOMAIN recorded : Evaluate(stream, judged, t - 1) = recorded[t]

\* Every snapshot of a replay passes the validation of its own prefix and
\* decides as an evaluation of the whole stream at that instant does.
ReplayAgrees ==
    \A t \in Boundaries(stream, judged) :
        /\ Valid(Prefix(stream, t), Knowable(judged, t))
        /\ Replay(stream, judged)[t] = Evaluate(stream, judged, t)

\* As many events as the quorum, no two of one origin, from as many sources and
\* modalities as the rule wants, that were strong enough before any decay.
Earned(c, signal) ==
    LET adjustments == AdjustReliabilities(Knowable(judged, now))
        voices == {i \in DOMAIN stream :
                      /\ stream[i].ingested <= now /\ stream[i].claim = c /\ stream[i].signal = signal
                      /\ stream[i].confidence * Applied(adjustments, stream[i].source) * DecayUnit
                            >= Rules[c].min_evidence_confidence}
    IN  \E S \in SUBSET voices :
            /\ \A i, j \in S : i # j => stream[i].group = NoGroup \/ stream[i].group # stream[j].group
            /\ Cardinality(S) >= Rules[c].quorum
            /\ Cardinality({stream[i].source : i \in S}) >= Rules[c].min_sources
            /\ Cardinality({stream[i].modality : i \in S}) >= Rules[c].min_modalities
            /\ Rules[c].required_modalities \subseteq {stream[i].modality : i \in S}

\* No claim escalates or is rejected without independent voices for it: copies
\* of one event, observations of the future and weak ones do not make a quorum.
DecisionEarned ==
    \A c \in Claims :
        LET outcome == Evaluate(stream, judged, now)[c].outcome
        IN  /\ outcome = "escalate" => Earned(c, "support")
            /\ outcome = "reject" => Earned(c, "contradict")

\* The order in which a caller lists the events decides nothing: neither the
\* selection from a correlation group nor any decision.
OrderIndependent ==
    LET reordered == [i \in DOMAIN stream |-> stream[Len(stream) + 1 - i]]
        Weighted(events) == [i \in DOMAIN events |-> WeightEvent(events[i], MaxTime, AdjustReliabilities({}))]
    IN  /\ CollapseCorrelated(Weighted(stream)) = CollapseCorrelated(Weighted(reordered))
        /\ Evaluate(stream, judged, now) = Evaluate(reordered, judged, now)

\* evaluate raises for no stream its validation admits, at no instant: no event
\* is beyond the skew, and no update leaves the range its policy declares or
\* names one event as both right and wrong.
EvaluationTotal ==
    \A t \in 0..MaxTime :
        LET adjustments == AdjustReliabilities(Knowable(judged, t))
        IN  /\ \A i \in DOMAIN Considered(stream, t) : Weighable(Considered(stream, t)[i], t)
            /\ \A s \in DOMAIN adjustments :
                    /\ adjustments[s].applied \in 0..ReliabilityUnit
                    /\ adjustments[s].applied - Declared[s] \in -MaxAdjustment..MaxAdjustment
                    /\ adjustments[s].correct \cap adjustments[s].incorrect = {}

\* An event decides a claim that is not its own only through a judgement of it.
ImpactsAreOwn ==
    \A x \in Impacts(stream, judged, now) :
        \/ \E i \in DOMAIN stream : stream[i].id = x.event /\ stream[i].claim = x.claim
        \/ \E j \in Knowable(judged, now) : j.event = x.event

\* Support for a claim never gets it rejected, and a contradiction never gets it
\* escalated, where the rule wants a margin.  (Without a margin a copy of equal
\* strength can take the place of the voice a gate of the other side rests on,
\* and conflicting_thresholds gives way to the other outcome.)
NoBackfire ==
    \A c \in Claims : stream' # stream /\ Rules[c].min_margin > 0 =>
        LET arrived == stream'[Len(stream')]
            before == Evaluate(stream, judged, now)[c].outcome
            after == Evaluate(stream', judged', now')[c].outcome
        IN  /\ arrived.signal = "support" /\ after = "reject" => before = "reject"
            /\ arrived.signal = "contradict" /\ after = "escalate" => before = "escalate"

\* A correct verdict never costs its source reliability, an incorrect one never
\* gains it any, and no other source is touched.
PullsItsWay ==
    \A s \in Sources :
        LET before == Applied(AdjustReliabilities(judged), s)
            after == Applied(AdjustReliabilities(judged'), s)
            Judged(v) == \E j \in judged' \ judged : j.source = s /\ j.verdict = v
        IN  /\ after > before => Judged("correct")
            /\ after < before => Judged("incorrect")
=============================================================================
