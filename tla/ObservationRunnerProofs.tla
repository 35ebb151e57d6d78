----------------------- MODULE ObservationRunnerProofs -----------------------
(***************************************************************************)
(* Proofs about ObservationRunner, for any number of runners, cancellers,  *)
(* intents and tokens and for any adapter.                                 *)
(***************************************************************************)
EXTENDS ObservationRunner, SequenceTheorems, TLAPS

-----------------------------------------------------------------------------
(***************************************************************************)
(* The inductive invariant.                                                *)
(***************************************************************************)
\* A publication is under way under the lock of its token, and it is the only one there,
\* and the token it is under way for is not cancelled.
LockHeld ==
    \A p \in Runners : phase[p] = "appending" /\ HasToken(p) =>
        lock[TokenOf[p]] = p /\ TokenOf[p] \notin cancelled

\* True is what a cancel() returns that found the token unpublished.
CancelsRecorded == accepted \subseteq cancelled

TokenInv == TypeOK /\ LockHeld /\ CancelsRecorded /\ CancelDecides

\* The phases of a run that holds the claim of its intent.
Holding == {"checking", "callback", "returned", "acquiring", "appending", "minting"}

\* An intent that is run is consumed, and one run holds it.
OneRun ==
    /\ \A p \in Runners : phase[p] = "starting" => intent[p] \in Intents
    /\ \A p \in Runners : phase[p] \in Holding => intent[p] \in consumed
    /\ \A p, q \in Runners :
           phase[p] \in Holding /\ phase[q] \in Holding /\ intent[p] = intent[q] => p = q

\* The adapter of an intent was not entered before it is consumed, nor before the run that
\* holds it has returned from it, and at most once.
EntryInv ==
    /\ \A i \in Intents : i \notin consumed => produced[i] = <<>>
    /\ \A p \in Runners : phase[p] \in {"checking", "callback"} => produced[intent[p]] = <<>>
    /\ \A i \in Intents : Len(produced[i]) <= 1

OnceInv == TypeOK /\ OneRun /\ EntryInv

\* A run past its adapter, or one that ended with what the adapter came to.
HasResult(p) ==
    \/ phase[p] \in {"returned", "acquiring", "appending", "minting"}
    \/ phase[p] = "idle" /\ report[p] \in {"retained", "interrupted", "publication"}

\* What such a run holds is what the adapter of its intent came to.
ResultFits ==
    \A p \in Runners : HasResult(p) =>
        intent[p] \in Intents /\ result[p] \in Results /\ produced[intent[p]] = <<result[p]>>

\* A run that ended handed its bytes over, in an envelope or on an error.
HandedOver ==
    \A p \in Runners : phase[p] = "idle" =>
        /\ report[p] = "retained" =>
               \E e \in issued : e.intent = intent[p] /\ e.output = result[p].output
        /\ report[p] \in {"interrupted", "publication"} => carried[p] = result[p].output

\* The envelope e was issued for result r.
IssuedFor(e, r) ==
    /\ produced[e.intent] = <<r>>
    /\ e.journal = <<Plan, Observation(e.intent, r)>> /\ e.output = r.output

EnvelopesFit ==
    \A e \in issued : e.intent \in Intents /\ \E r \in Results : IssuedFor(e, r)

\* The verdict v is earned by what the adapter of i came to.
EarnedBy(v, i, r) ==
    /\ produced[i] = <<r>> /\ RequestOf[i] = v.observation.request
    /\ v.outcome = Earned(Plan, r)

VerdictsFit ==
    \A v \in checked :
        /\ v.evaluator \notin {Plan.proposer, Observer}
        /\ \E i \in Intents, r \in Results : EarnedBy(v, i, r)

RunInv == TokenInv /\ OnceInv /\ ResultFits /\ HandedOver /\ EnvelopesFit /\ VerdictsFit

-----------------------------------------------------------------------------
(***************************************************************************)
(* Facts about the constants.                                              *)
(***************************************************************************)
LEMMA ConstantFacts ==
    ASSUME RunnerAssumption
    PROVE  /\ Plan \in CasePlan /\ Observer \in Actors
           /\ RequestOf \in [Intents -> Ids]
           /\ \A p \in Runners : TokenOf[p] \in Tokens \cup {NoToken}
           /\ \A p \in Runners : HasToken(p) => TokenOf[p] \in Tokens
           /\ NoToken \notin Tokens /\ NoThread \notin Runners /\ NoIntent \notin Intents
           /\ Answers \subseteq Results /\ Evaluators \subseteq Actors
<1>1. Observer \in Actors
  BY CaseAuthorityAssumption
     DEF RunnerAssumption, Preparable, CasePermits, CaseAuthority
<1> QED BY <1>1 DEF RunnerAssumption, Preparable, AdmitsPlan, HasToken

\* What a run may come to hold.
LEMMA ResultFacts ==
    ASSUME NEW r \in Results
    PROVE  r # NoResult /\ r.output \in Contents \cup {NoContent}
BY DEF Results, NoResult, ObservationStatuses

LEMMA ObservationType ==
    ASSUME RunnerAssumption, NEW i \in Intents, NEW r \in Results
    PROVE  /\ Observation(i, r) \in CaseObservation
           /\ <<Plan, Observation(i, r)>> \in Seq(CaseRecord)
<1>1. Plan \in CasePlan /\ RequestOf[i] \in Ids /\ Observer \in Actors
  BY ConstantFacts
<1>2. Observation(i, r) \in CaseObservation
  BY <1>1 DEF Observation, CaseObservation
<1>3. Plan \in CaseRecord /\ Observation(i, r) \in CaseRecord
  BY <1>1, <1>2 DEF CaseRecord
<1> QED BY <1>2, <1>3

\* A verdict is admitted by the rule for verdicts and by no other.
LEMMA VerdictAdmitted ==
    ASSUME NEW j, NEW v, v.type = "verdict", Admits(j, v)
    PROVE  v \in CaseVerdict /\ AdmitsVerdict(j, v)
BY DEF Admits, AdmitsPlan, AdmitsObservation, AdmitsVerdict, AdmitsDecision, CasePlan,
       CaseObservation, CaseVerdict, CaseDecision

-----------------------------------------------------------------------------
(***************************************************************************)
(* Types.                                                                  *)
(***************************************************************************)
LEMMA RunnerTypes ==
    ASSUME RunnerAssumption, TypeOK, EnvelopesFit, ResultFits, OneRun, [Next]_vars
    PROVE  TypeOK'
<1> USE DEF TypeOK, Goto, token, run, Phases, Reports
<1>1. CASE UNCHANGED vars
  BY <1>1 DEF vars
<1>2. ASSUME NEW p \in Runners, NEW i \in Intents, Run(p, i)
      PROVE  TypeOK'
  BY <1>2 DEF Run
<1>3. ASSUME NEW p \in Runners, RefuseSpent(p)
      PROVE  TypeOK'
  BY <1>3 DEF RefuseSpent, Abort
<1>4. ASSUME NEW p \in Runners, Claim(p)
      PROVE  TypeOK'
  <2>1. intent[p] \in Intents
    BY <1>4 DEF Claim, OneRun
  <2> QED BY <1>4, <2>1 DEF Claim
<1>5. ASSUME NEW p \in Runners, StopBeforeEntry(p)
      PROVE  TypeOK'
  BY <1>5 DEF StopBeforeEntry, Abort
<1>6. ASSUME NEW p \in Runners, Enter(p)
      PROVE  TypeOK'
  BY <1>6 DEF Enter
<1>7. ASSUME NEW p \in Runners, NEW r \in Answers, CallbackReturns(p, r)
      PROVE  TypeOK'
  <2>1. r \in Results
    BY ConstantFacts
  <2>2. \A i \in Intents : Append(produced[i], r) \in Seq(Results \cup {NoResult})
    BY <2>1
  <2> QED BY <1>7, <2>1, <2>2 DEF CallbackReturns
<1>8. ASSUME NEW p \in Runners, CallbackAborts(p)
      PROVE  TypeOK'
  <2>1. \A i \in Intents : Append(produced[i], NoResult) \in Seq(Results \cup {NoResult})
    OBVIOUS
  <2> QED BY <1>8, <2>1 DEF CallbackAborts
<1>9. ASSUME NEW p \in Runners, StopAfterCallback(p)
      PROVE  TypeOK'
  <2>1. result[p].output \in Contents \cup {NoContent}
    BY <1>9, ResultFacts DEF StopAfterCallback, ResultFits, HasResult
  <2> QED BY <1>9, <2>1 DEF StopAfterCallback, Abort
<1>10. ASSUME NEW p \in Runners, GoOn(p)
      PROVE  TypeOK'
  BY <1>10 DEF GoOn
<1>11. ASSUME NEW p \in Runners, StopBeforePublication(p)
      PROVE  TypeOK'
  <2>1. result[p].output \in Contents \cup {NoContent}
    BY <1>11, ResultFacts DEF StopBeforePublication, ResultFits, HasResult
  <2> QED BY <1>11, <2>1 DEF StopBeforePublication, Abort
<1>12. ASSUME NEW p \in Runners, StartPublication(p)
      PROVE  TypeOK'
  <2>1. [t \in Tokens |-> IF t = TokenOf[p] THEN p ELSE lock[t]]
            \in [Tokens -> Runners \cup {NoThread}]
    OBVIOUS
  <2> QED BY <1>12, <2>1 DEF StartPublication
<1>13. ASSUME NEW p \in Runners, Publish(p)
      PROVE  TypeOK'
  BY <1>13 DEF Publish, Release
<1>14. ASSUME NEW p \in Runners, NEW v \in {"publication", "raised"}, PublicationFails(p, v)
      PROVE  TypeOK'
  <2>1. result[p].output \in Contents \cup {NoContent}
    BY <1>14, ResultFacts DEF PublicationFails, ResultFits, HasResult
  <2> QED BY <1>14, <2>1 DEF PublicationFails, Abort, Release
<1>15. ASSUME NEW p \in Runners, Mint(p)
      PROVE  TypeOK'
  <2>1. intent[p] \in Intents /\ result[p] \in Results
    BY <1>15 DEF Mint, ResultFits, HasResult
  <2>2. [intent |-> intent[p], journal |-> <<Plan, Observation(intent[p], result[p])>>,
         output |-> result[p].output] \in Retained
    BY <2>1, ObservationType, ResultFacts DEF Retained
  <2> QED BY <1>15, <2>2 DEF Mint
<1>16. ASSUME NEW c \in Cancellers, Cancel(c) PROVE TypeOK'
  BY <1>16 DEF Cancel
<1>17. ASSUME NEW c \in Cancellers, NEW t \in Tokens, CallCancel(c, t) PROVE TypeOK'
  BY <1>17 DEF CallCancel
<1>18. ASSUME NEW e \in issued, NEW evaluator \in Evaluators, Verify(e, evaluator)
      PROVE  TypeOK'
  <2> DEFINE v == [type |-> "verdict", observation |-> e.journal[2],
                   evaluator |-> evaluator, outcome |-> Judged(e)]
  <2>1. v \in CaseVerdict
    BY <1>18, VerdictAdmitted DEF Verify
  <2> QED BY <1>18, <2>1 DEF Verify
<1> QED
  BY <1>1, <1>2, <1>3, <1>4, <1>5, <1>6, <1>7, <1>8, <1>9, <1>10, <1>11, <1>12, <1>13, <1>14, <1>15,
     <1>16, <1>17, <1>18 DEF Next

-----------------------------------------------------------------------------
(***************************************************************************)
(* Cancellation against publication.                                       *)
(***************************************************************************)
LEMMA TokenStep ==
    ASSUME RunnerAssumption, TokenInv, [Next]_vars
    PROVE  LockHeld' /\ CancelsRecorded' /\ CancelDecides'
<1> DEFINE Goal == LockHeld' /\ CancelsRecorded' /\ CancelDecides'
<1>a. /\ \A p \in Runners : HasToken(p) => TokenOf[p] \in Tokens
      /\ NoToken \notin Tokens /\ NoThread \notin Runners
  BY ConstantFacts
<1> USE <1>a DEF TokenInv, TypeOK, LockHeld, CancelsRecorded, CancelDecides, Goto, Free, Tripped,
              HasToken
<1>1. CASE UNCHANGED vars
  BY <1>1 DEF vars, token, run
<1>2. ASSUME NEW p \in Runners, NEW i \in Intents, Run(p, i)
      PROVE  Goal
  BY <1>2 DEF Run, token, run
<1>3. ASSUME NEW p \in Runners, RefuseSpent(p)
      PROVE  Goal
  BY <1>3 DEF RefuseSpent, Abort, token, run
<1>4. ASSUME NEW p \in Runners, Claim(p)
      PROVE  Goal
  BY <1>4 DEF Claim, token, run
<1>5. ASSUME NEW p \in Runners, StopBeforeEntry(p)
      PROVE  Goal
  BY <1>5 DEF StopBeforeEntry, Abort, token, run
<1>6. ASSUME NEW p \in Runners, Enter(p)
      PROVE  Goal
  BY <1>6 DEF Enter, token, run
<1>7. ASSUME NEW p \in Runners, NEW r \in Answers, CallbackReturns(p, r)
      PROVE  Goal
  BY <1>7 DEF CallbackReturns, token, run
<1>8. ASSUME NEW p \in Runners, CallbackAborts(p)
      PROVE  Goal
  BY <1>8 DEF CallbackAborts, token, run
<1>9. ASSUME NEW p \in Runners, StopAfterCallback(p)
      PROVE  Goal
  BY <1>9 DEF StopAfterCallback, Abort, token, run
<1>10. ASSUME NEW p \in Runners, GoOn(p)
      PROVE  Goal
  BY <1>10 DEF GoOn, token, run
<1>11. ASSUME NEW p \in Runners, StopBeforePublication(p)
      PROVE  Goal
  BY <1>11 DEF StopBeforePublication, Abort, token, run
<1>12. ASSUME NEW p \in Runners, StartPublication(p)
      PROVE  Goal
  BY <1>12 DEF StartPublication, token, run
<1>13. ASSUME NEW p \in Runners, Publish(p)
      PROVE  Goal
  BY <1>13 DEF Publish, Release, token, run
<1>14. ASSUME NEW p \in Runners, NEW v \in {"publication", "raised"}, PublicationFails(p, v)
      PROVE  Goal
  BY <1>14 DEF PublicationFails, Abort, Release, token, run
<1>15. ASSUME NEW p \in Runners, Mint(p)
      PROVE  Goal
  BY <1>15 DEF Mint, token, run
<1>16. ASSUME NEW c \in Cancellers, Cancel(c) PROVE Goal
  BY <1>16 DEF Cancel, run
<1>17. ASSUME NEW c \in Cancellers, NEW t \in Tokens, CallCancel(c, t) PROVE Goal
  BY <1>17 DEF CallCancel, run
<1>18. ASSUME NEW e \in issued, NEW evaluator \in Evaluators, Verify(e, evaluator)
      PROVE  Goal
  BY <1>18 DEF Verify, token, run
<1> QED
  BY <1>1, <1>2, <1>3, <1>4, <1>5, <1>6, <1>7, <1>8, <1>9, <1>10, <1>11, <1>12, <1>13, <1>14,
     <1>15, <1>16, <1>17, <1>18 DEF Next

-----------------------------------------------------------------------------
(***************************************************************************)
(* One entry per intent.                                                   *)
(***************************************************************************)
LEMMA OnceStep ==
    ASSUME RunnerAssumption, OnceInv, [Next]_vars
    PROVE  OneRun' /\ EntryInv'
<1> DEFINE Goal == OneRun' /\ EntryInv'
<1> USE DEF OnceInv, TypeOK, OneRun, EntryInv, Holding, Goto
<1>1. CASE UNCHANGED vars
  BY <1>1 DEF vars, token, run
<1>2. ASSUME NEW p \in Runners, NEW i \in Intents, Run(p, i)
      PROVE  Goal
  BY <1>2 DEF Run, token, run
<1>3. ASSUME NEW p \in Runners, RefuseSpent(p)
      PROVE  Goal
  BY <1>3 DEF RefuseSpent, Abort, token, run
<1>4. ASSUME NEW p \in Runners, Claim(p)
      PROVE  Goal
  BY <1>4 DEF Claim, token, run
<1>5. ASSUME NEW p \in Runners, StopBeforeEntry(p)
      PROVE  Goal
  BY <1>5 DEF StopBeforeEntry, Abort, token, run
<1>6. ASSUME NEW p \in Runners, Enter(p)
      PROVE  Goal
  BY <1>6 DEF Enter, token, run
<1>7. ASSUME NEW p \in Runners, NEW r \in Answers, CallbackReturns(p, r)
      PROVE  Goal
  <2>1. intent[p] \in Intents /\ produced[intent[p]] = <<>>
    BY <1>7 DEF CallbackReturns
  <2>2. Append(<<>>, r) = <<r>> /\ Len(<<r>>) = 1
    OBVIOUS
  <2>3. produced' = [produced EXCEPT ![intent[p]] = <<r>>]
    BY <1>7, <2>1, <2>2 DEF CallbackReturns
  <2> QED BY <1>7, <2>1, <2>2, <2>3 DEF CallbackReturns, token
<1>8. ASSUME NEW p \in Runners, CallbackAborts(p)
      PROVE  Goal
  <2>1. intent[p] \in Intents /\ produced[intent[p]] = <<>>
    BY <1>8 DEF CallbackAborts
  <2>2. Append(<<>>, NoResult) = <<NoResult>> /\ Len(<<NoResult>>) = 1
    OBVIOUS
  <2>3. produced' = [produced EXCEPT ![intent[p]] = <<NoResult>>]
    BY <1>8, <2>1, <2>2 DEF CallbackAborts
  <2> QED BY <1>8, <2>1, <2>2, <2>3 DEF CallbackAborts, token
<1>9. ASSUME NEW p \in Runners, StopAfterCallback(p)
      PROVE  Goal
  BY <1>9 DEF StopAfterCallback, Abort, token, run
<1>10. ASSUME NEW p \in Runners, GoOn(p)
      PROVE  Goal
  BY <1>10 DEF GoOn, token, run
<1>11. ASSUME NEW p \in Runners, StopBeforePublication(p)
      PROVE  Goal
  BY <1>11 DEF StopBeforePublication, Abort, token, run
<1>12. ASSUME NEW p \in Runners, StartPublication(p)
      PROVE  Goal
  BY <1>12 DEF StartPublication, token, run
<1>13. ASSUME NEW p \in Runners, Publish(p)
      PROVE  Goal
  BY <1>13 DEF Publish, Release, token, run
<1>14. ASSUME NEW p \in Runners, NEW v \in {"publication", "raised"}, PublicationFails(p, v)
      PROVE  Goal
  BY <1>14 DEF PublicationFails, Abort, Release, token, run
<1>15. ASSUME NEW p \in Runners, Mint(p)
      PROVE  Goal
  BY <1>15 DEF Mint, token, run
<1>16. ASSUME NEW c \in Cancellers, Cancel(c) PROVE Goal
  BY <1>16 DEF Cancel, run
<1>17. ASSUME NEW c \in Cancellers, NEW t \in Tokens, CallCancel(c, t) PROVE Goal
  BY <1>17 DEF CallCancel, run
<1>18. ASSUME NEW e \in issued, NEW evaluator \in Evaluators, Verify(e, evaluator)
      PROVE  Goal
  BY <1>18 DEF Verify, token, run
<1> QED
  BY <1>1, <1>2, <1>3, <1>4, <1>5, <1>6, <1>7, <1>8, <1>9, <1>10, <1>11, <1>12, <1>13, <1>14,
     <1>15, <1>16, <1>17, <1>18 DEF Next

-----------------------------------------------------------------------------
(***************************************************************************)
(* What the adapter produced.                                              *)
(***************************************************************************)
\* What an intent's adapter came to stays what it was.
LEMMA ProducedKept ==
    ASSUME RunnerAssumption, OnceInv, [Next]_vars, NEW i \in Intents, produced[i] # <<>>
    PROVE  produced'[i] = produced[i]
<1>1. CASE produced' = produced
  BY <1>1
<1>2. ASSUME NEW p \in Runners, NEW r, phase[p] = "callback",
             produced' = [produced EXCEPT ![intent[p]] = Append(@, r)]
      PROVE  produced'[i] = produced[i]
  <2>1. intent[p] # i
    BY <1>2 DEF OnceInv, EntryInv
  <2> QED BY <1>2, <2>1 DEF OnceInv, TypeOK
<1> QED
  BY <1>1, <1>2 DEF Next, Cancel, CallCancel, Run, RefuseSpent, Claim, StopBeforeEntry, Enter,
     CallbackReturns, CallbackAborts, StopAfterCallback, GoOn, StopBeforePublication,
     StartPublication, Publish, PublicationFails, Mint, Verify, Abort, Goto, vars, token, run

LEMMA ResultStep ==
    ASSUME RunnerAssumption, RunInv, [Next]_vars
    PROVE  ResultFits' /\ HandedOver'
<1> DEFINE Goal == ResultFits' /\ HandedOver'
<1>a. \A i \in Intents : produced[i] # <<>> => produced'[i] = produced[i]
  BY ProducedKept DEF RunInv
<1>b. \A r \in Results : <<r>> # <<>>
  OBVIOUS
<1> USE <1>a, <1>b DEF RunInv, OnceInv, TypeOK, ResultFits, HandedOver, HasResult, Goto
<1>1. CASE UNCHANGED vars
  BY <1>1 DEF vars, token, run
<1>2. ASSUME NEW p \in Runners, NEW i \in Intents, Run(p, i)
      PROVE  Goal
  BY <1>2 DEF Run, token, run
<1>3. ASSUME NEW p \in Runners, RefuseSpent(p)
      PROVE  Goal
  BY <1>3 DEF RefuseSpent, Abort, token, run
<1>4. ASSUME NEW p \in Runners, Claim(p)
      PROVE  Goal
  BY <1>4 DEF Claim, token, run
<1>5. ASSUME NEW p \in Runners, StopBeforeEntry(p)
      PROVE  Goal
  BY <1>5 DEF StopBeforeEntry, Abort, token, run
<1>6. ASSUME NEW p \in Runners, Enter(p)
      PROVE  Goal
  BY <1>6 DEF Enter, token, run
<1>7. ASSUME NEW p \in Runners, NEW r \in Answers, CallbackReturns(p, r)
      PROVE  Goal
  <2>1. intent[p] \in Intents /\ produced[intent[p]] = <<>>
    BY <1>7 DEF CallbackReturns, OneRun, EntryInv, Holding
  <2>2. r \in Results /\ Append(<<>>, r) = <<r>>
    BY ConstantFacts
  <2>3. produced' = [produced EXCEPT ![intent[p]] = <<r>>]
    BY <1>7, <2>1, <2>2 DEF CallbackReturns
  <2> QED BY <1>7, <2>1, <2>2, <2>3 DEF CallbackReturns, token
<1>8. ASSUME NEW p \in Runners, CallbackAborts(p)
      PROVE  Goal
  BY <1>8 DEF CallbackAborts, token, run
<1>9. ASSUME NEW p \in Runners, StopAfterCallback(p)
      PROVE  Goal
  BY <1>9 DEF StopAfterCallback, Abort, token, run
<1>10. ASSUME NEW p \in Runners, GoOn(p)
      PROVE  Goal
  BY <1>10 DEF GoOn, token, run
<1>11. ASSUME NEW p \in Runners, StopBeforePublication(p)
      PROVE  Goal
  BY <1>11 DEF StopBeforePublication, Abort, token, run
<1>12. ASSUME NEW p \in Runners, StartPublication(p)
      PROVE  Goal
  BY <1>12 DEF StartPublication, token, run
<1>13. ASSUME NEW p \in Runners, Publish(p)
      PROVE  Goal
  BY <1>13 DEF Publish, Release, token, run
<1>14. ASSUME NEW p \in Runners, NEW v \in {"publication", "raised"}, PublicationFails(p, v)
      PROVE  Goal
  BY <1>14 DEF PublicationFails, Abort, Release, token, run
<1>15. ASSUME NEW p \in Runners, Mint(p)
      PROVE  Goal
  <2> DEFINE e == [intent |-> intent[p],
                   journal |-> <<Plan, Observation(intent[p], result[p])>>,
                   output |-> result[p].output]
  <2>1. issued' = issued \cup {e} /\ e.intent = intent[p] /\ e.output = result[p].output
    BY <1>15 DEF Mint
  <2> HIDE DEF e
  <2>2. phase[p] = "minting" /\ phase' = [phase EXCEPT ![p] = "idle"]
        /\ report' = [report EXCEPT ![p] = "retained"]
        /\ UNCHANGED <<intent, result, carried, produced>>
    BY <1>15 DEF Mint, run
  <2>3. ResultFits'
    BY <2>2
  <2>4. HandedOver'
    BY <2>1, <2>2
  <2> QED BY <2>3, <2>4
<1>16. ASSUME NEW c \in Cancellers, Cancel(c) PROVE Goal
  BY <1>16 DEF Cancel, run
<1>17. ASSUME NEW c \in Cancellers, NEW t \in Tokens, CallCancel(c, t) PROVE Goal
  BY <1>17 DEF CallCancel, run
<1>18. ASSUME NEW e \in issued, NEW evaluator \in Evaluators, Verify(e, evaluator)
      PROVE  Goal
  BY <1>18 DEF Verify, token, run
<1> QED
  BY <1>1, <1>2, <1>3, <1>4, <1>5, <1>6, <1>7, <1>8, <1>9, <1>10, <1>11, <1>12, <1>13, <1>14,
     <1>15, <1>16, <1>17, <1>18 DEF Next

\* An envelope or a verdict made in this step fits; those there were stay as they are.
LEMMA EvidenceStep ==
    ASSUME RunnerAssumption, RunInv, [Next]_vars
    PROVE  EnvelopesFit' /\ VerdictsFit'
<1>1. \A i \in Intents : produced[i] # <<>> => produced'[i] = produced[i]
  BY ProducedKept DEF RunInv
<1>2. ASSUME NEW e \in issued
      PROVE  e.intent \in Intents /\ \E r \in Results : IssuedFor(e, r)'
  <2>1. PICK r \in Results : IssuedFor(e, r)
    BY DEF RunInv, EnvelopesFit
  <2>2. e.intent \in Intents
    BY DEF RunInv, EnvelopesFit
  <2>3. produced'[e.intent] = produced[e.intent]
    BY <1>1, <2>1, <2>2 DEF IssuedFor
  <2> QED BY <2>1, <2>2, <2>3 DEF IssuedFor
<1>3. ASSUME NEW v \in checked
      PROVE  /\ v.evaluator \notin {Plan.proposer, Observer}
             /\ \E i \in Intents, r \in Results : EarnedBy(v, i, r)'
  <2>1. PICK i \in Intents, r \in Results : EarnedBy(v, i, r)
    BY DEF RunInv, VerdictsFit
  <2>2. produced'[i] = produced[i]
    BY <1>1, <2>1 DEF EarnedBy
  <2> QED BY <2>1, <2>2 DEF EarnedBy, RunInv, VerdictsFit
<1>4. CASE UNCHANGED <<issued, checked>>
  BY <1>2, <1>3, <1>4 DEF EnvelopesFit, VerdictsFit
<1>5. ASSUME NEW p \in Runners, Mint(p) PROVE EnvelopesFit' /\ VerdictsFit'
  <2>1. PICK i \in Intents, r \in Results :
            i = intent[p] /\ r = result[p] /\ produced[i] = <<r>>
    BY <1>5 DEF Mint, Goto, RunInv, ResultFits, HasResult
  <2> DEFINE e == [intent |-> i, journal |-> <<Plan, Observation(i, r)>>, output |-> r.output]
  <2>2. issued' = issued \cup {e} /\ checked' = checked /\ produced' = produced
    BY <1>5, <2>1 DEF Mint, run
  <2>3. e.intent \in Intents /\ IssuedFor(e, r)'
    BY <2>1, <2>2 DEF IssuedFor
  <2> HIDE DEF e
  <2> QED BY <1>2, <1>3, <2>1, <2>2, <2>3 DEF EnvelopesFit, VerdictsFit
<1>6. ASSUME NEW e \in issued, NEW evaluator \in Evaluators, Verify(e, evaluator)
      PROVE  EnvelopesFit' /\ VerdictsFit'
  <2> DEFINE v == [type |-> "verdict", observation |-> e.journal[2],
                   evaluator |-> evaluator, outcome |-> Judged(e)]
  <2>1. checked' = checked \cup {v} /\ issued' = issued /\ produced' = produced
    BY <1>6 DEF Verify, run
  <2>2. AdmitsVerdict(e.journal, v)
    BY <1>6, VerdictAdmitted DEF Verify
  <2>3. PICK r \in Results : IssuedFor(e, r)
    BY DEF RunInv, EnvelopesFit
  <2>4. e.intent \in Intents
    BY DEF RunInv, EnvelopesFit
  <2>5. e.journal[1] = Plan /\ e.journal[2] = Observation(e.intent, r)
    BY <2>3 DEF IssuedFor
  <2>6. v.evaluator \notin {Plan.proposer, Observer}
    BY <2>2, <2>5 DEF AdmitsVerdict, Observation
  <2>7. EarnedBy(v, e.intent, r)'
    <3>1. v.outcome = Earned(Plan, r)
      BY <2>2, <2>5 DEF AdmitsVerdict, Observation
    <3>2. v.observation.request = RequestOf[e.intent]
      BY <2>5 DEF Observation
    <3> QED BY <2>1, <2>3, <3>1, <3>2 DEF EarnedBy, IssuedFor
  <2> HIDE DEF v
  <2> QED BY <1>2, <1>3, <2>1, <2>4, <2>6, <2>7 DEF EnvelopesFit, VerdictsFit
<1> QED
  BY <1>4, <1>5, <1>6 DEF Next, Cancel, CallCancel, Run, RefuseSpent, Claim, StopBeforeEntry,
     Enter, CallbackReturns, CallbackAborts, StopAfterCallback, GoOn, StopBeforePublication,
     StartPublication, Publish, PublicationFails, Abort, vars

-----------------------------------------------------------------------------
LEMMA RunInitial == ASSUME RunnerAssumption, Init PROVE RunInv
<1>1. TypeOK
  BY DEF Init, TypeOK, Phases, Reports
<1>2. \A i \in Intents : produced[i] = <<>> /\ Len(produced[i]) = 0
  BY DEF Init
<1>3. LockHeld /\ CancelsRecorded /\ CancelDecides
  BY DEF Init, LockHeld, CancelsRecorded, CancelDecides
<1>4. OneRun /\ EntryInv
  BY <1>2 DEF Init, OneRun, EntryInv, Holding
<1>5. ResultFits /\ HandedOver /\ EnvelopesFit /\ VerdictsFit
  BY DEF Init, ResultFits, HasResult, HandedOver, EnvelopesFit, VerdictsFit
<1> QED BY <1>1, <1>3, <1>4, <1>5 DEF RunInv, TokenInv, OnceInv

LEMMA RunStep == ASSUME RunnerAssumption, RunInv, [Next]_vars PROVE RunInv'
<1>1. TypeOK'
  BY RunnerTypes DEF RunInv, TokenInv, OnceInv
<1>2. LockHeld' /\ CancelsRecorded' /\ CancelDecides'
  BY TokenStep DEF RunInv
<1>3. OneRun' /\ EntryInv'
  BY OnceStep DEF RunInv
<1>4. ResultFits' /\ HandedOver' /\ EnvelopesFit' /\ VerdictsFit'
  BY ResultStep, EvidenceStep
<1> QED BY <1>1, <1>2, <1>3, <1>4 DEF RunInv, TokenInv, OnceInv

LEMMA RunInvariance == ASSUME RunnerAssumption PROVE Spec => []RunInv
<1>1. Init => RunInv
  BY RunInitial
<1>2. RunInv /\ [Next]_vars => RunInv'
  BY RunStep
<1> QED BY <1>1, <1>2, PTL DEF Spec

-----------------------------------------------------------------------------
(***************************************************************************)
(* For any threads and tokens: a cancel() that returned True is followed   *)
(* by no publication under its token, one that returned False came after   *)
(* a publication, and a run that retained an observation was not stopped.  *)
(***************************************************************************)
THEOREM CancellationDecides == ASSUME RunnerAssumption PROVE Spec => []CancelDecides
<1>1. RunInv => CancelDecides
  BY DEF RunInv, TokenInv
<1> QED BY <1>1, RunInvariance, PTL

\* Both parts of EntersOnce follow from the claim of the intent.
LEMMA EntryOnce == ASSUME OnceInv PROVE EntersOnce
BY DEF OnceInv, OneRun, EntryInv, EntersOnce, Holding

\* Both parts of OutputKept follow from what the runs hold.
LEMMA OutputFollows == ASSUME RunInv PROVE OutputKept
<1>1. ASSUME NEW p \in Runners,
             phase[p] = "idle", report[p] \in {"retained", "interrupted", "publication"}
      PROVE  LET bytes == produced[intent[p]][1].output
             IN  IF report[p] = "retained"
                 THEN \E e \in issued : e.intent = intent[p] /\ e.output = bytes
                 ELSE carried[p] = bytes
  <2>1. produced[intent[p]] = <<result[p]>>
    BY <1>1 DEF RunInv, ResultFits, HasResult
  <2>2. produced[intent[p]][1].output = result[p].output
    BY <2>1
  <2> QED BY <1>1, <2>2 DEF RunInv, HandedOver
<1>2. ASSUME NEW v \in checked
      PROVE  /\ v.evaluator \notin {Plan.proposer, Observer}
             /\ \E i \in Intents : /\ RequestOf[i] = v.observation.request
                                  /\ v.outcome = Earned(Plan, produced[i][1])
  <2>1. PICK i \in Intents, r \in Results : EarnedBy(v, i, r)
    BY DEF RunInv, VerdictsFit
  <2>2. produced[i][1] = r
    BY <2>1 DEF EarnedBy
  <2> QED BY <2>1, <2>2 DEF EarnedBy, RunInv, VerdictsFit
<1> QED BY <1>1, <1>2 DEF OutputKept

(***************************************************************************)
(* What the runs of case_observation.py promise together, for any number   *)
(* of threads, intents and tokens: cancel() and publication agree, no      *)
(* adapter is entered twice for an intent, and no bytes get lost.          *)
(***************************************************************************)
THEOREM RunsAreSound == ASSUME RunnerAssumption PROVE Spec => []RunsSound
<1>1. RunInv => RunsSound
  BY EntryOnce, OutputFollows DEF RunInv, TokenInv, RunsSound
<1> QED BY <1>1, RunInvariance, PTL
=============================================================================
