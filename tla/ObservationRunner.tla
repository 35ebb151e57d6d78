------------------------- MODULE ObservationRunner -------------------------
(***************************************************************************)
(* The in-process observation path (case_observation.py): one-shot intents *)
(* made by prepare_observation, run_observation on several threads, cancel *)
(* tokens that other threads trip, and verify_observed_bytes.              *)
(*                                                                         *)
(* A token is given to any number of runs.  Its lock is held over the      *)
(* check before the adapter and over the publication, never over the       *)
(* adapter itself.  Publication is the append to the intent's own journal: *)
(* journals are immutable, so each run extends the planned journal the     *)
(* intent was prepared from.  cancel() from within a publication on the    *)
(* same thread raises and changes nothing.                                 *)
(***************************************************************************)
EXTENDS CaseJournal

CONSTANTS
    Runners,        \* threads that call run_observation
    Cancellers,     \* threads that call cancel()
    Intents,        \* prepared observations of the plan
    RequestOf,      \* intent -> its request ID
    Observer,       \* observer_id of the registered adapter
    Plan,           \* the planned case
    Tokens,
    TokenOf,        \* runner -> the token it passes, or NoToken
    Answers,        \* what the adapter may come to
    Evaluators,     \* evaluator_ids named to verify_observed_bytes
    NoToken, NoThread, NoIntent

\* What prepare_observation and registry.select ask of an intent.
Preparable ==
    /\ RequestOf \in [Intents -> Ids]
    /\ AdmitsPlan(<<>>, Plan)
    /\ Observer # Plan.proposer /\ KindOf[Observer] = "tool"
    /\ CasePermits(Observer, Plan.scope, "observe")

RunnerAssumption ==
    /\ Preparable
    /\ TokenOf \in [Runners -> Tokens \cup {NoToken}] /\ NoToken \notin Tokens
    /\ NoThread \notin Runners /\ NoIntent \notin Intents
    /\ Answers \subseteq Results /\ Evaluators \subseteq Actors

VARIABLES
    consumed,   \* the intents whose _consumed is set
    cancelled,  \* the tokens whose _event is set
    published,  \* the tokens whose _published is set
    lock,       \* per token: the runner that holds _lock over a publication
    waiting,    \* per canceller: the token its cancel() call waits for
    phase,      \* per runner: where its run stands
    intent,     \* per runner: the intent of its run
    result,     \* per runner: status and output of its run
    report,     \* per runner: how its last run ended
    carried,    \* per runner: the output on the error it was raised
    issued,     \* the RetainedObservations in _ISSUED
    checked,    \* the verdicts of the CheckedObservations
    accepted,   \* history: the tokens for which some cancel() returned True
    refused,    \* history: the tokens for which some cancel() returned False
    produced    \* history: per intent, what each entry of its adapter came to

token == <<cancelled, published, lock, waiting, accepted, refused>>
run == <<consumed, intent, result, report, carried, produced>>
vars == <<token, run, phase, issued, checked>>

NoResult == [status |-> "none", output |-> NoContent]

Observation(i, r) ==
    [type |-> "observation", plan |-> Plan, request |-> RequestOf[i],
     observer |-> Observer, result |-> r]

\* A RetainedObservation: the journal pins the plan, the request and the observer.
Retained == [intent: Intents, journal: Seq(CaseRecord), output: Contents \cup {NoContent}]

Phases == {"idle", "starting", "checking", "callback", "returned", "acquiring",
           "appending", "minting"}
Reports == {"nothing", "spent", "cancelled", "interrupted", "publication", "raised",
            "retained"}

Init ==
    /\ consumed = {}
    /\ cancelled = {}
    /\ published = {}
    /\ lock = [t \in Tokens |-> NoThread]
    /\ waiting = [c \in Cancellers |-> NoToken]
    /\ phase = [p \in Runners |-> "idle"]
    /\ intent = [p \in Runners |-> NoIntent]
    /\ result = [p \in Runners |-> NoResult]
    /\ report = [p \in Runners |-> "nothing"]
    /\ carried = [p \in Runners |-> NoContent]
    /\ issued = {}
    /\ checked = {}
    /\ accepted = {}
    /\ refused = {}
    /\ produced = [i \in Intents |-> <<>>]

Goto(p, from, to) == phase[p] = from /\ phase' = [phase EXCEPT ![p] = to]

HasToken(p) == TokenOf[p] # NoToken

\* The lock of the runner's token is free.
Free(p) == HasToken(p) => lock[TokenOf[p]] = NoThread

Tripped(p) == HasToken(p) /\ TokenOf[p] \in cancelled

-----------------------------------------------------------------------------
(***************************************************************************)
(* cancel()                                                                *)
(***************************************************************************)
CallCancel(c, t) ==
    /\ waiting[c] = NoToken
    /\ waiting' = [waiting EXCEPT ![c] = t]
    /\ UNCHANGED <<cancelled, published, lock, accepted, refused, run, phase, issued, checked>>

\* Under the lock: refused once published, else accepted.
Cancel(c) ==
    LET t == waiting[c]
    IN  /\ t # NoToken /\ lock[t] = NoThread
        /\ IF t \in published
           THEN refused' = refused \cup {t} /\ UNCHANGED <<cancelled, accepted>>
           ELSE /\ cancelled' = cancelled \cup {t}
                /\ accepted' = accepted \cup {t}
                /\ UNCHANGED refused
        /\ waiting' = [waiting EXCEPT ![c] = NoToken]
        /\ UNCHANGED <<published, lock, run, phase, issued, checked>>

-----------------------------------------------------------------------------
(***************************************************************************)
(* run_observation                                                         *)
(***************************************************************************)
Run(p, i) ==
    /\ Goto(p, "idle", "starting")
    /\ intent' = [intent EXCEPT ![p] = i]
    /\ result' = [result EXCEPT ![p] = NoResult]
    /\ report' = [report EXCEPT ![p] = "nothing"]
    /\ carried' = [carried EXCEPT ![p] = NoContent]
    /\ UNCHANGED <<token, consumed, produced, issued, checked>>

\* The run ends in an error that hands bytes over, or none.
Abort(p, r, bytes) ==
    /\ phase' = [phase EXCEPT ![p] = "idle"]
    /\ report' = [report EXCEPT ![p] = r]
    /\ carried' = [carried EXCEPT ![p] = bytes]
    /\ UNCHANGED <<consumed, intent, result, produced, issued, checked>>

RefuseSpent(p) ==
    /\ phase[p] = "starting"
    /\ intent[p] \in consumed
    /\ Abort(p, "spent", NoContent)
    /\ UNCHANGED token

\* Mutant: the intent is marked consumed, but nobody looked first.
ClaimUnchecked(p) ==
    /\ Goto(p, "starting", "checking")
    /\ consumed' = consumed \cup {intent[p]}
    /\ UNCHANGED <<token, intent, result, report, carried, produced, issued, checked>>

\* _claim, under the intent's lock.
Claim(p) ==
    /\ Goto(p, "starting", "checking")
    /\ intent[p] \notin consumed
    /\ consumed' = consumed \cup {intent[p]}
    /\ UNCHANGED <<token, intent, result, report, carried, produced, issued, checked>>

\* Cancelled before the adapter was entered: the intent is spent all the same.
StopBeforeEntry(p) ==
    /\ phase[p] = "checking" /\ Free(p)
    /\ Tripped(p)
    /\ Abort(p, "cancelled", NoContent)
    /\ UNCHANGED token

\* Mutant: the token's lock is kept while the adapter runs.
EnterLocked(p) ==
    /\ Free(p) /\ ~Tripped(p)
    /\ Goto(p, "checking", "callback")
    /\ lock' = [t \in Tokens |-> IF t = TokenOf[p] THEN p ELSE lock[t]]
    /\ UNCHANGED <<cancelled, published, waiting, accepted, refused, run, issued, checked>>

Enter(p) ==
    /\ Free(p) /\ ~Tripped(p)
    /\ Goto(p, "checking", "callback")
    /\ UNCHANGED <<token, run, issued, checked>>

\* Mutant: a run without admitted bytes keeps the status it started with.
CallbackUnadmitted(p, r) ==
    /\ Goto(p, "callback", "returned")
    /\ result' = [result EXCEPT ![p] = [status |-> "observed", output |-> r.output]]
    /\ produced' = [produced EXCEPT ![intent[p]] = Append(@, r)]
    /\ UNCHANGED <<token, consumed, intent, report, carried, issued, checked>>

\* The adapter returns admitted bytes, or raises, or returns what is not admitted.
CallbackReturns(p, r) ==
    /\ Goto(p, "callback", "returned")
    /\ result' = [result EXCEPT ![p] = r]
    /\ produced' = [produced EXCEPT ![intent[p]] = Append(@, r)]
    /\ UNCHANGED <<token, consumed, intent, report, carried, issued, checked>>

\* A KeyboardInterrupt out of the adapter.
CallbackAborts(p) ==
    /\ phase[p] = "callback"
    /\ phase' = [phase EXCEPT ![p] = "idle"]
    /\ report' = [report EXCEPT ![p] = "raised"]
    /\ produced' = [produced EXCEPT ![intent[p]] = Append(@, NoResult)]
    /\ UNCHANGED <<token, consumed, intent, result, carried, issued, checked>>

\* The look at the token after the adapter, without the lock.
StopAfterCallback(p) ==
    /\ phase[p] = "returned"
    /\ Tripped(p)
    /\ Abort(p, "interrupted", result[p].output)
    /\ UNCHANGED token

GoOn(p) ==
    /\ ~Tripped(p)
    /\ Goto(p, "returned", "acquiring")
    /\ UNCHANGED <<token, run, issued, checked>>

-----------------------------------------------------------------------------
(***************************************************************************)
(* _retained: publication, under the token's lock if there is a token.     *)
(***************************************************************************)
StopBeforePublication(p) ==
    /\ phase[p] = "acquiring" /\ Free(p)
    /\ Tripped(p)
    /\ Abort(p, "interrupted", result[p].output)
    /\ UNCHANGED token

\* Mutant: the token is not looked at again under the lock.
StartPublicationBlindly(p) ==
    /\ Free(p)
    /\ Goto(p, "acquiring", "appending")
    /\ lock' = [t \in Tokens |-> IF t = TokenOf[p] THEN p ELSE lock[t]]
    /\ UNCHANGED <<cancelled, published, waiting, accepted, refused, run, issued, checked>>

StartPublication(p) ==
    /\ Free(p) /\ ~Tripped(p)
    /\ Goto(p, "acquiring", "appending")
    /\ lock' = [t \in Tokens |-> IF t = TokenOf[p] THEN p ELSE lock[t]]
    /\ UNCHANGED <<cancelled, published, waiting, accepted, refused, run, issued, checked>>

Release(p) == lock' = [t \in Tokens |-> IF t = TokenOf[p] THEN NoThread ELSE lock[t]]

\* The append succeeds: the observation exists from here on.
Publish(p) ==
    /\ Goto(p, "appending", "minting")
    /\ published' = published \cup ({TokenOf[p]} \cap Tokens)
    /\ Release(p)
    /\ UNCHANGED <<cancelled, waiting, accepted, refused, run, issued, checked>>

\* Mutant: the error of a failed publication is raised without the bytes.
FailBare(p, v) ==
    /\ phase[p] = "appending"
    /\ Abort(p, v, NoContent)
    /\ Release(p)
    /\ UNCHANGED <<cancelled, published, waiting, accepted, refused>>

\* The append raises: v = "publication" hands the bytes over, a
\* KeyboardInterrupt ("raised") does not.
PublicationFails(p, v) ==
    /\ phase[p] = "appending"
    /\ Abort(p, v, IF v = "publication" THEN result[p].output ELSE NoContent)
    /\ Release(p)
    /\ UNCHANGED <<cancelled, published, waiting, accepted, refused>>

\* The envelope is minted and registered, and the run returns it.
Mint(p) ==
    /\ Goto(p, "minting", "idle")
    /\ issued' = issued \cup {[intent |-> intent[p],
                               journal |-> <<Plan, Observation(intent[p], result[p])>>,
                               output |-> result[p].output]}
    /\ report' = [report EXCEPT ![p] = "retained"]
    /\ UNCHANGED <<token, consumed, intent, result, carried, produced, checked>>

-----------------------------------------------------------------------------
(***************************************************************************)
(* verify_observed_bytes on an issued envelope and its own journal.        *)
(***************************************************************************)
\* The verdict the retained bytes earn.
Judged(e) ==
    IF e.journal[2].result.status # "observed" THEN "inconclusive"
    ELSE IF e.output = Plan.prediction THEN "supported" ELSE "refuted"

Verify(e, evaluator) ==
    LET v == [type |-> "verdict", observation |-> e.journal[2],
              evaluator |-> evaluator, outcome |-> Judged(e)]
    IN  /\ Admits(e.journal, v)
        /\ checked' = checked \cup {v}
        /\ UNCHANGED <<token, run, phase, issued>>

-----------------------------------------------------------------------------
Progress(p) ==
    \/ RefuseSpent(p) \/ Claim(p) \/ StopBeforeEntry(p) \/ Enter(p) \/ StopAfterCallback(p)
    \/ GoOn(p) \/ StopBeforePublication(p) \/ StartPublication(p) \/ Publish(p)
    \/ PublicationFails(p, "publication") \/ Mint(p)

Next ==
    \/ \E c \in Cancellers : Cancel(c) \/ \E t \in Tokens : CallCancel(c, t)
    \/ \E p \in Runners :
        \/ \E i \in Intents : Run(p, i)
        \/ RefuseSpent(p)
        \/ Claim(p)
        \/ StopBeforeEntry(p)
        \/ Enter(p)
        \/ \E r \in Answers : CallbackReturns(p, r)
        \/ CallbackAborts(p)
        \/ StopAfterCallback(p)
        \/ GoOn(p)
        \/ StopBeforePublication(p)
        \/ StartPublication(p)
        \/ Publish(p)
        \/ \E v \in {"publication", "raised"} : PublicationFails(p, v)
        \/ Mint(p)
    \/ \E e \in issued, evaluator \in Evaluators : Verify(e, evaluator)

Spec == Init /\ [][Next]_vars

\* Threads are scheduled; nothing is assumed of the adapter, and nothing of the
\* order in which a lock is granted.
FairSpec ==
    /\ Spec
    /\ \A p \in Runners : WF_vars(Progress(p))
    /\ \A c \in Cancellers : WF_vars(Cancel(c))

-----------------------------------------------------------------------------
(***************************************************************************)
(* Type invariant.                                                         *)
(***************************************************************************)
TypeOK ==
    /\ consumed \subseteq Intents
    /\ cancelled \subseteq Tokens /\ published \subseteq Tokens
    /\ lock \in [Tokens -> Runners \cup {NoThread}]
    /\ waiting \in [Cancellers -> Tokens \cup {NoToken}]
    /\ phase \in [Runners -> Phases]
    /\ intent \in [Runners -> Intents \cup {NoIntent}]
    /\ result \in [Runners -> Results \cup {NoResult}]
    /\ report \in [Runners -> Reports]
    /\ carried \in [Runners -> Contents \cup {NoContent}]
    /\ issued \subseteq Retained
    /\ checked \subseteq CaseVerdict
    /\ accepted \subseteq Tokens /\ refused \subseteq Tokens
    /\ produced \in [Intents -> Seq(Results \cup {NoResult})]

(***************************************************************************)
(* cancel() and publication decide between them: once a cancel() returned  *)
(* True no run with that token publishes, one that returned False did so   *)
(* because an observation was published, and a run that retained one was   *)
(* never told to stop.                                                     *)
(***************************************************************************)
CancelDecides ==
    /\ accepted \cap (published \cup refused) = {}
    /\ refused \subseteq published
    /\ \A p \in Runners :
           HasToken(p) /\ (report[p] = "retained" \/ phase[p] = "minting")
               => TokenOf[p] \in published

(***************************************************************************)
(* An intent enters its adapter at most once, whichever threads run it.    *)
(***************************************************************************)
EntersOnce ==
    \A i \in Intents :
        /\ Len(produced[i]) <= 1
        /\ \A p, q \in Runners :
               phase[p] = "callback" /\ intent[p] = i =>
                   produced[i] = <<>> /\ (phase[q] = "callback" /\ intent[q] = i => p = q)

(***************************************************************************)
(* Bytes the adapter produced reach somebody: unless an interrupt broke    *)
(* the run off, it ended with the envelope issued or with the bytes on the *)
(* error; and a verdict is the one those bytes earn, by somebody who       *)
(* neither proposed nor observed.                                          *)
(***************************************************************************)
OutputKept ==
    /\ \A p \in Runners :
           phase[p] = "idle" /\ report[p] \in {"retained", "interrupted", "publication"} =>
               LET bytes == produced[intent[p]][1].output
               IN  IF report[p] = "retained"
                   THEN \E e \in issued : e.intent = intent[p] /\ e.output = bytes
                   ELSE carried[p] = bytes
    /\ \A v \in checked :
           /\ v.evaluator \notin {Plan.proposer, Observer}
           /\ \E i \in Intents :
                  /\ RequestOf[i] = v.observation.request
                  /\ v.outcome = Earned(Plan, produced[i][1])

(***************************************************************************)
(* All of it: cancel() and publication agree on who came first, no intent  *)
(* is run twice, and what an adapter came to reaches the caller.           *)
(***************************************************************************)
RunsSound == TypeOK /\ CancelDecides /\ EntersOnce /\ OutputKept

(***************************************************************************)
(* Every run ends or is inside its adapter, and every cancel() returns,    *)
(* also when an adapter never does: no lock is held while it runs.         *)
(***************************************************************************)
EverythingReturns ==
    /\ \A p \in Runners : phase[p] \notin {"idle", "callback"} ~> phase[p] \in {"idle", "callback"}
    /\ \A c \in Cancellers : waiting[c] # NoToken ~> waiting[c] = NoToken
=============================================================================
