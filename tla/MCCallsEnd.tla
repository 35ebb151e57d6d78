----------------------------- MODULE MCCallsEnd -----------------------------
(***************************************************************************)
(* Whatever waits comes to an end: two threads at one case store, two      *)
(* processes at a workflow store whose limits just fit one batch, two      *)
(* runners and a canceller, and a reader of pages.                         *)
(***************************************************************************)
EXTENDS ObservationRunner, MCCaseValues, MCStoreValues, TLC

CONSTANTS NoCaller, NoActor, NoId, NoGroup, NoBound, NoCursor

\* Two runners share a token.
MCTokenOf == [p \in Runners |-> "t"]
OneAnswer == {Observed("yes")}
MCRequestOf == [i \in Ids |-> i]

\* Two threads of one process with the same tool: both claim, and one runs the bridge.
MCObjectOf == [t1 |-> "o", t2 |-> "o"]
MCObserverOf == [o |-> "tess"]
MCUses == [t1 |-> {"execute"}, t2 |-> {"claim"}]

\* Events and queries that tell them apart: by claim, by group, by a range that ends
\* at an event's time, and not at all.
Event(claim, group, observed, ingested, size) ==
    [claim |-> claim, group |-> group, observed |-> observed, ingested |-> ingested, size |-> size]

MCEvents == {Event("a", NoGroup, 1, 2, 1), Event("a", "g", 2, 3, 2), Event("b", "g", 2, 2, 1)}

Always == <<NoBound, NoBound>>

Query(claims, groups, observed, ingested) ==
    [claims |-> claims, groups |-> groups, observed |-> observed, ingested |-> ingested]

MCQueries ==
    {Query({}, {}, Always, Always), Query({"a"}, {}, Always, Always), Query({"a", "b"}, {"g"}, Always, Always),
     Query({}, {}, <<NoBound, 2>>, Always), Query({}, {}, Always, <<2, 3>>)}

VARIABLES
    system,     \* which component this behaviour is of, and for a runner's whether
                \* it is looked at from the runners ("run") or the canceller ("cancel")
    case_db, case_hot, case_writer, bridge, case_known, args, finish, case_request,
    case_phase, case_staged, case_outcome, case_verdict, case_report, case_carried,
    returned, case_landed, entered, decision,
    store_db, store_hot, store_writer, store_known, store_request, kind,
    store_phase, store_staged, store_outcome, store_verdict, store_report,
    store_landed,
    ledger, pinned, query, selection, cursor, got, page_phase

case == <<case_db, case_hot, case_writer, bridge, case_known, args, finish, case_request,
    case_phase, case_staged, case_outcome, case_verdict, case_report, case_carried,
    returned, case_landed, entered, decision>>
store == <<store_db, store_hot, store_writer, store_known, store_request, kind,
    store_phase, store_staged, store_outcome, store_verdict, store_report,
    store_landed>>
page == <<ledger, pinned, query, selection, cursor, got, page_phase>>

Case == INSTANCE CaseStore WITH
    Callers <- {"t1", "t2"}, Objects <- {"o"}, ObjectOf <- MCObjectOf,
    ObserverOf <- MCObserverOf, Uses <- MCUses, Answers <- OneAnswer, db <- case_db,
    hot <- case_hot, writer <- case_writer, known <- case_known, request <- case_request,
    phase <- case_phase, staged <- case_staged, outcome <- case_outcome,
    verdict <- case_verdict, report <- case_report, carried <- case_carried,
    landed <- case_landed

Store == INSTANCE WorkflowStore WITH
    Callers <- {"w1", "w2"}, RequestIds <- {"r1"}, Transitions <- MCTransitions,
    Batches <- MCShortBatches, Imported <- MCImported, Authorized <- MCAuthorized,
    MaxRecords <- 4, MaxAppendRecords <- 2, MaxOperations <- 1, db <- store_db,
    hot <- store_hot, writer <- store_writer, known <- store_known,
    request <- store_request, phase <- store_phase, staged <- store_staged,
    outcome <- store_outcome, verdict <- store_verdict, report <- store_report,
    landed <- store_landed

Pages == INSTANCE LedgerQuery WITH
    Readers <- {"r"}, Events <- MCEvents, Queries <- MCQueries, Limits <- {1, 2},
    Budgets <- {2, 3}, MaxEntries <- 4, MaxIndexBytes <- 5, phase <- page_phase

ASSUME Store!StoreAssumption /\ RunnerAssumption /\ Case!CaseStoreAssumption

EndInit ==
    /\ system \in {"case", "store", "run", "cancel", "page"}
    /\ Init /\ Case!Init /\ Store!Init /\ Pages!Init
    /\ system # "page" => query = [r \in {"r"} |-> Query({}, {}, Always, Always)]

\* The components share nothing: a behaviour is one of a single component, beside
\* the initial states of the others.
EndNext ==
    \/ system = "case" /\ Case!Next /\ UNCHANGED <<system, vars, store, page>>
    \/ system = "store" /\ Store!Next /\ UNCHANGED <<system, vars, case, page>>
    \/ system \in {"run", "cancel"} /\ Next /\ UNCHANGED <<system, case, store, page>>
    \/ system = "page" /\ Pages!Next /\ UNCHANGED <<system, vars, case, store>>

allVars == <<system, vars, case, store, page>>

-----------------------------------------------------------------------------
\* The two actors of each component.
Thread == <<"t1", "t2">>
Process == <<"w1", "w2">>
Runner == <<"p1", "p2">>

\* Whoever is inside a call goes on, as in the specifications of the components; the
\* process of the reader does not restart for ever.
EndFairness ==
    /\ \A i \in 1..2 :
        /\ WF_case(system = "case" /\ Case!Progress(Thread[i]))
        /\ WF_store(system = "store" /\ Store!Progress(Process[i]))
        /\ WF_vars(system \in {"run", "cancel"} /\ Progress(Runner[i]))
    /\ WF_vars(system \in {"run", "cancel"} /\ Cancel("c"))
    /\ WF_page(/\ system = "page"
               /\ \/ Pages!Open("r")
                  \/ \E limit \in {1, 2}, budget \in {2, 3} : Pages!Page("r", limit, budget))
    /\ <>[][~(system = "page" /\ Pages!Restart("r"))]_page

EndSpec == EndInit /\ [][EndNext]_allVars /\ EndFairness

-----------------------------------------------------------------------------
\* With limits that just fit, no committed batch makes the store unreadable
\* (workflow_storage.py), and its calls and those of the case keep their types.
LimitsHold ==
    /\ system = "store" => Store!TypeOK /\ Store!StoreVerifies
    /\ system = "case" => Case!TypeOK

\* The pages of a reader are the matches in the pinned ledger, in order, each once, and
\* a cursor goes on where its page ended (query.py).
PagesExact ==
    system = "page" => Pages!TypeOK /\ Pages!PagesAreTheMatches /\ Pages!CursorsResume

\* Not at rest: in a call of a store or of the bridge, or in run() but not in the
\* adapter, in cancel(), or with pages left to read and not locked out by growth.
InCall(i) ==
    \/ system = "case" /\ case_phase[Thread[i]] \notin Case!Resting
    \/ system = "store" /\ store_phase[Process[i]] \notin Store!Resting
    \/ system = "run" /\ phase[Runner[i]] \notin {"idle", "callback"}
    \/ system = "cancel" /\ waiting["c"] # NoToken
    \/ system = "page" /\ page_phase["r"] = "reading" /\ ~Pages!LockedOut("r")

\* Every call of a store (workflow_storage.py, case_storage.py) and every run
\* (case_observation.py) ends or is inside the adapter, every cancel() returns, and a
\* reader of pages (query.py) comes to the last one, unless the ledger outgrew the index
\* (_MAX_INDEX_BYTES) while it had none open: CallsEnd, EveryCallEnds,
\* EverythingReturns and ReadingEnds of the components, actor by actor.
EverythingEnds == \A i \in 1..2 : InCall(i) ~> ~InCall(i)
=============================================================================
