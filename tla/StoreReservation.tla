-------------------------- MODULE StoreReservation --------------------------
(***************************************************************************)
(* create_workflow_store and create_case_store: a creator reserves a path  *)
(* with an exclusive open and commits the first transaction into the file. *)
(* After a failure a creator of a workflow store compares what is at the   *)
(* path with its own reservation, looks for sidecars, and unlinks; one of  *)
(* a case store leaves everything where it is.                             *)
(*                                                                         *)
(* Creators race for one path, fail anywhere and die anywhere.  An         *)
(* operator moves what is at the path out of the way at any time, also     *)
(* between the comparison and the unlink.                                  *)
(***************************************************************************)
EXTENDS Naturals, FiniteSets

CONSTANTS
    Creators,       \* processes that create a store at the path
    CaseCreators,   \* those that call create_case_store
    MaxFiles,       \* bound of the instance: files ever made at the path
    NoFile

ReservationAssumption ==
    /\ CaseCreators \subseteq Creators /\ MaxFiles \in Nat
    /\ NoFile \notin 1..MaxFiles /\ "empty" \notin Creators

VARIABLES
    path,       \* the file at the path, or NoFile
    content,    \* per file: "empty", or the creator whose first transaction is in it
    sidecar,    \* a journal stands beside the path
    made,       \* files made so far
    phase,      \* per creator: where its call stands
    mine,       \* per creator: the file it reserved
    identity,   \* per creator: store._identity, the file it knows it reserved
    outcome,    \* per creator: state.outcome
    closed,     \* creators whose state.closed is true
    report,     \* per creator: how its call ended
    compared,   \* history, per creator: the files made before its comparison
    removed,    \* history: files unlinked by a creator
    strays      \* history: those that were put at the path after the comparison

vars == <<path, content, sidecar, made, phase, mine, identity, outcome, closed, report, compared,
          removed, strays>>

Files == 1..MaxFiles

Init ==
    /\ path = NoFile /\ content = [f \in Files |-> "empty"] /\ sidecar = FALSE /\ made = 0
    /\ phase = [p \in Creators |-> "idle"]
    /\ mine = [p \in Creators |-> NoFile]
    /\ identity = [p \in Creators |-> NoFile]
    /\ outcome = [p \in Creators |-> "none"]
    /\ closed = {}
    /\ report = [p \in Creators |-> "nothing"]
    /\ compared = [p \in Creators |-> 0]
    /\ removed = {} /\ strays = {}

Goto(p, from, to) == phase[p] = from /\ phase' = [phase EXCEPT ![p] = to]

\* The call begins: arguments are checked before any file is touched.
Begin(p) ==
    /\ Goto(p, "idle", "reserving")
    /\ mine' = [mine EXCEPT ![p] = NoFile]
    /\ identity' = [identity EXCEPT ![p] = NoFile]
    /\ outcome' = [outcome EXCEPT ![p] = "none"]
    /\ closed' = closed \ {p}
    /\ report' = [report EXCEPT ![p] = "nothing"]
    /\ UNCHANGED <<path, content, sidecar, made, compared, removed, strays>>

\* open("xb"): only a path without a file is reserved.
Reserve(p) ==
    /\ path = NoFile /\ made < MaxFiles
    /\ Goto(p, "reserving", IF p \in CaseCreators THEN "reserved" ELSE "identifying")
    /\ made' = made + 1 /\ path' = made + 1
    /\ mine' = [mine EXCEPT ![p] = made + 1]
    /\ UNCHANGED <<content, sidecar, identity, outcome, closed, report, compared, removed, strays>>

\* fstat names the file, and the handle is closed.
Identify(p) ==
    /\ Goto(p, "identifying", "reserved")
    /\ identity' = [identity EXCEPT ![p] = mine[p]]
    /\ closed' = closed \cup {p}
    /\ UNCHANGED <<path, content, sidecar, made, mine, outcome, report, compared, removed, strays>>

\* Mutant: a plain BEGIN.
UnlockedAssumed(f) == TRUE

\* BEGIN IMMEDIATE gets the file's write lock.
Unlocked(f) == \A q \in Creators : phase[q] \in {"writing", "committing"} => mine[q] # f

\* _connect opens the file that is at the path, if it is the identified one, and
\* BEGIN IMMEDIATE starts the transaction; from here the close must be seen again.
Open(p) ==
    /\ path # NoFile /\ (p \in CaseCreators \/ path = identity[p])
    /\ Unlocked(path)
    /\ Goto(p, "reserved", "writing")
    /\ mine' = [mine EXCEPT ![p] = path]
    /\ closed' = closed \ {p}
    /\ UNCHANGED <<path, content, sidecar, made, identity, outcome, report, compared, removed,
                   strays>>

\* Mutant: COMMIT is attempted under outcome none.
OutcomeAtCommitQuiet == "none"

OutcomeAtCommit == "unknown"

StartCommit(p) ==
    /\ Goto(p, "writing", "committing") /\ content[mine[p]] = "empty"
    /\ outcome' = [outcome EXCEPT ![p] = OutcomeAtCommit]
    /\ UNCHANGED <<path, content, sidecar, made, mine, identity, closed, report, compared,
                   removed, strays>>

\* The first transaction becomes durable in the file that was opened.
Land(p) ==
    /\ Goto(p, "committing", "landed")
    /\ content' = [content EXCEPT ![mine[p]] = p]
    /\ UNCHANGED <<path, sidecar, made, mine, identity, outcome, closed, report, compared,
                   removed, strays>>

\* COMMIT is acknowledged.
Acknowledge(p) ==
    /\ Goto(p, "landed", "complete")
    /\ outcome' = [outcome EXCEPT ![p] = "complete"]
    /\ UNCHANGED <<path, content, sidecar, made, mine, identity, closed, report, compared, removed,
                   strays>>

\* The connection is closed; create_case_store then reads the store once more.
Close(p) ==
    /\ Goto(p, "complete", IF p \in CaseCreators THEN "snapshot" ELSE "idle")
    /\ closed' = closed \cup {p}
    /\ report' = IF p \in CaseCreators THEN report ELSE [report EXCEPT ![p] = "created"]
    /\ UNCHANGED <<path, content, sidecar, made, mine, identity, outcome, compared, removed,
                   strays>>

\* instance.snapshot(expected=checkpoint): the file that was opened, with what was committed.
Snapshot(p) ==
    /\ path = mine[p] /\ Goto(p, "snapshot", "idle")
    /\ report' = [report EXCEPT ![p] = "created"]
    /\ UNCHANGED <<path, content, sidecar, made, mine, identity, outcome, closed, compared, removed,
                   strays>>

\* The outcome reported then is that of a call which only reads.
SnapshotFails(p) ==
    /\ Goto(p, "snapshot", "idle")
    /\ report' = [report EXCEPT ![p] = "none"]
    /\ UNCHANGED <<path, content, sidecar, made, mine, identity, outcome, closed, compared, removed,
                   strays>>

\* Any step raises; close() of the connection is seen to succeed, or not.
Fail(p, seen) ==
    /\ phase[p] \in {"reserving", "identifying", "reserved", "writing", "committing", "landed",
                     "complete"}
    /\ phase[p] \in {"reserving", "reserved"} => ~seen
    /\ phase' = [phase EXCEPT ![p] = "failing"]
    /\ closed' = IF seen THEN closed \cup {p} ELSE closed
    /\ UNCHANGED <<path, content, sidecar, made, mine, identity, outcome, report, compared, removed,
                   strays>>

-----------------------------------------------------------------------------
(***************************************************************************)
(* What becomes of the reservation of a failed call.                       *)
(***************************************************************************)
\* create_case_store has no cleanup: the outcome of the transaction is all it reports.
CaseReports(p) ==
    /\ p \in CaseCreators /\ Goto(p, "failing", "idle")
    /\ report' = [report EXCEPT ![p] = outcome[p]]
    /\ UNCHANGED <<path, content, sidecar, made, mine, identity, outcome, closed, compared, removed,
                   strays>>

\* Mutant: the file at the path is not compared with the reservation.
OwnReservationAssumed(p) ==
    path # NoFile /\ identity[p] # NoFile /\ outcome[p] = "none" /\ p \in closed

\* Mutant: what became of the transaction is not asked.
OwnReservationAnyOutcome(p) == identity[p] # NoFile /\ path = identity[p]

\* What create_workflow_store asks before it removes anything.
OwnReservation(p) ==
    /\ identity[p] # NoFile /\ outcome[p] = "none" /\ p \in closed
    /\ path = identity[p]

Compare(p) ==
    /\ OwnReservation(p) /\ Goto(p, "failing", "matched")
    /\ compared' = [compared EXCEPT ![p] = made]
    /\ UNCHANGED <<path, content, sidecar, made, mine, identity, outcome, closed, report, removed,
                   strays>>

\* Neither a journal nor -wal or -shm stands beside the path.
LookAround(p) ==
    /\ ~sidecar /\ Goto(p, "matched", "bare")
    /\ UNCHANGED <<path, content, sidecar, made, mine, identity, outcome, closed, report, compared,
                   removed, strays>>

\* unlink, of whatever is at the path by now.
Unlink(p) ==
    /\ path # NoFile /\ Goto(p, "bare", "idle")
    /\ path' = NoFile /\ removed' = removed \cup {path}
    /\ strays' = IF path > compared[p] THEN strays \cup {path} ELSE strays
    /\ compared' = [compared EXCEPT ![p] = 0]
    /\ report' = [report EXCEPT ![p] = "none"]
    /\ UNCHANGED <<content, sidecar, made, mine, identity, outcome, closed>>

\* The file that the call identified is gone: nothing is left to remove.
Nothing(p) ==
    /\ p \notin CaseCreators /\ path = NoFile
    /\ identity[p] # NoFile /\ outcome[p] = "none" /\ p \in closed
    /\ phase[p] \in {"failing", "bare"} /\ phase' = [phase EXCEPT ![p] = "idle"]
    /\ compared' = [compared EXCEPT ![p] = 0]
    /\ report' = [report EXCEPT ![p] = "none"]
    /\ UNCHANGED <<path, content, sidecar, made, mine, identity, outcome, closed, removed,
                   strays>>

\* The destination is left, and its inspection asked for, also when a look at it or the
\* unlink fails; and when the call could not reserve it.
Preserve(p) ==
    /\ p \notin CaseCreators
    /\ phase[p] \in {"failing", "matched", "bare"} /\ phase' = [phase EXCEPT ![p] = "idle"]
    /\ compared' = [compared EXCEPT ![p] = 0]
    /\ report' = [report EXCEPT ![p] = "inspect"]
    /\ UNCHANGED <<path, content, sidecar, made, mine, identity, outcome, closed, removed,
                   strays>>

-----------------------------------------------------------------------------
\* The process dies; inside a transaction a journal may be left beside the file.
Crash(p) ==
    /\ phase[p] \notin {"idle", "dead"}
    /\ phase' = [phase EXCEPT ![p] = "dead"]
    /\ sidecar' \in IF phase[p] \in {"writing", "committing"} /\ path = mine[p]
                    THEN {sidecar, TRUE} ELSE {sidecar}
    /\ report' = [report EXCEPT ![p] = "lost"]
    /\ UNCHANGED <<path, content, made, mine, identity, outcome, closed, compared, removed, strays>>

Restart(p) ==
    /\ Goto(p, "dead", "idle")
    /\ UNCHANGED <<path, content, sidecar, made, mine, identity, outcome, closed, report,
                   compared, removed, strays>>

\* The operator moves the file and its sidecars out of the way.
ClearPath ==
    /\ path # NoFile
    /\ path' = NoFile /\ sidecar' = FALSE
    /\ UNCHANGED <<content, made, phase, mine, identity, outcome, closed, report, compared,
                   removed, strays>>

Next ==
    \/ ClearPath
    \/ \E p \in Creators :
        \/ Begin(p)
        \/ Reserve(p)
        \/ Identify(p)
        \/ Open(p)
        \/ StartCommit(p)
        \/ Land(p)
        \/ Acknowledge(p)
        \/ Close(p)
        \/ Snapshot(p) \/ SnapshotFails(p)
        \/ \E seen \in BOOLEAN : Fail(p, seen)
        \/ CaseReports(p)
        \/ Compare(p) \/ LookAround(p) \/ Unlink(p)
        \/ Nothing(p)
        \/ Preserve(p)
        \/ Crash(p)
        \/ Restart(p)

Spec == Init /\ [][Next]_vars

-----------------------------------------------------------------------------
(***************************************************************************)
(* Type invariant.                                                         *)
(***************************************************************************)
TypeOK ==
    /\ path \in Files \cup {NoFile}
    /\ content \in [Files -> Creators \cup {"empty"}]
    /\ sidecar \in BOOLEAN /\ made \in 0..MaxFiles
    /\ phase \in [Creators -> {"idle", "reserving", "identifying", "reserved", "writing",
                               "committing", "landed", "complete", "snapshot", "failing", "matched",
                               "bare", "dead"}]
    /\ mine \in [Creators -> Files \cup {NoFile}]
    /\ identity \in [Creators -> Files \cup {NoFile}]
    /\ outcome \in [Creators -> {"none", "unknown", "complete"}]
    /\ closed \subseteq Creators /\ compared \in [Creators -> 0..MaxFiles]
    /\ strays \subseteq removed /\ removed \subseteq Files
    /\ report \in [Creators -> {"nothing", "created", "none", "unknown", "complete", "inspect",
                                "lost"}]

(***************************************************************************)
(* "Never remove a possibly committed database": a file a failed creation  *)
(* unlinked holds no store, its own or anybody's, then or later; unless it *)
(* was put at the path between the comparison and the unlink, against      *)
(* which the documentation promises nothing.                               *)
(***************************************************************************)
NeverRemovesAStore == \A f \in removed \ strays : content[f] = "empty"

(***************************************************************************)
(* A creator that returns a store, or reports that its commit is complete, *)
(* has its own first transaction in the file, and no two creators ever put *)
(* theirs into the same file.                                              *)
(***************************************************************************)
CreatedIsOwn == \A p \in Creators : report[p] \in {"created", "complete"} => content[mine[p]] = p

(***************************************************************************)
(* What a report of outcome none, without a request to inspect, is worth.  *)
(* From create_workflow_store: this call left no file at the path and made *)
(* no store.  From create_case_store, which leaves its reservation: this   *)
(* call made no store either, or its commit was complete and reading the   *)
(* store again failed.                                                     *)
(***************************************************************************)
CleanFailure ==
    \A p \in Creators :
        report[p] = "none" /\ mine[p] # NoFile =>
            IF p \in CaseCreators THEN content[mine[p]] = p => outcome[p] = "complete"
            ELSE path # mine[p] /\ content[mine[p]] = "empty"

(***************************************************************************)
(* What create_workflow_store and create_case_store promise for a path at  *)
(* which stores of one kind are created: a failed creation removes no      *)
(* store, what it reports is so, and a created store is in the file that   *)
(* its creator opened, whatever else is created.                           *)
(***************************************************************************)
CreationsSound ==
    /\ TypeOK /\ CreatedIsOwn
    /\ CaseCreators \in {{}, Creators} => NeverRemovesAStore /\ CleanFailure
=============================================================================
