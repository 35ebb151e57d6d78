------------------------ MODULE StoreReservationProofs ------------------------
(***************************************************************************)
(* Proofs about StoreReservation, for any number of creators, of workflow  *)
(* stores and of case stores, and any number of files at the path; and     *)
(* about StoreCommand, the commands that work on such a store, for any     *)
(* number of operators, request IDs and batches.                           *)
(***************************************************************************)
EXTENDS StoreReservation, StoreCommand, SequenceTheorems, TLAPS

-----------------------------------------------------------------------------
(***************************************************************************)
(* The inductive invariant.                                                *)
(***************************************************************************)
\* A file number is used once, and a file is empty until it is made.
FilesFit ==
    /\ path \in (1..made) \cup {NoFile} /\ removed \subseteq 1..made /\ path \notin removed
    /\ \A f \in Files : f \notin 1..made => content[f] = "empty"

\* What a call knows of its file, and what it reports, at each place of it.
PlaceFits(p) ==
    /\ phase[p] \notin {"idle", "dead"} => report[p] = "nothing"
    /\ phase[p] = "reserving" => mine[p] = NoFile
    /\ phase[p] \in {"identifying", "matched", "bare"} => p \notin CaseCreators
    /\ phase[p] = "snapshot" => p \in CaseCreators
    /\ phase[p] \in {"identifying", "reserved", "writing", "committing", "landed"} =>
           mine[p] # NoFile
    /\ phase[p] \in {"reserving", "identifying"} \/ p \in CaseCreators => identity[p] = NoFile
    /\ phase[p] \in {"reserved", "writing", "committing", "landed", "matched", "bare"}
       /\ p \notin CaseCreators => identity[p] # NoFile
    /\ phase[p] \in {"reserving", "identifying", "reserved", "writing", "matched", "bare"} =>
           outcome[p] = "none"
    /\ phase[p] \in {"committing", "landed"} => outcome[p] # "none"
    /\ phase[p] \in {"complete", "snapshot"} \/ report[p] \in {"created", "complete"} =>
           outcome[p] = "complete"
    /\ report[p] = "none" => outcome[p] \in {"none", "complete"}
    /\ report[p] = "none" /\ p \notin CaseCreators => outcome[p] = "none"

\* Its file, and what is in the file: nothing of its own before it commits.
FileFits(p) ==
    /\ mine[p] \in (1..made) \cup {NoFile} /\ identity[p] \in {mine[p], NoFile}
    /\ phase[p] = "committing" => content[mine[p]] = "empty"
    /\ phase[p] = "landed" \/ outcome[p] = "complete" => mine[p] # NoFile /\ content[mine[p]] = p
    /\ phase[p] \in {"identifying", "reserved"} /\ path # NoFile => content[path] # p
    /\ mine[p] # NoFile /\ outcome[p] = "none" => content[mine[p]] # p

CallFits(p) == PlaceFits(p) /\ FileFits(p)

\* The write lock of a file has one holder.
LocksFit ==
    \A p, q \in Creators :
        p # q /\ {phase[p], phase[q]} \subseteq {"writing", "committing"} => mine[p] # mine[q]

\* Among creators of workflow stores, who open what they identified and nothing else: what
\* is in the file of a call, and at the path, when it reports or removes something.
OwnFits(p) ==
    /\ mine[p] # NoFile /\ outcome[p] = "none" => content[mine[p]] = "empty"
    /\ report[p] = "none" /\ mine[p] # NoFile => path # mine[p]
    /\ phase[p] \in {"matched", "bare"} =>
           compared[p] <= made /\ (path \in {NoFile, mine[p]} \/ path > compared[p])

\* A file has one creator, and what was removed is nobody's any more.
OwnFiles ==
    /\ \A p \in Creators : OwnFits(p)
    /\ \A p, q \in Creators : p # q /\ mine[p] # NoFile => mine[p] # mine[q]
    /\ \A f \in removed \ strays :
           content[f] = "empty" /\ \A p \in Creators : mine[p] = f => phase[p] = "idle"

ReservationInv ==
    /\ TypeOK /\ FilesFit /\ LocksFit
    /\ \A p \in Creators : CallFits(p)
    /\ CaseCreators = {} => OwnFiles
    /\ CaseCreators = Creators => removed = {}

-----------------------------------------------------------------------------
LEMMA InitLemma == ASSUME ReservationAssumption, Init PROVE ReservationInv
<1>1. TypeOK
  <2>1. /\ phase \in [Creators -> {"idle"}] /\ mine \in [Creators -> {NoFile}]
        /\ identity \in [Creators -> {NoFile}] /\ outcome \in [Creators -> {"none"}]
        /\ report \in [Creators -> {"nothing"}] /\ content \in [Files -> {"empty"}]
        /\ compared \in [Creators -> {0}]
    BY DEF Init
  <2>2. /\ path = NoFile /\ sidecar = FALSE /\ made \in 0..MaxFiles /\ 0 \in 0..MaxFiles
        /\ closed = {} /\ removed = {} /\ strays = {}
    BY DEF ReservationAssumption, Init
  <2> QED BY <2>1, <2>2 DEF TypeOK
<1>2. FilesFit /\ LocksFit
  BY DEF Init, FilesFit, LocksFit
<1>3. \A p \in Creators : CallFits(p) /\ OwnFits(p)
  BY DEF Init, CallFits, PlaceFits, FileFits, OwnFits
<1>4. OwnFiles
  BY <1>3 DEF Init, OwnFiles
<1> QED BY <1>1, <1>2, <1>3, <1>4 DEF ReservationInv, Init

\* The types of what calls keep.
ReservationTypes ==
    /\ phase \in [Creators -> {"idle", "reserving", "identifying", "reserved", "writing",
                               "committing", "landed", "complete", "snapshot", "failing", "matched",
                               "bare", "dead"}]
    /\ mine \in [Creators -> Files \cup {NoFile}]
    /\ identity \in [Creators -> Files \cup {NoFile}]
    /\ outcome \in [Creators -> {"none", "unknown", "complete"}]
    /\ report \in [Creators -> {"nothing", "created", "none", "unknown", "complete", "inspect",
                                "lost"}]
    /\ compared \in [Creators -> 0..MaxFiles]
    /\ content \in [Files -> Creators \cup {"empty"}]
    /\ path \in Files \cup {NoFile} /\ made \in Nat /\ made <= MaxFiles /\ NoFile \notin Files
    /\ "empty" \notin Creators /\ removed \subseteq Files /\ strays \subseteq removed

LEMMA TypesOfReservation ==
    ASSUME ReservationAssumption, ReservationInv PROVE ReservationTypes
BY DEF ReservationAssumption, ReservationInv, TypeOK, ReservationTypes, Files

\* Nothing of a call's but the call p's own changes.
Others(p) ==
    \A q \in Creators \ {p} :
        /\ phase'[q] = phase[q] /\ mine'[q] = mine[q] /\ identity'[q] = identity[q]
        /\ outcome'[q] = outcome[q] /\ report'[q] = report[q] /\ compared'[q] = compared[q]

\* A step that moves no file, fills none and opens none.
LEMMA QuietStep ==
    ASSUME ReservationInv, TypeOK', NEW p \in Creators, Others(p),
           UNCHANGED <<path, content, made, removed, strays, mine>>, phase[p] # "idle",
           phase'[p] # "writing", phase'[p] = "committing" => phase[p] = "writing",
           CallFits(p)', CaseCreators = {} /\ OwnFits(p) => OwnFits(p)'
    PROVE  ReservationInv'
<1>1. FilesFit'
  BY DEF ReservationInv, FilesFit
<1>2. LocksFit'
  BY DEF ReservationInv, LocksFit, Others
<1>3. \A q \in Creators : CallFits(q)'
  <2> SUFFICES ASSUME NEW q \in Creators, q # p PROVE CallFits(q)'
    OBVIOUS
  <2>1. CallFits(q)
    BY DEF ReservationInv
  <2> QED BY <2>1 DEF CallFits, PlaceFits, FileFits, Others
<1>4. ASSUME CaseCreators = {} PROVE OwnFiles'
  <2>1. OwnFiles
    BY <1>4 DEF ReservationInv
  <2>2. ASSUME NEW q \in Creators, q # p PROVE OwnFits(q)'
    BY <2>1, <2>2 DEF OwnFiles, OwnFits, Others
  <2>3. OwnFits(p)'
    BY <1>4, <2>1 DEF OwnFiles
  <2>4. ASSUME NEW f \in removed \ strays, NEW q \in Creators, mine[q] = f PROVE phase'[q] = "idle"
    BY <2>1, <2>4 DEF OwnFiles, Others
  <2> QED BY <2>1, <2>2, <2>3, <2>4 DEF OwnFiles
<1>5. CaseCreators = Creators => removed' = {}
  BY DEF ReservationInv
<1> QED BY <1>1, <1>2, <1>3, <1>4, <1>5 DEF ReservationInv

\* The reserved file is identified.
LEMMA IdentifyStep ==
    ASSUME ReservationAssumption, ReservationInv, NEW p \in Creators,
           Identify(p)
    PROVE  ReservationInv'
<1>1. ReservationTypes /\ CallFits(p)
  BY TypesOfReservation DEF ReservationInv
<1>2. /\ phase[p] = "identifying" /\ phase'[p] = "reserved" /\ identity'[p] = mine[p]
      /\ outcome'[p] = outcome[p] /\ report'[p] = report[p] /\ compared'[p] = compared[p]
      /\ UNCHANGED <<path, content, made, removed, strays, mine>>
  BY <1>1 DEF ReservationTypes, Identify, Goto
<1>3. Others(p)
  BY <1>1 DEF ReservationTypes, Others, Identify, Goto
<1>4. TypeOK'
  BY <1>1 DEF ReservationTypes, ReservationInv, TypeOK, ReservationAssumption, Files,
              Identify, Goto
<1>5. PlaceFits(p)'
  BY <1>1, <1>2 DEF ReservationTypes, CallFits, PlaceFits, FileFits
<1>6. FileFits(p)'
  BY <1>1, <1>2 DEF ReservationTypes, CallFits, PlaceFits, FileFits
<1>7. CaseCreators = {} /\ OwnFits(p) => OwnFits(p)'
  BY <1>1, <1>2 DEF ReservationTypes, CallFits, PlaceFits, FileFits, OwnFits
<1> QED BY <1>2, <1>3, <1>4, <1>5, <1>6, <1>7, QuietStep DEF CallFits

\* COMMIT is attempted.
LEMMA StartCommitStep ==
    ASSUME ReservationAssumption, ReservationInv, NEW p \in Creators,
           StartCommit(p)
    PROVE  ReservationInv'
<1>1. ReservationTypes /\ CallFits(p)
  BY TypesOfReservation DEF ReservationInv
<1>2. /\ phase[p] = "writing" /\ phase'[p] = "committing" /\ identity'[p] = identity[p]
      /\ outcome'[p] = "unknown" /\ report'[p] = report[p] /\ compared'[p] = compared[p]
      /\ content[mine[p]] = "empty"
      /\ UNCHANGED <<path, content, made, removed, strays, mine>>
  BY <1>1 DEF ReservationTypes, StartCommit, OutcomeAtCommit, Goto
<1>3. Others(p)
  BY <1>1 DEF ReservationTypes, Others, StartCommit, OutcomeAtCommit, Goto
<1>4. TypeOK'
  BY <1>1 DEF ReservationTypes, ReservationInv, TypeOK, ReservationAssumption, Files,
              StartCommit, OutcomeAtCommit, Goto
<1>5. PlaceFits(p)'
  BY <1>1, <1>2 DEF ReservationTypes, CallFits, PlaceFits, FileFits
<1>6. FileFits(p)'
  BY <1>1, <1>2 DEF ReservationTypes, CallFits, PlaceFits, FileFits
<1>7. CaseCreators = {} /\ OwnFits(p) => OwnFits(p)'
  BY <1>1, <1>2 DEF ReservationTypes, CallFits, PlaceFits, FileFits, OwnFits
<1> QED BY <1>2, <1>3, <1>4, <1>5, <1>6, <1>7, QuietStep DEF CallFits

\* COMMIT is acknowledged.
LEMMA AcknowledgeStep ==
    ASSUME ReservationAssumption, ReservationInv, NEW p \in Creators,
           Acknowledge(p)
    PROVE  ReservationInv'
<1>1. ReservationTypes /\ CallFits(p)
  BY TypesOfReservation DEF ReservationInv
<1>2. /\ phase[p] = "landed" /\ phase'[p] = "complete" /\ identity'[p] = identity[p]
      /\ outcome'[p] = "complete" /\ report'[p] = report[p] /\ compared'[p] = compared[p]
      /\ UNCHANGED <<path, content, made, removed, strays, mine>>
  BY <1>1 DEF ReservationTypes, Acknowledge, Goto
<1>3. Others(p)
  BY <1>1 DEF ReservationTypes, Others, Acknowledge, Goto
<1>4. TypeOK'
  BY <1>1 DEF ReservationTypes, ReservationInv, TypeOK, ReservationAssumption, Files,
              Acknowledge, Goto
<1>5. PlaceFits(p)'
  BY <1>1, <1>2 DEF ReservationTypes, CallFits, PlaceFits, FileFits
<1>6. FileFits(p)'
  BY <1>1, <1>2 DEF ReservationTypes, CallFits, PlaceFits, FileFits
<1>7. CaseCreators = {} /\ OwnFits(p) => OwnFits(p)'
  BY <1>1, <1>2 DEF ReservationTypes, CallFits, PlaceFits, FileFits, OwnFits
<1> QED BY <1>2, <1>3, <1>4, <1>5, <1>6, <1>7, QuietStep DEF CallFits

\* The connection is closed.
LEMMA CloseStep ==
    ASSUME ReservationAssumption, ReservationInv, NEW p \in Creators,
           Close(p)
    PROVE  ReservationInv'
<1>1. ReservationTypes /\ CallFits(p)
  BY TypesOfReservation DEF ReservationInv
<1>2. /\ phase[p] = "complete" /\ phase'[p] = (IF p \in CaseCreators THEN "snapshot" ELSE "idle")
      /\ report'[p] = (IF p \in CaseCreators THEN report[p] ELSE "created")
      /\ identity'[p] = identity[p] /\ outcome'[p] = outcome[p] /\ compared'[p] = compared[p]
      /\ UNCHANGED <<path, content, made, removed, strays, mine>>
  BY <1>1 DEF ReservationTypes, Close, Goto
<1>3. Others(p)
  BY <1>1 DEF ReservationTypes, Others, Close, Goto
<1>4. TypeOK'
  BY <1>1 DEF ReservationTypes, ReservationInv, TypeOK, ReservationAssumption, Files, Close,
              Goto
<1>5. PlaceFits(p)'
  BY <1>1, <1>2 DEF ReservationTypes, CallFits, PlaceFits, FileFits
<1>6. FileFits(p)'
  BY <1>1, <1>2 DEF ReservationTypes, CallFits, PlaceFits, FileFits
<1>7. CaseCreators = {} /\ OwnFits(p) => OwnFits(p)'
  BY <1>1, <1>2 DEF ReservationTypes, CallFits, PlaceFits, FileFits, OwnFits
<1> QED BY <1>2, <1>3, <1>4, <1>5, <1>6, <1>7, QuietStep DEF CallFits

\* The store is read once more, or that fails.
LEMMA SnapshotStep ==
    ASSUME ReservationAssumption, ReservationInv, NEW p \in Creators,
           Snapshot(p) \/ SnapshotFails(p)
    PROVE  ReservationInv'
<1>1. ReservationTypes /\ CallFits(p)
  BY TypesOfReservation DEF ReservationInv
<1>2. /\ phase[p] = "snapshot" /\ phase'[p] = "idle" /\ report'[p] \in {"created", "none"}
      /\ identity'[p] = identity[p] /\ outcome'[p] = outcome[p] /\ compared'[p] = compared[p]
      /\ UNCHANGED <<path, content, made, removed, strays, mine>>
  BY <1>1 DEF ReservationTypes, Snapshot, SnapshotFails, Goto
<1>3. Others(p)
  BY <1>1 DEF ReservationTypes, Others, Snapshot, SnapshotFails, Goto
<1>4. TypeOK'
  <2>1. CASE Snapshot(p)
    BY <1>1, <2>1 DEF ReservationTypes, ReservationInv, TypeOK, ReservationAssumption, Files,
                      Snapshot, Goto
  <2>2. CASE SnapshotFails(p)
    BY <1>1, <2>2 DEF ReservationTypes, ReservationInv, TypeOK, ReservationAssumption, Files,
                      SnapshotFails, Goto
  <2> QED BY <2>1, <2>2
<1>5. PlaceFits(p)'
  BY <1>1, <1>2 DEF ReservationTypes, CallFits, PlaceFits, FileFits
<1>6. FileFits(p)'
  BY <1>1, <1>2 DEF ReservationTypes, CallFits, PlaceFits, FileFits
<1>7. CaseCreators = {} /\ OwnFits(p) => OwnFits(p)'
  BY <1>1, <1>2 DEF ReservationTypes, CallFits, PlaceFits, FileFits, OwnFits
<1> QED BY <1>2, <1>3, <1>4, <1>5, <1>6, <1>7, QuietStep DEF CallFits

\* Any step raises.
LEMMA FailStep ==
    ASSUME ReservationAssumption, ReservationInv, NEW p \in Creators, NEW seen \in BOOLEAN,
           Fail(p, seen)
    PROVE  ReservationInv'
<1>1. ReservationTypes /\ CallFits(p)
  BY TypesOfReservation DEF ReservationInv
<1>2. /\ phase[p] # "idle" /\ phase[p] # "dead" /\ phase'[p] = "failing" /\ identity'[p] = identity[p]
      /\ outcome'[p] = outcome[p] /\ report'[p] = report[p] /\ compared'[p] = compared[p]
      /\ UNCHANGED <<path, content, made, removed, strays, mine>>
  BY <1>1 DEF ReservationTypes, Fail
<1>3. Others(p)
  BY <1>1 DEF ReservationTypes, Others, Fail
<1>4. TypeOK'
  BY <1>1 DEF ReservationTypes, ReservationInv, TypeOK, ReservationAssumption, Files, Fail
<1>5. PlaceFits(p)'
  BY <1>1, <1>2 DEF ReservationTypes, CallFits, PlaceFits, FileFits
<1>6. FileFits(p)'
  BY <1>1, <1>2 DEF ReservationTypes, CallFits, PlaceFits, FileFits
<1>7. CaseCreators = {} /\ OwnFits(p) => OwnFits(p)'
  BY <1>1, <1>2 DEF ReservationTypes, CallFits, PlaceFits, FileFits, OwnFits
<1> QED BY <1>2, <1>3, <1>4, <1>5, <1>6, <1>7, QuietStep DEF CallFits

\* A creator of a case store reports the outcome.
LEMMA CaseReportsStep ==
    ASSUME ReservationAssumption, ReservationInv, NEW p \in Creators,
           CaseReports(p)
    PROVE  ReservationInv'
<1>1. ReservationTypes /\ CallFits(p)
  BY TypesOfReservation DEF ReservationInv
<1>2. /\ phase[p] = "failing" /\ phase'[p] = "idle" /\ p \in CaseCreators /\ report'[p] = outcome[p]
      /\ identity'[p] = identity[p] /\ outcome'[p] = outcome[p] /\ compared'[p] = compared[p]
      /\ UNCHANGED <<path, content, made, removed, strays, mine>>
  BY <1>1 DEF ReservationTypes, CaseReports, Goto
<1>3. Others(p)
  BY <1>1 DEF ReservationTypes, Others, CaseReports, Goto
<1>4. TypeOK'
  BY <1>1 DEF ReservationTypes, ReservationInv, TypeOK, ReservationAssumption, Files,
              CaseReports, Goto
<1>5. PlaceFits(p)'
  BY <1>1, <1>2 DEF ReservationTypes, CallFits, PlaceFits, FileFits
<1>6. FileFits(p)'
  BY <1>1, <1>2 DEF ReservationTypes, CallFits, PlaceFits, FileFits
<1>7. CaseCreators = {} /\ OwnFits(p) => OwnFits(p)'
  BY <1>1, <1>2 DEF ReservationTypes, CallFits, PlaceFits, FileFits, OwnFits
<1> QED BY <1>2, <1>3, <1>4, <1>5, <1>6, <1>7, QuietStep DEF CallFits

\* The reservation is what is at the path.
LEMMA CompareStep ==
    ASSUME ReservationAssumption, ReservationInv, NEW p \in Creators,
           Compare(p)
    PROVE  ReservationInv'
<1>1. ReservationTypes /\ CallFits(p)
  BY TypesOfReservation DEF ReservationInv
<1>2. /\ phase[p] = "failing" /\ phase'[p] = "matched" /\ identity'[p] = identity[p]
      /\ identity[p] # NoFile /\ outcome[p] = "none" /\ path = identity[p] /\ compared'[p] = made
      /\ outcome'[p] = outcome[p] /\ report'[p] = report[p]
      /\ UNCHANGED <<path, content, made, removed, strays, mine>>
  BY <1>1 DEF ReservationTypes, Compare, OwnReservation, Goto
<1>3. Others(p)
  BY <1>1 DEF ReservationTypes, Others, Compare, OwnReservation, Goto
<1>4. TypeOK'
  BY <1>1 DEF ReservationTypes, ReservationInv, TypeOK, ReservationAssumption, Files,
              Compare, OwnReservation, Goto
<1>5. PlaceFits(p)'
  BY <1>1, <1>2 DEF ReservationTypes, CallFits, PlaceFits, FileFits
<1>6. FileFits(p)'
  BY <1>1, <1>2 DEF ReservationTypes, CallFits, PlaceFits, FileFits
<1>7. CaseCreators = {} /\ OwnFits(p) => OwnFits(p)'
  BY <1>1, <1>2 DEF ReservationTypes, CallFits, PlaceFits, FileFits, OwnFits
<1> QED BY <1>2, <1>3, <1>4, <1>5, <1>6, <1>7, QuietStep DEF CallFits

\* No sidecar is there.
LEMMA LookAroundStep ==
    ASSUME ReservationAssumption, ReservationInv, NEW p \in Creators,
           LookAround(p)
    PROVE  ReservationInv'
<1>1. ReservationTypes /\ CallFits(p)
  BY TypesOfReservation DEF ReservationInv
<1>2. /\ phase[p] = "matched" /\ phase'[p] = "bare" /\ identity'[p] = identity[p]
      /\ outcome'[p] = outcome[p] /\ report'[p] = report[p] /\ compared'[p] = compared[p]
      /\ UNCHANGED <<path, content, made, removed, strays, mine>>
  BY <1>1 DEF ReservationTypes, LookAround, Goto
<1>3. Others(p)
  BY <1>1 DEF ReservationTypes, Others, LookAround, Goto
<1>4. TypeOK'
  BY <1>1 DEF ReservationTypes, ReservationInv, TypeOK, ReservationAssumption, Files,
              LookAround, Goto
<1>5. PlaceFits(p)'
  BY <1>1, <1>2 DEF ReservationTypes, CallFits, PlaceFits, FileFits
<1>6. FileFits(p)'
  BY <1>1, <1>2 DEF ReservationTypes, CallFits, PlaceFits, FileFits
<1>7. CaseCreators = {} /\ OwnFits(p) => OwnFits(p)'
  BY <1>1, <1>2 DEF ReservationTypes, CallFits, PlaceFits, FileFits, OwnFits
<1> QED BY <1>2, <1>3, <1>4, <1>5, <1>6, <1>7, QuietStep DEF CallFits

\* There is nothing to remove.
LEMMA NothingStep ==
    ASSUME ReservationAssumption, ReservationInv, NEW p \in Creators,
           Nothing(p)
    PROVE  ReservationInv'
<1>1. ReservationTypes /\ CallFits(p)
  BY TypesOfReservation DEF ReservationInv
<1>2. /\ phase[p] \in {"failing", "bare"} /\ phase'[p] = "idle" /\ identity'[p] = identity[p]
      /\ p \notin CaseCreators /\ identity[p] # NoFile /\ outcome[p] = "none" /\ path = NoFile
      /\ outcome'[p] = outcome[p] /\ report'[p] = "none"
      /\ UNCHANGED <<path, content, made, removed, strays, mine>>
  BY <1>1 DEF ReservationTypes, Nothing
<1>3. Others(p)
  BY <1>1 DEF ReservationTypes, Others, Nothing
<1>4. TypeOK'
  BY <1>1 DEF ReservationTypes, ReservationInv, TypeOK, ReservationAssumption, Files, Nothing
<1>5. PlaceFits(p)'
  BY <1>1, <1>2 DEF ReservationTypes, CallFits, PlaceFits, FileFits
<1>6. FileFits(p)'
  BY <1>1, <1>2 DEF ReservationTypes, CallFits, PlaceFits, FileFits
<1>7. CaseCreators = {} /\ OwnFits(p) => OwnFits(p)'
  BY <1>1, <1>2 DEF ReservationTypes, CallFits, PlaceFits, FileFits, OwnFits
<1> QED BY <1>2, <1>3, <1>4, <1>5, <1>6, <1>7, QuietStep DEF CallFits

\* The file stays for inspection.
LEMMA PreserveStep ==
    ASSUME ReservationAssumption, ReservationInv, NEW p \in Creators,
           Preserve(p)
    PROVE  ReservationInv'
<1>1. ReservationTypes /\ CallFits(p)
  BY TypesOfReservation DEF ReservationInv
<1>2. /\ phase[p] \in {"failing", "matched", "bare"} /\ phase'[p] = "idle" /\ identity'[p] = identity[p]
      /\ outcome'[p] = outcome[p] /\ report'[p] = "inspect"
      /\ UNCHANGED <<path, content, made, removed, strays, mine>>
  BY <1>1 DEF ReservationTypes, Preserve
<1>3. Others(p)
  BY <1>1 DEF ReservationTypes, Others, Preserve
<1>4. TypeOK'
  BY <1>1 DEF ReservationTypes, ReservationInv, TypeOK, ReservationAssumption, Files, Preserve
<1>5. PlaceFits(p)'
  BY <1>1, <1>2 DEF ReservationTypes, CallFits, PlaceFits, FileFits
<1>6. FileFits(p)'
  BY <1>1, <1>2 DEF ReservationTypes, CallFits, PlaceFits, FileFits
<1>7. CaseCreators = {} /\ OwnFits(p) => OwnFits(p)'
  BY <1>1, <1>2 DEF ReservationTypes, CallFits, PlaceFits, FileFits, OwnFits
<1> QED BY <1>2, <1>3, <1>4, <1>5, <1>6, <1>7, QuietStep DEF CallFits

\* A process dies.
LEMMA CrashStep ==
    ASSUME ReservationAssumption, ReservationInv, NEW p \in Creators,
           Crash(p)
    PROVE  ReservationInv'
<1>1. ReservationTypes /\ CallFits(p)
  BY TypesOfReservation DEF ReservationInv
<1>2. /\ phase[p] # "idle" /\ phase'[p] = "dead" /\ identity'[p] = identity[p]
      /\ outcome'[p] = outcome[p] /\ report'[p] = "lost" /\ compared'[p] = compared[p]
      /\ UNCHANGED <<path, content, made, removed, strays, mine>>
  BY <1>1 DEF ReservationTypes, Crash
<1>3. Others(p)
  BY <1>1 DEF ReservationTypes, Others, Crash
<1>4. TypeOK'
  BY <1>1 DEF ReservationTypes, ReservationInv, TypeOK, ReservationAssumption, Files, Crash
<1>5. PlaceFits(p)'
  BY <1>1, <1>2 DEF ReservationTypes, CallFits, PlaceFits, FileFits
<1>6. FileFits(p)'
  BY <1>1, <1>2 DEF ReservationTypes, CallFits, PlaceFits, FileFits
<1>7. CaseCreators = {} /\ OwnFits(p) => OwnFits(p)'
  BY <1>1, <1>2 DEF ReservationTypes, CallFits, PlaceFits, FileFits, OwnFits
<1> QED BY <1>2, <1>3, <1>4, <1>5, <1>6, <1>7, QuietStep DEF CallFits

\* A process comes back.
LEMMA RestartStep ==
    ASSUME ReservationAssumption, ReservationInv, NEW p \in Creators,
           Restart(p)
    PROVE  ReservationInv'
<1>1. ReservationTypes /\ CallFits(p)
  BY TypesOfReservation DEF ReservationInv
<1>2. /\ phase[p] = "dead" /\ phase'[p] = "idle" /\ identity'[p] = identity[p]
      /\ outcome'[p] = outcome[p] /\ report'[p] = report[p] /\ compared'[p] = compared[p]
      /\ UNCHANGED <<path, content, made, removed, strays, mine>>
  BY <1>1 DEF ReservationTypes, Restart, Goto
<1>3. Others(p)
  BY <1>1 DEF ReservationTypes, Others, Restart, Goto
<1>4. TypeOK'
  BY <1>1 DEF ReservationTypes, ReservationInv, TypeOK, ReservationAssumption, Files,
              Restart, Goto
<1>5. PlaceFits(p)'
  BY <1>1, <1>2 DEF ReservationTypes, CallFits, PlaceFits, FileFits
<1>6. FileFits(p)'
  BY <1>1, <1>2 DEF ReservationTypes, CallFits, PlaceFits, FileFits
<1>7. CaseCreators = {} /\ OwnFits(p) => OwnFits(p)'
  BY <1>1, <1>2 DEF ReservationTypes, CallFits, PlaceFits, FileFits, OwnFits
<1> QED BY <1>2, <1>3, <1>4, <1>5, <1>6, <1>7, QuietStep DEF CallFits

\* A call begins.
LEMMA BeginStep ==
    ASSUME ReservationAssumption, ReservationInv, NEW p \in Creators, Begin(p)
    PROVE  ReservationInv'
<1>1. ReservationTypes /\ CallFits(p)
  BY TypesOfReservation DEF ReservationInv
<1>2. /\ phase[p] = "idle" /\ phase'[p] = "reserving" /\ mine'[p] = NoFile
      /\ identity'[p] = NoFile /\ outcome'[p] = "none" /\ report'[p] = "nothing"
      /\ UNCHANGED <<path, content, made, removed, strays>>
  BY <1>1 DEF ReservationTypes, Begin, Goto
<1>3. Others(p)
  BY <1>1 DEF ReservationTypes, Others, Begin, Goto
<1>4. TypeOK'
  BY <1>1 DEF ReservationTypes, ReservationInv, TypeOK, ReservationAssumption, Files, Begin, Goto
<1>5. FilesFit' /\ LocksFit'
  BY <1>2, <1>3 DEF ReservationInv, FilesFit, LocksFit, Others
<1>6. ASSUME NEW q \in Creators PROVE CallFits(q)'
  <2>1. CASE q = p
    BY <1>2, <2>1 DEF CallFits, PlaceFits, FileFits
  <2>2. CASE q # p
    BY <1>2, <1>3, <2>2 DEF ReservationInv, Others, CallFits, PlaceFits, FileFits
  <2> QED BY <2>1, <2>2
<1>7. ASSUME CaseCreators = {} PROVE OwnFiles'
  <2>1. OwnFiles
    BY <1>7 DEF ReservationInv
  <2>2. ASSUME NEW q \in Creators PROVE OwnFits(q)'
    BY <1>1, <1>2, <1>3, <2>1 DEF OwnFiles, OwnFits, Others
  <2>3. ASSUME NEW q \in Creators, NEW r \in Creators, q # r, mine'[q] # NoFile
        PROVE  mine'[q] # mine'[r]
    BY <1>2, <1>3, <2>1, <2>3 DEF OwnFiles, Others
  <2>4. ASSUME NEW f \in removed' \ strays', NEW q \in Creators, mine'[q] = f
        PROVE  phase'[q] = "idle"
    BY <1>1, <1>2, <1>3, <2>1, <2>4 DEF OwnFiles, Others, ReservationTypes
  <2> QED BY <1>2, <2>1, <2>2, <2>3, <2>4 DEF OwnFiles
<1>8. CaseCreators = Creators => removed' = {}
  BY <1>2 DEF ReservationInv
<1> QED BY <1>4, <1>5, <1>6, <1>7, <1>8 DEF ReservationInv

\* A new file is reserved.
LEMMA ReserveStep ==
    ASSUME ReservationAssumption, ReservationInv, NEW p \in Creators, Reserve(p)
    PROVE  ReservationInv'
<1>1. ReservationTypes /\ CallFits(p) /\ FilesFit
  BY TypesOfReservation DEF ReservationInv
<1>2. /\ phase[p] = "reserving"
      /\ phase'[p] = (IF p \in CaseCreators THEN "reserved" ELSE "identifying")
      /\ mine'[p] = made + 1 /\ made < MaxFiles /\ made' = made + 1 /\ path' = made + 1
      /\ identity'[p] = identity[p] /\ outcome'[p] = outcome[p] /\ report'[p] = report[p]
      /\ UNCHANGED <<content, removed, strays>>
  BY <1>1 DEF ReservationTypes, Reserve, Goto
<1>3. Others(p)
  BY <1>1 DEF ReservationTypes, Others, Reserve, Goto
<1>4. TypeOK'
  BY <1>1 DEF ReservationTypes, ReservationInv, TypeOK, ReservationAssumption, Files, Reserve,
              Goto
<1>5. /\ made + 1 \notin 1..made /\ made + 1 \in 1..made' /\ \A f \in 1..made : f \in 1..made'
      /\ made + 1 \in Files /\ made + 1 # NoFile /\ content[made + 1] = "empty"
      /\ made + 1 \notin removed
  BY <1>1, <1>2 DEF ReservationTypes, ReservationAssumption, Files, FilesFit
<1>6. FilesFit' /\ LocksFit'
  BY <1>1, <1>2, <1>3, <1>5 DEF ReservationInv, FilesFit, LocksFit, Others
<1>7. ASSUME NEW q \in Creators PROVE CallFits(q)'
  <2>1. CASE q = p
    BY <1>1, <1>2, <1>5, <2>1 DEF ReservationTypes, CallFits, PlaceFits, FileFits
  <2>2. CASE q # p
    <3>1. CallFits(q)
      BY DEF ReservationInv
    <3>2. PlaceFits(q)'
      BY <1>3, <2>2, <3>1 DEF Others, CallFits, PlaceFits
    <3>3. FileFits(q)'
      BY <1>1, <1>2, <1>3, <1>5, <2>2, <3>1 DEF ReservationTypes, Others, CallFits, FileFits
    <3> QED BY <3>2, <3>3 DEF CallFits
  <2> QED BY <2>1, <2>2
<1>8. ASSUME CaseCreators = {} PROVE OwnFiles'
  <2>1. OwnFiles /\ \A q \in Creators : mine[q] # made + 1
    BY <1>5, <1>8 DEF ReservationInv, CallFits, FileFits
  <2>2. ASSUME NEW q \in Creators PROVE OwnFits(q)'
    <3>1. CASE q = p
      BY <1>1, <1>2, <1>5, <3>1 DEF CallFits, PlaceFits, OwnFits
    <3>2. CASE q # p
      BY <1>1, <1>2, <1>3, <1>5, <2>1, <3>2 DEF ReservationTypes, OwnFiles, OwnFits, Others
    <3> QED BY <3>1, <3>2
  <2>3. ASSUME NEW q \in Creators, NEW r \in Creators, q # r, mine'[q] # NoFile
        PROVE  mine'[q] # mine'[r]
    BY <1>2, <1>3, <1>5, <2>1, <2>3 DEF OwnFiles, Others
  <2>4. ASSUME NEW f \in removed' \ strays', NEW q \in Creators, mine'[q] = f
        PROVE  phase'[q] = "idle"
    BY <1>2, <1>3, <1>5, <2>1, <2>4 DEF OwnFiles, Others
  <2> QED BY <1>2, <2>1, <2>2, <2>3, <2>4 DEF OwnFiles
<1>9. CaseCreators = Creators => removed' = {}
  BY <1>2 DEF ReservationInv
<1> QED BY <1>4, <1>6, <1>7, <1>8, <1>9 DEF ReservationInv

\* The write lock is taken.
LEMMA OpenStep ==
    ASSUME ReservationAssumption, ReservationInv, NEW p \in Creators, Open(p)
    PROVE  ReservationInv'
<1>1. ReservationTypes /\ CallFits(p) /\ FilesFit
  BY TypesOfReservation DEF ReservationInv
<1>2. /\ phase[p] = "reserved" /\ phase'[p] = "writing" /\ mine'[p] = path
      /\ path # NoFile /\ (p \in CaseCreators \/ path = identity[p])
      /\ identity'[p] = identity[p] /\ outcome'[p] = outcome[p] /\ report'[p] = report[p]
      /\ UNCHANGED <<path, content, made, removed, strays, compared>>
      /\ \A q \in Creators : phase[q] \in {"writing", "committing"} => mine[q] # path
  BY <1>1 DEF ReservationTypes, Open, Unlocked, Goto
<1>3. Others(p)
  BY <1>1 DEF ReservationTypes, Others, Open, Goto
<1>4. TypeOK'
  BY <1>1 DEF ReservationTypes, ReservationInv, TypeOK, ReservationAssumption, Files, Open, Goto
<1>5. FilesFit' /\ LocksFit'
  BY <1>2, <1>3 DEF ReservationInv, FilesFit, LocksFit, Others
<1>6. ASSUME NEW q \in Creators PROVE CallFits(q)'
  <2>1. CASE q = p
    BY <1>1, <1>2, <2>1 DEF ReservationTypes, CallFits, PlaceFits, FileFits, FilesFit
  <2>2. CASE q # p
    BY <1>2, <1>3, <2>2 DEF ReservationInv, Others, CallFits, PlaceFits, FileFits
  <2> QED BY <2>1, <2>2
<1>7. ASSUME CaseCreators = {} PROVE OwnFiles'
  <2>1. OwnFiles /\ mine'[p] = mine[p]
    BY <1>1, <1>2, <1>7 DEF ReservationInv, CallFits, FileFits
  <2>2. ASSUME NEW q \in Creators PROVE OwnFits(q)'
    BY <1>1, <1>2, <1>3, <2>1 DEF OwnFiles, OwnFits, Others
  <2>3. ASSUME NEW q \in Creators, NEW r \in Creators, q # r, mine'[q] # NoFile
        PROVE  mine'[q] # mine'[r]
    BY <1>3, <2>1, <2>3 DEF OwnFiles, Others
  <2>4. ASSUME NEW f \in removed' \ strays', NEW q \in Creators, mine'[q] = f
        PROVE  phase'[q] = "idle"
    BY <1>2, <1>3, <2>1, <2>4 DEF OwnFiles, Others
  <2> QED BY <1>2, <2>1, <2>2, <2>3, <2>4 DEF OwnFiles
<1>8. CaseCreators = Creators => removed' = {}
  BY <1>2 DEF ReservationInv
<1> QED BY <1>4, <1>5, <1>6, <1>7, <1>8 DEF ReservationInv

\* The first transaction becomes durable.
LEMMA LandStep ==
    ASSUME ReservationAssumption, ReservationInv, NEW p \in Creators, Land(p)
    PROVE  ReservationInv'
<1>1. ReservationTypes /\ CallFits(p) /\ FilesFit
  BY TypesOfReservation DEF ReservationInv
<1>2. /\ phase[p] = "committing" /\ phase'[p] = "landed" /\ mine' = mine
      /\ identity'[p] = identity[p] /\ outcome'[p] = outcome[p] /\ report'[p] = report[p]
      /\ UNCHANGED <<path, made, removed, strays, compared>>
      /\ mine[p] \in Files /\ content[mine[p]] = "empty" /\ content'[mine[p]] = p
      /\ \A f \in Files \ {mine[p]} : content'[f] = content[f]
  BY <1>1 DEF ReservationTypes, CallFits, PlaceFits, FileFits, Land, Goto
<1>3. Others(p)
  BY <1>1 DEF ReservationTypes, Others, Land, Goto
<1>4. TypeOK'
  BY <1>1 DEF ReservationTypes, ReservationInv, TypeOK, ReservationAssumption, Files, Land, Goto
<1>5. FilesFit' /\ LocksFit'
  BY <1>1, <1>2, <1>3 DEF ReservationTypes, ReservationInv, FilesFit, LocksFit, Others, CallFits,
                          PlaceFits, FileFits
<1>6. ASSUME NEW q \in Creators PROVE CallFits(q)'
  <2>1. CASE q = p
    <3>1. PlaceFits(p)'
      BY <1>1, <1>2 DEF CallFits, PlaceFits
    <3>2. FileFits(p)'
      BY <1>1, <1>2 DEF CallFits, PlaceFits, FileFits
    <3> QED BY <2>1, <3>1, <3>2 DEF CallFits
  <2>2. CASE q # p
    <3>1. CallFits(q) /\ (phase[q] = "committing" => mine[q] # mine[p])
      BY <1>2, <2>2 DEF ReservationInv, LocksFit
    <3>2. PlaceFits(q)'
      BY <1>3, <2>2, <3>1 DEF Others, CallFits, PlaceFits
    <3>3. FileFits(q)'
      BY <1>1, <1>2, <1>3, <2>2, <3>1 DEF ReservationTypes, Others, CallFits, PlaceFits, FileFits
    <3> QED BY <3>2, <3>3 DEF CallFits
  <2> QED BY <2>1, <2>2
<1>7. ASSUME CaseCreators = {} PROVE OwnFiles'
  <2>1. OwnFiles
    BY <1>7 DEF ReservationInv
  <2>2. ASSUME NEW q \in Creators PROVE OwnFits(q)'
    <3>1. CASE q = p
      BY <1>1, <1>2, <3>1 DEF CallFits, PlaceFits, OwnFits
    <3>2. CASE q # p
      BY <1>1, <1>2, <1>3, <2>1, <3>2 DEF ReservationTypes, OwnFiles, OwnFits, Others
    <3> QED BY <3>1, <3>2
  <2>3. ASSUME NEW f \in removed' \ strays'
        PROVE  content'[f] = "empty" /\ \A q \in Creators : mine'[q] = f => phase'[q] = "idle"
    BY <1>1, <1>2, <1>3, <2>1, <2>3 DEF ReservationTypes, OwnFiles, Others
  <2> QED BY <1>2, <2>1, <2>2, <2>3 DEF OwnFiles
<1>8. CaseCreators = Creators => removed' = {}
  BY <1>2 DEF ReservationInv
<1> QED BY <1>4, <1>5, <1>6, <1>7, <1>8 DEF ReservationInv

\* What is at the path is unlinked: the reservation, or what was put there since.
LEMMA UnlinkStep ==
    ASSUME ReservationAssumption, ReservationInv, NEW p \in Creators, Unlink(p)
    PROVE  ReservationInv'
<1>1. ReservationTypes /\ CallFits(p) /\ FilesFit
  BY TypesOfReservation DEF ReservationInv
<1>2. /\ phase[p] = "bare" /\ phase'[p] = "idle" /\ path # NoFile /\ path' = NoFile
      /\ identity'[p] = identity[p] /\ outcome'[p] = outcome[p] /\ report'[p] = "none"
      /\ UNCHANGED <<content, made, mine>>
      /\ removed' = removed \cup {path}
      /\ strays' = (IF path > compared[p] THEN strays \cup {path} ELSE strays)
  BY <1>1 DEF ReservationTypes, Unlink, Goto
<1>3. Others(p)
  BY <1>1 DEF ReservationTypes, Others, Unlink, Goto
<1>4. TypeOK'
  <2>1. compared' \in [Creators -> 0..MaxFiles] /\ phase' \in [Creators -> {"idle", "reserving",
            "identifying", "reserved", "writing", "committing", "landed", "complete", "snapshot",
            "failing", "matched", "bare", "dead"}]
    BY <1>1 DEF ReservationTypes, Unlink, Goto, ReservationAssumption
  <2>2. removed' \subseteq Files /\ strays' \subseteq removed'
    BY <1>1, <1>2 DEF ReservationTypes
  <2>3. report' \in [Creators -> {"nothing", "created", "none", "unknown", "complete", "inspect",
                                  "lost"}]
    BY <1>1 DEF ReservationTypes, Unlink
  <2> QED BY <1>1, <1>2, <2>1, <2>2, <2>3 DEF ReservationInv, TypeOK, Unlink
<1>5. p \notin CaseCreators /\ mine[p] = identity[p] /\ mine[p] # NoFile /\ outcome[p] = "none"
  BY <1>1, <1>2 DEF CallFits, PlaceFits, FileFits
<1>6. FilesFit' /\ LocksFit'
  <2>1. path \in 1..made /\ removed' \subseteq 1..made'
    BY <1>1, <1>2 DEF FilesFit
  <2>2. path' \in (1..made') \cup {NoFile} /\ path' \notin removed'
    BY <1>1, <1>2 DEF ReservationTypes
  <2>3. FilesFit'
    BY <1>1, <1>2, <2>1, <2>2 DEF FilesFit
  <2>4. LocksFit'
    BY <1>2, <1>3 DEF ReservationInv, LocksFit, Others
  <2> QED BY <2>3, <2>4
<1>7. ASSUME NEW q \in Creators PROVE CallFits(q)'
  <2>1. CallFits(q)
    BY DEF ReservationInv
  <2>2. PlaceFits(q)'
    BY <1>2, <1>3, <1>5, <2>1 DEF Others, CallFits, PlaceFits
  <2>3. FileFits(q)'
    BY <1>2, <1>3, <2>1 DEF Others, CallFits, FileFits
  <2> QED BY <2>2, <2>3 DEF CallFits
<1>8. ASSUME CaseCreators = {} PROVE OwnFiles'
  <2>1. OwnFiles /\ (path = mine[p] \/ path > compared[p])
    BY <1>2, <1>8 DEF ReservationInv, OwnFiles, OwnFits
  <2>2. ASSUME NEW q \in Creators PROVE OwnFits(q)'
    BY <1>2, <1>3, <2>1 DEF OwnFiles, OwnFits, Others
  <2>3. ASSUME NEW f \in removed' \ strays'
        PROVE  content'[f] = "empty" /\ \A q \in Creators : mine'[q] = f => phase'[q] = "idle"
    <3>1. CASE f \in removed \ strays
      BY <1>2, <1>3, <2>1, <3>1 DEF OwnFiles, Others
    <3>2. CASE f \notin removed \ strays
      <4>1. f = path /\ f = mine[p]
        BY <1>2, <2>1, <2>3, <3>2
      <4>2. content[f] = "empty" /\ \A q \in Creators : mine[q] = f => q = p
        BY <1>5, <2>1, <4>1 DEF OwnFiles, OwnFits
      <4> QED BY <1>2, <4>2
    <3> QED BY <3>1, <3>2
  <2> QED BY <1>2, <2>1, <2>2, <2>3 DEF OwnFiles
<1>9. CaseCreators = Creators => removed' = {}
  BY <1>5
<1> QED BY <1>4, <1>6, <1>7, <1>8, <1>9 DEF ReservationInv

\* The operator moves the file away.
LEMMA ClearStep ==
    ASSUME ReservationAssumption, ReservationInv, ClearPath
    PROVE  ReservationInv'
<1>1. path' = NoFile /\ UNCHANGED <<content, made, phase, mine, identity, outcome, closed, report,
                                    compared, removed, strays>>
  BY DEF ClearPath
<1>2. TypeOK'
  BY <1>1 DEF ReservationInv, TypeOK, ClearPath
<1>3. FilesFit' /\ LocksFit'
  BY <1>1, TypesOfReservation DEF ReservationInv, FilesFit, LocksFit, ReservationTypes
<1>4. \A q \in Creators : CallFits(q)'
  BY <1>1 DEF ReservationInv, CallFits, PlaceFits, FileFits
<1>5. CaseCreators = {} => OwnFiles'
  BY <1>1 DEF ReservationInv, OwnFiles, OwnFits
<1> QED BY <1>1, <1>2, <1>3, <1>4, <1>5 DEF ReservationInv

\* A stuttering step changes nothing.
LEMMA StutterStep ==
    ASSUME ReservationInv, UNCHANGED vars
    PROVE  ReservationInv'
<1>1. TypeOK' /\ FilesFit' /\ LocksFit'
  BY DEF ReservationInv, TypeOK, FilesFit, LocksFit, vars
<1>2. \A q \in Creators : CallFits(q)'
  BY DEF ReservationInv, CallFits, PlaceFits, FileFits, vars
<1>3. CaseCreators = {} => OwnFiles'
  BY DEF ReservationInv, OwnFiles, OwnFits, vars
<1> QED BY <1>1, <1>2, <1>3 DEF ReservationInv, vars

-----------------------------------------------------------------------------
(***************************************************************************)
(* However creators of one path race, fail and die, and whatever the       *)
(* operator moves away meanwhile: a creator that returns a store, or       *)
(* reports a complete commit, has its own first transaction in the file;   *)
(* and where all creators make stores of one kind, a failed one unlinks no *)
(* file that holds or will hold a store, but for what was put at the path  *)
(* after it compared it, and a report of outcome none, without a request   *)
(* to inspect, means what CleanFailure says (create_workflow_store,        *)
(* create_case_store).                                                     *)
(***************************************************************************)
THEOREM CreationsAreSound ==
    ASSUME ReservationAssumption PROVE Spec => []CreationsSound
<1>1. Init => ReservationInv
  BY InitLemma
<1>2. ReservationInv /\ [Next]_vars => ReservationInv'
  BY BeginStep, ReserveStep, IdentifyStep, OpenStep, StartCommitStep, LandStep, AcknowledgeStep,
     CloseStep, SnapshotStep, FailStep, CaseReportsStep, CompareStep, LookAroundStep, UnlinkStep,
     NothingStep, PreserveStep, CrashStep, RestartStep, ClearStep, StutterStep DEF Next
<1>3. ReservationInv => CreationsSound
  <2> SUFFICES ASSUME ReservationInv PROVE CreationsSound
    OBVIOUS
  <2>1. TypeOK /\ CreatedIsOwn
    BY DEF ReservationInv, CallFits, PlaceFits, FileFits, CreatedIsOwn
  <2>2. CASE CaseCreators = {}
    <3>1. OwnFiles /\ \A p \in Creators : CallFits(p)
      BY <2>2 DEF ReservationInv
    <3>2. NeverRemovesAStore
      BY <3>1 DEF OwnFiles, NeverRemovesAStore
    <3>3. CleanFailure
      BY <2>2, <3>1 DEF OwnFiles, OwnFits, CallFits, PlaceFits, CleanFailure
    <3> QED BY <2>1, <3>2, <3>3 DEF CreationsSound
  <2>3. CASE CaseCreators = Creators
    <3>1. removed = {} /\ \A p \in Creators : CallFits(p)
      BY <2>3 DEF ReservationInv
    <3>2. CleanFailure
      BY <2>3, <3>1 DEF CallFits, PlaceFits, FileFits, CleanFailure
    <3> QED BY <2>1, <3>1, <3>2 DEF CreationsSound, NeverRemovesAStore
  <2> QED BY <2>1, <2>2, <2>3 DEF CreationsSound
<1> QED BY <1>1, <1>2, <1>3, PTL DEF Spec

-----------------------------------------------------------------------------
(***************************************************************************)
(* The commands on a store.  What a run knows of the store at each place,  *)
(* and what its operator keeps from one run to the next.                   *)
(***************************************************************************)
\* Where the run is past its admission, and past its call.
Admitted == {"opening", "ready", "calling", "decided", "acknowledged", "current", "reporting"}
Answered == {"decided", "acknowledged", "reporting"}

\* The operations with a request that the operator has written down.
Named == {"append", "lookup"}

\* A run has an operation; without one there is nothing left of it.
RunFits(o) ==
    /\ step[o] = "idle" => /\ op[o] = "none" /\ request[o] = None /\ state[o] = Fresh
                           /\ result[o] = None /\ ~landed[o]
    /\ step[o] # "idle" => op[o] \in Operations
    /\ step[o] = "reading" => state[o] = Fresh /\ result[o] = None /\ ~landed[o]
    /\ step[o] = "opening" => op[o] # "create"
    /\ step[o] = "ready" => op[o] # "snapshot"
    /\ step[o] \in {"calling", "decided", "acknowledged"} => op[o] \in Announced
    /\ step[o] = "current" => op[o] \in {"create", "snapshot"}
    /\ step[o] \in Admitted \ {"opening"} /\ op[o] # "create" => created

\* The request of a run is its operator's.
RequestFits(o) ==
    /\ step[o] # "idle" /\ op[o] \in Named => retained[o] # None
    /\ step[o] \in Admitted /\ op[o] \in {"append", "lookup", "request-digest"} => request[o] # None
    /\ step[o] \in Admitted /\ op[o] = "lookup" => request[o] = retained[o]
    /\ step[o] \in {"calling"} \cup Answered /\ op[o] = "append" => request[o] = retained[o]
    /\ step[o] # "idle" /\ op[o] = "append" => concluded[o] = "nothing"

\* What the store did for a run, and what the run has of it.
ResultFits(o) ==
    /\ landed[o] => /\ op[o] \in {"create", "append"} /\ step[o] \notin {"opening", "ready", "calling"}
                    /\ op[o] = "create" => created
    /\ op[o] \in Named /\ result[o] # None => result[o] = retained[o] /\ retained[o] \in Committed
    /\ step[o] \in {"opening", "ready", "calling"} /\ op[o] \in Named => result[o] = None
    /\ step[o] \in Answered /\ op[o] = "append" => result[o] # None
    /\ step[o] \in Answered \cup {"current"} /\ op[o] = "create" => created
    /\ step[o] \in Answered /\ op[o] = "lookup" /\ result[o] = None => retained[o] \notin wrote[o]
    /\ step[o] = "reporting" /\ op[o] \in {"create", "snapshot"} => result[o] \in 0..MaxJournal
    /\ step[o] = "reporting" /\ op[o] = "request-digest" => result[o] # None

\* The outcome that a run would report.
OutcomeFits(o) ==
    /\ state[o].outcome = "complete" => /\ op[o] \in Announced
                                        /\ op[o] = "create" => created
                                        /\ op[o] # "create" => retained[o] \in Committed
    /\ state[o].outcome = "unknown" => op[o] \in Announced /\ step[o] = "diagnosing"
    /\ state[o].pending => op[o] \in Announced
    /\ step[o] \in {"calling", "decided"} => state[o].pending
    /\ landed[o] => \/ state[o].outcome # "none"
                    \/ step[o] = "decided" /\ state[o].pending

\* An operator's own commits are on file.
WroteFits(o) == wrote[o] \subseteq Committed

\* What an operator was told and what it concluded.
OperatorFits(o) ==
    /\ ended[o].exit \in {"failure", "control"} =>
           /\ ended[o].outcome = "none" => ~ended[o].changed
           /\ ended[o].outcome = "complete" =>
                  IF ended[o].op = "create" THEN created ELSE retained[o] \in Committed
           /\ ended[o].outcome \in {"unknown", "complete"} => ended[o].op \in {"create", "append", "lookup"}
    /\ concluded[o] = "committed" => retained[o] \in Committed
    /\ concluded[o] = "absent" => retained[o] \notin wrote[o]

CallsOnStoreFit(o) == RunFits(o) /\ RequestFits(o) /\ ResultFits(o) /\ OutcomeFits(o) /\ WroteFits(o)

CommandInv == CommandTypeOK /\ \A o \in Operators : CallsOnStoreFit(o) /\ OperatorFits(o)

-----------------------------------------------------------------------------
\* What the steps of the other operators do to an operator.
SameRun(q) ==
    /\ checkpoint'[q] = checkpoint[q] /\ retained'[q] = retained[q] /\ op'[q] = op[q]
    /\ step'[q] = step[q] /\ request'[q] = request[q] /\ state'[q] = state[q]
    /\ result'[q] = result[q] /\ landed'[q] = landed[q] /\ ended'[q] = ended[q]
    /\ concluded'[q] = concluded[q] /\ wrote'[q] = wrote[q]

StoreGrows == (created => created') /\ Committed \subseteq Committed'

LEMMA AnotherRun ==
    ASSUME CommandInv, NEW q \in Operators, SameRun(q), StoreGrows
    PROVE  (CallsOnStoreFit(q) /\ OperatorFits(q))'
<1>1. CallsOnStoreFit(q) /\ OperatorFits(q)
  BY DEF CommandInv
<1>2. RunFits(q)'
  BY <1>1 DEF CallsOnStoreFit, RunFits, SameRun, StoreGrows, Admitted, Announced
<1>3. RequestFits(q)'
  BY <1>1 DEF CallsOnStoreFit, RequestFits, SameRun, Admitted, Answered, Named
<1>4. ResultFits(q)'
  BY <1>1 DEF CallsOnStoreFit, ResultFits, SameRun, StoreGrows, Answered, Named
<1>5. OutcomeFits(q)'
  BY <1>1 DEF CallsOnStoreFit, OutcomeFits, SameRun, StoreGrows, Announced
<1>6. WroteFits(q)'
  BY <1>1 DEF CallsOnStoreFit, WroteFits, SameRun, StoreGrows
<1>7. OperatorFits(q)'
  BY <1>1 DEF OperatorFits, SameRun, StoreGrows
<1> QED BY <1>2, <1>3, <1>4, <1>5, <1>6, <1>7 DEF CallsOnStoreFit

\* The steps of a run, by what they may change.
RunStep(o) ==
    \/ \E operation \in Operations : Run(o, operation)
    \/ \E id \in Ids : Admit(o, id)
    \/ OpenStore(o) \/ Digest(o) \/ Call(o)
    \/ LandCreate(o) \/ LandAppend(o) \/ Recall(o) \/ LookupNothing(o)
    \/ AcknowledgeCall(o) \/ Settle(o) \/ ReadCurrent(o) \/ Deliver(o)
    \/ \E said \in {"none", "unknown", "complete"} : StorageFails(o, said)
    \/ Refused(o) \/ Diagnose(o) \/ InterruptRun(o) \/ Die(o)

LEMMA OtherRuns ==
    ASSUME CommandTypeOK, NEW o \in Operators, RunStep(o), NEW q \in Operators, q # o
    PROVE  SameRun(q)
<1> USE DEF CommandTypeOK, SameRun, Go, database, desk
<1>1. ASSUME NEW operation \in Operations, Run(o, operation) PROVE SameRun(q)
  BY <1>1 DEF Run
<1>2. ASSUME NEW id \in Ids, Admit(o, id) PROVE SameRun(q)
  BY <1>2 DEF Admit
<1>3. CASE OpenStore(o) \/ Digest(o) \/ Call(o)
  BY <1>3 DEF OpenStore, Digest, Call
<1>4. CASE LandCreate(o) \/ LandAppend(o) \/ Recall(o) \/ LookupNothing(o)
  BY <1>4 DEF LandCreate, LandAppend, Recall, LookupNothing
<1>5. CASE AcknowledgeCall(o) \/ Settle(o) \/ ReadCurrent(o)
  BY <1>5 DEF AcknowledgeCall, Settle, ReadCurrent
<1>6. CASE Deliver(o)
  BY <1>6 DEF Deliver, Exits
<1>7. ASSUME NEW said \in {"none", "unknown", "complete"}, StorageFails(o, said)
      PROVE  SameRun(q)
  BY <1>7 DEF StorageFails
<1>8. CASE Refused(o)
  BY <1>8 DEF Refused
<1>9. CASE Diagnose(o) \/ InterruptRun(o) \/ Die(o)
  BY <1>9 DEF Diagnose, InterruptRun, Die, Exits
<1> QED BY <1>1, <1>2, <1>3, <1>4, <1>5, <1>6, <1>7, <1>8, <1>9 DEF RunStep

\* The store only grows, and by a request of the operator whose call lands.
LEMMA JournalOfCommands ==
    ASSUME CommandTypeOK, NEW o \in Operators, LandAppend(o), request[o] \in Request
    PROVE  /\ journal' \in Seq(Request) /\ journal' # <<>> /\ Len(journal') <= MaxJournal
           /\ Committed' = Committed \cup {request[o]}
<1>1. journal \in Seq(Request) /\ journal' = Append(journal, request[o]) /\ Len(journal) < MaxJournal
  BY DEF CommandTypeOK, LandAppend
<1>2. /\ journal' \in Seq(Request) /\ Len(journal') = Len(journal) + 1 /\ Len(journal) \in Nat
      /\ DOMAIN journal' = 1..(Len(journal) + 1) /\ DOMAIN journal = 1..Len(journal)
      /\ \A i \in 1..Len(journal) : journal'[i] = journal[i]
      /\ journal'[Len(journal) + 1] = request[o]
  BY <1>1
<1>3. Committed' = Committed \cup {request[o]}
  BY <1>2 DEF Committed
<1>4. journal' # <<>> /\ Len(journal') <= MaxJournal
  BY <1>1, <1>2, CommandAssumption
<1> QED BY <1>2, <1>3, <1>4

LEMMA StoreOnlyGrows ==
    ASSUME CommandInv, NEW o \in Operators, RunStep(o)
    PROVE  StoreGrows
<1>1. CASE LandAppend(o)
  <2>1. request[o] \in Request
    BY <1>1 DEF LandAppend, Go, CommandInv, CommandTypeOK, CallsOnStoreFit, RequestFits, Admitted
  <2> QED BY <1>1, <2>1, JournalOfCommands DEF CommandInv, StoreGrows, LandAppend
<1>2. CASE LandCreate(o)
  BY <1>2 DEF LandCreate, StoreGrows, Committed
<1>3. CASE ~LandAppend(o) /\ ~LandCreate(o)
  <2>1. UNCHANGED database
    BY <1>3 DEF RunStep, Run, Admit, OpenStore, Digest, Call, Recall, LookupNothing,
                AcknowledgeCall, Settle, ReadCurrent, Deliver, StorageFails, Refused, Diagnose,
                InterruptRun, Die, Exits
  <2> QED BY <2>1 DEF database, StoreGrows, Committed
<1> QED BY <1>1, <1>2, <1>3

-----------------------------------------------------------------------------
\* What a run remembers of its outcome, after one of the two is changed.
Outcomes == {"none", "unknown", "complete"}

RunStates == [Operators -> [outcome: Outcomes, pending: BOOLEAN]]

LEMMA OutcomeOfRun ==
    ASSUME CommandTypeOK, NEW o \in Operators, NEW v \in Outcomes,
           state' = [state EXCEPT ![o].outcome = v]
    PROVE  /\ state' \in RunStates /\ state'[o].outcome = v
           /\ state'[o].pending = state[o].pending
<1> DEFINE new == [state[o] EXCEPT !.outcome = v]
<1>1. state \in RunStates
  BY DEF CommandTypeOK, RunStates, Outcomes
<1>2. new \in [outcome: Outcomes, pending: BOOLEAN] /\ new.outcome = v /\ new.pending = state[o].pending
  BY <1>1 DEF RunStates
<1>3. state' = [state EXCEPT ![o] = new]
  BY <1>1
<1> HIDE DEF new
<1> QED BY <1>1, <1>2, <1>3 DEF RunStates

LEMMA PendingOfRun ==
    ASSUME CommandTypeOK, NEW o \in Operators, NEW v \in BOOLEAN,
           state' = [state EXCEPT ![o].pending = v]
    PROVE  /\ state' \in RunStates /\ state'[o].pending = v
           /\ state'[o].outcome = state[o].outcome
<1> DEFINE new == [state[o] EXCEPT !.pending = v]
<1>1. state \in RunStates
  BY DEF CommandTypeOK, RunStates, Outcomes
<1>2. new \in [outcome: Outcomes, pending: BOOLEAN] /\ new.pending = v /\ new.outcome = state[o].outcome
  BY <1>1 DEF RunStates
<1>3. state' = [state EXCEPT ![o] = new]
  BY <1>1
<1> HIDE DEF new
<1> QED BY <1>1, <1>2, <1>3 DEF RunStates

LEMMA ObservedOutcome ==
    ASSUME CommandTypeOK, NEW o \in Operators, NEW said \in Outcomes, NEW kind
    PROVE  ObserveFailure(state[o], kind, said) \in Outcomes
BY DEF ObserveFailure, Outcomes, CommandTypeOK

-----------------------------------------------------------------------------
(***************************************************************************)
(* The types.                                                              *)
(***************************************************************************)
LEMMA CommandTypeStep ==
    ASSUME CommandInv, NEW o \in Operators, RunStep(o)
    PROVE  CommandTypeOK'
<1>t. CommandTypeOK /\ CallsOnStoreFit(o)
  BY DEF CommandInv
<1> USE DEF CommandTypeOK, Go, database, desk
<1>1. ASSUME NEW operation \in Operations, Run(o, operation) PROVE CommandTypeOK'
  <2>1. result[o] = None /\ request[o] = None
    BY <1>t, <1>1 DEF Run, CallsOnStoreFit, RunFits
  <2> QED BY <1>t, <1>1, <2>1 DEF Run, Untold
<1>2. ASSUME NEW id \in Ids, Admit(o, id) PROVE CommandTypeOK'
  <2>1. [id |-> id, batch |-> file, expected |-> checkpoint[o]] \in Request
    BY <1>t DEF Request
  <2>2. request' \in [Operators -> Request \cup {None}]
    BY <1>t, <1>2, <2>1 DEF Admit
  <2> QED BY <1>t, <1>2, <2>2 DEF Admit
<1>3. CASE OpenStore(o)
  BY <1>t, <1>3 DEF OpenStore
<1>4. CASE Digest(o)
  <2>1. op[o] = "request-digest" /\ request[o] \in Request
    BY <1>t, <1>4 DEF Digest, CallsOnStoreFit, RequestFits, Admitted
  <2> QED BY <1>t, <1>4, <2>1 DEF Digest
<1>5. CASE Call(o)
  <2>1. state' \in RunStates
    BY <1>t, <1>5, PendingOfRun, (op[o] \in Announced) \in BOOLEAN DEF Call
  <2> QED BY <1>t, <1>5, <2>1 DEF Call, RunStates, Outcomes
<1>6. CASE LandCreate(o)
  BY <1>t, <1>6 DEF LandCreate
<1>7. CASE LandAppend(o)
  <2>1. request[o] \in Request /\ op[o] = "append"
    BY <1>t, <1>7 DEF LandAppend, CallsOnStoreFit, RequestFits, Admitted
  <2>2. created
    BY <1>t, <1>7 DEF LandAppend, CallsOnStoreFit, RunFits, Admitted
  <2>3. journal' \in Seq(Request) /\ journal' # <<>> /\ Len(journal') <= MaxJournal
    BY <1>t, <1>7, <2>1, JournalOfCommands
  <2> QED BY <1>t, <1>7, <2>1, <2>2, <2>3 DEF LandAppend
<1>8. CASE Recall(o)
  <2>1. request[o] \in Request /\ op[o] \in {"append", "lookup"}
    BY <1>t, <1>8 DEF Recall, CallsOnStoreFit, RequestFits, Admitted
  <2> QED BY <1>t, <1>8, <2>1 DEF Recall
<1>9. CASE LookupNothing(o)
  BY <1>t, <1>9 DEF LookupNothing
<1>10. CASE AcknowledgeCall(o)
  <2>1. state' \in RunStates
    <3>1. (IF Completes(o) THEN "complete" ELSE state[o].outcome) \in Outcomes
      BY <1>t DEF Outcomes
    <3> QED BY <1>t, <1>10, <3>1, OutcomeOfRun DEF AcknowledgeCall
  <2> QED BY <1>t, <1>10, <2>1 DEF AcknowledgeCall, RunStates, Outcomes
<1>11. CASE Settle(o)
  <2>1. state' \in RunStates
    BY <1>t, <1>11, PendingOfRun DEF Settle
  <2> QED BY <1>t, <1>11, <2>1 DEF Settle, RunStates, Outcomes
<1>12. CASE ReadCurrent(o)
  <2>1. op[o] \in {"create", "snapshot"} /\ Len(journal) \in 0..MaxJournal
    BY <1>t, <1>12, CommandAssumption DEF ReadCurrent, CallsOnStoreFit, RunFits
  <2> QED BY <1>t, <1>12, <2>1 DEF ReadCurrent
<1>13. CASE Deliver(o)
  <2>1. op[o] \in {"create", "snapshot"} => result[o] \in 0..MaxJournal
    BY <1>t, <1>13 DEF Deliver, CallsOnStoreFit, ResultFits
  <2>2. op[o] = "request-digest" => result[o] \in Request
    BY <1>t, <1>13 DEF Deliver, CallsOnStoreFit, ResultFits
  <2>3. op[o] \in Operations /\ state[o].outcome \in {"none", "unknown", "complete"}
    BY <1>t, <1>13 DEF Deliver, CallsOnStoreFit, RunFits
  <2>4. checkpoint' \in [Operators -> 0..MaxJournal]
    BY <1>t, <1>13, <2>1 DEF Deliver
  <2>5. retained' \in [Operators -> Request \cup {None}]
    BY <1>t, <1>13, <2>2 DEF Deliver
  <2>6. concluded' \in [Operators -> {"nothing", "absent", "committed"}]
    BY <1>t, <1>13 DEF Deliver
  <2>7. ended' \in [Operators -> [op: Operations \cup {"none"}, changed: BOOLEAN, exit: {"never", "success", "failure", "control", "killed"},
                                  outcome: {"none", "unknown", "complete", "silent"}]]
    BY <1>t, <1>13, <2>3 DEF Deliver, Exits
  <2> QED BY <1>t, <1>13, <2>4, <2>5, <2>6, <2>7 DEF Deliver, Exits, Fresh
<1>14. ASSUME NEW said \in {"none", "unknown", "complete"}, StorageFails(o, said)
       PROVE  CommandTypeOK'
  <2>1. state' \in RunStates
    BY <1>t, <1>14, OutcomeOfRun, ObservedOutcome DEF StorageFails, Outcomes
  <2> QED BY <1>t, <1>14, <2>1 DEF StorageFails, RunStates, Outcomes
<1>15. CASE Refused(o)
  <2>1. state' \in RunStates
    BY <1>t, <1>15, OutcomeOfRun, ObservedOutcome DEF Refused, Outcomes
  <2> QED BY <1>t, <1>15, <2>1 DEF Refused, RunStates, Outcomes
<1>16. ASSUME NEW exit \in {"failure", "control", "killed"},
              NEW said \in {"none", "unknown", "complete", "silent"},
              Exits(o, exit, said), UNCHANGED <<checkpoint, retained, concluded>>
       PROVE  CommandTypeOK'
  <2>1. ended' \in [Operators -> [op: Operations \cup {"none"}, changed: BOOLEAN, exit: {"never", "success", "failure", "control", "killed"},
                                  outcome: {"none", "unknown", "complete", "silent"}]]
    BY <1>t, <1>16 DEF Exits
  <2> QED BY <1>t, <1>16, <2>1 DEF Exits, Fresh
<1>17. CASE Diagnose(o)
  <2>1. PICK said \in {state[o].outcome, "silent"} : Exits(o, "failure", said)
    BY <1>17 DEF Diagnose
  <2>2. said \in {"none", "unknown", "complete", "silent"}
    BY <1>t, <2>1
  <2> QED BY <1>16, <1>17, <2>1, <2>2 DEF Diagnose
<1>18. CASE InterruptRun(o)
  BY <1>t, <1>16, <1>18 DEF InterruptRun, ObserveFailure
<1>19. CASE Die(o)
  BY <1>16, <1>19 DEF Die
<1> QED BY <1>1, <1>2, <1>3, <1>4, <1>5, <1>6, <1>7, <1>8, <1>9, <1>10, <1>11, <1>12, <1>13,
           <1>14, <1>15, <1>17, <1>18, <1>19 DEF RunStep

-----------------------------------------------------------------------------
(***************************************************************************)
(* The steps of a run and its operator.                                    *)
(***************************************************************************)
\* What a step leaves to the operator alone.
SameOperator(o) ==
    /\ retained'[o] = retained[o] /\ ended'[o] = ended[o] /\ concluded'[o] = concluded[o]
    /\ wrote'[o] = wrote[o]

LEMMA SameOperatorFits ==
    ASSUME NEW o \in Operators, OperatorFits(o), WroteFits(o), SameOperator(o), StoreGrows
    PROVE  OperatorFits(o)' /\ WroteFits(o)'
BY DEF OperatorFits, WroteFits, SameOperator, StoreGrows

\* A run starts and finds its request.
LEMMA StartFits ==
    ASSUME CommandInv, NEW o \in Operators, StoreGrows,
           \/ \E operation \in Operations : Run(o, operation)
           \/ \E id \in Ids : Admit(o, id)
           \/ OpenStore(o)
    PROVE  (CallsOnStoreFit(o) /\ OperatorFits(o))'
<1>t. CommandTypeOK /\ CallsOnStoreFit(o) /\ OperatorFits(o)
  BY DEF CommandInv
<1>f. RunFits(o) /\ RequestFits(o) /\ ResultFits(o) /\ OutcomeFits(o) /\ WroteFits(o)
  BY <1>t DEF CallsOnStoreFit
<1>1. ASSUME NEW operation \in Operations, Run(o, operation)
      PROVE  (CallsOnStoreFit(o) /\ OperatorFits(o))'
  <2>1. /\ step[o] = "idle" /\ step'[o] = "reading" /\ op'[o] = operation
        /\ (operation \in Named => retained[o] # None)
        /\ request'[o] = request[o] /\ state'[o] = state[o] /\ result'[o] = result[o]
        /\ landed'[o] = landed[o] /\ wrote'[o] = wrote[o] /\ retained'[o] = retained[o]
        /\ ended'[o] = Untold
        /\ concluded'[o] \in {concluded[o], "nothing"}
        /\ (operation = "append" => concluded'[o] = "nothing")
    BY <1>t, <1>1 DEF Run, Go, CommandTypeOK, Named
  <2>2. RunFits(o)' /\ RequestFits(o)'
    BY <1>f, <1>1, <2>1 DEF RunFits, RequestFits, Admitted, Answered, Named, Fresh
  <2>3. ResultFits(o)' /\ OutcomeFits(o)'
    BY <1>f, <1>1, <2>1 DEF RunFits, ResultFits, OutcomeFits, Answered, Named, Fresh
  <2>4. WroteFits(o)' /\ OperatorFits(o)'
    BY <1>f, <1>t, <2>1 DEF WroteFits, OperatorFits, Untold, StoreGrows
  <2> QED BY <2>2, <2>3, <2>4 DEF CallsOnStoreFit
<1>2. ASSUME NEW id \in Ids, Admit(o, id)
      PROVE  (CallsOnStoreFit(o) /\ OperatorFits(o))'
  <2>0. [id |-> id, batch |-> file, expected |-> checkpoint[o]] \in Request
    BY <1>t DEF CommandTypeOK, Request
  <2>1. /\ step[o] = "reading"
        /\ step'[o] = IF op[o] = "create" THEN "ready" ELSE "opening"
        /\ request'[o] = CASE op[o] \in {"append", "request-digest"} ->
                                  [id |-> id, batch |-> file, expected |-> checkpoint[o]]
                           [] op[o] = "lookup" -> retained[o]
                           [] OTHER -> None
        /\ op'[o] = op[o] /\ state'[o] = state[o] /\ result'[o] = result[o]
        /\ landed'[o] = landed[o] /\ SameOperator(o)
    BY <1>t, <1>2 DEF Admit, Go, CommandTypeOK, desk, SameOperator
  <2>2. /\ op[o] \in {"append", "lookup", "request-digest"} => request'[o] # None
        /\ op[o] = "lookup" => request'[o] = retained[o]
    BY <1>f, <2>0, <2>1, CommandAssumption DEF RequestFits, Named
  <2>3. RunFits(o)' /\ RequestFits(o)'
    BY <1>f, <2>1, <2>2 DEF RunFits, RequestFits, Admitted, Answered, Named, SameOperator, Announced
  <2>4. ResultFits(o)' /\ OutcomeFits(o)'
    BY <1>f, <2>1 DEF RunFits, ResultFits, OutcomeFits, Answered, Named, Fresh, SameOperator
  <2>5. WroteFits(o)' /\ OperatorFits(o)'
    BY <1>f, <1>t, <2>1, SameOperatorFits
  <2> QED BY <2>3, <2>4, <2>5 DEF CallsOnStoreFit
<1>3. CASE OpenStore(o)
  <2>1. /\ step[o] = "opening" /\ created'
        /\ step'[o] = IF op[o] = "snapshot" THEN "current" ELSE "ready"
        /\ request'[o] = request[o] /\ op'[o] = op[o] /\ state'[o] = state[o]
        /\ result'[o] = result[o] /\ landed'[o] = landed[o] /\ SameOperator(o)
    BY <1>t, <1>3 DEF OpenStore, Opens, Go, CommandTypeOK, desk, database, SameOperator
  <2>2. RunFits(o)' /\ RequestFits(o)'
    BY <1>f, <2>1 DEF RunFits, RequestFits, Admitted, Answered, Named, SameOperator
  <2>3. ResultFits(o)' /\ OutcomeFits(o)'
    BY <1>f, <2>1, StoreGrows DEF StoreGrows, RunFits, ResultFits, OutcomeFits, Answered, Named, SameOperator
  <2>4. WroteFits(o)' /\ OperatorFits(o)'
    BY <1>f, <1>t, <2>1, SameOperatorFits
  <2> QED BY <2>2, <2>3, <2>4 DEF CallsOnStoreFit
<1> QED BY <1>1, <1>2, <1>3

\* The call and its answer.
LEMMA AnswerFits ==
    ASSUME CommandInv, NEW o \in Operators, StoreGrows,
           \/ Digest(o) \/ Call(o) \/ LandCreate(o) \/ LandAppend(o) \/ Recall(o) \/ LookupNothing(o)
    PROVE  (CallsOnStoreFit(o) /\ OperatorFits(o))'
<1>t. CommandTypeOK /\ CallsOnStoreFit(o) /\ OperatorFits(o)
  BY DEF CommandInv
<1>f. RunFits(o) /\ RequestFits(o) /\ ResultFits(o) /\ OutcomeFits(o) /\ WroteFits(o)
  BY <1>t DEF CallsOnStoreFit
<1>1. CASE Digest(o)
  <2>1. /\ step[o] = "ready" /\ op[o] = "request-digest" /\ step'[o] = "reporting"
        /\ result'[o] = request[o] /\ request[o] # None
        /\ request'[o] = request[o] /\ op'[o] = op[o] /\ state'[o] = state[o]
        /\ landed'[o] = landed[o] /\ SameOperator(o)
    BY <1>t, <1>f, <1>1 DEF Digest, Go, CommandTypeOK, desk, SameOperator, RequestFits, Admitted
  <2>2. RunFits(o)' /\ RequestFits(o)'
    BY <1>f, <2>1 DEF StoreGrows, RunFits, RequestFits, Admitted, Answered, Named, SameOperator, Operations
  <2>3. ResultFits(o)' /\ OutcomeFits(o)'
    BY <1>f, <2>1 DEF StoreGrows, RunFits, ResultFits, OutcomeFits, Answered, Named, SameOperator, Announced
  <2>4. WroteFits(o)' /\ OperatorFits(o)'
    BY <1>f, <1>t, <2>1, SameOperatorFits
  <2> QED BY <2>2, <2>3, <2>4 DEF CallsOnStoreFit
<1>2. CASE Call(o)
  <2>1. /\ state'[o].pending = (op[o] \in Announced)
        /\ state'[o].outcome = state[o].outcome
    BY <1>t, <1>2, PendingOfRun, (op[o] \in Announced) \in BOOLEAN DEF Call
  <2>2. /\ step[o] = "ready" /\ op[o] # "request-digest" /\ step'[o] = "calling"
        /\ op[o] = "append" => retained[o] = request[o]
        /\ request'[o] = request[o] /\ op'[o] = op[o] /\ result'[o] = result[o]
        /\ landed'[o] = landed[o] /\ SameOperator(o)
    BY <1>t, <1>2 DEF Call, Go, CommandTypeOK, desk, SameOperator, Matches
  <2>3. op[o] \in Announced
    BY <1>f, <2>2 DEF RunFits, Announced, Operations
  <2>4. RunFits(o)' /\ RequestFits(o)'
    BY <1>f, <2>2, <2>3 DEF StoreGrows, RunFits, RequestFits, Admitted, Answered, Named, SameOperator, Operations
  <2>5. ResultFits(o)' /\ OutcomeFits(o)'
    BY <1>f, <2>1, <2>2, <2>3 DEF StoreGrows, RunFits, ResultFits, OutcomeFits, Answered, Named, SameOperator
  <2>6. WroteFits(o)' /\ OperatorFits(o)'
    BY <1>f, <1>t, <2>2, SameOperatorFits
  <2> QED BY <2>4, <2>5, <2>6 DEF CallsOnStoreFit
<1>3. CASE LandCreate(o)
  <2>1. /\ step[o] = "calling" /\ op[o] = "create" /\ step'[o] = "decided" /\ created' /\ landed'[o]
        /\ request'[o] = request[o] /\ op'[o] = op[o] /\ state'[o] = state[o]
        /\ result'[o] = result[o] /\ SameOperator(o)
    BY <1>t, <1>3 DEF LandCreate, Go, CommandTypeOK, desk, SameOperator
  <2>2. RunFits(o)' /\ RequestFits(o)'
    BY <1>f, <2>1 DEF RunFits, RequestFits, Admitted, Answered, Named, SameOperator, Operations
  <2>3. ResultFits(o)' /\ OutcomeFits(o)'
    BY <1>f, <2>1 DEF RunFits, ResultFits, OutcomeFits, Answered, Named, SameOperator
  <2>4. WroteFits(o)' /\ OperatorFits(o)'
    BY <1>f, <1>t, <2>1, SameOperatorFits
  <2> QED BY <2>2, <2>3, <2>4 DEF CallsOnStoreFit
<1>4. CASE LandAppend(o)
  <2>1. /\ step[o] = "calling" /\ op[o] = "append" /\ step'[o] = "decided" /\ landed'[o]
        /\ request'[o] = request[o] /\ op'[o] = op[o] /\ state'[o] = state[o]
        /\ result'[o] = request[o] /\ created' = created /\ retained'[o] = retained[o]
        /\ ended'[o] = ended[o] /\ concluded'[o] = concluded[o]
        /\ wrote'[o] = wrote[o] \cup {request[o]}
    BY <1>t, <1>4 DEF LandAppend, Go, CommandTypeOK, desk
  <2>2. request[o] \in Request /\ request[o] = retained[o] /\ concluded[o] = "nothing"
    BY <1>t, <1>f, <2>1 DEF RequestFits, CommandTypeOK, Admitted, Answered, Named
  <2>3. Committed' = Committed \cup {request[o]}
    BY <1>t, <1>4, <2>2, JournalOfCommands
  <2>4. RunFits(o)' /\ RequestFits(o)'
    BY <1>f, <2>1, <2>2 DEF RunFits, RequestFits, Admitted, Answered, Named, Operations
  <2>5. ResultFits(o)' /\ OutcomeFits(o)'
    BY <1>f, <2>1, <2>2, <2>3, CommandAssumption DEF RunFits, ResultFits, OutcomeFits, Answered, Named
  <2>6. WroteFits(o)' /\ OperatorFits(o)'
    BY <1>f, <1>t, <2>1, <2>2, <2>3 DEF WroteFits, OperatorFits
  <2> QED BY <2>4, <2>5, <2>6 DEF CallsOnStoreFit
<1>5. CASE Recall(o)
  <2>1. /\ step[o] = "calling" /\ op[o] \in Named /\ step'[o] = "decided"
        /\ result'[o] = request[o] /\ request[o] \in Committed
        /\ request'[o] = request[o] /\ op'[o] = op[o] /\ state'[o] = state[o]
        /\ landed'[o] = landed[o] /\ SameOperator(o)
    BY <1>t, <1>5 DEF Recall, Found, Go, CommandTypeOK, desk, SameOperator, Named
  <2>2. request[o] # None /\ request[o] = retained[o]
    BY <1>f, <2>1 DEF RequestFits, Admitted, Answered, Named
  <2>3. RunFits(o)' /\ RequestFits(o)'
    BY <1>f, <2>1, <2>2 DEF StoreGrows, RunFits, RequestFits, Admitted, Answered, Named, SameOperator, Operations
  <2>4. ResultFits(o)' /\ OutcomeFits(o)'
    BY <1>f, <2>1, <2>2 DEF StoreGrows, RunFits, ResultFits, OutcomeFits, Answered, Named, SameOperator
  <2>5. WroteFits(o)' /\ OperatorFits(o)'
    BY <1>f, <1>t, <2>1, SameOperatorFits
  <2> QED BY <2>3, <2>4, <2>5 DEF CallsOnStoreFit
<1>6. CASE LookupNothing(o)
  <2>1. /\ step[o] = "calling" /\ op[o] = "lookup" /\ step'[o] = "decided"
        /\ \A r \in Committed : r.id # request[o].id
        /\ request'[o] = request[o] /\ op'[o] = op[o] /\ state'[o] = state[o]
        /\ result'[o] = result[o] /\ landed'[o] = landed[o] /\ SameOperator(o)
    BY <1>t, <1>6 DEF LookupNothing, Go, CommandTypeOK, desk, SameOperator
  <2>2. request[o] = retained[o]
    BY <1>f, <2>1 DEF RequestFits, Admitted, Answered, Named
  <2>3. retained[o] \notin wrote[o]
    BY <1>f, <2>1, <2>2 DEF WroteFits
  <2>4. RunFits(o)' /\ RequestFits(o)'
    BY <1>f, <2>1, <2>2 DEF StoreGrows, RunFits, RequestFits, Admitted, Answered, Named, SameOperator, Operations
  <2>5. ResultFits(o)' /\ OutcomeFits(o)'
    BY <1>f, <2>1, <2>2, <2>3 DEF StoreGrows, RunFits, ResultFits, OutcomeFits, Answered, Named, SameOperator
  <2>6. WroteFits(o)' /\ OperatorFits(o)'
    BY <1>f, <1>t, <2>1, SameOperatorFits
  <2> QED BY <2>4, <2>5, <2>6 DEF CallsOnStoreFit
<1> QED BY <1>1, <1>2, <1>3, <1>4, <1>5, <1>6

\* After the answer.
LEMMA ReportFits ==
    ASSUME CommandInv, NEW o \in Operators, StoreGrows,
           AcknowledgeCall(o) \/ Settle(o) \/ ReadCurrent(o)
    PROVE  (CallsOnStoreFit(o) /\ OperatorFits(o))'
<1>t. CommandTypeOK /\ CallsOnStoreFit(o) /\ OperatorFits(o)
  BY DEF CommandInv
<1>f. RunFits(o) /\ RequestFits(o) /\ ResultFits(o) /\ OutcomeFits(o) /\ WroteFits(o)
  BY <1>t DEF CallsOnStoreFit
<1>1. CASE AcknowledgeCall(o)
  <2>1. /\ step[o] = "decided" /\ step'[o] = "acknowledged"
        /\ request'[o] = request[o] /\ op'[o] = op[o] /\ result'[o] = result[o]
        /\ landed'[o] = landed[o] /\ SameOperator(o)
    BY <1>t, <1>1 DEF AcknowledgeCall, Go, CommandTypeOK, desk, SameOperator
  <2>2. /\ state'[o].pending = state[o].pending
        /\ state'[o].outcome = IF Completes(o) THEN "complete" ELSE state[o].outcome
    <3>1. (IF Completes(o) THEN "complete" ELSE state[o].outcome) \in Outcomes
      BY <1>t DEF Outcomes, CommandTypeOK
    <3> QED BY <1>t, <1>1, <3>1, OutcomeOfRun DEF AcknowledgeCall
  <2>3. /\ op[o] \in Announced
        /\ Completes(o) /\ op[o] = "create" => created
        /\ Completes(o) /\ op[o] # "create" => retained[o] \in Committed
    BY <1>f, <2>1 DEF RunFits, ResultFits, Completes, Announced, Answered, Named
  <2>4. landed[o] => Completes(o)
    BY <1>f DEF ResultFits, Completes
  <2>5. RunFits(o)' /\ RequestFits(o)'
    BY <1>f, <2>1 DEF StoreGrows, RunFits, RequestFits, Admitted, Answered, Named, SameOperator, Operations
  <2>6. ResultFits(o)'
    BY <1>f, <2>1 DEF StoreGrows, ResultFits, Answered, Named, SameOperator
  <2>7. OutcomeFits(o)'
    <3>1. CASE Completes(o)
      <4>1. state'[o].outcome = "complete" /\ state'[o].pending = state[o].pending
        BY <2>2, <3>1
      <4>2. (op'[o] = "create" => created') /\ (op'[o] # "create" => retained'[o] \in Committed')
        BY <2>1, <2>3, <3>1 DEF StoreGrows, SameOperator
      <4>3. op'[o] \in Announced /\ step'[o] = "acknowledged"
        BY <2>1, <2>3
      <4> QED BY <4>1, <4>2, <4>3 DEF OutcomeFits
    <3>2. CASE ~Completes(o)
      BY <1>f, <2>1, <2>2, <2>4, <3>2 DEF StoreGrows, OutcomeFits, SameOperator
    <3> QED BY <3>1, <3>2
  <2>8. WroteFits(o)' /\ OperatorFits(o)'
    BY <1>f, <1>t, <2>1, SameOperatorFits
  <2> QED BY <2>5, <2>6, <2>7, <2>8 DEF CallsOnStoreFit
<1>2. CASE Settle(o)
  <2>1. /\ step[o] = "acknowledged" /\ step'[o] = IF op[o] = "create" THEN "current" ELSE "reporting"
        /\ request'[o] = request[o] /\ op'[o] = op[o] /\ result'[o] = result[o]
        /\ landed'[o] = landed[o] /\ SameOperator(o)
    BY <1>t, <1>2 DEF Settle, Go, CommandTypeOK, desk, SameOperator
  <2>2. state'[o].pending = FALSE /\ state'[o].outcome = state[o].outcome
    BY <1>t, <1>2, PendingOfRun DEF Settle
  <2>3. RunFits(o)' /\ RequestFits(o)'
    BY <1>f, <2>1 DEF StoreGrows, RunFits, RequestFits, ResultFits, Admitted, Answered, Named,
                      SameOperator, Announced
  <2>4. ResultFits(o)'
    BY <1>f, <2>1 DEF StoreGrows, RunFits, ResultFits, Answered, Named, SameOperator, Announced
  <2>5. OutcomeFits(o)'
    BY <1>f, <2>1, <2>2 DEF StoreGrows, OutcomeFits, SameOperator
  <2>6. WroteFits(o)' /\ OperatorFits(o)'
    BY <1>f, <1>t, <2>1, SameOperatorFits
  <2> QED BY <2>3, <2>4, <2>5, <2>6 DEF CallsOnStoreFit
<1>3. CASE ReadCurrent(o)
  <2>1. /\ step[o] = "current" /\ step'[o] = "reporting" /\ result'[o] = Len(journal)
        /\ request'[o] = request[o] /\ op'[o] = op[o] /\ state'[o] = state[o]
        /\ landed'[o] = landed[o] /\ SameOperator(o)
    BY <1>t, <1>3 DEF ReadCurrent, Go, CommandTypeOK, desk, SameOperator
  <2>2. op[o] \in {"create", "snapshot"}
    BY <1>f, <2>1 DEF RunFits
  <2>3. Len(journal) \in 0..MaxJournal
    BY <1>t, CommandAssumption DEF CommandTypeOK
  <2>4. RunFits(o)' /\ RequestFits(o)'
    BY <1>f, <2>1, <2>2 DEF StoreGrows, RunFits, RequestFits, ResultFits, Admitted, Answered, Named,
                      SameOperator, Announced, Operations
  <2>5. ResultFits(o)'
    BY <1>f, <2>1, <2>2, <2>3 DEF StoreGrows, RunFits, ResultFits, Answered, Named, SameOperator, Admitted
  <2>6. OutcomeFits(o)'
    BY <1>f, <2>1, <2>2 DEF StoreGrows, OutcomeFits, SameOperator
  <2>7. WroteFits(o)' /\ OperatorFits(o)'
    BY <1>f, <1>t, <2>1, SameOperatorFits
  <2> QED BY <2>4, <2>5, <2>6, <2>7 DEF CallsOnStoreFit
<1> QED BY <1>1, <1>2, <1>3

\* What makes the end of a run fit: its operator concludes what is so, and the
\* outcome of a run that failed is true.
ConcludesWell(o) ==
    /\ concluded'[o] = "committed" => retained'[o] \in Committed'
    /\ concluded'[o] = "absent" => retained'[o] \notin wrote[o]

FailsWell(o, exit, said) ==
    exit \in {"failure", "control"} =>
        /\ retained'[o] = retained[o]
        /\ said = "none" => ~landed[o]
        /\ said = "complete" => IF op[o] = "create" THEN created ELSE retained[o] \in Committed
        /\ said \in {"unknown", "complete"} => op[o] \in Announced

\* A run that ends leaves nothing of itself.
LEMMA EndFits ==
    ASSUME CommandInv, NEW o \in Operators, StoreGrows, NEW exit, NEW said,
           Exits(o, exit, said), ConcludesWell(o), FailsWell(o, exit, said)
    PROVE  (CallsOnStoreFit(o) /\ OperatorFits(o))'
<1>t. CommandTypeOK /\ CallsOnStoreFit(o) /\ OperatorFits(o)
  BY DEF CommandInv
<1>f. RunFits(o) /\ RequestFits(o) /\ ResultFits(o) /\ OutcomeFits(o) /\ WroteFits(o)
  BY <1>t DEF CallsOnStoreFit
<1>1. /\ step'[o] = "idle" /\ op'[o] = "none" /\ request'[o] = None /\ state'[o] = Fresh
      /\ result'[o] = None /\ landed'[o] = FALSE /\ wrote'[o] = wrote[o]
      /\ ended'[o] = [op |-> op[o], exit |-> exit, outcome |-> said, changed |-> landed[o]]
  BY <1>t DEF Exits, CommandTypeOK
<1>2. RunFits(o)' /\ RequestFits(o)' /\ ResultFits(o)' /\ OutcomeFits(o)'
  BY <1>1 DEF RunFits, RequestFits, ResultFits, OutcomeFits, Fresh, Admitted, Answered
<1>3. WroteFits(o)'
  BY <1>1, <1>f DEF WroteFits, StoreGrows
<1>4. OperatorFits(o)'
  BY <1>1 DEF OperatorFits, StoreGrows, Announced, ConcludesWell, FailsWell
<1> QED BY <1>2, <1>3, <1>4 DEF CallsOnStoreFit

LEMMA DeliverFits ==
    ASSUME CommandInv, NEW o \in Operators, StoreGrows, Deliver(o)
    PROVE  (CallsOnStoreFit(o) /\ OperatorFits(o))'
<1>t. CommandTypeOK /\ CallsOnStoreFit(o) /\ OperatorFits(o)
  BY DEF CommandInv
<1>f. RunFits(o) /\ RequestFits(o) /\ ResultFits(o) /\ OutcomeFits(o) /\ WroteFits(o)
  BY <1>t DEF CallsOnStoreFit
<1>1. step[o] = "reporting" /\ op[o] \in Operations /\ Exits(o, "success", state[o].outcome)
  BY <1>f DEF Deliver, RunFits
<1>2. CASE op[o] \in Named
  <2>1. /\ retained'[o] = retained[o]
        /\ concluded'[o] = IF result[o] = None THEN "absent" ELSE "committed"
    BY <1>t, <1>2 DEF Deliver, CommandTypeOK, Named
  <2>2. result[o] # None => retained[o] \in Committed
    BY <1>f, <1>2 DEF ResultFits
  <2>3. result[o] = None => retained[o] \notin wrote[o]
    BY <1>f, <1>1, <1>2 DEF ResultFits, Answered, Named
  <2> QED BY <1>1, <2>1, <2>2, <2>3, EndFits DEF StoreGrows, ConcludesWell, FailsWell
<1>3. CASE op[o] = "request-digest"
  <2>1. concluded'[o] = "nothing"
    BY <1>t, <1>3 DEF Deliver, CommandTypeOK
  <2> QED BY <1>1, <2>1, EndFits DEF ConcludesWell, FailsWell
<1>4. CASE op[o] \in {"create", "snapshot"}
  <2>1. retained'[o] = retained[o] /\ concluded'[o] = concluded[o]
    BY <1>t, <1>4 DEF Deliver, CommandTypeOK
  <2>2. /\ concluded[o] = "committed" => retained[o] \in Committed
        /\ concluded[o] = "absent" => retained[o] \notin wrote[o]
    BY <1>t DEF OperatorFits
  <2> QED BY <1>1, <2>1, <2>2, EndFits DEF StoreGrows, ConcludesWell, FailsWell
<1> QED BY <1>1, <1>2, <1>3, <1>4 DEF Operations, Named

\* The end of a run that was not delivered.
LEMMA UndeliveredFits ==
    ASSUME CommandInv, NEW o \in Operators, StoreGrows, Diagnose(o) \/ InterruptRun(o) \/ Die(o)
    PROVE  (CallsOnStoreFit(o) /\ OperatorFits(o))'
<1>t. CommandTypeOK /\ CallsOnStoreFit(o) /\ OperatorFits(o)
  BY DEF CommandInv
<1>f. RunFits(o) /\ RequestFits(o) /\ ResultFits(o) /\ OutcomeFits(o) /\ WroteFits(o)
  BY <1>t DEF CallsOnStoreFit
<1>1. retained'[o] = retained[o] /\ ConcludesWell(o)
  BY <1>t DEF Diagnose, InterruptRun, Die, OperatorFits, StoreGrows, ConcludesWell
<1>2. /\ state[o].outcome = "complete" => IF op[o] = "create" THEN created ELSE retained[o] \in Committed
      /\ state[o].outcome \in {"unknown", "complete"} => op[o] \in Announced
  BY <1>f DEF OutcomeFits
<1>3. state[o].outcome \in Outcomes
  BY <1>t DEF CommandTypeOK, Outcomes
<1>4. CASE Diagnose(o)
  <2>1. PICK said \in {state[o].outcome, "silent"} : Exits(o, "failure", said)
    BY <1>4 DEF Diagnose
  <2>2. step[o] = "diagnosing" /\ (state[o].outcome = "none" => ~landed[o])
    BY <1>f, <1>4 DEF Diagnose, OutcomeFits
  <2>3. FailsWell(o, "failure", said)
    BY <1>1, <1>2, <2>1, <2>2 DEF FailsWell
  <2> QED BY <1>1, <2>1, <2>3, EndFits
<1>5. CASE InterruptRun(o)
  <2> DEFINE said == IF step[o] = "diagnosing" THEN state[o].outcome
                     ELSE ObserveFailure(state[o], "control", "none")
  <2>1. Exits(o, "control", said)
    BY <1>5 DEF InterruptRun
  <2>2. /\ said = "none" => ~landed[o]
        /\ said = "complete" => state[o].outcome = "complete"
        /\ said = "unknown" => op[o] \in Announced
    BY <1>f, <1>2 DEF ObserveFailure, OutcomeFits
  <2> HIDE DEF said
  <2>3. FailsWell(o, "control", said)
    BY <1>1, <1>2, <2>2 DEF FailsWell
  <2> QED BY <1>1, <2>1, <2>3, EndFits
<1>6. CASE Die(o)
  <2>1. Exits(o, "killed", "silent")
    BY <1>6 DEF Die
  <2>2. FailsWell(o, "killed", "silent")
    BY DEF FailsWell
  <2> QED BY <1>1, <2>1, <2>2, EndFits
<1> QED BY <1>4, <1>5, <1>6

\* A run that fails.
LEMMA FailureFits ==
    ASSUME CommandInv, NEW o \in Operators, StoreGrows,
           Refused(o) \/ \E said \in Outcomes : StorageFails(o, said)
    PROVE  (CallsOnStoreFit(o) /\ OperatorFits(o))'
<1>t. CommandTypeOK /\ CallsOnStoreFit(o) /\ OperatorFits(o)
  BY DEF CommandInv
<1>f. RunFits(o) /\ RequestFits(o) /\ ResultFits(o) /\ OutcomeFits(o) /\ WroteFits(o)
  BY <1>t DEF CallsOnStoreFit
<1>1. /\ step'[o] = "diagnosing" /\ request'[o] = request[o] /\ op'[o] = op[o]
      /\ result'[o] = result[o] /\ landed'[o] = landed[o] /\ SameOperator(o)
      /\ step[o] \in Admitted \cup {"reading"}
  BY <1>t DEF Refused, StorageFails, Carried, CommandTypeOK, desk, SameOperator, Admitted
<1>2. RunFits(o)' /\ RequestFits(o)'
  BY <1>f, <1>1 DEF StoreGrows, RunFits, RequestFits, Admitted, Answered, Named, SameOperator
<1>3. ResultFits(o)'
  BY <1>f, <1>1 DEF StoreGrows, ResultFits, Answered, Named, SameOperator
<1>4. OutcomeFits(o)'
  <2>1. CASE Refused(o)
    <3>1. state'[o].pending = state[o].pending /\ state'[o].outcome = state[o].outcome
      <4>1. ObserveFailure(state[o], "other", "none") = state[o].outcome
        BY DEF ObserveFailure
      <4> QED BY <1>t, <2>1, <4>1, OutcomeOfRun, ObservedOutcome DEF Refused, Outcomes
    <3> QED BY <1>f, <1>1, <2>1, <3>1 DEF StoreGrows, OutcomeFits, SameOperator, Refused
  <2>2. ASSUME NEW said \in Outcomes, StorageFails(o, said)
        PROVE  OutcomeFits(o)'
    <3>1. /\ state'[o].pending = state[o].pending
          /\ state'[o].outcome = IF state[o].outcome = "complete" THEN "complete" ELSE said
      <4>1. ObserveFailure(state[o], "storage", said) =
                IF state[o].outcome = "complete" THEN "complete" ELSE said
        BY DEF ObserveFailure
      <4> QED BY <1>t, <2>2, <4>1, OutcomeOfRun, ObservedOutcome DEF StorageFails
    <3>2. said # "none" => op[o] \in Announced
      BY <1>f, <2>2 DEF StorageFails, Carried, RunFits
    <3>3. said = "complete" => /\ op[o] = "create" => created
                               /\ op[o] # "create" => retained[o] \in Committed
      BY <1>f, <2>2 DEF StorageFails, Carried, RunFits, ResultFits, Announced, Answered, Named
    <3>4. landed[o] => state[o].outcome = "complete" \/ said # "none"
      <4>1. CASE step[o] = "decided"
        BY <2>2, <4>1 DEF StorageFails, Carried
      <4>2. CASE step[o] # "decided"
        BY <1>f, <1>1, <1>t, <4>2 DEF OutcomeFits, CommandTypeOK, Admitted
      <4> QED BY <4>1, <4>2
    <3> QED BY <1>f, <1>1, <3>1, <3>2, <3>3, <3>4 DEF StoreGrows, OutcomeFits, SameOperator
  <2> QED BY <2>1, <2>2
<1>5. WroteFits(o)' /\ OperatorFits(o)'
  BY <1>f, <1>t, <1>1, SameOperatorFits
<1> QED BY <1>2, <1>3, <1>4, <1>5 DEF CallsOnStoreFit

-----------------------------------------------------------------------------
(***************************************************************************)
(* The invariant.                                                          *)
(***************************************************************************)
LEMMA CommandStart ==
    ASSUME CommandInit
    PROVE  CommandInv
<1>1. CommandTypeOK
  <2>1. <<>> \in Seq(Request) /\ Len(<<>>) = 0 /\ 0 \in 0..MaxJournal
    BY CommandAssumption
  <2>2. result = [o \in Operators |-> result[o]] /\ \A o \in Operators : result[o] = None
    BY DEF CommandInit
  <2>3. state \in RunStates
    BY DEF CommandInit, RunStates, Outcomes, Fresh
  <2>4. ended \in [Operators -> [op: Operations \cup {"none"}, changed: BOOLEAN, exit: {"never", "success", "failure", "control", "killed"},
                                 outcome: {"none", "unknown", "complete", "silent"}]]
    BY DEF CommandInit, Untold
  <2>5. request \in [Operators -> Request \cup {None}] /\ retained \in [Operators -> Request \cup {None}]
    BY DEF CommandInit
  <2>6. checkpoint \in [Operators -> 0..MaxJournal]
    BY <2>1 DEF CommandInit
  <2>7. Len(journal) <= MaxJournal
    BY <2>1, CommandAssumption DEF CommandInit
  <2>8. /\ concluded \in [Operators -> {"nothing", "absent", "committed"}]
        /\ op \in [Operators -> Operations \cup {"none"}]
        /\ landed \in [Operators -> BOOLEAN] /\ wrote \in [Operators -> SUBSET Request]
    BY DEF CommandInit
  <2>9. step \in [Operators -> {"idle", "reading", "opening", "ready", "calling", "decided",
                                 "acknowledged", "current", "reporting", "diagnosing"}]
    BY DEF CommandInit
  <2>10. created \in BOOLEAN /\ journal \in Seq(Request) /\ (journal # <<>> => created) /\ file \in Batches
    BY <2>1 DEF CommandInit
  <2> QED BY <2>2, <2>3, <2>4, <2>5, <2>6, <2>7, <2>8, <2>9, <2>10 DEF CommandTypeOK, RunStates, Outcomes
<1>2. Committed = {}
  BY DEF CommandInit, Committed
<1>3. ASSUME NEW o \in Operators PROVE CallsOnStoreFit(o) /\ OperatorFits(o)
  BY <1>2 DEF CommandInit, CallsOnStoreFit, RunFits, RequestFits, ResultFits, OutcomeFits,
              WroteFits, OperatorFits, Fresh, Untold, Admitted, Answered
<1> QED BY <1>1, <1>3 DEF CommandInv

LEMMA OwnRunFits ==
    ASSUME CommandInv, NEW o \in Operators, RunStep(o)
    PROVE  (CallsOnStoreFit(o) /\ OperatorFits(o))'
<1>1. StoreGrows
  BY StoreOnlyGrows
<1>2. CASE \/ \E operation \in Operations : Run(o, operation)
           \/ \E id \in Ids : Admit(o, id)
           \/ OpenStore(o)
  BY <1>1, <1>2, StartFits
<1>3. CASE \/ Digest(o) \/ Call(o) \/ LandCreate(o) \/ LandAppend(o) \/ Recall(o) \/ LookupNothing(o)
  BY <1>1, <1>3, AnswerFits
<1>4. CASE AcknowledgeCall(o) \/ Settle(o) \/ ReadCurrent(o)
  BY <1>1, <1>4, ReportFits
<1>5. CASE Deliver(o)
  BY <1>1, <1>5, DeliverFits
<1>6. CASE Refused(o) \/ \E said \in Outcomes : StorageFails(o, said)
  BY <1>1, <1>6, FailureFits
<1>7. CASE Diagnose(o) \/ InterruptRun(o) \/ Die(o)
  BY <1>1, <1>7, UndeliveredFits
<1> QED BY <1>2, <1>3, <1>4, <1>5, <1>6, <1>7 DEF RunStep, Outcomes

\* Nobody's run is touched when the commands file is edited, or nothing happens.
LEMMA EditFits ==
    ASSUME CommandInv, file' \in Batches,
           UNCHANGED <<database, checkpoint, retained, concluded, process, ended, wrote>>
    PROVE  CommandInv'
<1>1. CommandTypeOK'
  BY DEF CommandInv, CommandTypeOK, database, process
<1>2. ASSUME NEW q \in Operators PROVE (CallsOnStoreFit(q) /\ OperatorFits(q))'
  <2>1. SameRun(q) /\ StoreGrows
    BY DEF SameRun, StoreGrows, Committed, database, process
  <2> QED BY <2>1, AnotherRun
<1> QED BY <1>1, <1>2 DEF CommandInv

LEMMA CommandStep ==
    ASSUME CommandInv, [CommandNext]_commandVars
    PROVE  CommandInv'
<1>1. ASSUME NEW o \in Operators, RunStep(o) PROVE CommandInv'
  <2>1. CommandTypeOK'
    BY <1>1, CommandTypeStep
  <2>2. ASSUME NEW q \in Operators, q # o PROVE (CallsOnStoreFit(q) /\ OperatorFits(q))'
    <3>1. SameRun(q)
      BY <1>1, <2>2, OtherRuns DEF CommandInv
    <3> QED BY <1>1, <2>2, <3>1, AnotherRun, StoreOnlyGrows
  <2>3. (CallsOnStoreFit(o) /\ OperatorFits(o))'
    BY <1>1, OwnRunFits
  <2> QED BY <2>1, <2>2, <2>3 DEF CommandInv
<1>2. ASSUME NEW batch \in Batches, Edit(batch) PROVE CommandInv'
  BY <1>2, EditFits DEF Edit
<1>3. ASSUME UNCHANGED commandVars PROVE CommandInv'
  <2>1. file' \in Batches
    BY <1>3 DEF commandVars, desk, CommandInv, CommandTypeOK
  <2> QED BY <1>3, <2>1, EditFits DEF commandVars, desk
<1> QED BY <1>1, <1>2, <1>3 DEF CommandNext, RunStep

LEMMA CommandInvariant == CommandSpec => []CommandInv
<1>1. CommandInit => CommandInv
  BY CommandStart
<1>2. CommandInv /\ [CommandNext]_commandVars => CommandInv'
  BY CommandStep
<1> QED BY <1>1, <1>2, PTL DEF CommandSpec

\* What a failed or interrupted run says became of its request is true, and so is
\* what an operator concludes from a delivered report, whoever else works on the
\* store, edits the commands file, kills a run or loses its streams.
THEOREM CommandsAreTruthful == CommandSpec => []CommandsTruthful
<1>1. CommandInv => CommandsTruthful
  BY DEF CommandInv, CommandsTruthful, OperatorFits, DiagnosticsTruthful, KnowledgeRight
<1> QED BY <1>1, CommandInvariant, PTL

\* An append commits the request whose digest its operator wrote down and no other,
\* whatever the commands file and the checkpoint hold by then.
THEOREM CommitsWhatWasApproved == CommandSpec => [][CommitsTheApproved]_commandVars
<1>1. ASSUME CommandInv, [CommandNext]_commandVars, NEW o \in Operators
      PROVE  wrote'[o] \ wrote[o] \subseteq {retained[o]}
  <2>1. CASE LandAppend(o)
    <3>1. request[o] = retained[o]
      BY <1>1, <2>1 DEF LandAppend, Go, CommandInv, CallsOnStoreFit, RequestFits, Answered, Named
    <3>2. wrote'[o] = wrote[o] \cup {request[o]}
      BY <1>1, <2>1 DEF LandAppend, CommandInv, CommandTypeOK
    <3> QED BY <3>1, <3>2
  <2>2. CASE ~LandAppend(o)
    <3>1. ASSUME NEW q \in Operators, RunStep(q) PROVE wrote'[o] = wrote[o]
      <4>1. CASE q # o
        BY <1>1, <3>1, <4>1, OtherRuns DEF CommandInv, SameRun
      <4>2. CASE q = o
        BY <2>2, <3>1, <4>2 DEF RunStep, Run, Admit, OpenStore, Digest, Call, LandCreate, Recall,
               LookupNothing, AcknowledgeCall, Settle, ReadCurrent, Deliver, StorageFails, Refused,
               Diagnose, InterruptRun, Die, Exits
      <4> QED BY <4>1, <4>2
    <3>2. ASSUME NEW batch \in Batches, Edit(batch) PROVE wrote'[o] = wrote[o]
      BY <3>2 DEF Edit
    <3>3. ASSUME UNCHANGED commandVars PROVE wrote'[o] = wrote[o]
      BY <3>3 DEF commandVars
    <3> QED BY <1>1, <3>1, <3>2, <3>3 DEF CommandNext, RunStep
  <2> QED BY <2>1, <2>2
<1>2. CommandInv /\ [CommandNext]_commandVars => CommitsTheApproved
  BY <1>1 DEF CommitsTheApproved
<1> QED BY <1>2, CommandInvariant, PTL DEF CommandSpec
==============================================================================
