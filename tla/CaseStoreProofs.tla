--------------------------- MODULE CaseStoreProofs ---------------------------
(***************************************************************************)
(* Proofs about CaseStore, for any number of callers and processes, any    *)
(* authority, plan and adapter answers.                                    *)
(***************************************************************************)
EXTENDS CaseStore, SequenceTheorems, TLAPS

-----------------------------------------------------------------------------
(***************************************************************************)
(* The inductive invariant.                                                *)
(***************************************************************************)
\* What is settled about a request before it asks for the write lock.
WellAsked(r) ==
    /\ r \in Request
    /\ r.type = "claim" => r.request = r.id /\ MayObserve(r.observer) /\ r.record = NoRecord
    /\ r.type = "finish" =>
           /\ r.observer = NoActor /\ r.record \in CaseObservation
           /\ r.record.request = r.request
           /\ r.record.observer = r.expected.log[1].observer
    /\ r.type = "verdict" =>
           /\ r.observer = NoActor /\ r.record \in CaseVerdict
           /\ r.request = r.expected.receipts[2].request

RequestsFit == \A p \in Callers : request[p] # NoRequest => WellAsked(request[p])

\* What a call was given, by its kind.
WellCalled(a) ==
    /\ a.type = "claim" => a.request = a.id
    /\ a.type = "finish" => a.request \in Ids /\ a.result \in Results
    /\ a.type = "verdict" => a.evaluator \in Actors

Preparing == {"preparing", "keying"}
Writing == {"opening", "reading", "staged", "committing", "landed"}

\* The request of p is the one its call is for.
Requested(p) == phase[p] \in Writing \/ (phase[p] = "settling" /\ verdict[p] = "commit")

\* A finish reads the claimed observer after it has read the checkpoint it expects, and
\* nobody changes it in between.
ArgsFit ==
    \A p \in Callers :
        /\ args[p] # NoRequest => WellCalled(args[p])
        /\ phase[p] \in Preparing \cup Writing => args[p] # NoRequest
        /\ phase[p] = "keying" =>
               /\ args[p].type = "finish" /\ db.operations # <<>>
               /\ args[p].expected.log[1].observer = db.operations[1].observer
        /\ Requested(p) => request[p] # NoRequest /\ request[p].type = args[p].type

\* A writing transaction holds the lock from BEGIN IMMEDIATE to COMMIT.
LockHeld == \A p \in Callers : phase[p] \in {"reading", "staged", "committing"} => writer = p

\* What is staged is the current tables with a request they can take.
StagedFits ==
    \A p \in Callers : phase[p] \in {"staged", "committing"} =>
        Writable(db, request[p]) /\ staged[p] = Extended(db, request[p])

\* The outcome says what is known of this attempt at every step of the call.
OutcomeFits ==
    \A p \in Callers :
        /\ phase[p] \notin {"committing", "landed", "settling"} => outcome[p] = "none"
        /\ phase[p] \in {"committing", "landed"} => outcome[p] = "unknown"
        /\ phase[p] \in {"staged", "committing", "landed"} => verdict[p] = "commit"
        /\ phase[p] \in (Preparing \cup Writing) \ {"landed"} => p \notin landed
        /\ phase[p] = "landed" => p \in landed
        /\ phase[p] = "settling" =>
               /\ outcome[p] = "none" => p \notin landed
               /\ outcome[p] = "complete" => p \in landed
               /\ verdict[p] = "commit" => outcome[p] = "complete"
               /\ verdict[p] = "refused" => p \notin landed

\* What landed is in the file, and only one claim ever did.
LandedFits ==
    /\ \A p \in landed : request[p] # NoRequest /\ request[p] \in Committed(db)
    /\ \A p, q \in landed :
           request[p].type = "claim" /\ request[q].type = "claim" => p = q

\* A bridge enters the adapter for a claim of its own that landed, and was the first to.
EntryFits ==
    /\ EnteredAtMostOnce
    /\ \A p \in Callers :
           /\ phase[p] = "entering" => p \in landed /\ request[p].type = "claim"
           /\ phase[p] = "callback" => request[p] # NoRequest
           /\ p \in landed /\ request[p].type = "claim"
              /\ phase[p] \in {"landed", "settling", "entering"} => entered = <<>>

\* Who holds the bridge lock is inside a bridge, with an ID for its finish.
BridgeFits ==
    \A p \in Callers :
        /\ phase[p] \in {"idle", "dead"} => ~InBridge(p)
        /\ phase[p] \in {"entering", "callback"} => InBridge(p)
        /\ InBridge(p) => finish[p] \in Ids

\* A caller inside a call has been told nothing of it yet.
ReportFits ==
    /\ \A p \in Callers : phase[p] \notin {"idle", "dead"} => report[p] = "nothing"
    /\ ReportsTruthful

\* What the callback returned travels with the call, into the request and the report.
ResultFits ==
    \A p \in Callers : returned[p] # NoResult =>
        /\ phase[p] \notin {"entering", "callback"}
        /\ phase[p] \notin {"idle", "dead"} =>
               InBridge(p) /\ args[p].type = "finish" /\ args[p].result = returned[p]
        /\ Requested(p) => request[p].record.result = returned[p]
        /\ phase[p] \in {"idle", "dead"} =>
               /\ report[p] = "commit" =>
                      request[p].type = "finish" /\ request[p].record.result = returned[p]
               /\ report[p] \in Outcomes => carried[p] = returned[p].output

\* The journal a caller holds is a prefix of the one in the file.
PrefixOf(s, t) == Len(s) <= Len(t) /\ s = SubSeq(t, 1, Len(s))

KnownFits == \A p \in Callers : PrefixOf(known[p].receipts, db.receipts)

\* A decision was taken on the whole journal.
DecisionFits ==
    \A p \in Callers : decision[p] # NoRecord =>
        Len(db.receipts) = 3 /\ AdmitsDecision(db.receipts, decision[p])

CaseInv ==
    /\ TypeOK /\ StoreVerifies /\ RequestsFit /\ ArgsFit /\ LockHeld /\ StagedFits
    /\ OutcomeFits /\ LandedFits /\ EntryFits /\ BridgeFits /\ ReportFits /\ ResultFits
    /\ KnownFits /\ DecisionFits

-----------------------------------------------------------------------------
(***************************************************************************)
(* Facts about the records and the tables.                                 *)
(***************************************************************************)
\* The records tell their types apart.
LEMMA RecordTypes ==
    /\ \A r \in CasePlan : r.type = "plan"
    /\ \A r \in CaseObservation : r.type = "observation" /\ r # NoRecord
    /\ \A r \in CaseVerdict : r.type = "verdict" /\ r # NoRecord
    /\ \A r \in CaseDecision : r.type = "decision" /\ r # NoRecord
BY DEF CasePlan, CaseObservation, CaseVerdict, CaseDecision, NoRecord

\* A prefix is a prefix of what one more element makes of the sequence.
LEMMA PrefixOfAppend ==
    ASSUME NEW S, NEW s \in Seq(S), NEW x \in S, NEW n \in 0..Len(s)
    PROVE  SubSeq(Append(s, x), 1, n) = SubSeq(s, 1, n)
OBVIOUS

\* Each operation has one link in the operation chain.
LEMMA LogFacts ==
    ASSUME NEW ops \in Seq(Request)
    PROVE  /\ Log(ops) \in Seq(Link) /\ Len(Log(ops)) = Len(ops)
           /\ \A i \in 1..Len(ops) : Log(ops)[i].observer = ops[i].observer
<1> DEFINE Of(o) == [type |-> o.type, id |-> o.id, request |-> o.request,
                     observer |-> o.observer]
<1>1. \A i \in 1..Len(ops) : ops[i] \in Request
  BY ElementOfSeq
<1>2. \A i \in 1..Len(ops) : Of(ops[i]) \in Link
  BY <1>1 DEF Request, Link
<1>3. Log(ops) = [i \in 1..Len(ops) |-> Of(ops[i])]
  BY DEF Log
<1>4. \A i \in 1..Len(ops) : Of(ops[i]).observer = ops[i].observer
  OBVIOUS
<1> HIDE DEF Of
<1>5. Log(ops) \in Seq(Link) /\ Len(Log(ops)) = Len(ops)
  BY <1>2, <1>3
<1> QED BY <1>3, <1>4, <1>5

LEMMA LogOfAppend ==
    ASSUME NEW ops \in Seq(Request), NEW r \in Request
    PROVE  SubSeq(Log(Append(ops, r)), 1, Len(ops)) = Log(ops)
           /\ \A n \in 0..Len(ops) :
                  SubSeq(Log(Append(ops, r)), 1, n) = SubSeq(Log(ops), 1, n)
<1> DEFINE more == Append(ops, r)
<1>1. /\ more \in Seq(Request) /\ Len(more) = Len(ops) + 1
      /\ \A i \in 1..Len(ops) : more[i] = ops[i]
  BY AppendProperties
<1> HIDE DEF more
<1>2. /\ Log(more) \in Seq(Link) /\ Len(Log(more)) = Len(ops) + 1
      /\ Log(ops) \in Seq(Link) /\ Len(Log(ops)) = Len(ops)
  BY <1>1, LogFacts
<1>3. \A i \in 1..Len(ops) : Log(more)[i] = Log(ops)[i]
  BY <1>1 DEF Log
<1>4. ASSUME NEW n \in 0..Len(ops)
      PROVE  SubSeq(Log(more), 1, n) = SubSeq(Log(ops), 1, n)
  BY <1>2, <1>3
<1>5. SubSeq(Log(ops), 1, Len(ops)) = Log(ops) /\ Len(ops) \in 0..Len(ops)
  BY <1>2, SubSeqFull
<1> QED BY <1>4, <1>5 DEF more

\* The receipts after a request.
ReceiptsAfter(d, r) == IF r.record = NoRecord THEN d.receipts ELSE Append(d.receipts, r.record)

LEMMA ExtendedFacts ==
    ASSUME NEW d \in Tables, NEW r, WellAsked(r)
    PROVE  /\ Extended(d, r) \in Tables
           /\ Extended(d, r).receipts = ReceiptsAfter(d, r)
           /\ Extended(d, r).operations = Append(d.operations, r)
           /\ Extended(d, r).meta = [receipts |-> ReceiptsAfter(d, r),
                                     log |-> Log(Append(d.operations, r))]
           /\ Extended(d, r).output =
                  IF r.type = "finish" THEN r.record.result.output ELSE d.output
<1>1. /\ d.receipts \in Seq(CaseRecord) /\ d.operations \in Seq(Request)
      /\ d.output \in Contents \cup {NoContent} /\ r \in Request
  BY DEF Tables, WellAsked
<1>2. ReceiptsAfter(d, r) \in Seq(CaseRecord)
  BY <1>1 DEF ReceiptsAfter, Request, CaseRecord
<1>3. Append(d.operations, r) \in Seq(Request)
  BY <1>1
<1>4. Log(Append(d.operations, r)) \in Seq(Link)
  BY <1>3, LogFacts
<1>5. r.type = "finish" => r.record.result.output \in Contents \cup {NoContent}
  BY DEF WellAsked, CaseObservation, Results
<1> DEFINE meta == [receipts |-> ReceiptsAfter(d, r), log |-> Log(Append(d.operations, r))]
           output == IF r.type = "finish" THEN r.record.result.output ELSE d.output
<1>6. meta \in Checkpoint /\ output \in Contents \cup {NoContent}
  BY <1>1, <1>2, <1>4, <1>5 DEF Checkpoint
<1>7. Extended(d, r) = [receipts |-> ReceiptsAfter(d, r), output |-> output,
                        operations |-> Append(d.operations, r), meta |-> meta]
  BY DEF Extended, ReceiptsAfter
<1> HIDE DEF meta, output
<1>8. Extended(d, r) \in Tables
  BY <1>2, <1>3, <1>6, <1>7 DEF Tables
<1>9. /\ Extended(d, r).receipts = ReceiptsAfter(d, r)
      /\ Extended(d, r).operations = Append(d.operations, r)
      /\ Extended(d, r).meta = meta /\ Extended(d, r).output = output
  BY <1>7
<1> QED BY <1>8, <1>9 DEF meta, output

\* A journal grows by a record it admits.
LEMMA ReplaysAppend ==
    ASSUME NEW j \in Seq(CaseRecord), NEW r \in CaseRecord, ReplaysCase(j), Admits(j, r)
    PROVE  ReplaysCase(Append(j, r))
<1> DEFINE k == Append(j, r)
<1>1. /\ k \in Seq(CaseRecord) /\ Len(k) = Len(j) + 1 /\ k[Len(j) + 1] = r
      /\ \A i \in 1..Len(j) : k[i] = j[i]
  BY AppendProperties
<1>2. \A n \in 0..Len(j) : SubSeq(k, 1, n) = SubSeq(j, 1, n)
  BY PrefixOfAppend
<1>3. SubSeq(j, 1, Len(j)) = j /\ Len(j) \in Nat
  BY SubSeqFull
<1> HIDE DEF k
<1> SUFFICES ASSUME NEW i \in 1..Len(j) + 1 PROVE Admits(SubSeq(k, 1, i - 1), k[i])
  BY <1>1 DEF ReplaysCase, k
<1>4. CASE i = Len(j) + 1
  <2>1. SubSeq(k, 1, i - 1) = j /\ k[i] = r
    BY <1>1, <1>2, <1>3, <1>4
  <2> QED BY <2>1
<1>5. CASE i # Len(j) + 1
  <2>1. i \in 1..Len(j)
    BY <1>3, <1>5
  <2>2. SubSeq(k, 1, i - 1) = SubSeq(j, 1, i - 1) /\ k[i] = j[i]
    BY <1>1, <1>2, <2>1
  <2> QED BY <2>1, <2>2 DEF ReplaysCase
<1> QED BY <1>4, <1>5

\* What StoreVerifies says of the committed tables.
Sound(d) ==
    Verifies(d) /\ (Len(d.operations) >= 2 => d.receipts[2].observer = d.operations[1].observer)

\* How far a case has come.
LEMMA SoundFacts ==
    ASSUME NEW d \in Tables, Sound(d)
    PROVE  /\ d.receipts \in Seq(CaseRecord) /\ d.operations \in Seq(Request)
           /\ Len(d.operations) \in 0..3 /\ Len(d.receipts) \in 1..3
           /\ Len(d.receipts) = RecordsBefore(Len(d.operations) + 1)
           /\ d.meta.receipts = d.receipts /\ d.meta.log = Log(d.operations)
           /\ CheckpointBefore(d, Len(d.operations) + 1) = d.meta
           /\ \A i \in 1..Len(d.operations) : d.operations[i].type =
                  IF i = 1 THEN "claim" ELSE IF i = 2 THEN "finish" ELSE "verdict"
<1>1. d.receipts \in Seq(CaseRecord) /\ d.operations \in Seq(Request)
  BY DEF Tables
<1>2. /\ Len(d.operations) \in 0..3 /\ Len(d.receipts) \in 1..3
      /\ Len(d.receipts) = RecordsBefore(Len(d.operations) + 1)
      /\ d.meta = [receipts |-> d.receipts, log |-> Log(d.operations)]
  BY DEF Sound, Verifies
<1>3. \A i \in 1..Len(d.operations) : d.operations[i].type =
          IF i = 1 THEN "claim" ELSE IF i = 2 THEN "finish" ELSE "verdict"
  BY <1>2 DEF Sound, Verifies, ClaimVerifies, FinishVerifies, VerdictVerifies
<1>4. CheckpointBefore(d, Len(d.operations) + 1) = d.meta
  <2>1. SubSeq(d.receipts, 1, Len(d.receipts)) = d.receipts
    BY <1>1, SubSeqFull
  <2>2. /\ Log(d.operations) \in Seq(Link) /\ Len(Log(d.operations)) = Len(d.operations)
        /\ Len(d.operations) + 1 - 1 = Len(d.operations)
    BY <1>1, <1>2, LogFacts
  <2>3. SubSeq(Log(d.operations), 1, Len(d.operations) + 1 - 1) = Log(d.operations)
    BY <2>2, SubSeqFull
  <2>4. CheckpointBefore(d, Len(d.operations) + 1) =
            [receipts |-> SubSeq(d.receipts, 1, Len(d.receipts)),
             log |-> SubSeq(Log(d.operations), 1, Len(d.operations) + 1 - 1)]
    BY <1>2 DEF CheckpointBefore
  <2> QED BY <1>2, <2>1, <2>3, <2>4
<1> QED BY <1>1, <1>2, <1>3, <1>4

\* The tables e are d with what the request r adds.
Adds(d, r, e) ==
    /\ Len(e.operations) = Len(d.operations) + 1
    /\ e.operations[Len(d.operations) + 1] = r
    /\ \A i \in 1..Len(d.operations) : e.operations[i] = d.operations[i]
    /\ Len(e.receipts) = Len(d.receipts) + (IF r.record = NoRecord THEN 0 ELSE 1)
    /\ \A i \in 1..Len(d.receipts) : e.receipts[i] = d.receipts[i]
    /\ \A n \in 0..Len(d.receipts) : SubSeq(e.receipts, 1, n) = SubSeq(d.receipts, 1, n)
    /\ r.record # NoRecord => e.receipts[Len(d.receipts) + 1] = r.record
    /\ \A i \in 1..Len(d.operations) + 1 : CheckpointBefore(e, i) = CheckpointBefore(d, i)

\* A write changes nothing before the operation it adds.
LEMMA ExtendedAdds ==
    ASSUME NEW d \in Tables, Sound(d), NEW r, WellAsked(r)
    PROVE  Adds(d, r, Extended(d, r))
<1> DEFINE e == Extended(d, r)
<1>1. /\ d.receipts \in Seq(CaseRecord) /\ d.operations \in Seq(Request)
      /\ Len(d.operations) \in 0..3 /\ Len(d.receipts) \in 1..3
      /\ Len(d.receipts) = RecordsBefore(Len(d.operations) + 1) /\ r \in Request
  BY SoundFacts DEF WellAsked
<1>2. e.operations = Append(d.operations, r) /\ e.receipts = ReceiptsAfter(d, r)
  BY ExtendedFacts
<1>3. r.record # NoRecord => r.record \in CaseRecord
  BY <1>1 DEF Request, CaseRecord
<1> HIDE DEF e
<1>4. /\ Len(e.operations) = Len(d.operations) + 1
      /\ e.operations[Len(d.operations) + 1] = r
      /\ \A i \in 1..Len(d.operations) : e.operations[i] = d.operations[i]
  BY <1>1, <1>2, AppendProperties
<1>5. /\ Len(e.receipts) = Len(d.receipts) + (IF r.record = NoRecord THEN 0 ELSE 1)
      /\ \A i \in 1..Len(d.receipts) : e.receipts[i] = d.receipts[i]
      /\ r.record # NoRecord => e.receipts[Len(d.receipts) + 1] = r.record
      /\ \A n \in 0..Len(d.receipts) : SubSeq(e.receipts, 1, n) = SubSeq(d.receipts, 1, n)
  <2>1. CASE r.record = NoRecord
    BY <1>1, <1>2, <2>1 DEF ReceiptsAfter
  <2>2. CASE r.record # NoRecord
    <3>1. e.receipts = Append(d.receipts, r.record) /\ r.record \in CaseRecord
      BY <1>2, <1>3, <2>2 DEF ReceiptsAfter
    <3> QED BY <1>1, <2>2, <3>1, AppendProperties, PrefixOfAppend
  <2> QED BY <2>1, <2>2
<1>6. ASSUME NEW i \in 1..Len(d.operations) + 1
      PROVE  CheckpointBefore(e, i) = CheckpointBefore(d, i)
  <2>1. RecordsBefore(i) \in 0..Len(d.receipts) /\ i - 1 \in 0..Len(d.operations)
    BY <1>1 DEF RecordsBefore
  <2>2. SubSeq(e.receipts, 1, RecordsBefore(i)) = SubSeq(d.receipts, 1, RecordsBefore(i))
    BY <1>5, <2>1
  <2>3. SubSeq(Log(e.operations), 1, i - 1) = SubSeq(Log(d.operations), 1, i - 1)
    BY <1>1, <1>2, <2>1, LogOfAppend
  <2> QED BY <2>2, <2>3 DEF CheckpointBefore
<1> QED BY <1>4, <1>5, <1>6 DEF Adds, e

\* A write that its checks let through leaves tables that _read accepts.
LEMMA ExtendedSound ==
    ASSUME NEW d \in Tables, Sound(d), NEW r, WellAsked(r), Writable(d, r)
    PROVE  Sound(Extended(d, r))
<1> DEFINE e == Extended(d, r)
           n == Len(d.operations)
<1>1. /\ d.receipts \in Seq(CaseRecord) /\ d.operations \in Seq(Request)
      /\ n \in 0..2 /\ Len(d.receipts) \in 1..3 /\ Len(d.receipts) = RecordsBefore(n + 1)
      /\ d.meta.receipts = d.receipts /\ d.meta.log = Log(d.operations)
      /\ CheckpointBefore(d, n + 1) = d.meta /\ r.expected = d.meta
      /\ r \in Request /\ d.receipts[1] = Plan
  <2>1. r.expected = d.meta /\ n < 3 /\ r \in Request
    BY DEF Writable, WellAsked
  <2>2. d.receipts[1] = Plan
    BY DEF Sound, Verifies
  <2>3. /\ d.receipts \in Seq(CaseRecord) /\ d.operations \in Seq(Request)
        /\ n \in 0..3 /\ Len(d.receipts) \in 1..3 /\ Len(d.receipts) = RecordsBefore(n + 1)
        /\ d.meta.receipts = d.receipts /\ d.meta.log = Log(d.operations)
        /\ CheckpointBefore(d, n + 1) = d.meta
    BY SoundFacts
  <2> HIDE DEF n
  <2>4. n \in 0..2
    BY <2>1, <2>3
  <2> QED BY <2>1, <2>2, <2>3, <2>4
<1>2. /\ e.operations = Append(d.operations, r) /\ e.receipts = ReceiptsAfter(d, r)
      /\ e.meta = [receipts |-> e.receipts, log |-> Log(e.operations)]
      /\ e.output = IF r.type = "finish" THEN r.record.result.output ELSE d.output
  BY ExtendedFacts
<1>3. /\ Len(e.operations) = n + 1 /\ e.operations[n + 1] = r
      /\ \A i \in 1..n : e.operations[i] = d.operations[i]
      /\ Len(e.receipts) = Len(d.receipts) + (IF r.record = NoRecord THEN 0 ELSE 1)
      /\ \A i \in 1..Len(d.receipts) : e.receipts[i] = d.receipts[i]
      /\ r.record # NoRecord => e.receipts[Len(d.receipts) + 1] = r.record
      /\ \A i \in 1..n + 1 : CheckpointBefore(e, i) = CheckpointBefore(d, i)
  <2>1. Adds(d, r, e)
    BY ExtendedAdds
  <2> HIDE DEF e
  <2> QED BY <2>1 DEF Adds
<1> HIDE DEF e
<1>4. ReplaysCase(e.receipts)
  <2>1. CASE r.record = NoRecord
    BY <1>2, <2>1 DEF ReceiptsAfter, Sound, Verifies
  <2>2. CASE r.record # NoRecord
    <3>1. r.record \in CaseRecord /\ Admits(d.receipts, r.record) /\ ReplaysCase(d.receipts)
      BY <1>1, <2>2 DEF Request, CaseRecord, Writable, Sound, Verifies
    <3> QED BY <1>1, <1>2, <2>2, <3>1, ReplaysAppend DEF ReceiptsAfter
  <2> QED BY <2>1, <2>2
<1>5. ASSUME NEW i \in 1..n + 1
      PROVE  e.operations[i].expected = CheckpointBefore(e, i)
  <2>1. CASE i = n + 1
    BY <1>1, <1>3, <2>1
  <2>2. CASE i \in 1..n
    BY <1>3, <2>2 DEF Sound, Verifies
  <2> QED BY <1>1, <2>1, <2>2
<1>6. CASE r.type = "claim"
  <2>1. /\ n = 0 /\ Len(d.receipts) = 1 /\ r.record = NoRecord /\ ClaimVerifies(r)
        /\ d.output = NoContent
    BY <1>1, <1>6, EmptySeq
       DEF Writable, WellAsked, RecordsBefore, ClaimVerifies, Sound, Verifies
  <2>2. /\ Len(e.operations) = 1 /\ e.operations[1] = r /\ Len(e.receipts) = 1
        /\ e.receipts[1] = Plan /\ e.output = NoContent
    BY <1>1, <1>2, <1>3, <1>6, <2>1
  <2> QED BY <1>2, <1>4, <1>5, <2>1, <2>2 DEF Sound, Verifies, RecordsBefore, e
<1>7. CASE r.type = "finish"
  <2>1. /\ n = 1 /\ Len(d.receipts) = 1 /\ r.record # NoRecord
        /\ d.operations[1].request = r.request /\ ClaimVerifies(d.operations[1])
        /\ r.observer = NoActor /\ r.record.request = r.request
    BY <1>1, <1>7, RecordTypes
       DEF Writable, WellAsked, RecordsBefore, Pending, Sound, Verifies
  <2>2. r.record.observer = d.operations[1].observer
    BY <1>1, <1>7, <2>1, LogFacts DEF WellAsked
  <2>3. /\ Len(e.operations) = 2 /\ e.operations[1] = d.operations[1] /\ e.operations[2] = r
        /\ Len(e.receipts) = 2 /\ e.receipts[1] = Plan /\ e.receipts[2] = r.record
        /\ e.output = r.record.result.output
    BY <1>1, <1>2, <1>3, <1>7, <2>1
  <2>4. FinishVerifies(e, r)
    BY <1>7, <2>1, <2>3 DEF FinishVerifies
  <2> QED BY <1>2, <1>4, <1>5, <2>1, <2>2, <2>3, <2>4 DEF Sound, Verifies, RecordsBefore, e
<1>8. CASE r.type = "verdict"
  <2>1. /\ n = 2 /\ Len(d.receipts) = 2 /\ r.record # NoRecord
        /\ r.request = d.receipts[2].request /\ r.observer = NoActor
        /\ ClaimVerifies(d.operations[1]) /\ FinishVerifies(d, d.operations[2])
        /\ d.output = d.receipts[2].result.output
        /\ d.receipts[2].observer = d.operations[1].observer
    BY <1>1, <1>8, RecordTypes
       DEF Writable, WellAsked, RecordsBefore, Sound, Verifies
  <2>2. /\ Len(e.operations) = 3 /\ e.operations[1] = d.operations[1]
        /\ e.operations[2] = d.operations[2] /\ e.operations[3] = r
        /\ Len(e.receipts) = 3 /\ e.receipts[1] = Plan /\ e.receipts[2] = d.receipts[2]
        /\ e.receipts[3] = r.record /\ e.output = d.output
    BY <1>1, <1>2, <1>3, <1>8, <2>1
  <2>3. FinishVerifies(e, e.operations[2]) /\ VerdictVerifies(e, r)
    BY <1>8, <2>1, <2>2 DEF FinishVerifies, VerdictVerifies
  <2> QED BY <1>2, <1>4, <1>5, <2>1, <2>2, <2>3 DEF Sound, Verifies, RecordsBefore, e
<1>9. r.type \in OperationTypes
  BY <1>1 DEF Request
<1> QED BY <1>6, <1>7, <1>8, <1>9 DEF OperationTypes

\* The committed requests are those there were and the new one.
LEMMA CommittedGrows ==
    ASSUME NEW d \in Tables, NEW r, NEW e, Adds(d, r, e)
    PROVE  Committed(e) = Committed(d) \cup {r} /\ e.operations # <<>>
<1>1. /\ d.operations \in Seq(Request) /\ Len(d.operations) \in Nat
      /\ Len(e.operations) = Len(d.operations) + 1
      /\ e.operations[Len(d.operations) + 1] = r
      /\ \A i \in 1..Len(d.operations) : e.operations[i] = d.operations[i]
  BY LenProperties DEF Tables, Adds
<1>2. /\ Len(d.operations) + 1 \in 1..Len(d.operations) + 1
      /\ \A i \in 1..Len(d.operations) + 1 :
             i \in 1..Len(d.operations) \/ i = Len(d.operations) + 1
      /\ \A i \in 1..Len(d.operations) : i \in 1..Len(d.operations) + 1
  BY <1>1
<1>3. Len(e.operations) # 0
  BY <1>1
<1>4. e.operations # <<>>
  BY <1>3, EmptySeq
<1>5. Committed(e) = {e.operations[i] : i \in 1..Len(d.operations) + 1}
  BY <1>1 DEF Committed
<1>6. \A x : x \in Committed(e) <=> x \in Committed(d) \/ x = r
  BY <1>1, <1>2, <1>5 DEF Committed
<1> QED BY <1>4, <1>6

LEMMA PrefixGrows ==
    ASSUME NEW d \in Tables, NEW r, NEW e, Adds(d, r, e), NEW s \in Seq(CaseRecord),
           PrefixOf(s, d.receipts)
    PROVE  PrefixOf(s, e.receipts)
<1>1. Len(s) \in Nat /\ Len(d.receipts) \in Nat /\ Len(s) <= Len(d.receipts)
  BY LenProperties DEF Tables, PrefixOf
<1>2. Len(e.receipts) = Len(d.receipts) + 0 \/ Len(e.receipts) = Len(d.receipts) + 1
  <2>1. Len(e.receipts) = Len(d.receipts) + (IF r.record = NoRecord THEN 0 ELSE 1)
    BY DEF Adds
  <2> QED BY <2>1
<1>3. SubSeq(e.receipts, 1, Len(s)) = SubSeq(d.receipts, 1, Len(s))
  BY <1>1 DEF Adds
<1>4. Len(s) <= Len(e.receipts)
  BY <1>1, <1>2
<1> QED BY <1>3, <1>4 DEF PrefixOf

\* What a committed request says of the tables it is in.
LEMMA CommittedFacts ==
    ASSUME NEW d \in Tables, Sound(d), NEW r \in Committed(d)
    PROVE  /\ r \in Request
           /\ PrefixOf(ResultOf(r).receipts, d.receipts) /\ ResultOf(r) \in Checkpoint
           /\ r.type = "claim" => d.operations # <<>> /\ d.operations[1] = r
           /\ r.type = "finish" => Len(d.receipts) >= 2 /\ d.receipts[2] = r.record
<1>1. PICK i \in 1..Len(d.operations) : r = d.operations[i]
  BY DEF Committed
<1>2. /\ d.receipts \in Seq(CaseRecord) /\ d.operations \in Seq(Request)
      /\ Len(d.operations) \in 0..3 /\ Len(d.receipts) \in 1..3
      /\ Len(d.receipts) = RecordsBefore(Len(d.operations) + 1)
      /\ d.operations[i].type = IF i = 1 THEN "claim" ELSE IF i = 2 THEN "finish" ELSE "verdict"
  BY <1>1, SoundFacts
<1>3. /\ r \in Request /\ r.expected = CheckpointBefore(d, i)
      /\ r.expected.receipts = SubSeq(d.receipts, 1, RecordsBefore(i))
  BY <1>1, <1>2, ElementOfSeq DEF Sound, Verifies, CheckpointBefore
<1>4. r.record = IF i = 1 THEN NoRecord ELSE d.receipts[i]
  BY <1>1, <1>2 DEF Sound, Verifies, ClaimVerifies, FinishVerifies, VerdictVerifies
<1>5. i # 1 => d.receipts[i] # NoRecord
  BY <1>1, <1>2, ElementOfSeq, RecordTypes
     DEF RecordsBefore, CaseRecord, NoRecord, CasePlan
<1>6. ResultOf(r).receipts = SubSeq(d.receipts, 1, i)
  <2>1. CASE i = 1
    BY <1>3, <1>4, <2>1 DEF ResultOf, RecordsBefore
  <2>2. CASE i # 1
    <3>1. ResultOf(r).receipts = Append(SubSeq(d.receipts, 1, i - 1), d.receipts[i])
      BY <1>3, <1>4, <1>5, <2>2 DEF ResultOf, RecordsBefore
    <3>2. i \in 1..Len(d.receipts)
      BY <1>1, <1>2, <2>2 DEF RecordsBefore
    <3>3. Append(SubSeq(d.receipts, 1, i - 1), d.receipts[i]) = SubSeq(d.receipts, 1, i)
      BY <1>2, <3>2
    <3> QED BY <3>1, <3>3
  <2> QED BY <2>1, <2>2
<1>7. PrefixOf(ResultOf(r).receipts, d.receipts)
  <2>1. i \in 1..Len(d.receipts)
    BY <1>1, <1>2 DEF RecordsBefore
  <2>2. Len(SubSeq(d.receipts, 1, i)) = i
    BY <1>2, <2>1
  <2> QED BY <1>6, <2>1, <2>2 DEF PrefixOf
<1>8. ResultOf(r) \in Checkpoint
  <2>1. SubSeq(d.receipts, 1, i) \in Seq(CaseRecord)
    <3>1. i \in 1..Len(d.receipts)
      BY <1>1, <1>2 DEF RecordsBefore
    <3> QED BY <1>2, <3>1
  <2> DEFINE link == [type |-> r.type, id |-> r.id, request |-> r.request,
                      observer |-> r.observer]
  <2>2. r.expected.log \in Seq(Link) /\ link \in Link
    BY <1>3 DEF Request, Checkpoint, Link
  <2>3. Append(r.expected.log, link) \in Seq(Link)
    BY <2>2
  <2> DEFINE journal == ResultOf(r).receipts
  <2>4. ResultOf(r) = [receipts |-> journal, log |-> Append(r.expected.log, link)]
    BY DEF ResultOf
  <2>5. journal \in Seq(CaseRecord)
    BY <1>6, <2>1
  <2> HIDE DEF link, journal
  <2> QED BY <2>3, <2>4, <2>5 DEF Checkpoint
<1>9. r.type = "claim" => i = 1
  BY <1>1, <1>2
<1>10. r.type = "finish" => i = 2
  BY <1>1, <1>2
<1>11. i = 2 => Len(d.receipts) >= 2
  BY <1>1, <1>2 DEF RecordsBefore
<1>12. d.operations # <<>>
  BY <1>1, EmptySeq
<1>13. r.type = "claim" => d.operations[1] = r
  BY <1>1, <1>9
<1>14. r.type = "finish" => Len(d.receipts) >= 2 /\ d.receipts[2] = r.record
  BY <1>4, <1>10, <1>11
<1> QED BY <1>3, <1>7, <1>8, <1>12, <1>13, <1>14

-----------------------------------------------------------------------------
(***************************************************************************)
(* The shapes of the steps, with what the invariant says when one is taken.*)
(***************************************************************************)
\* The types of the variables that are functions of the caller, apart from the tables.
CallerTypes ==
    /\ bridge \in [Objects -> Callers \cup {NoCaller}]
    /\ known \in [Callers -> Checkpoint]
    /\ args \in [Callers -> Argument \cup {NoRequest}]
    /\ finish \in [Callers -> Ids \cup {NoId}]
    /\ request \in [Callers -> Request \cup {NoRequest}]
    /\ phase \in [Callers -> Phases]
    /\ staged \in [Callers -> Tables]
    /\ outcome \in [Callers -> Outcomes]
    /\ verdict \in [Callers -> Verdicts]
    /\ report \in [Callers -> Reports]
    /\ carried \in [Callers -> Contents \cup {NoContent}]
    /\ returned \in [Callers -> Results \cup {NoResult}]
    /\ decision \in [Callers -> CaseDecision \cup {NoRecord}]

\* A call starts, with or without the bridge lock.
Starts(p, a, id) ==
    /\ Start(p, a, id)
    /\ a \in Argument /\ WellCalled(a) /\ id \in Ids \cup {NoId}
    /\ \/ UNCHANGED bridge
       \/ /\ bridge[ObjectOf[p]] = NoCaller /\ id \in Ids
          /\ bridge' = [bridge EXCEPT ![ObjectOf[p]] = p]

\* A call has made up its request.
Asks(p, r) ==
    /\ phase[p] \in Preparing /\ phase' = [phase EXCEPT ![p] = "opening"]
    /\ r.type = args[p].type
    /\ args[p].type = "finish" => r.record.result = args[p].result
    /\ request' = [request EXCEPT ![p] = r]
    /\ UNCHANGED <<db, hot, entered, transaction, bridge, known, args, finish, report,
                   carried, returned, decision>>

\* A call ends, and its caller may have learned a checkpoint.
Ends(p, r, bytes) ==
    /\ End(p, r, bytes)
    /\ r \in {"commit", "refused", "interrupted"} \cup Outcomes
    /\ r = "commit" => verdict[p] = "commit"
    /\ r = "refused" => verdict[p] = "refused"
    /\ r \in Outcomes => r = outcome[p] /\ bytes = Attached(p)
    /\ bytes \in Contents \cup {NoContent}
    /\ \/ UNCHANGED known
       \/ verdict[p] = "commit" /\ known' = [known EXCEPT ![p] = ResultOf(request[p])]

LEMMA TypesOfCallers ==
    ASSUME CaseInv PROVE CallerTypes
BY DEF CaseInv, TypeOK, CallerTypes

LEMMA StoreIsSound ==
    ASSUME CaseInv PROVE db \in Tables /\ Sound(db)
BY DEF CaseInv, TypeOK, StoreVerifies, Sound

LEMMA PlanType == Plan \in CasePlan
BY CaseStoreAssumption DEF AdmitsPlan

LEMMA StartFacts ==
    ASSUME CaseInv, NEW p \in Callers,
           \/ \E id \in Ids : Claim(p, id)
           \/ \E id, req \in Ids, result \in Answers : Finish(p, id, req, result)
           \/ \E id \in Ids, evaluator \in Evaluators : Judge(p, id, evaluator)
           \/ \E id, finish_id \in Ids : Execute(p, id, finish_id)
    PROVE  \E a, id : Starts(p, a, id)
<1>1. known[p] \in Checkpoint
  BY TypesOfCallers DEF CallerTypes
<1>2. ASSUME NEW id \in Ids
      PROVE  ClaimOf(p, id) \in Argument /\ WellCalled(ClaimOf(p, id))
  BY <1>1 DEF ClaimOf, Argument, OperationTypes, WellCalled
<1>3. ASSUME NEW id \in Ids, Claim(p, id) PROVE \E a, i : Starts(p, a, i)
  <2>1. Starts(p, ClaimOf(p, id), NoId)
    BY <1>2, <1>3 DEF Claim, Starts
  <2> QED BY <2>1
<1>4. ASSUME NEW id \in Ids, NEW req \in Ids, NEW result \in Answers, Finish(p, id, req, result)
      PROVE  \E a, i : Starts(p, a, i)
  <2> DEFINE a == [type |-> "finish", id |-> id, request |-> req, expected |-> known[p],
                   result |-> result, evaluator |-> NoActor]
  <2>1. result \in Results
    BY CaseStoreAssumption
  <2>2. a \in Argument /\ WellCalled(a)
    BY <1>1, <2>1 DEF Argument, OperationTypes, WellCalled
  <2>3. Starts(p, a, NoId)
    BY <1>4, <2>2 DEF Finish, Starts
  <2> QED BY <2>3
<1>5. ASSUME NEW id \in Ids, NEW evaluator \in Evaluators, Judge(p, id, evaluator)
      PROVE  \E a, i : Starts(p, a, i)
  <2> DEFINE a == [type |-> "verdict", id |-> id, request |-> NoId, expected |-> known[p],
                   result |-> NoResult, evaluator |-> evaluator]
  <2>1. evaluator \in Actors
    BY CaseStoreAssumption
  <2>2. a \in Argument /\ WellCalled(a)
    BY <1>1, <2>1 DEF Argument, OperationTypes, WellCalled
  <2>3. Starts(p, a, NoId)
    BY <1>5, <2>2 DEF Judge, Starts
  <2> QED BY <2>3
<1>6. ASSUME NEW id \in Ids, NEW finish_id \in Ids, Execute(p, id, finish_id)
      PROVE  \E a, i : Starts(p, a, i)
  <2>1. Starts(p, ClaimOf(p, id), finish_id)
    BY <1>2, <1>6 DEF Execute, Starts
  <2> QED BY <2>1
<1> QED BY <1>3, <1>4, <1>5, <1>6

\* The second receipt is an observation and the third a verdict, each as its journal admits it.
LEMMA JournalFacts ==
    ASSUME NEW d \in Tables, Sound(d)
    PROVE  /\ Len(d.receipts) >= 2 =>
                  AdmitsObservation(SubSeq(d.receipts, 1, 1), d.receipts[2])
           /\ Len(d.receipts) = 3 => AdmitsVerdict(SubSeq(d.receipts, 1, 2), d.receipts[3])
<1>1. d.receipts \in Seq(CaseRecord) /\ Len(d.receipts) \in 1..3
  BY SoundFacts
<1>2. \A i \in 1..Len(d.receipts) : Admits(SubSeq(d.receipts, 1, i - 1), d.receipts[i])
  BY DEF Sound, Verifies, ReplaysCase
<1>3. \A i \in 1..Len(d.receipts) : Len(SubSeq(d.receipts, 1, i - 1)) = i - 1
  BY <1>1
<1>4. ASSUME Len(d.receipts) >= 2
      PROVE  AdmitsObservation(SubSeq(d.receipts, 1, 1), d.receipts[2])
  <2> DEFINE j == SubSeq(d.receipts, 1, 1)
  <2>1. 2 \in 1..Len(d.receipts) /\ 2 - 1 = 1
    BY <1>1, <1>4
  <2>2. Len(j) = 1 /\ Admits(j, d.receipts[2])
    BY <1>2, <1>3, <2>1
  <2> HIDE DEF j
  <2>3. j # <<>>
    BY <2>2, EmptySeq
  <2>4. AdmitsObservation(j, d.receipts[2])
    BY <2>2, <2>3 DEF Admits, AdmitsPlan, AdmitsVerdict, AdmitsDecision
  <2> QED BY <2>4 DEF j
<1>5. ASSUME Len(d.receipts) = 3
      PROVE  AdmitsVerdict(SubSeq(d.receipts, 1, 2), d.receipts[3])
  <2> DEFINE j == SubSeq(d.receipts, 1, 2)
  <2>1. 3 \in 1..Len(d.receipts) /\ 3 - 1 = 2
    BY <1>1, <1>5
  <2>2. Len(j) = 2 /\ Admits(j, d.receipts[3])
    BY <1>2, <1>3, <2>1
  <2> HIDE DEF j
  <2>3. j # <<>>
    BY <2>2, EmptySeq
  <2>4. AdmitsVerdict(j, d.receipts[3])
    BY <2>2, <2>3 DEF Admits, AdmitsPlan, AdmitsObservation, AdmitsDecision
  <2> QED BY <2>4 DEF j
<1> QED BY <1>4, <1>5

\* What a finish will record.
Observed(p) ==
    [type |-> "observation", plan |-> Plan, request |-> args[p].request,
     observer |-> db.operations[1].observer, result |-> args[p].result]

\* What a verdict call will record.
Judgement(p) ==
    [type |-> "verdict", observation |-> db.receipts[2],
     evaluator |-> args[p].evaluator, outcome |-> Judged(db)]

LEMMA AskFacts ==
    ASSUME CaseInv, NEW p \in Callers, PrepareClaim(p) \/ ReadKey(p) \/ PrepareVerdict(p)
    PROVE  \E r : Asks(p, r) /\ WellAsked(r)
<1>1. /\ args[p] \in Argument /\ WellCalled(args[p]) /\ phase[p] \in Preparing
  BY TypesOfCallers
     DEF CaseInv, ArgsFit, CallerTypes, PrepareClaim, ReadKey, PrepareVerdict, Goto, Preparing
<1>2. db \in Tables /\ Sound(db)
  BY StoreIsSound
<1>3. db.receipts \in Seq(CaseRecord) /\ db.operations \in Seq(Request)
      /\ Len(db.operations) \in 0..3 /\ Len(db.receipts) \in 1..3
      /\ db.meta.receipts = db.receipts /\ db.meta.log = Log(db.operations)
  BY <1>2, SoundFacts
<1>4. CASE PrepareClaim(p)
  <2> DEFINE r == [type |-> args[p].type, id |-> args[p].id, request |-> args[p].request,
                   observer |-> ObserverOf[ObjectOf[p]], record |-> NoRecord,
                   expected |-> args[p].expected]
  <2>1. args[p].type = "claim" /\ MayObserve(ObserverOf[ObjectOf[p]])
    BY <1>4 DEF PrepareClaim, Preparable
  <2>2. r \in Request
    BY <1>1, <2>1 DEF Argument, WellCalled, MayObserve, Request
  <2>3. WellAsked(r)
    BY <1>1, <2>1, <2>2 DEF WellAsked, WellCalled
  <2>4. Asks(p, r)
    BY <1>1, <1>4, <2>1 DEF PrepareClaim, Ask, Asks, Goto
  <2> QED BY <2>3, <2>4
<1>5. CASE ReadKey(p)
  <2> DEFINE r == [type |-> args[p].type, id |-> args[p].id, request |-> args[p].request,
                   observer |-> NoActor, record |-> Observed(p), expected |-> args[p].expected]
  <2>1. /\ args[p].type = "finish" /\ db.operations # <<>>
        /\ args[p].expected.log[1].observer = db.operations[1].observer
    BY <1>5 DEF CaseInv, ArgsFit, ReadKey, Goto
  <2>2. db.operations[1].observer \in Actors
    <3>1. Len(db.operations) >= 1
      BY <1>3, <2>1, EmptySeq
    <3> QED BY <1>2, <3>1 DEF Sound, Verifies, ClaimVerifies, MayObserve
  <2>3. Observed(p) \in CaseObservation
    BY <1>1, <2>1, <2>2, PlanType DEF Observed, CaseObservation, WellCalled
  <2>4. r \in Request
    BY <1>1, <2>1, <2>3 DEF Argument, WellCalled, Request
  <2>5. /\ Observed(p).request = args[p].request /\ Observed(p).result = args[p].result
        /\ Observed(p).observer = db.operations[1].observer
    BY DEF Observed
  <2>6. WellAsked(r)
    BY <2>1, <2>3, <2>4, <2>5 DEF WellAsked
  <2>7. Asks(p, r)
    BY <1>1, <1>5, <2>5 DEF ReadKey, Ask, Asks, Goto, Observed
  <2> QED BY <2>6, <2>7
<1>6. CASE PrepareVerdict(p)
  <2> DEFINE r == [type |-> args[p].type, id |-> args[p].id, request |-> db.receipts[2].request,
                   observer |-> NoActor, record |-> Judgement(p), expected |-> args[p].expected]
  <2>1. /\ args[p].type = "verdict" /\ db.meta = args[p].expected /\ Len(db.receipts) = 2
    BY <1>6 DEF PrepareVerdict, Preparable
  <2>2. db.receipts[2] \in CaseObservation
    <3>1. AdmitsObservation(SubSeq(db.receipts, 1, 1), db.receipts[2])
      BY <1>2, <2>1, JournalFacts
    <3> QED BY <3>1 DEF AdmitsObservation
  <2>3. Judgement(p) \in CaseVerdict
    BY <1>1, <2>1, <2>2 DEF Judgement, Judged, CaseVerdict, WellCalled, VerdictOutcomes
  <2>4. r \in Request
    BY <1>1, <2>1, <2>2, <2>3 DEF Argument, CaseObservation, Request
  <2>5. WellAsked(r)
    BY <1>3, <2>1, <2>3, <2>4 DEF WellAsked
  <2>6. Asks(p, r)
    BY <1>1, <1>6, <2>1 DEF PrepareVerdict, Ask, Asks, Goto, Judgement
  <2> QED BY <2>5, <2>6
<1> QED BY <1>4, <1>5, <1>6

LEMMA EndFacts ==
    ASSUME CaseInv, NEW p \in Callers,
           Return(p) \/ Fail(p) \/ \E v \in {"failed", "interrupted"} : CleanupRaises(p, v)
    PROVE  \E r, bytes : Ends(p, r, bytes)
<1>1. outcome[p] \in Outcomes /\ args[p] \in Argument \cup {NoRequest}
  BY TypesOfCallers DEF CallerTypes
<1>2. Attached(p) \in Contents \cup {NoContent}
  BY <1>1 DEF CaseInv, ArgsFit, WellCalled, Attached, Argument, Results, NoRequest
<1>3. CASE Return(p)
  <2>1. Ends(p, "commit", NoContent)
    BY <1>3 DEF Return, Ends, Outcomes
  <2> QED BY <2>1
<1>4. CASE Fail(p) /\ verdict[p] = "failed"
  <2>1. Ends(p, outcome[p], Attached(p))
    BY <1>1, <1>2, <1>4 DEF Fail, Ends, Outcomes
  <2> QED BY <2>1
<1>5. CASE Fail(p) /\ verdict[p] # "failed"
  <2>1. Ends(p, verdict[p], NoContent)
    BY <1>5 DEF Fail, Ends, Outcomes
  <2> QED BY <2>1
<1>6. ASSUME NEW v \in {"failed", "interrupted"}, CleanupRaises(p, v)
      PROVE  \E r, bytes : Ends(p, r, bytes)
  <2>1. CASE v = "failed"
    <3>1. Ends(p, outcome[p], Attached(p))
      BY <1>1, <1>2, <1>6, <2>1 DEF CleanupRaises, Ends, Outcomes
    <3> QED BY <3>1
  <2>2. CASE v = "interrupted"
    <3>1. Ends(p, v, NoContent)
      BY <1>6, <2>2 DEF CleanupRaises, Ends, Outcomes
    <3> QED BY <3>1
  <2> QED BY <2>1, <2>2
<1> QED BY <1>3, <1>4, <1>5, <1>6

\* The store holds the imported plan and nothing else at first.
LEMMA EmptyStoreSound == EmptyStore \in Tables /\ Sound(EmptyStore) /\ Genesis \in Checkpoint
<1>1. Plan \in CaseRecord /\ <<>> \in Seq(Request) /\ <<>> \in Seq(Link)
  BY PlanType DEF CaseRecord
<1>2. <<Plan>> \in Seq(CaseRecord) /\ Len(<<Plan>>) = 1 /\ <<Plan>>[1] = Plan
  BY <1>1
<1>3. Genesis \in Checkpoint
  BY <1>1, <1>2 DEF Genesis, Checkpoint
<1>4. EmptyStore \in Tables
  BY <1>1, <1>2, <1>3 DEF EmptyStore, Tables
<1>5. ReplaysCase(<<Plan>>)
  <2>1. SubSeq(<<Plan>>, 1, 0) = <<>>
    OBVIOUS
  <2>2. Admits(<<>>, Plan)
    BY CaseStoreAssumption DEF Admits
  <2>3. \A i \in 1..Len(<<Plan>>) : i = 1 /\ i - 1 = 0 /\ <<Plan>>[i] = Plan
    BY <1>2
  <2>4. \A i \in 1..Len(<<Plan>>) : Admits(SubSeq(<<Plan>>, 1, i - 1), <<Plan>>[i])
    BY <2>1, <2>2, <2>3
  <2> QED BY <2>4 DEF ReplaysCase
<1>6. Log(<<>>) = <<>>
  BY DEF Log
<1>7. /\ EmptyStore.receipts = <<Plan>> /\ EmptyStore.output = NoContent
      /\ EmptyStore.operations = <<>> /\ Len(EmptyStore.operations) = 0
      /\ EmptyStore.meta = [receipts |-> <<Plan>>, log |-> <<>>]
  BY DEF EmptyStore, Genesis
<1>8. Sound(EmptyStore)
  BY <1>2, <1>5, <1>6, <1>7 DEF Sound, Verifies, RecordsBefore
<1> QED BY <1>3, <1>4, <1>8

\* The invariant holds initially.
LEMMA InitLemma ==
    ASSUME Init PROVE CaseInv
<1>1. EmptyStore \in Tables /\ Sound(EmptyStore) /\ Genesis \in Checkpoint
  BY EmptyStoreSound
<1>2. TypeOK
  BY <1>1 DEF Init, TypeOK, Phases, Outcomes, Verdicts, Reports
<1>3. StoreVerifies
  BY <1>1 DEF Init, StoreVerifies, Sound
<1>4. RequestsFit /\ ArgsFit /\ LockHeld /\ StagedFits
  BY DEF Init, RequestsFit, ArgsFit, LockHeld, StagedFits, Requested, Preparing, Writing
<1>5. OutcomeFits /\ LandedFits /\ EntryFits
  BY DEF Init, OutcomeFits, LandedFits, EntryFits, EnteredAtMostOnce, Preparing, Writing
<1>6. BridgeFits
  BY CaseStoreAssumption DEF Init, BridgeFits, InBridge
<1>7. ReportFits /\ ResultFits /\ DecisionFits
  BY DEF Init, ReportFits, ReportsTruthful, ResultFits, DecisionFits
<1>8. KnownFits
  <2>1. Genesis.receipts = <<Plan>> /\ EmptyStore.receipts = <<Plan>>
    BY DEF Genesis, EmptyStore
  <2>2. PrefixOf(<<Plan>>, <<Plan>>)
    BY SubSeqFull, PlanType DEF PrefixOf
  <2> QED BY <2>1, <2>2 DEF Init, KnownFits
<1> QED BY <1>2, <1>3, <1>4, <1>5, <1>6, <1>7, <1>8 DEF CaseInv

\* snapshot() hands out the whole journal.
LEMMA SnapshotStep ==
    ASSUME CaseInv, NEW p \in Callers, Snapshot(p)
    PROVE  CaseInv'
<1>1. CallerTypes
  BY TypesOfCallers
<1>2. /\ StoreVerifies' /\ RequestsFit' /\ ArgsFit' /\ LockHeld' /\ StagedFits'
      /\ OutcomeFits' /\ LandedFits' /\ EntryFits' /\ BridgeFits'
      /\ ReportFits' /\ ResultFits' /\ DecisionFits'
  BY DEF CaseInv, StoreVerifies, RequestsFit, ArgsFit, LockHeld, StagedFits, OutcomeFits,
         LandedFits, EntryFits, BridgeFits, ReportFits, ResultFits, DecisionFits, Requested,
         Preparing, Writing, EnteredAtMostOnce, InBridge, ReportsTruthful, Snapshot,
         transaction, caller
<1>3. KnownFits'
  <2>1. /\ db.receipts \in Seq(CaseRecord) /\ db.meta.receipts = db.receipts
        /\ PrefixOf(db.receipts, db.receipts)
    BY StoreIsSound, SoundFacts, SubSeqFull DEF PrefixOf
  <2> QED BY <1>1, <2>1 DEF CallerTypes, CaseInv, KnownFits, Snapshot
<1>4. TypeOK'
  <2>1. db.meta \in Checkpoint
    BY StoreIsSound DEF Tables
  <2> QED BY <1>1, <2>1 DEF CallerTypes, CaseInv, TypeOK, Snapshot, transaction
<1> QED BY <1>2, <1>3, <1>4 DEF CaseInv

\* lookup() tells what became of the request.
LEMMA LookupStep ==
    ASSUME CaseInv, NEW p \in Callers, Lookup(p)
    PROVE  CaseInv'
<1>1. CallerTypes
  BY TypesOfCallers
<1>2. /\ StoreVerifies' /\ RequestsFit' /\ ArgsFit' /\ LockHeld' /\ StagedFits'
      /\ BridgeFits' /\ KnownFits' /\ DecisionFits'
  BY DEF CaseInv, StoreVerifies, RequestsFit, ArgsFit, LockHeld, StagedFits, BridgeFits,
         KnownFits, DecisionFits, Requested, Preparing, Writing, InBridge, Lookup,
         transaction, caller
<1>3. OutcomeFits'
  BY <1>1 DEF CallerTypes, CaseInv, OutcomeFits, Preparing, Writing, Lookup, transaction,
              caller
<1>4. LandedFits'
  BY <1>1 DEF CallerTypes, CaseInv, LandedFits, Lookup, transaction, caller
<1>5. EntryFits'
  BY <1>1 DEF CallerTypes, CaseInv, EntryFits, EnteredAtMostOnce, Lookup, transaction,
              caller
<1>6. ReportFits'
  BY <1>1 DEF CallerTypes, CaseInv, ReportFits, ReportsTruthful, Lookup, transaction, caller
<1>7. ResultFits'
  BY <1>1 DEF CallerTypes, CaseInv, ResultFits, InBridge, Requested, Writing, Lookup,
              transaction, caller
<1>8. TypeOK'
  BY <1>1 DEF CallerTypes, CaseInv, TypeOK, Reports, Outcomes, Lookup, transaction, caller
<1> QED BY <1>2, <1>3, <1>4, <1>5, <1>6, <1>7, <1>8 DEF CaseInv

\* A decision is taken on a whole journal, which is the one in the file.
LEMMA DecideStep ==
    ASSUME CaseInv, NEW p \in Callers,
           NEW decider \in Actors, NEW disposition \in Dispositions,
           Decide(p, decider, disposition)
    PROVE  CaseInv'
<1>1. CallerTypes
  BY TypesOfCallers
<1> DEFINE r == [type |-> "decision", verdict |-> known[p].receipts[3],
                 decider |-> decider, disposition |-> disposition]
<1>2. /\ Len(known[p].receipts) = 3 /\ Admits(known[p].receipts, r)
      /\ decision' = [decision EXCEPT ![p] = r]
  BY DEF Decide
<1>3. db.receipts \in Seq(CaseRecord) /\ Len(db.receipts) \in 1..3
  BY StoreIsSound, SoundFacts
<1>4. known[p].receipts = db.receipts
  BY <1>2, <1>3, SubSeqFull DEF CaseInv, KnownFits, PrefixOf
<1>5. AdmitsDecision(known[p].receipts, r)
  <2>1. r.type = "decision"
    OBVIOUS
  <2> HIDE DEF r
  <2> QED BY <1>2, <2>1, RecordTypes
          DEF Admits, AdmitsPlan, AdmitsObservation, AdmitsVerdict
<1>6. r \in CaseDecision
  BY <1>5 DEF AdmitsDecision
<1> HIDE DEF r
<1>7. /\ StoreVerifies' /\ RequestsFit' /\ ArgsFit' /\ LockHeld' /\ StagedFits'
      /\ OutcomeFits' /\ LandedFits' /\ EntryFits' /\ BridgeFits'
      /\ ReportFits' /\ ResultFits' /\ KnownFits'
  BY DEF CaseInv, StoreVerifies, RequestsFit, ArgsFit, LockHeld, StagedFits, OutcomeFits,
         LandedFits, EntryFits, BridgeFits, ReportFits, ResultFits, KnownFits, Requested,
         Preparing, Writing, EnteredAtMostOnce, InBridge, ReportsTruthful, Decide,
         transaction, caller
<1>8. DecisionFits'
  BY <1>1, <1>2, <1>4, <1>5 DEF CallerTypes, CaseInv, DecisionFits, Decide, transaction
<1>9. TypeOK'
  BY <1>1, <1>2, <1>6 DEF CallerTypes, CaseInv, TypeOK, Decide, transaction
<1> QED BY <1>7, <1>8, <1>9 DEF CaseInv

\* A call starts with nothing of an earlier one left.
LEMMA StartStep ==
    ASSUME CaseInv, NEW p \in Callers, NEW a, NEW id, Starts(p, a, id)
    PROVE  CaseInv'
<1>1. CallerTypes
  BY TypesOfCallers
<1>2. a # NoRequest
  BY DEF Starts, Argument, OperationTypes, NoRequest
<1>3. NoCaller \notin Callers /\ ObjectOf \in [Callers -> Objects]
  BY CaseStoreAssumption
<1>4. bridge' # bridge => /\ id \in Ids
                         /\ \A q \in Callers : InBridge(q)' <=> q = p \/ InBridge(q)
  BY <1>1, <1>3 DEF CallerTypes, Starts, InBridge
<1>5. bridge' = bridge => \A q \in Callers : InBridge(q)' <=> InBridge(q)
  BY DEF InBridge
<1>6. /\ phase[p] = "idle" /\ phase' = [phase EXCEPT ![p] = "preparing"]
      /\ finish' = [finish EXCEPT ![p] = id] /\ args' = [args EXCEPT ![p] = a]
      /\ returned' = [returned EXCEPT ![p] = NoResult]
      /\ \A q \in Callers : q # p => report'[q] = report[q] /\ carried'[q] = carried[q]
      /\ request' = request /\ verdict' = verdict
  BY <1>1 DEF CallerTypes, Starts, Start, Goto
<1>7. StoreVerifies' /\ RequestsFit' /\ KnownFits' /\ DecisionFits'
  BY DEF CaseInv, StoreVerifies, RequestsFit, KnownFits, DecisionFits, Starts, Start, Goto
<1>8. ArgsFit'
  BY <1>1, <1>2 DEF CallerTypes, CaseInv, ArgsFit, Requested, Preparing, Writing, Starts,
              Start, Goto
<1>9. LockHeld'
  BY <1>1 DEF CallerTypes, CaseInv, LockHeld, Starts, Start, Goto
<1>10. StagedFits'
  BY <1>1 DEF CallerTypes, CaseInv, StagedFits, Starts, Start, Goto
<1>11. OutcomeFits'
  BY <1>1 DEF CallerTypes, CaseInv, OutcomeFits, Preparing, Writing, Starts, Start, Goto
<1>12. LandedFits'
  BY <1>1 DEF CallerTypes, CaseInv, LandedFits, Starts, Start, Goto
<1>13. EntryFits'
  BY <1>1 DEF CallerTypes, CaseInv, EntryFits, EnteredAtMostOnce, Starts, Start, Goto
<1>14. BridgeFits'
  <2>1. CASE bridge' = bridge
    BY <1>1, <1>5, <1>6, <2>1 DEF CallerTypes, CaseInv, BridgeFits
  <2>2. CASE bridge' # bridge
    BY <1>1, <1>4, <1>6, <2>2 DEF CallerTypes, CaseInv, BridgeFits
  <2> QED BY <2>1, <2>2
<1>15. ReportFits'
  BY <1>1 DEF CallerTypes, CaseInv, ReportFits, ReportsTruthful, Starts, Start, Goto
<1>16. ResultFits'
  <2>1. \A q \in Callers : q # p => (InBridge(q)' <=> InBridge(q))
    BY <1>4, <1>5
  <2>2. \A q \in Callers : q # p => (Requested(q)' <=> Requested(q))
    BY <1>1, <1>6 DEF CallerTypes, Requested
  <2>3. returned'[p] = NoResult
    BY <1>1, <1>6 DEF CallerTypes
  <2> QED BY <1>1, <1>6, <2>1, <2>2, <2>3 DEF CallerTypes, CaseInv, ResultFits
<1>17. TypeOK'
  BY <1>1 DEF CallerTypes, CaseInv, TypeOK, Phases, Reports, Starts, Start, Goto
<1> QED BY <1>7, <1>8, <1>9, <1>10, <1>11, <1>12, <1>13, <1>14, <1>15, <1>16, <1>17
       DEF CaseInv

\* A finish has read the checkpoint it expects; the claim is in it.
LEMMA PrepareFinishStep ==
    ASSUME CaseInv, NEW p \in Callers, PrepareFinish(p)
    PROVE  CaseInv'
<1>1. CallerTypes
  BY TypesOfCallers
<1>2. /\ StoreVerifies' /\ RequestsFit' /\ LandedFits' /\ KnownFits'
      /\ DecisionFits'
  BY DEF CaseInv, StoreVerifies, RequestsFit, LandedFits, KnownFits, DecisionFits,
         PrepareFinish, Goto, transaction, caller
<1>3. ArgsFit'
  <2>1. /\ args[p].type = "finish" /\ db.meta = args[p].expected /\ args[p] # NoRequest
        /\ Pending(db) = args[p].request /\ args[p].request \in Ids
    BY DEF CaseInv, ArgsFit, WellCalled, PrepareFinish, Preparable, Goto, Preparing
  <2>2. Len(db.operations) = 1
    BY <2>1, CaseStoreAssumption DEF Pending
  <2>3. /\ db.operations # <<>> /\ db.meta.log[1].observer = db.operations[1].observer
    BY <2>2, EmptySeq, StoreIsSound, SoundFacts, LogFacts
  <2> QED BY <1>1, <2>1, <2>3
          DEF CallerTypes, CaseInv, ArgsFit, Requested, Preparing, Writing, PrepareFinish, Goto,
              transaction, caller
<1>4. LockHeld'
  BY <1>1 DEF CallerTypes, CaseInv, LockHeld, PrepareFinish, Goto, transaction, caller
<1>5. StagedFits'
  BY <1>1 DEF CallerTypes, CaseInv, StagedFits, PrepareFinish, Goto, transaction, caller
<1>6. OutcomeFits'
  BY <1>1 DEF CallerTypes, CaseInv, OutcomeFits, Preparing, Writing, PrepareFinish, Goto,
              transaction, caller
<1>7. EntryFits'
  BY <1>1 DEF CallerTypes, CaseInv, EntryFits, EnteredAtMostOnce, PrepareFinish, Goto,
              transaction, caller
<1>8. BridgeFits'
  BY <1>1 DEF CallerTypes, CaseInv, BridgeFits, InBridge, PrepareFinish, Goto, transaction,
              caller
<1>9. ReportFits'
  BY <1>1 DEF CallerTypes, CaseInv, ReportFits, ReportsTruthful, PrepareFinish, Goto,
              transaction, caller
<1>10. ResultFits'
  BY <1>1 DEF CallerTypes, CaseInv, ResultFits, InBridge, Requested, Writing, PrepareFinish,
              Goto, transaction, caller
<1>11. TypeOK'
  BY <1>1 DEF CallerTypes, CaseInv, TypeOK, Phases, PrepareFinish, Goto, transaction, caller
<1> QED BY <1>2, <1>3, <1>4, <1>5, <1>6, <1>7, <1>8, <1>9, <1>10, <1>11 DEF CaseInv

\* The request is made up.
LEMMA AskStep ==
    ASSUME CaseInv, NEW p \in Callers, NEW r, Asks(p, r), WellAsked(r)
    PROVE  CaseInv'
<1>1. CallerTypes
  BY TypesOfCallers
<1>2. r \in Request /\ r # NoRequest
  BY DEF WellAsked, Request, OperationTypes, NoRequest
<1>3. StoreVerifies' /\ KnownFits' /\ DecisionFits'
  BY DEF CaseInv, StoreVerifies, KnownFits, DecisionFits, Asks, transaction
<1>4. RequestsFit'
  BY <1>1 DEF CallerTypes, CaseInv, RequestsFit, Asks, transaction
<1>5. ArgsFit'
  BY <1>1, <1>2 DEF CallerTypes, CaseInv, ArgsFit, Requested, Preparing, Writing, Asks,
              transaction
<1>6. LockHeld'
  BY <1>1 DEF CallerTypes, CaseInv, LockHeld, Asks, transaction
<1>7. StagedFits'
  BY <1>1 DEF CallerTypes, CaseInv, StagedFits, Asks, transaction
<1>8. OutcomeFits'
  BY <1>1 DEF CallerTypes, CaseInv, OutcomeFits, Preparing, Writing, Asks, transaction
<1>9. LandedFits'
  BY <1>1 DEF CallerTypes, CaseInv, LandedFits, OutcomeFits, Preparing, Writing, Asks,
              transaction
<1>10. EntryFits'
  BY <1>1 DEF CallerTypes, CaseInv, EntryFits, EnteredAtMostOnce, Asks, transaction
<1>11. BridgeFits'
  BY <1>1 DEF CallerTypes, CaseInv, BridgeFits, InBridge, Asks, transaction
<1>12. ReportFits'
  BY <1>1 DEF CallerTypes, CaseInv, ReportFits, ReportsTruthful, Preparing, Asks,
              transaction
<1>13. ResultFits'
  BY <1>1 DEF CallerTypes, CaseInv, ResultFits, InBridge, Requested, Preparing, Writing,
              Asks, transaction
<1>14. TypeOK'
  <2>1. r \in Request
    BY DEF WellAsked
  <2> QED BY <1>1, <2>1 DEF CallerTypes, CaseInv, TypeOK, Asks, transaction, Phases
<1> QED BY <1>3, <1>4, <1>5, <1>6, <1>7, <1>8, <1>9, <1>10, <1>11, <1>12, <1>13, <1>14
       DEF CaseInv

\* BEGIN IMMEDIATE takes the lock.
LEMMA BeginStep ==
    ASSUME CaseInv, NEW p \in Callers, Begin(p)
    PROVE  CaseInv'
<1>1. CallerTypes
  BY TypesOfCallers
<1>2. /\ StoreVerifies' /\ RequestsFit' /\ LandedFits' /\ KnownFits'
      /\ DecisionFits'
  BY DEF CaseInv, StoreVerifies, RequestsFit, LandedFits, KnownFits, DecisionFits, Begin,
         Goto, caller
<1>3. ArgsFit'
  BY <1>1 DEF CallerTypes, CaseInv, ArgsFit, Requested, Preparing, Writing, Begin, Goto,
              caller
<1>4. LockHeld'
  BY <1>1, CaseStoreAssumption DEF CallerTypes, CaseInv, LockHeld, Begin, Goto
<1>5. StagedFits'
  BY <1>1 DEF CallerTypes, CaseInv, StagedFits, Begin, Goto, caller
<1>6. OutcomeFits'
  BY <1>1 DEF CallerTypes, CaseInv, OutcomeFits, Preparing, Writing, Begin, Goto, caller
<1>7. EntryFits'
  BY <1>1 DEF CallerTypes, CaseInv, EntryFits, EnteredAtMostOnce, Begin, Goto, caller
<1>8. BridgeFits'
  BY <1>1 DEF CallerTypes, CaseInv, BridgeFits, InBridge, Begin, Goto, caller
<1>9. ReportFits'
  BY <1>1 DEF CallerTypes, CaseInv, ReportFits, ReportsTruthful, Begin, Goto, caller
<1>10. ResultFits'
  BY <1>1 DEF CallerTypes, CaseInv, ResultFits, InBridge, Requested, Writing, Begin, Goto,
              caller
<1>11. TypeOK'
  BY <1>1 DEF CallerTypes, CaseInv, TypeOK, Phases, Begin, Goto, caller
<1> QED BY <1>2, <1>3, <1>4, <1>5, <1>6, <1>7, <1>8, <1>9, <1>10, <1>11 DEF CaseInv

\* A refusal comes before anything is written.
LEMMA RefuseStep ==
    ASSUME CaseInv, NEW p \in Callers,
           RefuseToPrepare(p) \/ RefuseToWrite(p)
    PROVE  CaseInv'
<1>1. CallerTypes
  BY TypesOfCallers
<1>2. /\ StoreVerifies' /\ RequestsFit' /\ LandedFits' /\ KnownFits'
      /\ DecisionFits'
  BY DEF CaseInv, StoreVerifies, RequestsFit, LandedFits, KnownFits, DecisionFits,
         RefuseToPrepare, RefuseToWrite, Refuse, caller
<1>3. ArgsFit'
  BY <1>1 DEF CallerTypes, CaseInv, ArgsFit, Requested, Preparing, Writing, RefuseToPrepare,
              RefuseToWrite, Refuse, caller
<1>4. LockHeld'
  BY <1>1 DEF CallerTypes, CaseInv, LockHeld, RefuseToPrepare, RefuseToWrite, Refuse, caller
<1>5. StagedFits'
  BY <1>1 DEF CallerTypes, CaseInv, StagedFits, RefuseToPrepare, RefuseToWrite, Refuse,
              caller
<1>6. OutcomeFits'
  <2>1. ASSUME NEW q \in Callers, q # p
        PROVE  /\ phase'[q] = phase[q] /\ outcome'[q] = outcome[q]
               /\ verdict'[q] = verdict[q] /\ (q \in landed' <=> q \in landed)
    BY <1>1, <2>1 DEF CallerTypes, RefuseToPrepare, RefuseToWrite, Refuse, caller
  <2>2. /\ phase'[p] = "settling" /\ verdict'[p] = "refused"
        /\ outcome'[p] = outcome[p] /\ landed' = landed
        /\ phase[p] \in {"preparing", "keying", "reading"}
    BY <1>1 DEF CallerTypes, RefuseToPrepare, RefuseToWrite, Refuse, caller
  <2>3. /\ outcome[p] \in {"none", "unknown"}
        /\ outcome[p] = "none" => p \notin landed /\ p \notin landed
    BY <2>2 DEF CaseInv, OutcomeFits, Preparing, Writing
  <2> QED BY <2>1, <2>2, <2>3 DEF CaseInv, OutcomeFits, Preparing, Writing
<1>7. EntryFits'
  BY <1>1 DEF CallerTypes, CaseInv, EntryFits, EnteredAtMostOnce, OutcomeFits, Preparing,
              Writing, RefuseToPrepare, RefuseToWrite, Refuse, caller
<1>8. BridgeFits'
  BY <1>1 DEF CallerTypes, CaseInv, BridgeFits, InBridge, RefuseToPrepare, RefuseToWrite,
              Refuse, caller
<1>9. ReportFits'
  BY <1>1 DEF CallerTypes, CaseInv, ReportFits, ReportsTruthful, RefuseToPrepare,
              RefuseToWrite, Refuse, caller
<1>10. ResultFits'
  BY <1>1 DEF CallerTypes, CaseInv, ResultFits, InBridge, Requested, Writing,
              RefuseToPrepare, RefuseToWrite, Refuse, caller
<1>11. TypeOK'
  BY <1>1 DEF CallerTypes, CaseInv, TypeOK, Phases, Verdicts, RefuseToPrepare,
              RefuseToWrite, Refuse, caller
<1> QED BY <1>2, <1>3, <1>4, <1>5, <1>6, <1>7, <1>8, <1>9, <1>10, <1>11 DEF CaseInv

\* What is staged extends the tables that were read under the lock.
LEMMA StageStep ==
    ASSUME CaseInv, NEW p \in Callers, Stage(p)
    PROVE  CaseInv'
<1>1. CallerTypes
  BY TypesOfCallers
<1>2. /\ StoreVerifies' /\ RequestsFit' /\ LandedFits' /\ KnownFits'
      /\ DecisionFits'
  BY DEF CaseInv, StoreVerifies, RequestsFit, LandedFits, KnownFits, DecisionFits, Stage,
         Goto, caller
<1>3. ArgsFit'
  BY <1>1 DEF CallerTypes, CaseInv, ArgsFit, Requested, Preparing, Writing, Stage, Goto,
              caller
<1>4. LockHeld'
  BY <1>1 DEF CallerTypes, CaseInv, LockHeld, Stage, Goto, caller
<1>5. StagedFits'
  BY <1>1 DEF CallerTypes, CaseInv, StagedFits, Stage, Goto, caller
<1>6. OutcomeFits'
  BY <1>1 DEF CallerTypes, CaseInv, OutcomeFits, Preparing, Writing, Stage, Goto, caller
<1>7. EntryFits'
  BY <1>1 DEF CallerTypes, CaseInv, EntryFits, EnteredAtMostOnce, Stage, Goto, caller
<1>8. BridgeFits'
  BY <1>1 DEF CallerTypes, CaseInv, BridgeFits, InBridge, Stage, Goto, caller
<1>9. ReportFits'
  BY <1>1 DEF CallerTypes, CaseInv, ReportFits, ReportsTruthful, Stage, Goto, caller
<1>10. ResultFits'
  BY <1>1 DEF CallerTypes, CaseInv, ResultFits, InBridge, Requested, Writing, Stage, Goto,
              caller
<1>11. TypeOK'
  <2>1. WellAsked(request[p])
    BY DEF CaseInv, ArgsFit, RequestsFit, Requested, Writing, Stage, Goto
  <2>2. Extended(db, request[p]) \in Tables
    BY <2>1, StoreIsSound, ExtendedFacts
  <2> QED BY <1>1, <2>2
          DEF CallerTypes, CaseInv, TypeOK, Stage, Goto, caller, Phases, Verdicts
<1> QED BY <1>2, <1>3, <1>4, <1>5, <1>6, <1>7, <1>8, <1>9, <1>10, <1>11 DEF CaseInv

\* The outcome becomes unknown before COMMIT is attempted.
LEMMA StartCommitStep ==
    ASSUME CaseInv, NEW p \in Callers, StartCommit(p)
    PROVE  CaseInv'
<1>1. CallerTypes
  BY TypesOfCallers
<1>2. /\ StoreVerifies' /\ RequestsFit' /\ LandedFits' /\ KnownFits'
      /\ DecisionFits'
  BY DEF CaseInv, StoreVerifies, RequestsFit, LandedFits, KnownFits, DecisionFits,
         StartCommit, Goto, caller
<1>3. ArgsFit'
  BY <1>1 DEF CallerTypes, CaseInv, ArgsFit, Requested, Preparing, Writing, StartCommit,
              Goto, caller
<1>4. LockHeld'
  BY <1>1 DEF CallerTypes, CaseInv, LockHeld, StartCommit, Goto, caller
<1>5. StagedFits'
  BY <1>1 DEF CallerTypes, CaseInv, StagedFits, StartCommit, Goto, caller
<1>6. OutcomeFits'
  BY <1>1 DEF CallerTypes, CaseInv, OutcomeFits, Preparing, Writing, StartCommit, Goto,
              caller
<1>7. EntryFits'
  BY <1>1 DEF CallerTypes, CaseInv, EntryFits, EnteredAtMostOnce, StartCommit, Goto, caller
<1>8. BridgeFits'
  BY <1>1 DEF CallerTypes, CaseInv, BridgeFits, InBridge, StartCommit, Goto, caller
<1>9. ReportFits'
  BY <1>1 DEF CallerTypes, CaseInv, ReportFits, ReportsTruthful, StartCommit, Goto, caller
<1>10. ResultFits'
  BY <1>1 DEF CallerTypes, CaseInv, ResultFits, InBridge, Requested, Writing, StartCommit,
              Goto, caller
<1>11. TypeOK'
  BY <1>1 DEF CallerTypes, CaseInv, TypeOK, Phases, Outcomes, StartCommit, Goto, caller
<1> QED BY <1>2, <1>3, <1>4, <1>5, <1>6, <1>7, <1>8, <1>9, <1>10, <1>11 DEF CaseInv

\* COMMIT returned.
LEMMA AcknowledgeStep ==
    ASSUME CaseInv, NEW p \in Callers, Acknowledge(p)
    PROVE  CaseInv'
<1>1. CallerTypes
  BY TypesOfCallers
<1>2. /\ StoreVerifies' /\ RequestsFit' /\ LandedFits' /\ KnownFits'
      /\ DecisionFits'
  BY DEF CaseInv, StoreVerifies, RequestsFit, LandedFits, KnownFits, DecisionFits,
         Acknowledge, Goto, caller
<1>3. ArgsFit'
  BY <1>1 DEF CallerTypes, CaseInv, ArgsFit, Requested, Preparing, Writing, Acknowledge,
              Goto, caller
<1>4. LockHeld'
  BY <1>1 DEF CallerTypes, CaseInv, LockHeld, Acknowledge, Goto, caller
<1>5. StagedFits'
  BY <1>1 DEF CallerTypes, CaseInv, StagedFits, Acknowledge, Goto, caller
<1>6. OutcomeFits'
  BY <1>1 DEF CallerTypes, CaseInv, OutcomeFits, Preparing, Writing, Acknowledge, Goto,
              caller
<1>7. EntryFits'
  BY <1>1 DEF CallerTypes, CaseInv, EntryFits, EnteredAtMostOnce, Acknowledge, Goto, caller
<1>8. BridgeFits'
  BY <1>1 DEF CallerTypes, CaseInv, BridgeFits, InBridge, Acknowledge, Goto, caller
<1>9. ReportFits'
  BY <1>1 DEF CallerTypes, CaseInv, ReportFits, ReportsTruthful, Acknowledge, Goto, caller
<1>10. ResultFits'
  BY <1>1 DEF CallerTypes, CaseInv, ResultFits, InBridge, Requested, Writing, Acknowledge,
              Goto, caller
<1>11. TypeOK'
  BY <1>1 DEF CallerTypes, CaseInv, TypeOK, Phases, Outcomes, Acknowledge, Goto, caller
<1> QED BY <1>2, <1>3, <1>4, <1>5, <1>6, <1>7, <1>8, <1>9, <1>10, <1>11 DEF CaseInv

\* An exception keeps what is known of the outcome.
LEMMA RaiseStep ==
    ASSUME CaseInv, NEW p \in Callers,
           NEW v \in {"failed", "interrupted"}, Raise(p, v)
    PROVE  CaseInv'
<1>1. CallerTypes
  BY TypesOfCallers
<1>2. /\ StoreVerifies' /\ RequestsFit' /\ LandedFits' /\ KnownFits'
      /\ DecisionFits'
  BY DEF CaseInv, StoreVerifies, RequestsFit, LandedFits, KnownFits, DecisionFits, Raise,
         caller
<1>3. ArgsFit'
  BY <1>1 DEF CallerTypes, CaseInv, ArgsFit, Requested, Preparing, Writing, Raise, caller
<1>4. LockHeld'
  BY <1>1 DEF CallerTypes, CaseInv, LockHeld, Raise, caller
<1>5. StagedFits'
  BY <1>1 DEF CallerTypes, CaseInv, StagedFits, Raise, caller
<1>6. OutcomeFits'
  <2>1. ASSUME NEW q \in Callers, q # p
        PROVE  /\ phase'[q] = phase[q] /\ outcome'[q] = outcome[q]
               /\ verdict'[q] = verdict[q] /\ (q \in landed' <=> q \in landed)
    BY <1>1, <2>1 DEF CallerTypes, Raise, caller
  <2>2. /\ phase'[p] = "settling" /\ verdict'[p] = v
        /\ outcome'[p] = outcome[p] /\ landed' = landed
        /\ phase[p] \in Preparing \cup Writing
    BY <1>1 DEF CallerTypes, Raise, caller, Preparing, Writing
  <2>3. /\ outcome[p] \in {"none", "unknown"}
        /\ outcome[p] = "none" => p \notin landed
    BY <2>2 DEF CaseInv, OutcomeFits, Preparing, Writing
  <2> QED BY <2>1, <2>2, <2>3 DEF CaseInv, OutcomeFits, Preparing, Writing
<1>7. EntryFits'
  BY <1>1 DEF CallerTypes, CaseInv, EntryFits, EnteredAtMostOnce, OutcomeFits, Preparing,
              Writing, Raise, caller
<1>8. BridgeFits'
  BY <1>1 DEF CallerTypes, CaseInv, BridgeFits, InBridge, Raise, caller
<1>9. ReportFits'
  BY <1>1 DEF CallerTypes, CaseInv, ReportFits, ReportsTruthful, Raise, caller
<1>10. ResultFits'
  BY <1>1 DEF CallerTypes, CaseInv, ResultFits, InBridge, Requested, Writing, Raise, caller
<1>11. TypeOK'
  BY <1>1 DEF CallerTypes, CaseInv, TypeOK, Phases, Verdicts, Raise, caller
<1> QED BY <1>2, <1>3, <1>4, <1>5, <1>6, <1>7, <1>8, <1>9, <1>10, <1>11 DEF CaseInv

\* COMMIT makes the staged request durable.
LEMMA LandStep ==
    ASSUME CaseInv, NEW p \in Callers, Land(p)
    PROVE  CaseInv'
<1>1. CallerTypes
  BY TypesOfCallers
<1> DEFINE r == request[p]
<1>2. PICK e : e = db'
  OBVIOUS
<1>3. /\ phase[p] = "committing" /\ phase' = [phase EXCEPT ![p] = "landed"]
      /\ landed' = landed \cup {p} /\ e = staged[p] /\ writer' = NoCaller
      /\ outcome' = outcome /\ verdict' = verdict /\ request' = request /\ entered' = entered
  BY <1>2 DEF Land, Goto, caller
<1>4. /\ r # NoRequest /\ WellAsked(r) /\ Writable(db, r) /\ e = Extended(db, r)
      /\ writer = p /\ outcome[p] = "unknown" /\ verdict[p] = "commit" /\ report[p] = "nothing"
  BY <1>3 DEF CaseInv, ArgsFit, RequestsFit, Requested, Writing, StagedFits, LockHeld,
              OutcomeFits, ReportFits
<1> HIDE DEF r
<1>5. db \in Tables /\ Sound(db)
  BY StoreIsSound
<1>6. e \in Tables /\ Sound(e) /\ Adds(db, r, e)
  BY <1>4, <1>5, ExtendedFacts, ExtendedSound, ExtendedAdds
<1>7. Committed(e) = Committed(db) \cup {r} /\ e.operations # <<>>
  BY <1>5, <1>6, CommittedGrows
<1>8. \A q \in Callers : q # p => phase[q] \notin {"reading", "staged", "committing"}
  BY <1>4 DEF CaseInv, LockHeld
<1>9. r.type = "claim" => db.operations = <<>> /\ landed = {} /\ entered = <<>>
  <2>1. ASSUME db.operations = <<>> PROVE Committed(db) = {}
    BY <2>1, EmptySeq DEF Committed
  <2>2. landed \subseteq Callers
    BY DEF CaseInv, TypeOK
  <2>3. db.operations = <<>> => landed = {} /\ entered = <<>>
    BY <2>1, <2>2 DEF CaseInv, LandedFits, EntryFits, EnteredAtMostOnce
  <2> QED BY <1>4, <2>3 DEF Writable
<1>10. db.operations # <<>> => e.operations[1] = db.operations[1]
  <2>1. ASSUME db.operations # <<>> PROVE 1 \in 1..Len(db.operations)
    BY <1>5, <2>1, EmptySeq, SoundFacts
  <2> QED BY <1>6, <2>1 DEF Adds
<1>11. Len(db.receipts) # 3
  <2>1. Len(db.operations) < 3
    BY <1>4 DEF Writable
  <2>2. Len(db.operations) \in 0..3
    BY <1>5, SoundFacts
  <2>3. Len(db.operations) \in 0..2
    <3>1. \A n \in 0..3 : n < 3 => n \in 0..2
      OBVIOUS
    <3> QED BY <2>1, <2>2, <3>1
  <2>4. Len(db.receipts) = RecordsBefore(Len(db.operations) + 1)
    BY <1>5, SoundFacts
  <2>5. Len(db.receipts) = IF Len(db.operations) = 0 THEN 1 ELSE Len(db.operations)
    BY <2>3, <2>4 DEF RecordsBefore
  <2> QED BY <2>3, <2>5
<1>12. \A q \in Callers : q # p => phase'[q] = phase[q]
  BY <1>1, <1>3 DEF CallerTypes
<1>13. phase'[p] = "landed"
  BY <1>1, <1>3 DEF CallerTypes
<1>14. RequestsFit'
  BY DEF CaseInv, RequestsFit, Land, Goto, caller
<1>15. StoreVerifies'
  BY <1>2, <1>6 DEF StoreVerifies, Sound
<1>16. ArgsFit'
  <2>1. \A q \in Callers : Requested(q)' => Requested(q)
    BY <1>3, <1>12, <1>13 DEF Requested, Writing
  <2>2. args' = args
    BY DEF Land, caller
  <2> QED BY <1>2, <1>3, <1>7, <1>10, <1>12, <1>13, <2>1, <2>2
          DEF CaseInv, ArgsFit, Preparing, Writing
<1>17. LockHeld'
  BY <1>8, <1>12, <1>13 DEF LockHeld
<1>18. StagedFits'
  BY <1>8, <1>12, <1>13 DEF StagedFits
<1>19. OutcomeFits'
  <2>1. \A q \in Callers : q # p => (q \in landed' <=> q \in landed)
    BY <1>3
  <2>2. p \in landed'
    BY <1>3
  <2> QED BY <1>3, <1>4, <1>12, <1>13, <2>1, <2>2 DEF CaseInv, OutcomeFits, Preparing, Writing
<1>20. LandedFits'
  <2>1. \A q \in landed' : q \in landed \/ q = p
    BY <1>3
  <2>2. \A q \in landed' : request[q] # NoRequest /\ request[q] \in Committed(e)
    BY <1>4, <1>7, <2>1 DEF CaseInv, LandedFits, r
  <2>3. \A q1, q2 \in landed' :
            request[q1].type = "claim" /\ request[q2].type = "claim" => q1 = q2
    BY <1>9, <2>1 DEF CaseInv, LandedFits, r
  <2> QED BY <1>2, <1>3, <2>2, <2>3 DEF LandedFits, Committed
<1>21. EntryFits'
  <2>1. EnteredAtMostOnce'
    BY <1>2, <1>3, <1>7, <1>10 DEF CaseInv, EntryFits, EnteredAtMostOnce
  <2>2. ASSUME NEW q \in Callers
        PROVE  /\ phase'[q] = "entering" => q \in landed' /\ request'[q].type = "claim"
               /\ phase'[q] = "callback" => request'[q] # NoRequest
               /\ q \in landed' /\ request'[q].type = "claim"
                  /\ phase'[q] \in {"landed", "settling", "entering"} => entered' = <<>>
    <3>1. CASE q = p
      BY <1>3, <1>9, <1>13, <3>1 DEF r
    <3>2. CASE q # p
      BY <1>3, <1>12, <3>2 DEF CaseInv, EntryFits
    <3> QED BY <3>1, <3>2
  <2> QED BY <2>1, <2>2 DEF EntryFits
<1>22. BridgeFits'
  <2>1. bridge' = bridge /\ finish' = finish
    BY DEF Land, caller
  <2> QED BY <1>3, <1>12, <1>13, <2>1 DEF CaseInv, BridgeFits, InBridge
<1>23. ReportFits'
  <2>1. report' = report /\ \A q \in Callers : q # p => (q \in landed' <=> q \in landed)
    BY <1>3 DEF Land, caller
  <2>2. \A q \in Callers : report[q] \in {"commit", "complete"} => request[q] \in Committed(e)
    BY <1>7 DEF CaseInv, ReportFits, ReportsTruthful
  <2>3. ReportsTruthful'
    BY <1>2, <1>3, <1>4, <2>1, <2>2 DEF CaseInv, ReportFits, ReportsTruthful, Committed
  <2> QED BY <1>3, <1>4, <1>12, <1>13, <2>1, <2>3 DEF CaseInv, ReportFits
<1>24. ResultFits'
  <2>1. \A q \in Callers : Requested(q)' => Requested(q)
    BY <1>3, <1>12, <1>13 DEF Requested, Writing
  <2>2. /\ bridge' = bridge /\ returned' = returned /\ args' = args /\ report' = report
        /\ carried' = carried
    BY DEF Land, caller
  <2>3. \A q \in Callers : InBridge(q)' <=> InBridge(q)
    BY <2>2 DEF InBridge
  <2> QED BY <1>3, <1>12, <1>13, <2>1, <2>2, <2>3 DEF CaseInv, ResultFits
<1>25. KnownFits'
  <2>1. ASSUME NEW q \in Callers PROVE PrefixOf(known[q].receipts, e.receipts)
    <3>1. known[q].receipts \in Seq(CaseRecord) /\ PrefixOf(known[q].receipts, db.receipts)
      BY <1>1 DEF CallerTypes, Checkpoint, CaseInv, KnownFits
    <3> QED BY <1>5, <1>6, <3>1, PrefixGrows
  <2>2. known' = known
    BY DEF Land, caller
  <2> QED BY <1>2, <2>1, <2>2 DEF KnownFits, PrefixOf
<1>26. DecisionFits'
  BY <1>11 DEF CaseInv, DecisionFits, Land, caller
<1>27. TypeOK'
  <2>1. landed' \subseteq Callers /\ NoCaller \in Callers \cup {NoCaller}
    BY <1>3 DEF CaseInv, TypeOK
  <2> QED BY <1>1, <1>2, <1>3, <1>6, <2>1 DEF CallerTypes, CaseInv, TypeOK, Land, caller, Phases
<1> QED BY <1>14, <1>15, <1>16, <1>17, <1>18, <1>19, <1>20, <1>21, <1>22, <1>23, <1>24,
           <1>25, <1>26, <1>27
       DEF CaseInv

\* The claim of a bridge is durable before the callback is entered.
LEMMA ClaimedStep ==
    ASSUME CaseInv, NEW p \in Callers, Claimed(p)
    PROVE  CaseInv'
<1>1. CallerTypes
  BY TypesOfCallers
<1>2. /\ phase[p] = "settling" /\ phase' = [phase EXCEPT ![p] = "entering"]
      /\ known' = [known EXCEPT ![p] = ResultOf(request[p])]
      /\ writer' = IF writer = p THEN NoCaller ELSE writer
      /\ staged' = [staged EXCEPT ![p] = EmptyStore] /\ outcome' = [outcome EXCEPT ![p] = "none"]
      /\ verdict' = [verdict EXCEPT ![p] = "pending"] /\ args' = [args EXCEPT ![p] = NoRequest]
      /\ UNCHANGED <<db, hot, entered, landed, request, returned, decision>>
      /\ UNCHANGED <<bridge, finish, report, carried>>
  BY DEF Claimed, Settle
<1>3. /\ InBridge(p) /\ args[p].type = "claim" /\ verdict[p] = "commit"
  BY DEF Claimed
<1>4. /\ p \in landed /\ request[p] # NoRequest /\ request[p].type = "claim"
      /\ request[p] \in Committed(db) /\ returned[p] = NoResult /\ entered = <<>>
  BY <1>2, <1>3 DEF CaseInv, OutcomeFits, LandedFits, ArgsFit, Requested, ResultFits, EntryFits
<1>5. /\ ResultOf(request[p]) \in Checkpoint
      /\ PrefixOf(ResultOf(request[p]).receipts, db.receipts)
  BY <1>4, StoreIsSound, CommittedFacts
<1>6. \A q \in Callers : q # p =>
          /\ phase'[q] = phase[q] /\ staged'[q] = staged[q] /\ outcome'[q] = outcome[q]
          /\ verdict'[q] = verdict[q] /\ args'[q] = args[q]
  BY <1>1, <1>2 DEF CallerTypes
<1>7. /\ phase'[p] = "entering" /\ outcome'[p] = "none" /\ verdict'[p] = "pending"
      /\ args'[p] = NoRequest
  BY <1>1, <1>2 DEF CallerTypes
<1>8. \A q \in Callers : Requested(q)' => q # p /\ Requested(q)
  BY <1>6, <1>7 DEF Requested, Writing
<1>9. StoreVerifies' /\ RequestsFit' /\ LandedFits' /\ DecisionFits'
  BY DEF CaseInv, StoreVerifies, RequestsFit, LandedFits, DecisionFits, Claimed, Settle
<1>10. ArgsFit'
  BY <1>2, <1>6, <1>7, <1>8 DEF CaseInv, ArgsFit, Preparing, Writing
<1>11. LockHeld'
  BY <1>2, <1>6, <1>7 DEF CaseInv, LockHeld
<1>12. StagedFits'
  BY <1>2, <1>6, <1>7 DEF CaseInv, StagedFits
<1>13. OutcomeFits'
  BY <1>2, <1>6, <1>7 DEF CaseInv, OutcomeFits, Preparing, Writing
<1>14. EntryFits'
  BY <1>2, <1>4, <1>6, <1>7 DEF CaseInv, EntryFits, EnteredAtMostOnce
<1>15. BridgeFits'
  BY <1>2, <1>3, <1>6, <1>7 DEF CaseInv, BridgeFits, InBridge
<1>16. ReportFits'
  BY <1>2, <1>6, <1>7 DEF CaseInv, ReportFits, ReportsTruthful
<1>17. ResultFits'
  BY <1>2, <1>4, <1>6, <1>7, <1>8 DEF CaseInv, ResultFits, InBridge
<1>18. KnownFits'
  BY <1>1, <1>2, <1>5 DEF CallerTypes, CaseInv, KnownFits
<1>19. TypeOK'
  BY <1>1, <1>2, <1>5, EmptyStoreSound DEF CallerTypes, CaseInv, TypeOK, Phases, Outcomes, Verdicts
<1> QED BY <1>9, <1>10, <1>11, <1>12, <1>13, <1>14, <1>15, <1>16, <1>17, <1>18, <1>19
       DEF CaseInv

\* A call ends: what it reports and hands over is what its attempt came to.
LEMMA EndStep ==
    ASSUME CaseInv, NEW p \in Callers, NEW e, NEW bytes, Ends(p, e, bytes)
    PROVE  CaseInv'
<1>1. CallerTypes
  BY TypesOfCallers
<1>2. /\ phase[p] = "settling" /\ phase' = [phase EXCEPT ![p] = "idle"]
      /\ report' = [report EXCEPT ![p] = e] /\ carried' = [carried EXCEPT ![p] = bytes]
      /\ finish' = [finish EXCEPT ![p] = NoId]
      /\ bridge' = [bridge EXCEPT ![ObjectOf[p]] = IF @ = p THEN NoCaller ELSE @]
      /\ writer' = IF writer = p THEN NoCaller ELSE writer
      /\ staged' = [staged EXCEPT ![p] = EmptyStore] /\ outcome' = [outcome EXCEPT ![p] = "none"]
      /\ verdict' = [verdict EXCEPT ![p] = "pending"] /\ args' = [args EXCEPT ![p] = NoRequest]
      /\ UNCHANGED <<db, hot, entered, landed, request, returned, decision>>
  BY DEF Ends, End, Settle
<1>3. /\ e \in {"commit", "refused", "interrupted"} \cup Outcomes
      /\ e = "commit" => verdict[p] = "commit"
      /\ e = "refused" => verdict[p] = "refused"
      /\ e \in Outcomes => e = outcome[p] /\ bytes = Attached(p)
      /\ bytes \in Contents \cup {NoContent}
  BY DEF Ends
<1>4. /\ verdict[p] = "commit" => outcome[p] = "complete"
      /\ outcome[p] = "complete" => p \in landed
      /\ p \in landed => request[p] \in Committed(db)
      /\ verdict[p] = "refused" \/ outcome[p] = "none" => p \notin landed
  BY <1>2 DEF CaseInv, OutcomeFits, LandedFits
<1>5. \/ known' = known
      \/ /\ known' = [known EXCEPT ![p] = ResultOf(request[p])]
         /\ ResultOf(request[p]) \in Checkpoint
         /\ PrefixOf(ResultOf(request[p]).receipts, db.receipts)
  BY <1>4, StoreIsSound, CommittedFacts DEF Ends
<1>6. \A q \in Callers : q # p =>
          /\ phase'[q] = phase[q] /\ staged'[q] = staged[q] /\ outcome'[q] = outcome[q]
          /\ verdict'[q] = verdict[q] /\ args'[q] = args[q]
          /\ report'[q] = report[q] /\ carried'[q] = carried[q] /\ finish'[q] = finish[q]
  BY <1>1, <1>2 DEF CallerTypes
<1>7. /\ phase'[p] = "idle" /\ outcome'[p] = "none" /\ verdict'[p] = "pending"
      /\ args'[p] = NoRequest /\ report'[p] = e /\ carried'[p] = bytes
  BY <1>1, <1>2 DEF CallerTypes
<1>8. \A q \in Callers : Requested(q)' => q # p /\ Requested(q)
  BY <1>6, <1>7 DEF Requested, Writing
<1>9. \A q \in Callers : InBridge(q)' <=> q # p /\ InBridge(q)
  BY <1>1, <1>2, CaseStoreAssumption DEF CallerTypes, InBridge
<1>10. StoreVerifies' /\ RequestsFit' /\ LandedFits' /\ DecisionFits'
  BY DEF CaseInv, StoreVerifies, RequestsFit, LandedFits, DecisionFits, Ends, End, Settle
<1>11. ArgsFit'
  BY <1>2, <1>6, <1>7, <1>8 DEF CaseInv, ArgsFit, Preparing, Writing
<1>12. LockHeld'
  BY <1>2, <1>6, <1>7 DEF CaseInv, LockHeld
<1>13. StagedFits'
  BY <1>2, <1>6, <1>7 DEF CaseInv, StagedFits
<1>14. OutcomeFits'
  BY <1>2, <1>6, <1>7 DEF CaseInv, OutcomeFits, Preparing, Writing
<1>15. EntryFits'
  BY <1>2, <1>6, <1>7 DEF CaseInv, EntryFits, EnteredAtMostOnce
<1>16. BridgeFits'
  BY <1>2, <1>6, <1>7, <1>9 DEF CaseInv, BridgeFits
<1>17. ReportFits'
  <2>1. e # "absent" /\ (e = "none" => outcome[p] = "none")
        /\ (e = "complete" => outcome[p] = "complete")
    BY <1>3 DEF Outcomes
  <2>2. /\ e \in {"refused", "absent", "none"} => p \notin landed
        /\ e \in {"commit", "complete"} => request[p] \in Committed(db)
    BY <1>3, <1>4, <2>1
  <2> QED BY <1>2, <1>6, <1>7, <2>2 DEF CaseInv, ReportFits, ReportsTruthful
<1>18. ResultFits'
  <2>1. ASSUME returned[p] # NoResult
        PROVE  /\ e = "commit" => /\ request[p].type = "finish"
                                  /\ request[p].record.result = returned[p]
               /\ e \in Outcomes => bytes = returned[p].output
    <3>1. InBridge(p) /\ args[p].type = "finish" /\ args[p].result = returned[p]
      BY <1>2, <2>1 DEF CaseInv, ResultFits
    <3>2. returned[p] \in Results
      BY <1>1, <2>1 DEF CallerTypes
    <3>3. Attached(p) = returned[p].output
      BY <3>1, <3>2 DEF Attached, Results
    <3>4. e = "commit" => Requested(p)
      BY <1>2, <1>3 DEF Requested
    <3>5. e = "commit" => request[p].type = "finish" /\ request[p].record.result = returned[p]
      BY <2>1, <3>1, <3>4 DEF CaseInv, ArgsFit, ResultFits
    <3> QED BY <1>3, <3>3, <3>5
  <2> QED BY <1>2, <1>6, <1>7, <1>8, <1>9, <2>1 DEF CaseInv, ResultFits
<1>19. KnownFits'
  BY <1>1, <1>2, <1>5 DEF CallerTypes, CaseInv, KnownFits
<1>20. TypeOK'
  <2>1. e \in Reports
    BY <1>3 DEF Reports
  <2>2. known' \in [Callers -> Checkpoint]
    BY <1>1, <1>5 DEF CallerTypes
  <2> QED BY <1>1, <1>2, <1>3, <2>1, <2>2, EmptyStoreSound
          DEF CallerTypes, CaseInv, TypeOK, Phases, Outcomes, Verdicts
<1> QED BY <1>10, <1>11, <1>12, <1>13, <1>14, <1>15, <1>16, <1>17, <1>18, <1>19, <1>20
       DEF CaseInv

\* The adapter is entered for the only claim, which is in the file.
LEMMA EnterStep ==
    ASSUME CaseInv, NEW p \in Callers, Enter(p)
    PROVE  CaseInv'
<1>1. CallerTypes
  BY TypesOfCallers
<1>2. /\ phase[p] = "entering" /\ phase' = [phase EXCEPT ![p] = "callback"]
      /\ entered' = Append(entered, request[p].request)
      /\ UNCHANGED <<db, landed, request>>
  BY DEF Enter, Goto, transaction, caller
<1>3. /\ p \in landed /\ request[p].type = "claim" /\ request[p] \in Committed(db)
      /\ request[p] # NoRequest /\ entered = <<>>
  BY <1>2 DEF CaseInv, EntryFits, LandedFits
<1>4. db.operations # <<>> /\ db.operations[1] = request[p] /\ request[p].request \in Ids
  BY <1>3, StoreIsSound, CommittedFacts DEF Request
<1>5. \A q \in landed : request[q].type = "claim" => q = p
  BY <1>3 DEF CaseInv, LandedFits
<1>6. /\ StoreVerifies' /\ RequestsFit' /\ LandedFits' /\ KnownFits'
      /\ DecisionFits'
  BY DEF CaseInv, StoreVerifies, RequestsFit, LandedFits, KnownFits, DecisionFits, Enter,
         Goto, transaction, caller
<1>7. ArgsFit'
  BY <1>1 DEF CallerTypes, CaseInv, ArgsFit, Requested, Preparing, Writing, Enter, Goto,
              transaction, caller
<1>8. LockHeld'
  BY <1>1 DEF CallerTypes, CaseInv, LockHeld, Enter, Goto, transaction, caller
<1>9. StagedFits'
  BY <1>1 DEF CallerTypes, CaseInv, StagedFits, Enter, Goto, transaction, caller
<1>10. OutcomeFits'
  BY <1>1 DEF CallerTypes, CaseInv, OutcomeFits, Preparing, Writing, Enter, Goto,
              transaction, caller
<1>11. EntryFits'
  <2>1. EnteredAtMostOnce'
    BY <1>2, <1>3, <1>4 DEF EnteredAtMostOnce
  <2>2. phase'[p] = "callback" /\ \A q \in Callers : q # p => phase'[q] = phase[q]
    BY <1>1, <1>2 DEF CallerTypes
  <2> QED BY <1>2, <1>3, <1>5, <2>1, <2>2 DEF CaseInv, EntryFits
<1>12. BridgeFits'
  BY <1>1 DEF CallerTypes, CaseInv, BridgeFits, InBridge, Enter, Goto, transaction, caller
<1>13. ReportFits'
  BY <1>1 DEF CallerTypes, CaseInv, ReportFits, ReportsTruthful, Enter, Goto, transaction,
              caller
<1>14. ResultFits'
  BY <1>1 DEF CallerTypes, CaseInv, ResultFits, InBridge, Requested, Writing, Enter, Goto,
              transaction, caller
<1>15. TypeOK'
  <2>1. entered' \in Seq(Ids)
    BY <1>2, <1>3, <1>4
  <2> QED BY <1>1, <2>1 DEF CallerTypes, CaseInv, TypeOK, Enter, Goto, transaction, caller, Phases
<1> QED BY <1>6, <1>7, <1>8, <1>9, <1>10, <1>11, <1>12, <1>13, <1>14, <1>15 DEF CaseInv

\* What the callback returned goes into the finish of the same bridge.
LEMMA CallbackStep ==
    ASSUME CaseInv, NEW p \in Callers,
           NEW result \in Answers, CallbackReturns(p, result)
    PROVE  CaseInv'
<1>1. CallerTypes
  BY TypesOfCallers
<1> DEFINE a == [type |-> "finish", id |-> finish[p], request |-> request[p].request,
                 expected |-> known[p], result |-> result, evaluator |-> NoActor]
<1>2. /\ phase[p] = "callback" /\ phase' = [phase EXCEPT ![p] = "preparing"]
      /\ args' = [args EXCEPT ![p] = a] /\ returned' = [returned EXCEPT ![p] = result]
      /\ landed' = landed \ {p}
      /\ UNCHANGED <<db, hot, entered, writer, staged, outcome, verdict, bridge, known,
                     finish, request, report, carried, decision>>
  BY DEF CallbackReturns, Goto
<1>3. /\ InBridge(p) /\ finish[p] \in Ids /\ request[p] # NoRequest
      /\ request[p].request \in Ids /\ result \in Results
  BY <1>1, <1>2, CaseStoreAssumption
     DEF CallerTypes, CaseInv, BridgeFits, EntryFits, Request
<1>4. a \in Argument /\ a # NoRequest /\ WellCalled(a) /\ a.type = "finish" /\ a.result = result
  BY <1>1, <1>3 DEF CallerTypes, Argument, OperationTypes, NoRequest, WellCalled
<1> HIDE DEF a
<1>5. /\ phase'[p] = "preparing" /\ args'[p] = a /\ returned'[p] = result
      /\ \A q \in Callers : q # p => /\ phase'[q] = phase[q] /\ args'[q] = args[q]
                                     /\ returned'[q] = returned[q]
                                     /\ (q \in landed' <=> q \in landed)
  BY <1>1, <1>2 DEF CallerTypes
<1>6. \A q \in Callers : /\ Requested(q)' => q # p /\ Requested(q)
                         /\ InBridge(q)' <=> InBridge(q)
  BY <1>2, <1>5 DEF Requested, Writing, InBridge
<1>7. StoreVerifies' /\ RequestsFit' /\ KnownFits' /\ DecisionFits'
  BY DEF CaseInv, StoreVerifies, RequestsFit, KnownFits, DecisionFits, CallbackReturns, Goto
<1>8. ArgsFit'
  BY <1>2, <1>4, <1>5, <1>6 DEF CaseInv, ArgsFit, Preparing, Writing
<1>9. LockHeld'
  BY <1>1 DEF CallerTypes, CaseInv, LockHeld, CallbackReturns, Goto
<1>10. StagedFits'
  BY <1>1 DEF CallerTypes, CaseInv, StagedFits, CallbackReturns, Goto
<1>11. OutcomeFits'
  BY <1>2, <1>5 DEF CaseInv, OutcomeFits, Preparing, Writing
<1>12. LandedFits'
  BY <1>2 DEF CaseInv, LandedFits, Committed
<1>13. EntryFits'
  BY <1>2, <1>5 DEF CaseInv, EntryFits, EnteredAtMostOnce
<1>14. BridgeFits'
  BY <1>2, <1>3, <1>5, <1>6 DEF CaseInv, BridgeFits
<1>15. ReportFits'
  BY <1>2, <1>5 DEF CaseInv, ReportFits, ReportsTruthful, Committed
<1>16. ResultFits'
  BY <1>2, <1>3, <1>4, <1>5, <1>6 DEF CaseInv, ResultFits
<1>17. TypeOK'
  <2>1. landed' \subseteq Callers
    BY <1>2 DEF CaseInv, TypeOK
  <2> QED BY <1>1, <1>2, <1>3, <1>4, <2>1 DEF CallerTypes, CaseInv, TypeOK, Phases
<1> QED BY <1>7, <1>8, <1>9, <1>10, <1>11, <1>12, <1>13, <1>14, <1>15, <1>16, <1>17
       DEF CaseInv

\* An interrupted bridge leaves its claim behind.
LEMMA InterruptStep ==
    ASSUME CaseInv, NEW p \in Callers, Interrupt(p)
    PROVE  CaseInv'
<1>1. CallerTypes
  BY TypesOfCallers
<1>2. /\ phase[p] \in {"entering", "callback"} /\ phase' = [phase EXCEPT ![p] = "idle"]
      /\ bridge' = [bridge EXCEPT ![ObjectOf[p]] = NoCaller]
      /\ finish' = [finish EXCEPT ![p] = NoId] /\ report' = [report EXCEPT ![p] = "interrupted"]
      /\ UNCHANGED <<db, hot, entered, transaction, known, args, request, carried, returned,
                     decision>>
  BY DEF Interrupt
<1>3. InBridge(p) /\ returned[p] = NoResult
  BY <1>2 DEF CaseInv, BridgeFits, ResultFits
<1>4. \A q \in Callers : /\ InBridge(q)' <=> q # p /\ InBridge(q)
                         /\ q # p => /\ phase'[q] = phase[q] /\ finish'[q] = finish[q]
                                     /\ report'[q] = report[q]
  BY <1>1, <1>2, <1>3, CaseStoreAssumption DEF CallerTypes, InBridge
<1>5. phase'[p] = "idle" /\ report'[p] = "interrupted"
  BY <1>1, <1>2 DEF CallerTypes
<1>6. \A q \in Callers : Requested(q)' => q # p /\ Requested(q)
  BY <1>2, <1>4, <1>5 DEF Requested, Writing, transaction
<1>7. /\ StoreVerifies' /\ RequestsFit' /\ LandedFits' /\ KnownFits'
      /\ DecisionFits'
  BY DEF CaseInv, StoreVerifies, RequestsFit, LandedFits, KnownFits, DecisionFits,
         Interrupt, transaction
<1>8. ArgsFit'
  BY <1>1 DEF CallerTypes, CaseInv, ArgsFit, Requested, Preparing, Writing, Interrupt,
              transaction
<1>9. LockHeld'
  BY <1>1 DEF CallerTypes, CaseInv, LockHeld, Interrupt, transaction
<1>10. StagedFits'
  BY <1>1 DEF CallerTypes, CaseInv, StagedFits, Interrupt, transaction
<1>11. OutcomeFits'
  BY <1>1 DEF CallerTypes, CaseInv, OutcomeFits, Preparing, Writing, Interrupt, transaction
<1>12. EntryFits'
  BY <1>1 DEF CallerTypes, CaseInv, EntryFits, EnteredAtMostOnce, Interrupt, transaction
<1>13. BridgeFits'
  BY <1>4, <1>5 DEF CaseInv, BridgeFits
<1>14. ReportFits'
  BY <1>2, <1>4, <1>5 DEF CaseInv, ReportFits, ReportsTruthful, Committed, transaction
<1>15. ResultFits'
  BY <1>2, <1>3, <1>4, <1>5, <1>6 DEF CaseInv, ResultFits
<1>16. TypeOK'
  BY <1>1 DEF CallerTypes, CaseInv, TypeOK, Phases, Reports, Interrupt, transaction
<1> QED BY <1>7, <1>8, <1>9, <1>10, <1>11, <1>12, <1>13, <1>14, <1>15, <1>16 DEF CaseInv

\* A new process opens the store.
LEMMA ReopenStep ==
    ASSUME CaseInv, NEW p \in Callers, Reopen(p)
    PROVE  CaseInv'
<1>1. CallerTypes
  BY TypesOfCallers
<1>2. /\ StoreVerifies' /\ RequestsFit' /\ LandedFits' /\ KnownFits'
      /\ DecisionFits'
  BY DEF CaseInv, StoreVerifies, RequestsFit, LandedFits, KnownFits, DecisionFits, Reopen,
         Goto, transaction, caller
<1>3. ArgsFit'
  BY <1>1 DEF CallerTypes, CaseInv, ArgsFit, Requested, Preparing, Writing, Reopen, Goto,
              transaction, caller
<1>4. LockHeld'
  BY <1>1 DEF CallerTypes, CaseInv, LockHeld, Reopen, Goto, transaction, caller
<1>5. StagedFits'
  BY <1>1 DEF CallerTypes, CaseInv, StagedFits, Reopen, Goto, transaction, caller
<1>6. OutcomeFits'
  BY <1>1 DEF CallerTypes, CaseInv, OutcomeFits, Preparing, Writing, Reopen, Goto,
              transaction, caller
<1>7. EntryFits'
  BY <1>1 DEF CallerTypes, CaseInv, EntryFits, EnteredAtMostOnce, Reopen, Goto, transaction,
              caller
<1>8. BridgeFits'
  BY <1>1 DEF CallerTypes, CaseInv, BridgeFits, InBridge, Reopen, Goto, transaction, caller
<1>9. ReportFits'
  BY <1>1 DEF CallerTypes, CaseInv, ReportFits, ReportsTruthful, Reopen, Goto, transaction,
              caller
<1>10. ResultFits'
  BY <1>1 DEF CallerTypes, CaseInv, ResultFits, InBridge, Requested, Writing, Reopen, Goto,
              transaction, caller
<1>11. TypeOK'
  BY <1>1 DEF CallerTypes, CaseInv, TypeOK, Phases, Reopen, Goto, transaction, caller
<1> QED BY <1>2, <1>3, <1>4, <1>5, <1>6, <1>7, <1>8, <1>9, <1>10, <1>11 DEF CaseInv

\* What a dying process takes with it is not in the file.
LEMMA CrashStep ==
    ASSUME CaseInv, NEW o \in Objects, Crash(o)
    PROVE  CaseInv'
<1>1. CallerTypes
  BY TypesOfCallers
<1>2. /\ UNCHANGED <<db, entered, landed, known, request, carried, returned, decision>>
      /\ bridge' = [bridge EXCEPT ![o] = NoCaller] /\ hot' \in {hot, "hot"}
      /\ writer' \in {writer, NoCaller}
      /\ \A q \in Callers : ObjectOf[q] # o /\ writer = q => writer' = q
  BY CaseStoreAssumption DEF Crash
<1>3. \A q \in Callers : ObjectOf[q] = o =>
          /\ phase'[q] = "dead" /\ staged'[q] = EmptyStore /\ outcome'[q] = "none"
          /\ verdict'[q] = "pending" /\ args'[q] = NoRequest /\ finish'[q] = NoId
          /\ phase[q] \in {"idle", "dead"} => report'[q] = report[q]
          /\ phase[q] \notin {"idle", "dead"} => report'[q] = "lost"
  BY DEF Crash
<1>4. \A q \in Callers : ObjectOf[q] # o =>
          /\ phase'[q] = phase[q] /\ staged'[q] = staged[q] /\ outcome'[q] = outcome[q]
          /\ verdict'[q] = verdict[q] /\ args'[q] = args[q] /\ finish'[q] = finish[q]
          /\ report'[q] = report[q]
  BY DEF Crash
<1>5. \A q \in Callers : InBridge(q)' <=> ObjectOf[q] # o /\ InBridge(q)
  BY <1>1, <1>2, CaseStoreAssumption DEF CallerTypes, InBridge
<1>6. \A q \in Callers : Requested(q)' => ObjectOf[q] # o /\ Requested(q)
  BY <1>3, <1>4 DEF Requested, Writing
<1>7. /\ StoreVerifies' /\ RequestsFit' /\ LandedFits' /\ KnownFits'
      /\ DecisionFits'
  BY DEF CaseInv, StoreVerifies, RequestsFit, LandedFits, KnownFits, DecisionFits, Crash
<1>8. ArgsFit'
  BY <1>2, <1>3, <1>4, <1>6 DEF CaseInv, ArgsFit, Preparing, Writing
<1>9. LockHeld'
  BY <1>2, <1>3, <1>4 DEF CaseInv, LockHeld
<1>10. StagedFits'
  BY <1>2, <1>3, <1>4 DEF CaseInv, StagedFits
<1>11. OutcomeFits'
  BY <1>2, <1>3, <1>4 DEF CaseInv, OutcomeFits, Preparing, Writing
<1>12. EntryFits'
  BY <1>2, <1>3, <1>4 DEF CaseInv, EntryFits, EnteredAtMostOnce
<1>13. BridgeFits'
  BY <1>3, <1>4, <1>5 DEF CaseInv, BridgeFits
<1>14. ReportFits'
  BY <1>2, <1>3, <1>4 DEF CaseInv, ReportFits, ReportsTruthful, Committed
<1>15. ResultFits'
  <2>1. \A q \in Callers : ObjectOf[q] = o /\ returned[q] # NoResult =>
            /\ report'[q] = "commit" =>
                   request[q].type = "finish" /\ request[q].record.result = returned[q]
            /\ report'[q] \in Outcomes => carried[q] = returned[q].output
    BY <1>3 DEF CaseInv, ResultFits, Outcomes
  <2> QED BY <1>2, <1>3, <1>4, <1>5, <1>6, <2>1 DEF CaseInv, ResultFits
<1>16. TypeOK'
  <2>1. /\ \A q \in Callers : report'[q] \in Reports /\ staged'[q] \in Tables
        /\ \A q \in Callers : /\ phase'[q] \in Phases /\ outcome'[q] \in Outcomes
                              /\ verdict'[q] \in Verdicts /\ finish'[q] \in Ids \cup {NoId}
                              /\ args'[q] \in Argument \cup {NoRequest}
    BY <1>1, <1>3, <1>4, EmptyStoreSound
       DEF CallerTypes, Phases, Outcomes, Verdicts, Reports
  <2>2. /\ phase' \in [Callers -> Phases] /\ staged' \in [Callers -> Tables]
        /\ outcome' \in [Callers -> Outcomes] /\ verdict' \in [Callers -> Verdicts]
        /\ report' \in [Callers -> Reports] /\ args' \in [Callers -> Argument \cup {NoRequest}]
        /\ finish' \in [Callers -> Ids \cup {NoId}]
    BY <2>1 DEF Crash
  <2> QED BY <1>1, <1>2, <2>2 DEF CallerTypes, CaseInv, TypeOK
<1> QED BY <1>7, <1>8, <1>9, <1>10, <1>11, <1>12, <1>13, <1>14, <1>15, <1>16 DEF CaseInv

\* A stuttering step changes nothing.
LEMMA StutterStep ==
    ASSUME CaseInv, UNCHANGED vars
    PROVE  CaseInv'
<1>1. CallerTypes
  BY TypesOfCallers
<1>2. /\ StoreVerifies' /\ RequestsFit' /\ ArgsFit' /\ LockHeld' /\ StagedFits'
      /\ OutcomeFits' /\ LandedFits' /\ EntryFits' /\ BridgeFits'
      /\ ReportFits' /\ ResultFits' /\ KnownFits' /\ DecisionFits'
  BY DEF CaseInv, StoreVerifies, RequestsFit, ArgsFit, LockHeld, StagedFits, OutcomeFits,
         LandedFits, EntryFits, BridgeFits, ReportFits, ResultFits, KnownFits, DecisionFits,
         Requested, Preparing, Writing, EnteredAtMostOnce, InBridge, ReportsTruthful, vars,
         transaction, caller
<1>3. TypeOK'
  BY <1>1 DEF CallerTypes, CaseInv, TypeOK, vars, transaction, caller
<1> QED BY <1>2, <1>3 DEF CaseInv

\* Every step keeps the invariant.
LEMMA CaseStep ==
    ASSUME CaseInv, [Next]_vars PROVE CaseInv'
<1>1. ASSUME NEW p \in Callers, Snapshot(p) \/ Lookup(p) PROVE CaseInv'
  BY <1>1, SnapshotStep, LookupStep
<1>2. ASSUME NEW p \in Callers, NEW decider \in Actors, NEW disposition \in Dispositions,
             Decide(p, decider, disposition)
      PROVE  CaseInv'
  BY <1>2, DecideStep
<1>3. ASSUME NEW p \in Callers,
             \/ \E id \in Ids : Claim(p, id)
             \/ \E id, req \in Ids, result \in Answers : Finish(p, id, req, result)
             \/ \E id \in Ids, evaluator \in Evaluators : Judge(p, id, evaluator)
             \/ \E id, finish_id \in Ids : Execute(p, id, finish_id)
      PROVE  CaseInv'
  BY <1>3, StartFacts, StartStep
<1>4. ASSUME NEW p \in Callers, PrepareClaim(p) \/ ReadKey(p) \/ PrepareVerdict(p)
      PROVE  CaseInv'
  BY <1>4, AskFacts, AskStep
<1>5. ASSUME NEW p \in Callers,
             RefuseToPrepare(p) \/ PrepareFinish(p) \/ Begin(p) \/ RefuseToWrite(p) \/ Stage(p)
      PROVE  CaseInv'
  BY <1>5, RefuseStep, PrepareFinishStep, BeginStep, StageStep
<1>6. ASSUME NEW p \in Callers, StartCommit(p) \/ Land(p) \/ Acknowledge(p) PROVE CaseInv'
  BY <1>6, StartCommitStep, LandStep, AcknowledgeStep
<1>7. ASSUME NEW p \in Callers, \E v \in {"failed", "interrupted"} : Raise(p, v) PROVE CaseInv'
  BY <1>7, RaiseStep
<1>8. ASSUME NEW p \in Callers,
             Return(p) \/ Fail(p) \/ \E v \in {"failed", "interrupted"} : CleanupRaises(p, v)
      PROVE  CaseInv'
  BY <1>8, EndFacts, EndStep
<1>9. ASSUME NEW p \in Callers, Claimed(p) \/ Enter(p) \/ Interrupt(p) \/ Reopen(p)
      PROVE  CaseInv'
  BY <1>9, ClaimedStep, EnterStep, InterruptStep, ReopenStep
<1>10. ASSUME NEW p \in Callers, \E result \in Answers : CallbackReturns(p, result)
       PROVE  CaseInv'
  BY <1>10, CallbackStep
<1>11. ASSUME NEW o \in Objects, Crash(o) PROVE CaseInv'
  BY <1>11, CrashStep
<1>12. ASSUME UNCHANGED vars PROVE CaseInv'
  BY <1>12, StutterStep
<1> QED
  BY <1>1, <1>2, <1>3, <1>4, <1>5, <1>6, <1>7, <1>8, <1>9, <1>10, <1>11, <1>12 DEF Next

\* The invariant holds in every state SQLiteCaseStore and its bridges can reach.
THEOREM CaseInvariant == Spec => []CaseInv
<1>1. Init => CaseInv
  BY InitLemma
<1>2. CaseInv /\ [Next]_vars => CaseInv'
  BY CaseStep
<1> QED BY <1>1, <1>2, PTL DEF Spec

-----------------------------------------------------------------------------
(***************************************************************************)
(* What the invariant says of the properties the runs check.               *)
(***************************************************************************)
\* The result a bridge reports as committed is the recorded observation.
LEMMA KeepsObservation ==
    ASSUME CaseInv PROVE ObservationKept
<1> SUFFICES ASSUME NEW p \in Callers, phase[p] = "idle", returned[p] # NoResult
             PROVE  /\ report[p] = "commit" => db.receipts[2].result = returned[p]
                    /\ report[p] \in Outcomes => carried[p] = returned[p].output
  BY DEF ObservationKept
<1>1. /\ report[p] = "commit" =>
             request[p].type = "finish" /\ request[p].record.result = returned[p]
      /\ report[p] \in Outcomes => carried[p] = returned[p].output
  BY DEF CaseInv, ResultFits
<1>2. report[p] = "commit" => request[p] \in Committed(db)
  BY DEF CaseInv, ReportFits, ReportsTruthful
<1>3. request[p] \in Committed(db) /\ request[p].type = "finish" =>
          db.receipts[2] = request[p].record
  BY StoreIsSound, CommittedFacts
<1> QED BY <1>1, <1>2, <1>3

\* An approval names the verdict in the file, and what that verdict was earned by.
LEMMA EarnsApproval ==
    ASSUME CaseInv PROVE ApprovalEarned
<1> SUFFICES ASSUME NEW p \in Callers, decision[p] # NoRecord,
                    decision[p].disposition = "approve"
             PROVE  LET v == decision[p].verdict
                    IN  /\ Len(db.receipts) = 3 /\ db.receipts[3] = v
                        /\ db.output = Plan.prediction
                        /\ v.evaluator \notin {Plan.proposer, v.observation.observer}
                        /\ decision[p].decider \notin
                               {Plan.proposer, v.observation.observer, v.evaluator}
                        /\ KindOf[v.observation.observer] = "tool"
                        /\ KindOf[v.evaluator] # "model"
  BY DEF ApprovalEarned
<1> DEFINE j == db.receipts
<1>1. Len(j) = 3 /\ AdmitsDecision(j, decision[p])
  BY DEF CaseInv, DecisionFits
<1>2. /\ j \in Seq(CaseRecord) /\ j[1] = Plan
      /\ db.output = IF Len(j) = 1 THEN NoContent ELSE j[2].result.output
  BY StoreIsSound, SoundFacts DEF Sound, Verifies
<1>3. AdmitsObservation(SubSeq(j, 1, 1), j[2]) /\ AdmitsVerdict(SubSeq(j, 1, 2), j[3])
  BY <1>1, StoreIsSound, JournalFacts
<1> HIDE DEF j
<1>4. SubSeq(j, 1, 2)[1] = Plan /\ SubSeq(j, 1, 2)[2] = j[2]
  BY <1>1, <1>2
<1>5. KindOf[j[2].observer] = "tool"
  BY <1>3 DEF AdmitsObservation
<1>6. /\ j[3].observation = j[2] /\ j[3].evaluator \notin {Plan.proposer, j[2].observer}
      /\ KindOf[j[3].evaluator] # "model" /\ j[3].outcome = Earned(Plan, j[2].result)
  BY <1>3, <1>4 DEF AdmitsVerdict
<1>7. /\ decision[p].verdict = j[3] /\ j[3].outcome = "supported"
      /\ decision[p].decider \notin {Plan.proposer, j[2].observer, j[3].evaluator}
  BY <1>1, <1>2 DEF AdmitsDecision
<1>8. db.output = Plan.prediction
  BY <1>1, <1>2, <1>6, <1>7 DEF Earned
<1> QED BY <1>1, <1>5, <1>6, <1>7, <1>8 DEF j

\* Only COMMIT changes the tables, and it keeps every operation they have.
LEMMA GrowingStep ==
    ASSUME CaseInv, [Next]_vars
    PROVE  \A i \in 1..Len(db.operations) :
               i <= Len(db'.operations) /\ db'.operations[i] = db.operations[i]
<1>1. db \in Tables /\ Sound(db)
  BY StoreIsSound
<1>2. Len(db.operations) \in 0..3
  BY <1>1, SoundFacts
<1>3. CASE db' = db
  BY <1>2, <1>3
<1>4. ASSUME NEW p \in Callers, Land(p)
      PROVE  \A i \in 1..Len(db.operations) :
                 i <= Len(db'.operations) /\ db'.operations[i] = db.operations[i]
  <2>1. /\ WellAsked(request[p]) /\ db' = Extended(db, request[p])
    BY <1>4 DEF CaseInv, ArgsFit, RequestsFit, Requested, Writing, StagedFits, Land, Goto
  <2>2. PICK e : e = db'
    OBVIOUS
  <2>3. Adds(db, request[p], e)
    BY <1>1, <2>1, <2>2, ExtendedAdds
  <2>4. \A i \in 1..Len(db.operations) :
            i <= Len(e.operations) /\ e.operations[i] = db.operations[i]
    BY <1>2, <2>3 DEF Adds
  <2> QED BY <2>2, <2>4
<1>5. db' = db \/ \E p \in Callers : Land(p)
  <2>1. ASSUME NEW p \in Callers,
               \/ Snapshot(p) \/ Lookup(p) \/ RefuseToPrepare(p) \/ PrepareFinish(p)
               \/ Begin(p) \/ RefuseToWrite(p) \/ Stage(p) \/ StartCommit(p)
               \/ Acknowledge(p) \/ Enter(p) \/ Interrupt(p) \/ Reopen(p) \/ Claimed(p)
               \/ \E v \in {"failed", "interrupted"} : Raise(p, v)
               \/ \E result \in Answers : CallbackReturns(p, result)
               \/ \E decider \in Actors, disposition \in Dispositions :
                      Decide(p, decider, disposition)
        PROVE  db' = db
    BY <2>1 DEF Snapshot, Lookup, RefuseToPrepare, PrepareFinish, Begin, RefuseToWrite,
                Refuse, Stage, StartCommit, Acknowledge, Enter, Interrupt, Reopen, Claimed,
                Settle, Raise, CallbackReturns, Decide
  <2>2. ASSUME NEW p \in Callers,
               \/ \E id \in Ids : Claim(p, id)
               \/ \E id, req \in Ids, result \in Answers : Finish(p, id, req, result)
               \/ \E id \in Ids, evaluator \in Evaluators : Judge(p, id, evaluator)
               \/ \E id, finish_id \in Ids : Execute(p, id, finish_id)
        PROVE  db' = db
    BY <2>2, StartFacts DEF Starts, Start
  <2>3. ASSUME NEW p \in Callers, PrepareClaim(p) \/ ReadKey(p) \/ PrepareVerdict(p)
        PROVE  db' = db
    BY <2>3, AskFacts DEF Asks
  <2>4. ASSUME NEW p \in Callers,
               Return(p) \/ Fail(p) \/ \E v \in {"failed", "interrupted"} : CleanupRaises(p, v)
        PROVE  db' = db
    BY <2>4, EndFacts DEF Ends, End, Settle
  <2>5. ASSUME NEW o \in Objects, Crash(o) PROVE db' = db
    BY <2>5 DEF Crash
  <2> QED BY <2>1, <2>2, <2>3, <2>4, <2>5 DEF Next, vars
<1> QED BY <1>3, <1>4, <1>5

-----------------------------------------------------------------------------
(***************************************************************************)
(* Refinement.  The claim and the receipts of the protocol are functions   *)
(* of the tables, so that COMMIT is a step of the protocol by what the     *)
(* request it makes durable adds to sound tables.                          *)
(***************************************************************************)
ReceiptIn(d, n) == IF Len(d.receipts) >= n THEN d.receipts[n] ELSE NoRecord

ClaimIn(d) ==
    IF d.operations = <<>> THEN NoRecord
    ELSE [request |-> d.operations[1].request, observer |-> d.operations[1].observer]

LEMMA ClaimIsARecord ==
    \A i, o : [request |-> i, observer |-> o] # NoRecord
<1> SUFFICES ASSUME NEW i, NEW o, [request |-> i, observer |-> o] = NoRecord PROVE FALSE
  OBVIOUS
<1>1. DOMAIN [request |-> i, observer |-> o] = {"request", "observer"}
  OBVIOUS
<1>2. DOMAIN NoRecord = {"type"}
  BY DEF NoRecord
<1> QED BY <1>1, <1>2

\* What is claimed, observed and judged in sound tables.
LEMMA CaseStage ==
    ASSUME NEW d \in Tables, Sound(d)
    PROVE  /\ Len(d.operations) \in 0..3
           /\ ClaimIn(d) = NoRecord <=> Len(d.operations) = 0
           /\ ReceiptIn(d, 2) = NoRecord <=> Len(d.operations) < 2
           /\ ReceiptIn(d, 3) = NoRecord <=> Len(d.operations) < 3
           /\ Len(d.operations) >= 1 =>
                  /\ ClaimIn(d).request = d.operations[1].request
                  /\ ClaimIn(d).observer = d.operations[1].observer
                  /\ MayObserve(ClaimIn(d).observer) /\ ClaimIn(d).request \in Ids
           /\ Len(d.operations) >= 2 =>
                  /\ ReceiptIn(d, 2) = d.receipts[2] /\ d.receipts[2] \in CaseObservation
                  /\ d.receipts[2].plan = Plan
                  /\ d.receipts[2].request = ClaimIn(d).request
                  /\ d.receipts[2].observer = ClaimIn(d).observer
           /\ Len(d.operations) >= 3 =>
                  /\ ReceiptIn(d, 3) = d.receipts[3] /\ d.receipts[3] \in CaseVerdict
                  /\ d.receipts[3].observation = d.receipts[2]
                  /\ d.receipts[3].evaluator \notin {Plan.proposer, ClaimIn(d).observer}
                  /\ KindOf[d.receipts[3].evaluator] # "model"
                  /\ CasePermits(d.receipts[3].evaluator, Plan.scope, "evaluate")
                  /\ d.receipts[3].outcome = Earned(Plan, d.receipts[2].result)
<1> DEFINE n == Len(d.operations)
           j == d.receipts
<1>1. /\ j \in Seq(CaseRecord) /\ d.operations \in Seq(Request) /\ n \in 0..3
      /\ Len(j) \in 1..3 /\ Len(j) = RecordsBefore(n + 1) /\ j[1] = Plan
  BY SoundFacts DEF Sound, Verifies
<1>2. d.operations = <<>> <=> n = 0
  BY <1>1, EmptySeq
<1>3. /\ n >= 1 => ClaimVerifies(d.operations[1]) /\ d.operations[1] \in Request
      /\ n >= 2 => /\ d.operations[2].request = d.operations[1].request
                   /\ j[2].request = d.operations[2].request
                   /\ j[2].observer = d.operations[1].observer
  <2>1. n >= 1 => 1 \in 1..n
    BY <1>1
  <2>2. n >= 1 => d.operations[1] \in Request
    BY <1>1, <2>1, ElementOfSeq
  <2> QED BY <2>2 DEF Sound, Verifies, FinishVerifies
<1>4. n >= 2 => AdmitsObservation(SubSeq(j, 1, 1), j[2]) /\ Len(j) >= 2
  <2>1. n >= 2 => Len(j) >= 2
    BY <1>1 DEF RecordsBefore
  <2> QED BY <2>1, JournalFacts
<1>5. n >= 3 => AdmitsVerdict(SubSeq(j, 1, 2), j[3]) /\ Len(j) = 3
  <2>1. n >= 3 => n = 3
    <3>1. \A k \in 0..3 : k >= 3 => k = 3
      OBVIOUS
    <3> QED BY <1>1, <3>1
  <2>2. n >= 3 => Len(j) = 3
    BY <1>1, <2>1 DEF RecordsBefore
  <2> QED BY <2>2, JournalFacts
<1>6. /\ n < 2 => Len(j) < 2
      /\ n < 3 => Len(j) < 3
  BY <1>1 DEF RecordsBefore
<1>7. /\ n >= 2 => SubSeq(j, 1, 1)[1] = Plan
      /\ n >= 3 => SubSeq(j, 1, 2)[1] = Plan /\ SubSeq(j, 1, 2)[2] = j[2]
  BY <1>1, <1>4, <1>5
<1> HIDE DEF n, j
<1>8. n >= 1 => /\ ClaimIn(d) = [request |-> d.operations[1].request,
                                 observer |-> d.operations[1].observer]
                /\ d.operations[1].request \in Ids /\ MayObserve(d.operations[1].observer)
  <2>1. n >= 1 => d.operations # <<>>
    BY <1>1, <1>2
  <2> QED BY <1>3, <2>1 DEF ClaimIn, Request, ClaimVerifies
<1>9. n = 0 <=> ClaimIn(d) = NoRecord
  <2>1. n = 0 \/ n >= 1
    BY <1>1
  <2>2. n >= 1 => ClaimIn(d) # NoRecord /\ n # 0
    BY <1>1, <1>8, ClaimIsARecord
  <2> QED BY <1>2, <2>1, <2>2 DEF ClaimIn
<1>10. n >= 2 => j[2] \in CaseObservation /\ j[2].plan = Plan /\ ReceiptIn(d, 2) = j[2]
  BY <1>4, <1>7 DEF AdmitsObservation, ReceiptIn, j
<1>11. n >= 3 => /\ j[3] \in CaseVerdict /\ ReceiptIn(d, 3) = j[3] /\ j[3].observation = j[2]
                 /\ j[3].evaluator \notin {Plan.proposer, j[2].observer}
                 /\ KindOf[j[3].evaluator] # "model"
                 /\ CasePermits(j[3].evaluator, Plan.scope, "evaluate")
                 /\ j[3].outcome = Earned(Plan, j[2].result)
  <2>1. n >= 3 => ReceiptIn(d, 3) = j[3]
    BY <1>5 DEF ReceiptIn, j
  <2> QED BY <1>5, <1>7, <2>1 DEF AdmitsVerdict
<1>12. ReceiptIn(d, 2) = NoRecord <=> n < 2
  <2>1. n < 2 \/ n >= 2
    BY <1>1
  <2>2. n < 2 => ReceiptIn(d, 2) = NoRecord /\ ~(n >= 2)
    BY <1>1, <1>6 DEF ReceiptIn, j
  <2> QED BY <1>10, <2>1, <2>2, RecordTypes
<1>13. ReceiptIn(d, 3) = NoRecord <=> n < 3
  <2>1. n < 3 \/ n >= 3
    BY <1>1
  <2>2. n < 3 => ReceiptIn(d, 3) = NoRecord /\ ~(n >= 3)
    BY <1>1, <1>6 DEF ReceiptIn, j
  <2> QED BY <1>11, <2>1, <2>2, RecordTypes
<1>14. n >= 2 => n >= 1
  BY <1>1
<1>15. n >= 3 => n >= 2
  BY <1>1
<1> QED BY <1>1, <1>3, <1>8, <1>9, <1>10, <1>11, <1>12, <1>13, <1>14, <1>15 DEF n, j

\* The protocol's state, in terms of the tables.
LEMMA ProtocolState ==
    /\ ClaimOnFile = ClaimIn(db)
    /\ Receipt(2) = ReceiptIn(db, 2) /\ Receipt(3) = ReceiptIn(db, 3)
    /\ \A e : e = db' => /\ ClaimOnFile' = ClaimIn(e)
                         /\ Receipt(2)' = ReceiptIn(e, 2) /\ Receipt(3)' = ReceiptIn(e, 3)
BY DEF ClaimOnFile, ClaimIn, Receipt, ReceiptIn

LEMMA ProtocolInit == Init => Protocol!Init
<1> SUFFICES ASSUME Init PROVE Protocol!Init
  OBVIOUS
<1>1. db \in Tables /\ Sound(db) /\ Len(db.operations) = 0
  <2>1. Len(EmptyStore.operations) = 0
    BY DEF EmptyStore
  <2> QED BY <2>1, EmptyStoreSound DEF Init
<1>2. ClaimIn(db) = NoRecord /\ ReceiptIn(db, 2) = NoRecord /\ ReceiptIn(db, 3) = NoRecord
  BY <1>1, CaseStage
<1> QED BY <1>2, ProtocolState DEF Init, Protocol!Init

\* COMMIT claims, observes or judges, by the type of the request.
LEMMA LandIsAStep ==
    ASSUME CaseInv, NEW p \in Callers, Land(p)
    PROVE  Protocol!Claim \/ Protocol!Observe \/ Protocol!Judge
<1> DEFINE r == request[p]
           n == Len(db.operations)
<1>1. PICK e : e = db'
  OBVIOUS
<1>2. /\ r # NoRequest /\ WellAsked(r) /\ Writable(db, r) /\ e = Extended(db, r)
      /\ entered' = entered /\ decision' = decision
  BY <1>1 DEF CaseInv, ArgsFit, RequestsFit, Requested, Writing, StagedFits, Land, Goto, caller
<1> HIDE DEF r
<1>3. db \in Tables /\ Sound(db) /\ n \in 0..3
  BY StoreIsSound, SoundFacts
<1>4. e \in Tables /\ Sound(e) /\ Adds(db, r, e)
  BY <1>2, <1>3, ExtendedFacts, ExtendedSound, ExtendedAdds
<1>5. /\ Len(e.operations) = n + 1
      /\ e.operations[n + 1] = r
      /\ \A i \in 1..n : e.operations[i] = db.operations[i]
      /\ \A i \in 1..Len(db.receipts) : e.receipts[i] = db.receipts[i]
  BY <1>4 DEF Adds
<1>6. /\ ClaimIn(db) = NoRecord <=> n = 0
      /\ ReceiptIn(db, 2) = NoRecord <=> n < 2
      /\ ReceiptIn(db, 3) = NoRecord <=> n < 3
  BY <1>3, CaseStage
<1>7. /\ ReceiptIn(e, 2) = NoRecord <=> n + 1 < 2
      /\ ReceiptIn(e, 3) = NoRecord <=> n + 1 < 3
  BY <1>4, <1>5, CaseStage
<1>8. /\ ClaimIn(e) = [request |-> e.operations[1].request,
                       observer |-> e.operations[1].observer]
      /\ MayObserve(ClaimIn(e).observer) /\ ClaimIn(e).request \in Ids
  <2>1. e.operations # <<>>
    BY <1>3, <1>4, CommittedGrows
  <2> QED BY <1>3, <1>4, <1>5, <2>1, CaseStage DEF ClaimIn
<1>9. n >= 1 => ClaimIn(e) = ClaimIn(db) /\ ClaimIn(db) # NoRecord
  <2>1. n >= 1 => e.operations[1] = db.operations[1] /\ db.operations # <<>> /\ n # 0
    BY <1>3, <1>5, EmptySeq
  <2> QED BY <1>6, <1>8, <2>1 DEF ClaimIn
<1>10. n >= 2 => ReceiptIn(e, 2) = ReceiptIn(db, 2)
  <2>1. n >= 2 => Len(db.receipts) >= 2 /\ 2 \in 1..Len(db.receipts)
    BY <1>3, SoundFacts DEF RecordsBefore
  <2>2. n >= 2 => ReceiptIn(e, 2) = e.receipts[2]
    BY <1>3, <1>4, <1>5, CaseStage
  <2> QED BY <1>5, <2>1, <2>2 DEF ReceiptIn
<1>11. r.type \in OperationTypes
  BY <1>2 DEF WellAsked, Request
<1>12. /\ ClaimOnFile = ClaimIn(db) /\ ClaimOnFile' = ClaimIn(e)
       /\ Receipt(2) = ReceiptIn(db, 2) /\ Receipt(2)' = ReceiptIn(e, 2)
       /\ Receipt(3) = ReceiptIn(db, 3) /\ Receipt(3)' = ReceiptIn(e, 3)
  BY <1>1, ProtocolState
<1>13. CASE r.type = "claim"
  <2>1. n = 0
    BY <1>2, <1>3, <1>13, EmptySeq DEF Writable
  <2>2. ClaimIn(db) = NoRecord
    BY <1>6, <2>1
  <2>3. ClaimIn(e) \in [request: Ids,
            observer: {a \in Actors \ {Plan.proposer} :
                           KindOf[a] = "tool" /\ CasePermits(a, Plan.scope, "observe")}]
    BY <1>8 DEF MayObserve
  <2>4. ReceiptIn(e, 2) = ReceiptIn(db, 2) /\ ReceiptIn(e, 3) = ReceiptIn(db, 3)
    BY <1>6, <1>7, <2>1
  <2>5. Protocol!Claim
    BY <1>2, <1>12, <2>2, <2>3, <2>4 DEF Protocol!Claim, Protocol!CasePermits, CasePermits
  <2> QED BY <2>5
<1>14. CASE r.type = "finish"
  <2>1. n = 1
    BY <1>2, <1>14 DEF Writable
  <2>2. /\ ReceiptIn(db, 2) = NoRecord /\ ClaimIn(db) # NoRecord /\ ClaimIn(e) = ClaimIn(db)
        /\ ReceiptIn(e, 3) = ReceiptIn(db, 3)
    BY <1>6, <1>7, <1>9, <2>1
  <2>3. /\ ReceiptIn(e, 2) = e.receipts[2] /\ e.receipts[2] \in CaseObservation
        /\ e.receipts[2].plan = Plan /\ e.receipts[2].request = ClaimIn(db).request
        /\ e.receipts[2].observer = ClaimIn(db).observer
    BY <1>4, <1>5, <2>1, <2>2, CaseStage
  <2>4. ReceiptIn(e, 2) \in [type: {"observation"}, plan: {Plan},
                             request: {ClaimIn(db).request},
                             observer: {ClaimIn(db).observer}, result: Results]
    BY <2>3 DEF CaseObservation
  <2>5. Protocol!Observe
    BY <1>2, <1>12, <2>2, <2>4 DEF Protocol!Observe, Protocol!Results, Results,
       Protocol!ObservationStatuses, ObservationStatuses
  <2> QED BY <2>5
<1>15. CASE r.type = "verdict"
  <2>1. n = 2
    BY <1>2, <1>15 DEF Writable
  <2>2. /\ ReceiptIn(db, 3) = NoRecord /\ ReceiptIn(db, 2) # NoRecord
        /\ ClaimIn(e) = ClaimIn(db) /\ ReceiptIn(e, 2) = ReceiptIn(db, 2)
    BY <1>6, <1>9, <1>10, <2>1
  <2>3. /\ ReceiptIn(e, 3) = e.receipts[3] /\ e.receipts[3] \in CaseVerdict
        /\ e.receipts[3].observation = ReceiptIn(db, 2)
        /\ e.receipts[3].evaluator \notin {Plan.proposer, ClaimIn(db).observer}
        /\ KindOf[e.receipts[3].evaluator] # "model"
        /\ CasePermits(e.receipts[3].evaluator, Plan.scope, "evaluate")
        /\ e.receipts[3].outcome = Earned(Plan, ReceiptIn(db, 2).result)
    <3>1. Len(e.operations) >= 2 /\ Len(e.operations) >= 3
      BY <1>5, <2>1
    <3> QED BY <1>4, <2>2, <3>1, CaseStage
  <2>4. ReceiptIn(e, 3) \in
            [type: {"verdict"}, observation: {ReceiptIn(db, 2)},
             evaluator: {a \in Actors \ {Plan.proposer, ClaimIn(db).observer} :
                             KindOf[a] # "model" /\ CasePermits(a, Plan.scope, "evaluate")},
             outcome: {Earned(Plan, ReceiptIn(db, 2).result)}]
    BY <2>3 DEF CaseVerdict
  <2>5. Protocol!Judge
    BY <1>2, <1>12, <2>2, <2>4 DEF Protocol!Judge, Protocol!CasePermits, CasePermits,
       Protocol!Earned, Earned
  <2> QED BY <2>5
<1> QED BY <1>11, <1>13, <1>14, <1>15 DEF OperationTypes

\* A decision is taken on the journal in the file.
LEMMA DecideIsAStep ==
    ASSUME CaseInv, NEW p \in Callers, NEW decider \in Actors, NEW disposition \in Dispositions,
           Decide(p, decider, disposition)
    PROVE  Protocol!Decide(p)
<1> DEFINE r == [type |-> "decision", verdict |-> known[p].receipts[3],
                 decider |-> decider, disposition |-> disposition]
           j == db.receipts
<1>1. /\ Len(known[p].receipts) = 3 /\ Admits(known[p].receipts, r)
      /\ decision[p] = NoRecord /\ decision' = [decision EXCEPT ![p] = r]
      /\ db' = db /\ entered' = entered
  BY DEF Decide
<1>2. db \in Tables /\ Sound(db) /\ Len(db.operations) \in 0..3
      /\ j \in Seq(CaseRecord) /\ Len(j) \in 1..3 /\ Len(j) = RecordsBefore(Len(db.operations) + 1)
      /\ j[1] = Plan
  BY StoreIsSound, SoundFacts DEF Sound, Verifies
<1>3. known[p].receipts = j
  BY <1>1, <1>2, SubSeqFull DEF CaseInv, KnownFits, PrefixOf
<1>4. r.type = "decision" /\ r.verdict = j[3]
  BY <1>3
<1> HIDE DEF r
<1>5. AdmitsDecision(j, r)
  BY <1>1, <1>3, <1>4, RecordTypes DEF Admits, AdmitsPlan, AdmitsObservation, AdmitsVerdict
<1>6. Len(db.operations) >= 1 /\ Len(db.operations) >= 2 /\ Len(db.operations) >= 3
  <2>1. Len(j) = 3
    BY <1>1, <1>3
  <2>2. \A k \in 0..3 : RecordsBefore(k + 1) = 3 => k >= 1 /\ k >= 2 /\ k >= 3
    BY DEF RecordsBefore
  <2> QED BY <1>2, <2>1, <2>2
<1>7. /\ ReceiptIn(db, 3) = j[3] /\ j[3] \in CaseVerdict /\ j[2].observer = ClaimIn(db).observer
  BY <1>2, <1>6, CaseStage
<1>8. r \in [type: {"decision"}, verdict: {j[3]},
             decider: {a \in Actors \ {Plan.proposer, ClaimIn(db).observer, j[3].evaluator} :
                           /\ KindOf[a] \in {"human", "policy"}
                           /\ CasePermits(a, Plan.scope, "decide")},
             disposition: Dispositions]
  BY <1>2, <1>5, <1>7 DEF AdmitsDecision, CaseDecision
<1>9. r.disposition = "approve" => j[3].outcome = "supported"
  BY <1>5 DEF AdmitsDecision
<1>10. j[3] # NoRecord
  BY <1>7, RecordTypes
<1>11. UNCHANGED <<ClaimOnFile, entered, Receipt(2), Receipt(3)>>
  BY <1>1, ProtocolState
<1>12. ClaimOnFile = ClaimIn(db) /\ Receipt(3) = j[3]
  BY <1>7, ProtocolState
<1> HIDE DEF j
<1> QED
  BY <1>1, <1>8, <1>9, <1>10, <1>11, <1>12
     DEF Protocol!Decide, Protocol!CasePermits, CasePermits, Protocol!Dispositions, Dispositions

\* The adapter is entered for the claim in the file.
LEMMA EnterIsAStep ==
    ASSUME CaseInv, NEW p \in Callers, Enter(p)
    PROVE  Protocol!Enter
<1>1. /\ phase[p] = "entering" /\ entered' = Append(entered, request[p].request)
      /\ UNCHANGED <<db, decision>>
  BY DEF Enter, Goto, caller
<1>2. /\ p \in landed /\ request[p].type = "claim" /\ request[p] \in Committed(db)
      /\ entered = <<>>
  BY <1>1 DEF CaseInv, EntryFits, LandedFits
<1>3. db \in Tables /\ Sound(db) /\ db.operations # <<>> /\ db.operations[1] = request[p]
  BY <1>2, StoreIsSound, CommittedFacts
<1>4. ClaimIn(db).request = request[p].request
  BY <1>3 DEF ClaimIn
<1>5. ClaimIn(db) # NoRecord
  BY <1>3, ClaimIsARecord DEF ClaimIn
<1>6. UNCHANGED <<ClaimOnFile, Receipt(2), Receipt(3)>> /\ ClaimOnFile = ClaimIn(db)
  BY <1>1, ProtocolState
<1>7. entered' = <<ClaimIn(db).request>>
  BY <1>1, <1>2, <1>4
<1> QED BY <1>1, <1>2, <1>5, <1>6, <1>7 DEF Protocol!Enter

\* Nothing else is seen of the case.
LEMMA QuietStep ==
    ASSUME CaseInv, [Next]_vars
    PROVE  \/ UNCHANGED <<db, entered, decision>>
           \/ \E p \in Callers : Land(p) \/ Enter(p)
                 \/ \E decider \in Actors, disposition \in Dispositions :
                        Decide(p, decider, disposition)
<1>1. ASSUME NEW p \in Callers,
             \/ Snapshot(p) \/ Lookup(p) \/ RefuseToPrepare(p) \/ PrepareFinish(p)
             \/ Begin(p) \/ RefuseToWrite(p) \/ Stage(p) \/ StartCommit(p)
             \/ Acknowledge(p) \/ Interrupt(p) \/ Reopen(p) \/ Claimed(p)
             \/ \E v \in {"failed", "interrupted"} : Raise(p, v)
             \/ \E result \in Answers : CallbackReturns(p, result)
      PROVE  UNCHANGED <<db, entered, decision>>
  BY <1>1 DEF Snapshot, Lookup, RefuseToPrepare, PrepareFinish, Begin, RefuseToWrite,
              Refuse, Stage, StartCommit, Acknowledge, Interrupt, Reopen, Claimed,
              Settle, Raise, CallbackReturns, caller
<1>2. ASSUME NEW p \in Callers,
             \/ \E id \in Ids : Claim(p, id)
             \/ \E id, req \in Ids, result \in Answers : Finish(p, id, req, result)
             \/ \E id \in Ids, evaluator \in Evaluators : Judge(p, id, evaluator)
             \/ \E id, finish_id \in Ids : Execute(p, id, finish_id)
      PROVE  UNCHANGED <<db, entered, decision>>
  BY <1>2, StartFacts DEF Starts, Start
<1>3. ASSUME NEW p \in Callers, PrepareClaim(p) \/ ReadKey(p) \/ PrepareVerdict(p)
      PROVE  UNCHANGED <<db, entered, decision>>
  BY <1>3, AskFacts DEF Asks
<1>4. ASSUME NEW p \in Callers,
             Return(p) \/ Fail(p) \/ \E v \in {"failed", "interrupted"} : CleanupRaises(p, v)
      PROVE  UNCHANGED <<db, entered, decision>>
  BY <1>4, EndFacts DEF Ends, End, Settle
<1>5. ASSUME NEW o \in Objects, Crash(o) PROVE UNCHANGED <<db, entered, decision>>
  BY <1>5 DEF Crash
<1>6. UNCHANGED vars => UNCHANGED <<db, entered, decision>>
  BY DEF vars, caller
<1> QED BY <1>1, <1>2, <1>3, <1>4, <1>5, <1>6 DEF Next

LEMMA ProtocolStep ==
    ASSUME CaseInv, [Next]_vars
    PROVE  [Protocol!Next]_<<ClaimOnFile, entered, Receipt(2), Receipt(3), decision>>
<1>1. CASE UNCHANGED <<db, entered, decision>>
  <2>1. UNCHANGED <<ClaimOnFile, Receipt(2), Receipt(3)>>
    BY <1>1, ProtocolState
  <2> QED BY <1>1, <2>1
<1>2. ASSUME NEW p \in Callers,
             \/ Land(p) \/ Enter(p)
             \/ \E decider \in Actors, disposition \in Dispositions :
                    Decide(p, decider, disposition)
      PROVE  Protocol!Next
  BY <1>2, LandIsAStep, EnterIsAStep, DecideIsAStep DEF Protocol!Next
<1> QED BY <1>1, <1>2, QuietStep

-----------------------------------------------------------------------------
(***************************************************************************)
(* The theorems.                                                           *)
(***************************************************************************)
\* Every variable of the case store keeps its type (SQLiteCaseStore, execute_observation).
THEOREM CaseTypes == Spec => []TypeOK
<1>1. CaseInv => TypeOK
  BY DEF CaseInv
<1> QED BY <1>1, CaseInvariant, PTL

\* Whatever callers interleave, fail or die, _read accepts the file they leave, and the
\* recorded observer is the one the claim named.
THEOREM CaseAlwaysVerifies == Spec => []StoreVerifies
<1>1. CaseInv => StoreVerifies
  BY DEF CaseInv
<1> QED BY <1>1, CaseInvariant, PTL

\* execute_observation enters the adapter at most once for a case, and only for a claim
\* that is already durable.
THEOREM AdapterEnteredOnce == Spec => []EnteredAtMostOnce
<1>1. CaseInv => EnteredAtMostOnce
  BY DEF CaseInv, EntryFits
<1> QED BY <1>1, CaseInvariant, PTL

\* What _run raises or returns agrees with what is in the file: no refusal or outcome
\* "none" of a write that landed, no commit or outcome "complete" of one that did not.
THEOREM CaseReportsTrue == Spec => []ReportsTruthful
<1>1. CaseInv => ReportsTruthful
  BY DEF CaseInv, ReportFits
<1> QED BY <1>1, CaseInvariant, PTL

\* A bridge whose callback returned ends with the result in the file or its bytes on the
\* error execute_observation raises.
THEOREM ObservationNotLost == Spec => []ObservationKept
<1>1. CaseInv => ObservationKept
  BY KeepsObservation
<1> QED BY <1>1, CaseInvariant, PTL

\* An approval taken on any journal a caller holds is about the verdict in the file, which
\* the stored bytes earned among actors who are all different.
THEOREM ApprovalsEarned == Spec => []ApprovalEarned
<1>1. CaseInv => ApprovalEarned
  BY EarnsApproval
<1> QED BY <1>1, CaseInvariant, PTL

\* No step removes or changes a committed operation: a claim is never taken over, and a
\* finished observation or a verdict never replaced.
THEOREM CaseHistoryGrows == Spec => HistoryOnlyGrows
<1>1. CaseInv /\ [Next]_vars =>
          [\A i \in 1..Len(db.operations) :
               i <= Len(db'.operations) /\ db'.operations[i] = db.operations[i]]_vars
  BY GrowingStep
<1>2. Spec => []CaseInv /\ [][Next]_vars
  BY CaseInvariant, PTL DEF Spec
<1> QED BY <1>1, <1>2, PTL DEF HistoryOnlyGrows
\* SQLiteCaseStore and its bridge implement the protocol of a case: however many processes
\* append, fail and die, the file shows one claim by a permitted tool, one entry for it, the
\* claimed tool's observation, the verdict it earns by somebody else, and decisions on it.
THEOREM CaseImplementsProtocol == Spec => ImplementsCaseProtocol
<1>1. CaseInv /\ [Next]_vars =>
          [Protocol!Next]_<<ClaimOnFile, entered, Receipt(2), Receipt(3), decision>>
  BY ProtocolStep
<1> QED
  BY <1>1, ProtocolInit, CaseInvariant, PTL
     DEF Spec, ImplementsCaseProtocol, Protocol!Spec, Protocol!protocol

=============================================================================
