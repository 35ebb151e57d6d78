------------------------------ MODULE LedgerQuery ------------------------------
(***************************************************************************)
(* Queries over a ledger (query.py): a reader pins a prefix of the ledger  *)
(* by its head, indexes it, selects the receipts a query matches and reads *)
(* them page by page, each page bounded in receipts and in bytes, with a   *)
(* cursor from one page to the next.  Meanwhile the ledger grows, and the  *)
(* reader may lose everything but the head, the query and the cursor.      *)
(***************************************************************************)
EXTENDS Naturals, Sequences, FiniteSets, SequencesExt

CONSTANTS
    Readers,
    Events,         \* records [claim, group, observed, ingested, size]
    Queries,        \* records [claims, groups, observed, ingested]: sets and ranges
    NoGroup,        \* the event has no correlation group
    NoBound,        \* a range is open at this end
    NoCursor,
    Limits,         \* page sizes that readers ask for
    Budgets,        \* byte budgets that readers ask for
    MaxEntries,     \* MAX_LEDGER_ENTRIES
    MaxIndexBytes   \* _MAX_INDEX_BYTES

VARIABLES
    ledger,     \* the events of the ledger, by sequence
    pinned,     \* per reader: the prefix whose head and length it retained
    query,      \* per reader: its query
    selection,  \* per reader: the positions of an open selection, or NoCursor
    cursor,     \* per reader: the cursor it goes on from, NoCursor at the beginning
    got,        \* per reader: the sequences of the receipts it was given
    phase       \* per reader: "idle", "reading" or "finished"

vars == <<ledger, pinned, query, selection, cursor, got, phase>>

-----------------------------------------------------------------------------
(***************************************************************************)
(* Index and selection.                                                    *)
(***************************************************************************)
\* One posting list of a LedgerIndex: the rows that carry this value.
Postings(events, field, value) == {i \in DOMAIN events : events[i][field] = value}

\* The rows of a field: of any of the values, or all rows without restriction.
FieldRows(events, field, values) ==
    IF values = {} THEN DOMAIN events
    ELSE UNION {Postings(events, field, v) : v \in values}

\* Mutant: the end of a range belongs to it.
InRangeClosed(instant, range) ==
    /\ range[1] # NoBound => instant >= range[1]
    /\ range[2] # NoBound => instant <= range[2]

\* [start, end)
InRange(instant, range) ==
    /\ range[1] # NoBound => instant >= range[1]
    /\ range[2] # NoBound => instant < range[2]

\* LedgerSelection.positions, in the order of sequences.
Positions(events, q) ==
    LET rows == FieldRows(events, "claim", q.claims) \cap FieldRows(events, "group", q.groups)
    IN  SelectSeq([i \in DOMAIN events |-> i],
                  LAMBDA i : /\ i \in rows
                             /\ InRange(events[i].observed, q.observed)
                             /\ InRange(events[i].ingested, q.ingested))

-----------------------------------------------------------------------------
(***************************************************************************)
(* Pages.                                                                  *)
(***************************************************************************)
\* _cursor: head and length of the snapshot, the query, the next sequence.
CursorFor(events, q, next) ==
    [head |-> events, entries |-> Len(events), query |-> q, next |-> next]

\* _resume refuses what it would not have made itself.
Resumes(events, q, c) ==
    /\ c.next \in 1..Len(events)
    /\ CursorFor(events, q, c.next) = c

\* bisect_left
Offset(positions, next) == Cardinality({k \in DOMAIN positions : positions[k] < next}) + 1

Size(events, positions, from, to) ==
    FoldLeft(LAMBDA n, k : n + events[k].size, 0, SubSeq(positions, from, to))

\* Where the page that starts at offset `from` ends: as far as limit and budget allow.
PageEnd(events, positions, from, limit, budget) ==
    CHOOSE to \in (from - 1)..Len(positions) :
        /\ to - from + 1 <= limit /\ Size(events, positions, from, to) <= budget
        /\ \/ to = Len(positions) \/ to - from + 1 = limit
           \/ Size(events, positions, from, to + 1) > budget

\* Mutant: the cursor names the last receipt of the page.
NextAtLast(positions, to) == positions[to]

\* The continuation names the first receipt that is not in the page.
NextAfter(positions, to) == positions[to + 1]

-----------------------------------------------------------------------------
Init ==
    /\ ledger = <<>>
    /\ pinned = [r \in Readers |-> <<>>]
    /\ query \in [Readers -> Queries]
    /\ selection = [r \in Readers |-> NoCursor]
    /\ cursor = [r \in Readers |-> NoCursor]
    /\ got = [r \in Readers |-> <<>>]
    /\ phase = [r \in Readers |-> "idle"]

AppendEvent(e) ==
    /\ Len(ledger) < MaxEntries
    /\ ledger' = Append(ledger, e)
    /\ UNCHANGED <<pinned, query, selection, cursor, got, phase>>

\* The reader retains head and length of the ledger it was given.
Pin(r) ==
    /\ phase[r] = "idle"
    /\ pinned' = [pinned EXCEPT ![r] = ledger]
    /\ phase' = [phase EXCEPT ![r] = "reading"]
    /\ UNCHANGED <<ledger, query, selection, cursor, got>>

\* Mutant: the index takes in the whole ledger.
SnapshotWhole(r) == ledger

\* The prefix of the ledger of the pinned length.
Snapshot(r) == SubSeq(ledger, 1, Len(pinned[r]))

\* The receipts of the whole supplied ledger are weighed, however short the prefix.
Indexable(events) == FoldLeft(LAMBDA n, e : n + e.size, 0, events) <= MaxIndexBytes

\* LedgerIndex(ledger, expected_head=..., prefix_count=...) and select(query).
Open(r) ==
    /\ phase[r] = "reading" /\ selection[r] = NoCursor
    /\ Indexable(ledger) /\ Len(pinned[r]) <= Len(ledger)
    /\ selection' = [selection EXCEPT ![r] =
           [events |-> Snapshot(r), positions |-> Positions(Snapshot(r), query[r])]]
    /\ UNCHANGED <<ledger, pinned, query, cursor, got, phase>>

\* page(): the next receipt alone may exceed the budget, which is an error.
Page(r, limit, budget) ==
    /\ phase[r] = "reading" /\ selection[r] # NoCursor
    /\ LET events == selection[r].events
           positions == selection[r].positions
           from == IF cursor[r] = NoCursor THEN 1 ELSE Offset(positions, cursor[r].next)
           to == PageEnd(events, positions, from, limit, budget)
       IN  /\ cursor[r] # NoCursor => Resumes(events, query[r], cursor[r])
           /\ from <= to \/ from > Len(positions)
           /\ got' = [got EXCEPT ![r] = @ \o SubSeq(positions, from, to)]
           /\ IF to < Len(positions)
              THEN /\ cursor' = [cursor EXCEPT ![r] =
                                    CursorFor(events, query[r], NextAfter(positions, to))]
                   /\ UNCHANGED phase
              ELSE /\ cursor' = [cursor EXCEPT ![r] = NoCursor]
                   /\ phase' = [phase EXCEPT ![r] = "finished"]
    /\ UNCHANGED <<ledger, pinned, query, selection>>

\* The process of the reader ends; the head, the query and the cursor were kept.
Restart(r) ==
    /\ selection[r] # NoCursor
    /\ selection' = [selection EXCEPT ![r] = NoCursor]
    /\ UNCHANGED <<ledger, pinned, query, cursor, got, phase>>

Next ==
    \/ \E e \in Events : AppendEvent(e)
    \/ \E r \in Readers :
        \/ Pin(r)
        \/ Open(r)
        \/ \E limit \in Limits, budget \in Budgets : Page(r, limit, budget)
        \/ Restart(r)

Spec == Init /\ [][Next]_vars

\* A reader goes on reading with a budget that holds any receipt, and its process
\* does not restart for ever.
FairSpec ==
    /\ Spec
    /\ \A r \in Readers :
        /\ WF_vars(Open(r) \/ \E limit \in Limits, budget \in Budgets : Page(r, limit, budget))
        /\ <>[][~Restart(r)]_vars

-----------------------------------------------------------------------------
(***************************************************************************)
(* Type invariant.                                                         *)
(***************************************************************************)
TypeOK ==
    /\ ledger \in Seq(Events) /\ Len(ledger) <= MaxEntries
    /\ query \in [Readers -> Queries]
    /\ phase \in [Readers -> {"idle", "reading", "finished"}]
    /\ \A r \in Readers :
           /\ pinned[r] \in Seq(Events)
           /\ cursor[r] # NoCursor =>
                  cursor[r].next \in DOMAIN pinned[r] /\ cursor[r].query = query[r]
           /\ got[r] \in Seq(DOMAIN pinned[r])

\* What a query means, event by event.
Matches(e, q) ==
    /\ q.claims # {} => e.claim \in q.claims
    /\ q.groups # {} => e.group \in q.groups
    /\ \A x \in {<<e.observed, q.observed>>, <<e.ingested, q.ingested>>} :
           /\ x[2][1] = NoBound \/ x[2][1] <= x[1]
           /\ x[2][2] = NoBound \/ x[1] < x[2][2]

(***************************************************************************)
(* The pages of a reader, put together, are the first receipts that match  *)
(* its query in the ledger it pinned, in order, none twice and none left   *)
(* out; when there is no next page they are all of them.  Neither the      *)
(* growth of the ledger nor a restart between two pages shows.             *)
(***************************************************************************)
PagesAreTheMatches ==
    \A r \in Readers :
        LET all == SelectSeq([i \in DOMAIN pinned[r] |-> i],
                             LAMBDA i : Matches(pinned[r][i], query[r]))
        IN  IsPrefix(got[r], all) /\ (phase[r] = "finished" => got[r] = all)

(***************************************************************************)
(* A cursor always fits the snapshot and the query it is used with, and    *)
(* names a receipt that matches, after all those that were given.          *)
(***************************************************************************)
CursorsResume ==
    \A r \in Readers : cursor[r] # NoCursor =>
        /\ Resumes(SubSeq(ledger, 1, Len(pinned[r])), query[r], cursor[r])
        /\ Matches(pinned[r][cursor[r].next], query[r])
        /\ \A k \in DOMAIN got[r] : got[r][k] < cursor[r].next

(***************************************************************************)
(* The ledger outgrew what an index takes in while the reader had none     *)
(* open: no prefix of it, however short, can be opened again.              *)
(***************************************************************************)
LockedOut(r) == selection[r] = NoCursor /\ ~Indexable(ledger)

(***************************************************************************)
(* A reader that keeps asking gets to the last page, unless it is locked   *)
(* out: growth alone never stops a reader whose index is open.             *)
(***************************************************************************)
ReadingEnds ==
    \A r \in Readers : phase[r] = "reading" ~> phase[r] = "finished" \/ LockedOut(r)
=============================================================================
