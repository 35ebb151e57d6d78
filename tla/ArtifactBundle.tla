---------------------------- MODULE ArtifactBundle ----------------------------
(***************************************************************************)
(* Closed artifact archives (artifacts.py): a builder copies the source    *)
(* files a workflow commits to, chunk by chunk, into a staged archive,     *)
(* verifies it and publishes it without replacement (Publication); a       *)
(* reader verifies an archive against heads it retained.  Sources and the  *)
(* published archive may be written by others at any time.                 *)
(*                                                                         *)
(* Bytes are sequences of chunks.  A digest is what it digests (hashing is *)
(* injective), and so is a canonical JSON text.                            *)
(***************************************************************************)
EXTENDS Publication, Sequences, SequencesExt

CONSTANTS
    Readers,
    Workflows,      \* what builders build: [head, evidence, refs: Seq([id, sha, size])]
    Others,         \* workflows that replay, made by somebody else
    DigestOrder,    \* all object digests, sorted
    InitialData,    \* artifact ID -> what its source file holds at first
    MaxEdits,       \* how often source files are written
    MaxTampers,     \* how often the published archive is written
    MaxArtifacts, MaxArtifactBytes, MaxObjectBytes, MaxSourceBytes  \* ArtifactBundleLimits

VARIABLES
    src,        \* artifact ID -> its source file: [data, stamp]
    build,      \* per builder: the copy in progress
    reader      \* per reader: its verification

vars == <<dest, staging, stage, flag, cause, told, went, src, build, reader>>

-----------------------------------------------------------------------------
(***************************************************************************)
(* What a workflow commits to.                                             *)
(***************************************************************************)
Total(seq) == FoldSeq(LAMBDA r, n : r.size + n, 0, seq)

\* The objects of a workflow, one for each digest, in the order of digests.
Objects(w) ==
    LET used == SelectSeq(DigestOrder, LAMBDA d : \E i \in DOMAIN w.refs : w.refs[i].sha = d)
    IN  [k \in DOMAIN used |->
            [sha |-> used[k],
             size |-> w.refs[CHOOSE i \in DOMAIN w.refs : w.refs[i].sha = used[k]].size]]

\* _objects raises nothing.
ObjectsAdmitted(w) ==
    /\ Len(w.refs) <= MaxArtifacts
    /\ Total(w.refs) <= MaxSourceBytes
    /\ \A i \in DOMAIN w.refs : w.refs[i].size <= MaxArtifactBytes
    /\ \A i, j \in DOMAIN w.refs :
           w.refs[i].sha = w.refs[j].sha => w.refs[i].size = w.refs[j].size
    /\ Total(Objects(w)) <= MaxObjectBytes

\* replay_workflow, as far as an archive shows it.
StateOf(w) == [head |-> w.head, workflow |-> w]

\* _manifest; its bundle_digest is the rest of it.
Manifest(w, objects) ==
    [workflow_head |-> w.head, evidence_head |-> w.evidence,
     files |-> <<[raw |-> w], [raw |-> StateOf(w)]>>,
     objects |-> objects, artifacts |-> w.refs]

\* A member: kind and digest are its name, `plain` that both of its headers are canonical.
Metadata(kind, text) ==
    [kind |-> kind, sha |-> <<>>, text |-> text, data |-> <<>>, plain |-> TRUE]

Object(sha, data) ==
    [kind |-> "object", sha |-> sha, text |-> [none |-> TRUE], data |-> data, plain |-> TRUE]

Names == <<"manifest", "workflow", "state">>

\* The archive that is written when the objects have these bytes.
Archive(w, bytes) ==
    LET objects == Objects(w)
    IN  <<Metadata("manifest", Manifest(w, objects)), Metadata("workflow", w),
          Metadata("state", StateOf(w))>>
        \o [k \in DOMAIN objects |-> Object(objects[k].sha, bytes[k])]

\* The one archive a workflow has.
Canonical(w) == Archive(w, [k \in DOMAIN Objects(w) |-> Objects(w)[k].sha])

-----------------------------------------------------------------------------
(***************************************************************************)
(* Verification.                                                           *)
(***************************************************************************)
Rank(d) == CHOOSE k \in DOMAIN DigestOrder : DigestOrder[k] = d

ObjectMembers(a) == SubSeq(a, 4, Len(a))

\* _preflight
Preflight(a) ==
    /\ Len(a) \in 3..(MaxArtifacts + 3)
    /\ \A i \in DOMAIN a : a[i].plain
    /\ \A i \in 1..3 : a[i].kind = Names[i]
    /\ \A i \in 4..Len(a) : a[i].kind = "object" /\ Len(a[i].data) <= MaxArtifactBytes
    /\ \A i, j \in 4..Len(a) : i < j => Rank(a[i].sha) < Rank(a[j].sha)
    /\ FoldSeq(LAMBDA m, n : Len(m.data) + n, 0, ObjectMembers(a)) <= MaxObjectBytes

\* The members are exactly the committed objects.
InventoryExact(a, objects) ==
    /\ Len(a) = Len(objects) + 3
    /\ \A k \in DOMAIN objects : a[k + 3].sha = objects[k].sha

\* Everything that is checked before the objects are read.
MetadataAccepted(a, head, evidence) ==
    /\ Preflight(a)
    /\ LET w == a[2].text
       IN  /\ w \in Workflows \cup Others      \* from_dict, under the authority
           /\ w.head = head /\ w.evidence = evidence
           /\ a[3].text = StateOf(w)
           /\ ObjectsAdmitted(w)
           /\ a[1].text = Manifest(w, Objects(w))
           /\ InventoryExact(a, Objects(w))

\* Mutant: lengths are compared, not digests.
DigestMatchesLength(data, sha, size) == Len(data) = size

\* The bytes are the ones a reference commits to.
DigestMatches(data, sha, size) == data = sha /\ Len(data) = size

ObjectAccepted(a, k, w) == DigestMatches(a[k + 3].data, Objects(w)[k].sha, Objects(w)[k].size)

\* verify_artifact_bundle on a file that nobody else writes.
Accepted(a, w) ==
    /\ MetadataAccepted(a, w.head, w.evidence)
    /\ \A k \in DOMAIN Objects(w) : ObjectAccepted(a, k, w)
    /\ a[1].text = Manifest(w, Objects(w))      \* expected_bundle_digest

-----------------------------------------------------------------------------
(***************************************************************************)
(* Building.                                                               *)
(***************************************************************************)
NoBuild == [w |-> NoFile, todo |-> <<>>, before |-> 0, got |-> <<>>, bytes |-> <<>>,
            open |-> FALSE]

NoReader == [phase |-> "idle", w |-> NoFile, stamp |-> 0, at |-> 0, exact |-> FALSE]

Init ==
    /\ PubInit
    /\ src = [id \in DOMAIN InitialData |-> [data |-> InitialData[id], stamp |-> 0]]
    /\ build = [b \in Publishers |-> NoBuild]
    /\ reader = [r \in Readers |-> NoReader]

\* Mutant: in the order of the references.
CopyOrderAsListed(w) == w.refs

\* by_digest: the references of one object after those of another.
CopyOrder(w) ==
    FlattenSeq([k \in DOMAIN Objects(w) |->
                   SelectSeq(w.refs, LAMBDA r : r.sha = Objects(w)[k].sha)])

\* build_artifact_bundle up to the staging file; sources map every ID to a file.
Start(b, w) ==
    /\ ObjectsAdmitted(w) /\ \A i \in DOMAIN w.refs : w.refs[i].id \in DOMAIN src
    /\ OpenStaging(b)
    /\ build' = [build EXCEPT ![b] = [NoBuild EXCEPT !.w = w, !.todo = CopyOrder(w)]]
    /\ UNCHANGED <<src, reader>>

Copying(b) == stage[b] = "filling" /\ build[b].todo # <<>>

\* _copy_source: open, fingerprint, compare the length.
OpenSource(b) ==
    /\ Copying(b) /\ ~build[b].open
    /\ LET ref == Head(build[b].todo)
       IN  /\ Len(src[ref.id].data) = ref.size
           /\ build' = [build EXCEPT ![b].open = TRUE, ![b].before = src[ref.id].stamp,
                                     ![b].got = <<>>]
    /\ UNCHANGED <<pubVars, src, reader>>

ReadChunk(b) ==
    /\ Copying(b) /\ build[b].open
    /\ LET ref == Head(build[b].todo)
           n == Len(build[b].got) + 1
       IN  /\ n <= ref.size /\ n <= Len(src[ref.id].data)
           /\ build' = [build EXCEPT ![b].got = Append(@, src[ref.id].data[n])]
    /\ UNCHANGED <<pubVars, src, reader>>

\* Mutant: duplicates are written too.
EveryReference(b, ref) == TRUE

\* No member has been written for this digest.
NewObject(b, ref) ==
    \A k \in DOMAIN build[b].bytes : Objects(build[b].w)[k].sha # ref.sha

\* The first reference of an object writes the member, the others are only compared.
CloseSource(b) ==
    /\ Copying(b) /\ build[b].open
    /\ LET ref == Head(build[b].todo)
       IN  /\ Len(build[b].got) = ref.size
           /\ src[ref.id].stamp = build[b].before
           /\ DigestMatches(build[b].got, ref.sha, ref.size)
           /\ build' = [build EXCEPT
                            ![b].open = FALSE, ![b].got = <<>>, ![b].before = 0,
                            ![b].todo = Tail(@),
                            ![b].bytes = IF NewObject(b, ref) THEN Append(@, build[b].got) ELSE @]
    /\ UNCHANGED <<pubVars, src, reader>>

\* The staged archive is reopened and verified, and the context ends.
VerifyStaged(b) ==
    /\ stage[b] = "filling" /\ build[b].todo = <<>>
    /\ LET a == Archive(build[b].w, build[b].bytes)
       IN  Accepted(a, build[b].w) /\ Sync(b, [entries |-> a, of |-> build[b].w, stamp |-> 0])
    /\ UNCHANGED <<src, build, reader>>

\* The rest of staged_output; a check that fails ends in Fails.
Around(b) ==
    /\ PublisherNext(b)
    /\ build' = IF stage'[b] \in {"idle", "dead"} THEN [build EXCEPT ![b] = NoBuild] ELSE build
    /\ UNCHANGED <<src, reader>>

-----------------------------------------------------------------------------
(***************************************************************************)
(* Reading.                                                                *)
(***************************************************************************)
\* A reader that retained the heads of w reads the metadata of the archive.
OpenArchive(r, w) ==
    /\ reader[r].phase \in {"idle", "accepted", "rejected"} /\ dest # NoFile
    /\ reader' = [reader EXCEPT ![r] =
           [NoReader EXCEPT !.w = w, !.stamp = dest.stamp,
                !.phase = IF MetadataAccepted(dest.entries, w.head, w.evidence)
                          THEN "objects" ELSE "rejected"]]
    /\ UNCHANGED <<pubVars, src, build>>

\* One object is streamed from the file as it is by now; the directory is the frozen one.
ReadObject(r) ==
    /\ reader[r].phase = "objects"
    /\ LET k == reader[r].at + 1
           w == reader[r].w
       IN  /\ k <= Len(Objects(w))
           /\ reader' = [reader EXCEPT ![r] =
                  IF k + 3 <= Len(dest.entries) /\ ObjectAccepted(dest.entries, k, w)
                  THEN [@ EXCEPT !.at = k] ELSE [@ EXCEPT !.phase = "rejected"]]
    /\ UNCHANGED <<pubVars, src, build>>

\* Mutant: the archive is not looked at again.
UnchangedAssumed(r) == TRUE

\* The fingerprints taken before and after agree.
SameFile(r) == dest.stamp = reader[r].stamp

FinishReading(r) ==
    /\ reader[r].phase = "objects" /\ reader[r].at = Len(Objects(reader[r].w))
    /\ reader' = [reader EXCEPT ![r].phase = IF SameFile(r) THEN "accepted" ELSE "rejected",
                                ![r].exact = dest.entries = Canonical(reader[r].w)]
    /\ UNCHANGED <<pubVars, src, build>>

-----------------------------------------------------------------------------
(***************************************************************************)
(* Everybody else.                                                         *)
(***************************************************************************)
SumStamps == FoldFunction(LAMBDA f, n : f.stamp + n, 0, src)

EditSource(id, data) ==
    /\ \E b \in Publishers : Copying(b)       \* otherwise nobody could notice
    /\ SumStamps < MaxEdits /\ data # src[id].data
    /\ src' = [src EXCEPT ![id] = [data |-> data, stamp |-> @.stamp + 1]]
    /\ UNCHANGED <<pubVars, build, reader>>

\* What becomes of an archive that is written by somebody: members cut, repeated,
\* exchanged, renamed, refilled or added, another workflow's metadata or archive.
Filled(a) == {i \in DOMAIN a : a[i].kind = "object"}

Tampered(a) ==
    {RemoveAt(a, i) : i \in DOMAIN a}
    \cup {InsertAt(a, i, a[i]) : i \in DOMAIN a}
    \cup {[a EXCEPT ![i] = a[i + 1], ![i + 1] = a[i]] : i \in 1..(Len(a) - 1)}
    \cup {[a EXCEPT ![i].plain = FALSE] : i \in DOMAIN a}
    \cup {[a EXCEPT ![i].data = d] : i \in Filled(a), d \in ToSet(DigestOrder)}
    \cup {[a EXCEPT ![i].sha = d] : i \in Filled(a), d \in ToSet(DigestOrder)}
    \cup {Append(a, Object(d, d)) : d \in ToSet(DigestOrder)}
    \cup {[a EXCEPT ![i] = Canonical(w)[i]] : i \in {1, 2, 3} \cap DOMAIN a, w \in Others}
    \cup {Canonical(w) : w \in Others \cup {dest.of}}

Tamper ==
    /\ dest # NoFile /\ dest.stamp < MaxTampers
    /\ \E a \in Tampered(dest.entries) :
           dest' = [dest EXCEPT !.entries = a, !.stamp = @ + 1]
    /\ UNCHANGED <<staging, stage, flag, cause, told, went, src, build, reader>>

Next ==
    \/ \E b \in Publishers :
        \/ \E w \in Workflows : Start(b, w)
        \/ OpenSource(b)
        \/ ReadChunk(b)
        \/ CloseSource(b)
        \/ VerifyStaged(b)
        \/ Around(b)
    \/ \E r \in Readers :
        \/ \E w \in Workflows : OpenArchive(r, w)
        \/ ReadObject(r)
        \/ FinishReading(r)
    \/ \E id \in DOMAIN src, d \in ToSet(DigestOrder) : EditSource(id, d)
    \/ Tamper

Spec == Init /\ [][Next]_vars

-----------------------------------------------------------------------------
(***************************************************************************)
(* Type invariant.                                                         *)
(***************************************************************************)
TypeOK ==
    /\ \A b \in Publishers :
           /\ stage[b] \in {"idle", "naming", "filling", "synced", "taken", "leaving", "dead"}
           /\ build[b].w \in Workflows \cup {NoFile}
           /\ Len(build[b].got) <= MaxArtifactBytes
           /\ build[b].w # NoFile =>
                  Len(build[b].bytes) <= Len(Objects(build[b].w)) /\ Len(build[b].todo) <= MaxArtifacts
    /\ \A r \in Readers :
           /\ reader[r].phase \in {"idle", "objects", "accepted", "rejected"}
           /\ reader[r].at \in 0..MaxArtifacts /\ reader[r].exact \in BOOLEAN
    /\ \A id \in DOMAIN src : src[id].stamp \in 0..MaxEdits

(***************************************************************************)
(* What a builder publishes is the one archive its workflow has, whatever  *)
(* happened to the source files while it copied them.                      *)
(***************************************************************************)
PublishedIsCommitted ==
    dest # NoFile /\ dest.stamp = 0 => dest.entries = Canonical(dest.of)

(***************************************************************************)
(* A reader accepts only the one archive of the workflow whose heads it    *)
(* retained, also when the file is written while it reads.                 *)
(***************************************************************************)
AcceptedIsCommitted ==
    \A r \in Readers : reader[r].phase = "accepted" => reader[r].exact

(***************************************************************************)
(* Copies that passed their own checks always make an archive that passes  *)
(* the verification: what is admitted, planned and written agrees with     *)
(* what is verified, at the limits too.                                    *)
(***************************************************************************)
BuiltIsAccepted ==
    \A b \in Publishers : stage[b] = "filling" /\ build[b].todo = <<>> =>
        Accepted(Archive(build[b].w, build[b].bytes), build[b].w)
=============================================================================
