--------------------------- MODULE SchemaDirectory ---------------------------
(***************************************************************************)
(* Publication and verification of the schema directory                    *)
(* (schema_directory.py).  Exporters build a private staging tree in the   *)
(* parent of the destination, recording the identity of every node they    *)
(* create after creating it, verify it, and rename it to the destination   *)
(* without replacement; a failed export observes what became of its tree,  *)
(* and removes, from the last node to the first, what has the identity it  *)
(* recorded.  Verifiers compare the destination with the installed         *)
(* publication.  Somebody else writes the same directories, also between   *)
(* mkdir and the look that records an identity, and between the last look  *)
(* at a node and its removal.                                              *)
(*                                                                         *)
(* A tree has a root, one version directory and the members in it; "xroot" *)
(* and "xversion" stand for entries that do not belong there.  A node's    *)
(* identity (device and inode) is its name and who created it: an exporter *)
(* creates each of its nodes once, and each change that others make is an  *)
(* owner of its own.  Inode numbers are not used again meanwhile.          *)
(***************************************************************************)
EXTENDS Naturals, FiniteSets

CONSTANTS
    Exporters, Verifiers,
    Members,        \* the files of the publication
    Before,         \* file -> the files that are sorted before it
    MaxForeign,     \* how many changes others make
    NoNode          \* no such entry, or none observed yet

Actors == Exporters \cup Verifiers
Staged == {"root", "version"} \cup Members      \* what an export creates
Nodes == Staged \cup {"xroot", "xversion"}
Paths == Exporters \cup {"destination"}        \* an exporter stands for its staging path

\* An exporter, or one of the changes that others make.
Owners == Exporters \cup 1..MaxForeign

\* A node is its owner, its bytes and its time stamps; they are looked at without the bytes.
Node == [owner: Owners, data: {"good", "bad"}, stamp: Nat]

Observation == [owner: Owners, stamp: Nat]

ASSUME DirectoryAssumption ==
    /\ Exporters \cap Verifiers = {} /\ "destination" \notin Exporters
    /\ Members # {} /\ {"root", "version", "xroot", "xversion"} \cap Members = {}
    /\ \A m, n \in Members : m # n => (m \in Before[n] <=> n \notin Before[m])
    /\ MaxForeign \in Nat /\ Exporters \cap 1..MaxForeign = {}
    /\ NoNode \notin Node \cup Observation \cup Owners

VARIABLES
    tree,           \* path -> node -> NoNode, or what is there
    doing,          \* per actor: where its call stands
    todo,           \* per exporter: the nodes left to create, or to clean up
    identified,     \* per exporter: node -> the owner of what it took for its own
    publication,    \* per exporter: the local `state`
    watch,          \* per actor: the observations of a verification in progress
    answer,         \* per actor: how its last call ended
    acts,           \* how many changes others made
    since,          \* history, per exporter: `acts` at the mkdir or the last look it relies on
    installed,      \* history, per exporter: whose tree its rename put at the destination
    harmed          \* history: an exporter claimed or removed what was there before that

dirVars ==
    <<tree, doing, todo, identified, publication, watch, answer, acts, since, installed, harmed>>

-----------------------------------------------------------------------------
(***************************************************************************)
(* Trees.                                                                  *)
(***************************************************************************)
NoTree == [n \in Nodes |-> NoNode]

Below(n) ==
    CASE n = "root" -> Nodes
      [] n = "version" -> {"version", "xversion"} \cup Members
      [] OTHER -> {n}

Parent(n) == IF n \in {"version", "xroot"} THEN "root" ELSE "version"

Above(n) == {m \in Nodes : n \in Below(m)}

\* Entering or removing an entry changes the time stamps of its directory.
Touch(t, n) ==
    IF n = "root" THEN t ELSE [t EXCEPT ![Parent(n)].stamp = @ + 1]

Add(t, n, who, data) ==
    Touch([t EXCEPT ![n] = [owner |-> who, data |-> data, stamp |-> 0]], n)

\* Mutant: the name is removed, what is below it is forgotten.
DropName(t, n) == Touch([t EXCEPT ![n] = NoNode], n)

Drop(t, n) == Touch([m \in Nodes |-> IF m \in Below(n) THEN NoNode ELSE t[m]], n)

Exists(t, n) == t[n] # NoNode

\* The one expected publication.
Exact(t) ==
    /\ \A n \in {"root", "version"} \cup Members : Exists(t, n)
    /\ \A n \in Members : t[n].data = "good"
    /\ ~Exists(t, "xroot") /\ ~Exists(t, "xversion")

\* _inventory: exactly the expected entries.
Inventory(t, n) ==
    /\ Exists(t, n)
    /\ IF n = "root" THEN Exists(t, "version") /\ ~Exists(t, "xroot")
       ELSE (\A m \in Members : Exists(t, m)) /\ ~Exists(t, "xversion")

\* _version: identity and time stamps.
Version(t, n) == [owner |-> t[n].owner, stamp |-> t[n].stamp]

-----------------------------------------------------------------------------
NoneSeen == [n \in Nodes |-> NoNode]

NoWatch == [path |-> "destination", seen |-> NoneSeen, again |-> {}, exact |-> FALSE]

DirInit ==
    /\ tree = [x \in Paths |-> NoTree]
    /\ doing = [a \in Actors |-> "idle"]
    /\ todo = [p \in Exporters |-> Staged]
    /\ identified = [p \in Exporters |-> NoneSeen]
    /\ publication = [p \in Exporters |-> "unpublished"]
    /\ watch = [a \in Actors |-> NoWatch]
    /\ answer = [a \in Actors |-> "nothing"]
    /\ acts = 0
    /\ since = [p \in Exporters |-> 0]
    /\ installed = [p \in Exporters |-> "none"]
    /\ harmed = FALSE

Goto(a, from, to) == doing[a] = from /\ doing' = [doing EXCEPT ![a] = to]

\* What a verification in progress has witnessed once the trees are `trees`.
Witness(trees, w) ==
    [a \in Actors |->
        IF doing[a] = "verifying"
        THEN [w[a] EXCEPT !.exact = @ \/ Exact(trees[w[a].path])] ELSE w[a]]

-----------------------------------------------------------------------------
(***************************************************************************)
(* verify_schema_directory, for exporters on their staging tree and for    *)
(* verifiers on the destination.                                           *)
(***************************************************************************)
PathOf(a) == IF a \in Exporters THEN a ELSE "destination"

Look(a) == tree[PathOf(a)]

\* The inventory of the root, and then of the version directory; what they observed is kept.
StartVerify(a, from) ==
    /\ Goto(a, from, "verifying") /\ Inventory(Look(a), "root")
    /\ watch' = [watch EXCEPT ![a] =
           [path |-> PathOf(a), seen |-> [NoneSeen EXCEPT !["root"] = Version(Look(a), "root")],
            again |-> {}, exact |-> Exact(Look(a))]]

ListVersion(a) ==
    /\ doing[a] = "verifying" /\ watch[a].seen["version"] = NoNode
    /\ Inventory(Look(a), "version")
    /\ watch' = [watch EXCEPT ![a].seen["version"] = Version(Look(a), "version")]
    /\ UNCHANGED <<tree, doing, todo, identified, publication, answer, acts, since, installed,
                   harmed>>

\* _read_file: the bytes are the expected ones, and the observation is kept.
ReadMember(a, m) ==
    /\ doing[a] = "verifying" /\ watch[a].seen[m] = NoNode
    /\ \A n \in {"version"} \cup Before[m] : watch[a].seen[n] # NoNode
    /\ Exists(Look(a), m) /\ Look(a)[m].data = "good"
    /\ watch' = [watch EXCEPT ![a].seen[m] = Version(Look(a), m)]
    /\ UNCHANGED <<tree, doing, todo, identified, publication, answer, acts, since, installed,
                   harmed>>

\* Mutant: a file is not looked at again once it was read.
NodeUnchangedAssumed(a, n) == TRUE

\* The node is still the one that was observed.
Unchanged(a, n) == Exists(Look(a), n) /\ Version(Look(a), n) = watch[a].seen[n]

\* After the last file was read, each is looked at again.
RecheckMember(a, m) ==
    /\ doing[a] = "verifying" /\ m \notin watch[a].again /\ Before[m] \subseteq watch[a].again
    /\ \A n \in Members : watch[a].seen[n] # NoNode
    /\ Unchanged(a, m)
    /\ watch' = [watch EXCEPT ![a].again = @ \cup {m}]
    /\ UNCHANGED <<tree, doing, todo, identified, publication, answer, acts, since, installed,
                   harmed>>

\* Then the root is listed again, and then the version directory.
RecheckRoot(a) ==
    /\ doing[a] = "verifying" /\ watch[a].again = Members
    /\ Inventory(Look(a), "root") /\ Unchanged(a, "root")
    /\ watch' = [watch EXCEPT ![a].again = @ \cup {"root"}]
    /\ UNCHANGED <<tree, doing, todo, identified, publication, answer, acts, since, installed,
                   harmed>>

Verified(a) ==
    /\ doing[a] = "verifying" /\ watch[a].again = Members \cup {"root"}
    /\ Inventory(Look(a), "version") /\ Version(Look(a), "version") = watch[a].seen["version"]

\* A verifier of the destination; anything that does not hold is an error.
VerifierStarts(v) ==
    /\ StartVerify(v, "idle")
    /\ answer' = [answer EXCEPT ![v] = "nothing"]
    /\ UNCHANGED <<tree, todo, identified, publication, acts, since, installed, harmed>>

VerifierEnds(v, how) ==
    /\ how = "verified" => Verified(v)
    /\ Goto(v, "verifying", "idle")
    /\ answer' = [answer EXCEPT ![v] = how]
    /\ watch' = IF how = "verified" THEN watch ELSE [watch EXCEPT ![v] = NoWatch]
    /\ UNCHANGED <<tree, todo, identified, publication, acts, since, installed, harmed>>

-----------------------------------------------------------------------------
(***************************************************************************)
(* export_schema_directory: the staging tree.                              *)
(***************************************************************************)
\* _Owned.matches, up to the parent of the staging path.  Nodes are never moved below
\* another one, so that the looks from the parents down are worth one at the end.
Owned(p, n) ==
    \A m \in Above(n) :
        /\ identified[p][m] # NoNode
        /\ Exists(tree[p], m) /\ tree[p][m].owner = identified[p][m]

\* The order of `owned`: the directories, then the files.
Earlier(n) ==
    CASE n = "root" -> {}
      [] n = "version" -> {"root"}
      [] OTHER -> {"root", "version"} \cup Before[n]

Turn(p, n) == n \in todo[p] /\ Earlier(n) \cap todo[p] = {}

LastTurn(p, n) == n \in todo[p] /\ todo[p] \ {n} \subseteq Earlier(n)

\* What others put somewhere after the step that p relies on.
Newer(p) == (since[p] + 1)..MaxForeign

\* One export for each exporter: the names and the identities of another one differ.
ExportStarts(p) ==
    /\ answer[p] = "nothing" /\ Goto(p, "idle", "building")
    /\ UNCHANGED <<tree, todo, identified, publication, watch, answer, acts, since, installed,
                   harmed>>

\* _require_owned of the parent.
CheckParent(p, n) ==
    /\ Turn(p, n) /\ Goto(p, "building", "making")
    /\ n # "root" => Owned(p, Parent(n))
    /\ UNCHANGED <<tree, todo, identified, publication, watch, answer, acts, since, installed,
                   harmed>>

\* mkdir, or open with O_EXCL: in whatever is at the parent's path by now.
Make(p, n) ==
    /\ Turn(p, n) /\ Goto(p, "making", "made")
    /\ ~Exists(tree[p], n) /\ (n # "root" => Exists(tree[p], Parent(n)))
    /\ tree' = [tree EXCEPT ![p] = Add(@, n, p, IF n \in Members THEN "bad" ELSE "good")]
    /\ since' = [since EXCEPT ![p] = acts]
    /\ UNCHANGED <<todo, identified, publication, watch, answer, acts, installed, harmed>>

\* The identity of a directory is that of whatever has its name by now.
CaptureDirectory(p, n) ==
    /\ Turn(p, n) /\ n \notin Members /\ Exists(tree[p], n)
    /\ Goto(p, "made", "building")
    /\ identified' = [identified EXCEPT ![p][n] = tree[p][n].owner]
    /\ harmed' = (harmed \/ tree[p][n].owner \notin {p} \cup Newer(p))
    /\ todo' = [todo EXCEPT ![p] = @ \ {n}]
    /\ since' = [since EXCEPT ![p] = 0]
    /\ UNCHANGED <<tree, publication, watch, answer, acts, installed>>

\* That of a file comes from its descriptor.
CaptureFile(p, n) ==
    /\ Turn(p, n) /\ n \in Members
    /\ Goto(p, "made", "opened")
    /\ identified' = [identified EXCEPT ![p][n] = p]
    /\ since' = [since EXCEPT ![p] = 0]
    /\ UNCHANGED <<tree, todo, publication, watch, answer, acts, installed, harmed>>

\* The name still leads to the file, and its bytes are written through the descriptor: what
\* others do in between could as well be done before the look or after the write.
WriteFile(p, n) ==
    /\ Turn(p, n) /\ n \in Members /\ Owned(p, n)
    /\ Goto(p, "opened", "building")
    /\ tree' = [tree EXCEPT ![p][n].data = "good", ![p][n].stamp = @ + 1]
    /\ todo' = [todo EXCEPT ![p] = @ \ {n}]
    /\ UNCHANGED <<identified, publication, watch, answer, acts, since, installed, harmed>>

-----------------------------------------------------------------------------
(***************************************************************************)
(* export_schema_directory: publication.                                   *)
(***************************************************************************)
\* Everything is written: the staging tree is verified like any other.
ExportVerifies(p) ==
    /\ todo[p] = {}
    /\ StartVerify(p, "building")
    /\ UNCHANGED <<tree, todo, identified, publication, answer, acts, since, installed, harmed>>

\* The version directory is still owned; attempted = True
Attempt(p) ==
    /\ Verified(p) /\ Owned(p, "version")
    /\ Goto(p, "verifying", "renaming")
    /\ UNCHANGED <<tree, todo, identified, publication, watch, answer, acts, since, installed,
                   harmed>>

\* Mutant: a rename that replaces.
FreeAssumed == TRUE

\* RENAME_NOREPLACE
DestinationFree == ~Exists(tree["destination"], "root")

\* The directory there has the identity that was recorded for the staging tree.
IsOwnRoot(p, x) == Exists(tree[x], "root") /\ tree[x]["root"].owner = identified[p]["root"]

\* Whatever is at the staging path takes the name.  The acknowledgement may be lost.
Rename(p, acknowledged) ==
    /\ DestinationFree /\ Exists(tree[p], "root")
    /\ Goto(p, "renaming", IF acknowledged THEN "renamed" ELSE "failed after")
    /\ LET moved == [tree EXCEPT !["destination"] = tree[p], ![p] = NoTree]
       IN  tree' = moved /\ watch' = Witness(moved, watch)
    /\ publication' = IF acknowledged THEN [publication EXCEPT ![p] = "published"] ELSE publication
    /\ installed' = [installed EXCEPT ![p] = IF IsOwnRoot(p, p) THEN "own" ELSE "other"]
    /\ UNCHANGED <<todo, identified, answer, acts, since, harmed>>

\* The name was taken, or the call is not available.
RenameRefused(p) ==
    /\ Goto(p, "renaming", "failed after")
    /\ UNCHANGED <<tree, todo, identified, publication, watch, answer, acts, since, installed,
                   harmed>>

\* The directory at the destination is the one that was staged, or another, or the
\* look at it fails.
ExportReturns(p) ==
    /\ IsOwnRoot(p, "destination") /\ Goto(p, "renamed", "idle")
    /\ answer' = [answer EXCEPT ![p] = "returned"]
    /\ UNCHANGED <<tree, todo, identified, publication, watch, acts, since, installed, harmed>>

ExportFindsAnother(p) ==
    /\ Exists(tree["destination"], "root") /\ ~IsOwnRoot(p, "destination")
    /\ Goto(p, "renamed", "reporting")
    /\ publication' = [publication EXCEPT ![p] = "unknown"]
    /\ UNCHANGED <<tree, todo, identified, watch, answer, acts, since, installed, harmed>>

ExportLosesSight(p) ==
    /\ Goto(p, "renamed", "reporting")
    /\ UNCHANGED <<tree, todo, identified, publication, watch, answer, acts, since, installed,
                   harmed>>

\* Any exception before the attempt: the cleanup goes through all reserved names.
ExportFails(p) ==
    /\ doing[p] \in {"building", "making", "made", "opened", "verifying"}
    /\ doing' = [doing EXCEPT ![p] = "failed"]
    /\ todo' = [todo EXCEPT ![p] = Staged]
    /\ since' = [since EXCEPT ![p] = 0]
    /\ UNCHANGED <<tree, identified, publication, watch, answer, acts, installed, harmed>>

\* Mutant: a rename that raised has not happened.
ObservedAssumed(p) == "unpublished"

\* _observe_publication: first the staging path, then the destination.
ObserveStaging(p) ==
    /\ Goto(p, "failed after",
             IF IsOwnRoot(p, p) THEN "still staged"
             ELSE IF Exists(tree[p], "root") THEN "other staged" ELSE "not staged")
    /\ UNCHANGED <<tree, todo, identified, publication, watch, answer, acts, since, installed,
                   harmed>>

Observed(p) ==
    CASE doing[p] = "still staged" /\ ~IsOwnRoot(p, "destination") -> "unpublished"
      [] doing[p] = "not staged" /\ IsOwnRoot(p, "destination") -> "published"
      [] OTHER -> "unknown"

Observe(p) ==
    /\ doing[p] \in {"still staged", "other staged", "not staged"}
    /\ publication' = [publication EXCEPT ![p] = Observed(p)]
    /\ IF Observed(p) = "unpublished"
       THEN doing' = [doing EXCEPT ![p] = "failed"] /\ todo' = [todo EXCEPT ![p] = Staged]
       ELSE doing' = [doing EXCEPT ![p] = "reporting"] /\ UNCHANGED todo
    /\ UNCHANGED <<tree, identified, watch, answer, acts, since, installed, harmed>>

\* Either look fails.
ObservationFails(p) ==
    /\ doing[p] \in {"failed after", "still staged", "other staged", "not staged"}
    /\ publication' = [publication EXCEPT ![p] = "unknown"]
    /\ doing' = [doing EXCEPT ![p] = "reporting"]
    /\ UNCHANGED <<tree, todo, identified, watch, answer, acts, since, installed, harmed>>

-----------------------------------------------------------------------------
(***************************************************************************)
(* _cleanup: each reserved name once, from the last to the first.          *)
(***************************************************************************)
\* Mutant: whatever is at a path the export made up is removed.
RemovableByName(p, n) == Exists(tree[p], n)

\* item.matches()
Removable(p, n) == Owned(p, n)

CleanChecks(p, n) ==
    /\ LastTurn(p, n) /\ Removable(p, n)
    /\ Goto(p, "failed", "removing")
    /\ since' = [since EXCEPT ![p] = acts]
    /\ UNCHANGED <<tree, todo, identified, publication, watch, answer, acts, installed, harmed>>

\* rmdir, which wants an empty directory, or unlink: of whatever has the name by now.
CleanRemoves(p, n) ==
    /\ LastTurn(p, n) /\ Goto(p, "removing", "failed")
    /\ Exists(tree[p], n) /\ \A m \in Below(n) \ {n} : ~Exists(tree[p], m)
    /\ tree' = [tree EXCEPT ![p] = Drop(@, n)]
    /\ harmed' = (harmed \/ tree[p][n].owner \notin {p, identified[p][n]} \cup Newer(p))
    /\ todo' = [todo EXCEPT ![p] = @ \ {n}]
    /\ since' = [since EXCEPT ![p] = 0]
    /\ UNCHANGED <<identified, publication, watch, answer, acts, installed>>

\* Nothing is there, it is not owned, or a look or the removal fails: what is there stays
\* and is reported.
CleanSkips(p, n) ==
    /\ LastTurn(p, n) /\ doing[p] \in {"failed", "removing"}
    /\ doing' = [doing EXCEPT ![p] = "failed"]
    /\ todo' = [todo EXCEPT ![p] = @ \ {n}]
    /\ since' = [since EXCEPT ![p] = 0]
    /\ UNCHANGED <<tree, identified, publication, watch, answer, acts, installed, harmed>>

CleanEnds(p) ==
    /\ todo[p] = {} /\ Goto(p, "failed", "reporting")
    /\ UNCHANGED <<tree, todo, identified, publication, watch, answer, acts, since, installed,
                   harmed>>

Report(p) ==
    /\ Goto(p, "reporting", "idle")
    /\ answer' = [answer EXCEPT ![p] = publication[p]]
    /\ UNCHANGED <<tree, todo, identified, publication, watch, acts, since, installed, harmed>>

-----------------------------------------------------------------------------
(***************************************************************************)
(* Somebody else: a file is rewritten in place, an entry is removed,       *)
(* replaced or added, a whole tree is removed, replaced or put there.  The *)
(* nodes that the change k creates are new.                                *)
(***************************************************************************)
Changed(t, k) ==
    {[t EXCEPT ![n].data = "bad", ![n].stamp = @ + 1] : n \in {m \in Members : Exists(t, m)}}
    \cup {[t EXCEPT ![n].data = "good", ![n].stamp = @ + 1] : n \in {m \in Members : Exists(t, m)}}
    \cup {Drop(t, n) : n \in {m \in Nodes : Exists(t, m)}}
    \cup {Add(Drop(t, n), n, k, "good") : n \in {m \in Nodes : Exists(t, m)}}
    \cup {Add(t, n, k, "good") : n \in {m \in {"xroot", "xversion"} :
                                                 ~Exists(t, m) /\ Exists(t, Parent(m))}}
    \cup (IF Exists(t, "root") THEN {} ELSE {Add(t, "root", k, "good")})

ForeignActs(x) ==
    /\ acts < MaxForeign /\ acts' = acts + 1
    /\ \E t \in Changed(tree[x], acts') :
           LET now == [tree EXCEPT ![x] = t]
           IN  tree' = now /\ watch' = Witness(now, watch)
    /\ UNCHANGED <<doing, todo, identified, publication, answer, since, installed, harmed>>

DirNext ==
    \/ \E v \in Verifiers :
        \/ VerifierStarts(v)
        \/ \E how \in {"verified", "error"} : VerifierEnds(v, how)
    \/ \E a \in Actors :
        \/ ListVersion(a) \/ RecheckRoot(a)
        \/ \E m \in Members : ReadMember(a, m) \/ RecheckMember(a, m)
    \/ \E p \in Exporters :
        \/ ExportStarts(p)
        \/ \E n \in Staged :
            \/ CheckParent(p, n) \/ Make(p, n)
            \/ CaptureDirectory(p, n) \/ CaptureFile(p, n) \/ WriteFile(p, n)
        \/ ExportVerifies(p)
        \/ Attempt(p)
        \/ \E acknowledged \in BOOLEAN : Rename(p, acknowledged)
        \/ RenameRefused(p)
        \/ ExportReturns(p) \/ ExportFindsAnother(p) \/ ExportLosesSight(p)
        \/ ExportFails(p)
        \/ ObserveStaging(p) \/ Observe(p) \/ ObservationFails(p)
        \/ \E n \in Staged : CleanChecks(p, n) \/ CleanRemoves(p, n) \/ CleanSkips(p, n)
        \/ CleanEnds(p)
        \/ Report(p)
    \/ \E x \in Paths : ForeignActs(x)

DirSpec == DirInit /\ [][DirNext]_dirVars

-----------------------------------------------------------------------------
(***************************************************************************)
(* Type invariant.                                                         *)
(***************************************************************************)
DirTypeOK ==
    /\ tree \in [Paths -> [Nodes -> {NoNode} \cup Node]]
    /\ \A x \in Paths, n \in Nodes :
           Exists(tree[x], n) => \A m \in Above(n) : Exists(tree[x], m)
    /\ doing \in [Actors -> {"idle", "building", "making", "made", "opened", "verifying", "renaming",
                             "renamed", "failed", "removing", "failed after", "still staged",
                             "other staged", "not staged", "reporting"}]
    /\ todo \in [Exporters -> SUBSET Staged]
    /\ identified \in [Exporters -> [Nodes -> {NoNode} \cup Owners]]
    /\ publication \in [Exporters -> {"unpublished", "published", "unknown"}]
    /\ watch \in [Actors -> [path: Paths, seen: [Nodes -> {NoNode} \cup Observation],
                             again: SUBSET (Members \cup {"root"}), exact: BOOLEAN]]
    /\ answer \in [Actors -> {"nothing", "verified", "error", "returned", "unpublished",
                              "published", "unknown"}]
    /\ installed \in [Exporters -> {"none", "own", "other"}]
    /\ acts \in 0..MaxForeign /\ since \in [Exporters -> 0..MaxForeign] /\ harmed \in BOOLEAN

\* A directory that was verified, by its exporter or by a verifier, was exactly the
\* publication at one moment of the verification, although it is read file by file
\* while others write it (verify_schema_directory).
VerifiedWasExact ==
    /\ \A p \in Exporters : doing[p] \in {"renaming", "renamed"} => watch[p].exact
    /\ \A v \in Verifiers : answer[v] = "verified" /\ doing[v] = "idle" => watch[v].exact

\* The publication state an export reports is the truth: an export that returns has put
\* its own directory at the destination, "published" means that the rename took what had
\* its staging name there, and "unpublished" that it took nothing, also when its
\* answer was lost (export_schema_directory, SchemaDirectoryPublicationError).
StateTruthful ==
    \A p \in Exporters :
        /\ answer[p] = "returned" => installed[p] = "own"
        /\ answer[p] = "published" => installed[p] # "none"
        /\ answer[p] = "unpublished" => installed[p] = "none"

\* An export takes for its own, and its cleanup removes, nothing that others put at the
\* paths it made up, but for what they exchange between its mkdir and the look that
\* records the identity, or between the last look at a node and its removal; against
\* these two the documentation promises nothing (_make_directory, _cleanup).
CleansOnlyItsOwn == ~harmed

\* A verified tree was exact at one moment, the cleanup removes what the export took for
\* its own, and the publication state an export reports is true (schema_directory.py).
DirectoriesSound == DirTypeOK /\ VerifiedWasExact /\ StateTruthful /\ CleansOnlyItsOwn

\* The destination changes hands only when it is free: no export replaces what another
\* export, or somebody else, put there (_rename_noreplace).
ReplacesNothing ==
    acts' = acts /\ tree'["destination"] # tree["destination"] => tree["destination"] = NoTree
=============================================================================
