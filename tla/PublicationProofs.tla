-------------------------- MODULE PublicationProofs --------------------------
(***************************************************************************)
(* Proofs about Publication, for any number of publishers with and without *)
(* replace=True, and about SchemaDirectory, for any number of exporters    *)
(* and verifiers, any files in the publication and any number of changes   *)
(* that others make.                                                       *)
(***************************************************************************)
EXTENDS Publication, SchemaDirectory, TLAPS

-----------------------------------------------------------------------------
(***************************************************************************)
(* The inductive invariant: what the locals of staged_output say of a call *)
(* at each point of it.                                                    *)
(***************************************************************************)
\* A call that is ready to publish has its own whole bytes in its staging file.
StagedWhole == \A p \in Publishers : stage[p] = "synced" => staging[p] = p

\* Up to the publication nothing has failed and nothing was put anywhere.
BeforeTaking(p) ==
    stage[p] \in {"naming", "filling", "synced"} => cause[p] = "none" /\ ~flag[p] /\ ~went[p]

\* Between the publication and its acknowledgement.
AfterTaking(p) == stage[p] = "taken" => cause[p] = "none" /\ ~flag[p] /\ went[p]

\* In the finally clause `published` is never true too early, and is true when nothing
\* failed; only an interrupt leaves open whether the file went.
WhenLeaving(p) ==
    stage[p] = "leaving" => /\ flag[p] => went[p]
                            /\ cause[p] = "none" => flag[p]
                            /\ cause[p] = "error" => ~went[p]

Locals == \A p \in Publishers : BeforeTaking(p) /\ AfterTaking(p) /\ WhenLeaving(p)

PubInv == PubTypeOK /\ StagedWhole /\ Locals /\ ReportsTruthful

-----------------------------------------------------------------------------
LEMMA PubInitial ==
    ASSUME PublicationAssumption, PubInit
    PROVE  PubInv
BY DEF PublicationAssumption, PubInit, PubInv, PubTypeOK, StagedWhole, Locals, BeforeTaking,
       AfterTaking, WhenLeaving, ReportsTruthful

\* The destination only ever holds whole files, and the other variables keep their types.
LEMMA PubTypeStep ==
    ASSUME PublicationAssumption, PubInv, [PubNext]_pubVars
    PROVE  PubTypeOK' /\ StagedWhole'
<1> USE DEF PubInv, PubTypeOK, StagedWhole, Step
<1>1. CASE UNCHANGED pubVars
  BY <1>1 DEF pubVars
<1>2. CASE RemoveDestination
  BY <1>2 DEF RemoveDestination
<1>3. ASSUME NEW p \in Publishers, OpenStaging(p) PROVE PubTypeOK' /\ StagedWhole'
  BY <1>3 DEF OpenStaging
<1>4. ASSUME NEW p \in Publishers, Sync(p, p) PROVE PubTypeOK' /\ StagedWhole'
  BY <1>4 DEF Sync, Synced
<1>5. ASSUME NEW p \in Publishers, Publish(p) PROVE PubTypeOK' /\ StagedWhole'
  BY <1>5 DEF Publish
<1>6. ASSUME NEW p \in Publishers, Acknowledge(p) PROVE PubTypeOK' /\ StagedWhole'
  BY <1>6 DEF Acknowledge
<1>7. ASSUME NEW p \in Publishers, Fails(p) PROVE PubTypeOK' /\ StagedWhole'
  BY <1>7 DEF Fails
<1>8. ASSUME NEW p \in Publishers, Interrupt(p) PROVE PubTypeOK' /\ StagedWhole'
  BY <1>8 DEF Interrupt
<1>9. ASSUME NEW p \in Publishers, NEW removed \in BOOLEAN, Leave(p, removed)
      PROVE  PubTypeOK' /\ StagedWhole'
  <2>1. Outcome(p, removed) \in {"ok", "error", "interrupt", "published, residue",
                                 "unpublished, residue"}
    BY DEF Outcome, Residue
  <2> QED BY <1>9, <2>1 DEF Leave
<1>10. ASSUME NEW p \in Publishers, Crash(p) PROVE PubTypeOK' /\ StagedWhole'
  BY <1>10 DEF Crash
<1>11. ASSUME NEW p \in Publishers, NameStaging(p) PROVE PubTypeOK' /\ StagedWhole'
  BY <1>11 DEF NameStaging
<1>12. ASSUME NEW p \in Publishers, InterruptCleanup(p) PROVE PubTypeOK' /\ StagedWhole'
  BY <1>12 DEF InterruptCleanup
<1> QED
  BY <1>1, <1>2, <1>3, <1>4, <1>5, <1>6, <1>7, <1>8, <1>9, <1>10, <1>11, <1>12 DEF PubNext,
         PublisherNext

\* A step of one publisher does not touch the locals or the report of another.
LEMMA OthersKeep ==
    ASSUME PubInv, NEW p \in Publishers, OpenStaging(p) \/ Sync(p, p) \/ PublisherNext(p),
           NEW q \in Publishers, q # p
    PROVE  /\ stage'[q] = stage[q] /\ staging'[q] = staging[q] /\ flag'[q] = flag[q]
           /\ cause'[q] = cause[q] /\ told'[q] = told[q] /\ went'[q] = went[q]
BY DEF PubInv, PubTypeOK, OpenStaging, Sync, PublisherNext, NameStaging, Publish, Acknowledge,
       Fails, Interrupt, InterruptCleanup, Leave, Crash, Step

\* The locals and the report of the publisher that takes the step.
LEMMA OwnStep ==
    ASSUME PublicationAssumption, PubInv,
           NEW p \in Publishers, OpenStaging(p) \/ Sync(p, p) \/ PublisherNext(p)
    PROVE  /\ BeforeTaking(p)' /\ AfterTaking(p)' /\ WhenLeaving(p)'
           /\ stage'[p] = "idle" =>
                  /\ told'[p] \in {"ok", "published, residue"} => went'[p]
                  /\ told'[p] = "error" => ~went'[p]
                  /\ told'[p] = "unpublished, residue" /\ cause'[p] # "interrupt" => ~went'[p]
                  /\ staging'[p] # NoFile =>
                         told'[p] \in {"published, residue", "unpublished, residue", "interrupt"}
<1> USE DEF PubInv, PubTypeOK, Locals, BeforeTaking, AfterTaking, WhenLeaving, Step
<1>1. CASE OpenStaging(p)
  BY <1>1 DEF OpenStaging
<1>2. CASE Sync(p, p)
  BY <1>2 DEF Sync
<1>3. CASE Publish(p)
  BY <1>3 DEF Publish
<1>4. CASE Acknowledge(p)
  BY <1>4 DEF Acknowledge
<1>5. CASE Fails(p)
  BY <1>5 DEF Fails
<1>6. CASE Interrupt(p)
  BY <1>6 DEF Interrupt
<1>7. ASSUME NEW removed \in BOOLEAN, Leave(p, removed)
      PROVE  /\ stage'[p] = "idle" /\ cause'[p] = cause[p] /\ went'[p] = went[p]
             /\ told'[p] \in {"ok", "published, residue"} => went[p]
             /\ told'[p] = "error" => ~went[p]
             /\ told'[p] = "unpublished, residue" /\ cause[p] # "interrupt" => ~went[p]
             /\ staging'[p] # NoFile =>
                    told'[p] \in {"published, residue", "unpublished, residue", "interrupt"}
  <2>1. told'[p] = Outcome(p, removed) /\ (removed => staging'[p] = NoFile)
        /\ stage[p] = "leaving" /\ stage'[p] = "idle" /\ UNCHANGED <<flag, cause, went>>
    BY <1>7 DEF Leave
  <2>2. flag[p] \in BOOLEAN /\ cause[p] \in {"none", "error", "interrupt"}
    OBVIOUS
  <2>3. CASE removed
    BY <2>1, <2>2, <2>3 DEF Outcome
  <2>4. CASE ~removed
    BY <2>1, <2>2, <2>4 DEF Outcome, Residue
  <2> QED BY <2>3, <2>4
<1>8. CASE Crash(p)
  BY <1>8 DEF Crash
<1>9. CASE NameStaging(p)
  BY <1>9 DEF NameStaging
<1>10. CASE InterruptCleanup(p)
  BY <1>10 DEF InterruptCleanup
<1> QED
  BY <1>1, <1>2, <1>3, <1>4, <1>5, <1>6, <1>7, <1>8, <1>9, <1>10 DEF PublisherNext

LEMMA PubStep ==
    ASSUME PublicationAssumption, PubInv, [PubNext]_pubVars
    PROVE  PubInv'
<1>1. PubTypeOK' /\ StagedWhole'
  BY PubTypeStep
<1>2. CASE UNCHANGED pubVars \/ RemoveDestination
  <2>1. UNCHANGED <<staging, stage, flag, cause, told, went>>
    BY <1>2 DEF pubVars, RemoveDestination
  <2> QED BY <1>1, <2>1 DEF PubInv, Locals, BeforeTaking, AfterTaking, WhenLeaving, ReportsTruthful
<1>3. ASSUME NEW p \in Publishers, OpenStaging(p) \/ Sync(p, p) \/ PublisherNext(p)
      PROVE  Locals' /\ ReportsTruthful'
  <2> SUFFICES ASSUME NEW q \in Publishers
               PROVE  /\ BeforeTaking(q)' /\ AfterTaking(q)' /\ WhenLeaving(q)'
                      /\ stage'[q] = "idle" =>
                             /\ told'[q] \in {"ok", "published, residue"} => went'[q]
                             /\ told'[q] = "error" => ~went'[q]
                             /\ told'[q] = "unpublished, residue" /\ cause'[q] # "interrupt"
                                    => ~went'[q]
                             /\ staging'[q] # NoFile =>
                                    told'[q] \in {"published, residue", "unpublished, residue", "interrupt"}
    BY DEF Locals, ReportsTruthful
  <2>1. CASE q = p
    BY <1>3, <2>1, OwnStep
  <2>2. CASE q # p
    <3>1. /\ stage'[q] = stage[q] /\ staging'[q] = staging[q] /\ flag'[q] = flag[q]
          /\ cause'[q] = cause[q] /\ told'[q] = told[q] /\ went'[q] = went[q]
      BY <1>3, <2>2, OthersKeep
    <3> QED BY <3>1 DEF PubInv, Locals, BeforeTaking, AfterTaking, WhenLeaving, ReportsTruthful
  <2> QED BY <2>1, <2>2
<1> QED
  BY <1>1, <1>2, <1>3 DEF PubNext, PubInv

LEMMA PubInvariance == ASSUME PublicationAssumption PROVE PubSpec => []PubInv
<1>1. PubInit => PubInv
  BY PubInitial
<1>2. PubInv /\ [PubNext]_pubVars => PubInv'
  BY PubStep
<1> QED BY <1>1, <1>2, PTL DEF PubSpec

(***************************************************************************)
(* For any publishers, failures, deaths and interrupts at any point, the   *)
(* removal of the staging file and the step before its name is known       *)
(* included: success and a report of residue as published mean that the    *)
(* file was put at the destination, an error that it was not, neither      *)
(* success nor an error leaves a staging file, and the destination never   *)
(* holds torn bytes.                                                       *)
(***************************************************************************)
THEOREM PublicationReportsTrue ==
    ASSUME PublicationAssumption PROVE PubSpec => [](PubTypeOK /\ ReportsTruthful)
<1>1. PubInv => PubTypeOK /\ ReportsTruthful
  BY DEF PubInv
<1> QED BY <1>1, PubInvariance, PTL

(***************************************************************************)
(* A publisher without replace=True never takes the name from a file that  *)
(* is there (os.link), whoever else publishes at the same time.            *)
(***************************************************************************)
THEOREM NothingTaken ==
    ASSUME PublicationAssumption PROVE PubSpec => [][TakesWhenFree]_pubVars
<1>1. ASSUME PubInv, [PubNext]_pubVars PROVE [TakesWhenFree]_pubVars
  <2> SUFFICES ASSUME NEW p \in Publishers \ Replacing, dest' = p, dest # p
               PROVE  dest = NoFile
    BY DEF TakesWhenFree
  <2>1. ~RemoveDestination
    BY DEF RemoveDestination, PublicationAssumption
  <2>2. PICK q \in Publishers : Publish(q)
    BY <1>1, <2>1 DEF PubNext, PublisherNext, pubVars, OpenStaging, Sync, NameStaging,
                      Acknowledge, Fails, Interrupt, InterruptCleanup, Leave, Crash
  <2>3. q = p
    BY <1>1, <2>2 DEF Publish, Step, PubInv, StagedWhole
  <2> QED BY <2>2, <2>3 DEF Publish, MayTake
<1> QED BY <1>1, PubInvariance, PTL DEF PubSpec

-----------------------------------------------------------------------------
(***************************************************************************)
(* SchemaDirectory.  The invariant says what every tree is like, who       *)
(* created its directories, what a verification in progress still knows of *)
(* the tree it has looked at, and what the locals of an export say at each *)
(* place of its call.                                                      *)
(***************************************************************************)
\* A tree: a node has everything above it.
Trees == [Nodes -> {NoNode} \cup Node]

Grown(t) ==
    /\ Exists(t, "version") \/ Exists(t, "xroot") => Exists(t, "root")
    /\ Exists(t, "xversion") => Exists(t, "version")
    /\ \A m \in Members : Exists(t, m) => Exists(t, "version")

TreesFit == tree \in [Paths -> Trees] /\ \A x \in Paths : Grown(tree[x])

\* Who created the directories of a tree, and those that were seen of one.
Dirs == {"root", "version"}

OwnersOf(t) == {t[n].owner : n \in {k \in Dirs : Exists(t, k)}}

OwnersIn(s) == {s[n].owner : n \in {k \in Dirs : s[k] # NoNode}}

Known == Exporters \cup 1..acts

\* A directory is at one path only, and that of an export is at its staging path until
\* its rename.
OwnersFit ==
    /\ \A x \in Paths : OwnersOf(tree[x]) \subseteq Known
    /\ \A p \in Exporters : OwnersOf(tree[p]) \cap Exporters \subseteq {p}
    /\ \A q \in OwnersOf(tree["destination"]) \cap Exporters : installed[q] # "none"
    /\ \A p \in Exporters, x \in Paths : x # p => OwnersOf(tree[p]) \cap OwnersOf(tree[x]) = {}

-----------------------------------------------------------------------------
(***************************************************************************)
(* A verification in progress: what the tree t can be after s was seen.    *)
(***************************************************************************)
SameNode(t, s, n) == Exists(t, n) /\ s[n] # NoNode /\ Version(t, n) = s[n]

NotOlder(t, s, n) == Exists(t, n) /\ t[n].owner = s[n].owner => t[n].stamp >= s[n].stamp

RootSeen(t, s) ==
    /\ s["root"] # NoNode /\ NotOlder(t, s, "root")
    /\ SameNode(t, s, "root") => Exists(t, "version") /\ ~Exists(t, "xroot")

MemberSeen(t, s, m) ==
    /\ t[m].owner = s[m].owner /\ t[m].stamp >= s[m].stamp
    /\ t[m].stamp = s[m].stamp => t[m].data = "good"

VersionSeen(t, s) ==
    /\ NotOlder(t, s, "version")
    /\ SameNode(t, s, "version") =>
           /\ ~Exists(t, "xversion")
           /\ \A m \in Members : Exists(t, m) /\ (s[m] # NoNode => MemberSeen(t, s, m))

Watched(t, s) ==
    /\ RootSeen(t, s)
    /\ s["version"] # NoNode => VersionSeen(t, s)
    /\ \A m \in Members : s[m] # NoNode => s["version"] # NoNode

\* What has not been looked at again is still as it was seen.
StillAsSeen(t, s, again) ==
    /\ "root" \notin again => SameNode(t, s, "root")
    /\ SameNode(t, s, "version")
    /\ \A m \in Members \ again : SameNode(t, s, m)

AllSeen(s) == \A n \in Dirs \cup Members : s[n] # NoNode

WatchFits(a) ==
    doing[a] = "verifying" =>
        /\ Watched(Look(a), watch[a].seen) /\ OwnersIn(watch[a].seen) \subseteq Known
        /\ watch[a].path = PathOf(a)
        /\ watch[a].again # {} => AllSeen(watch[a].seen)
        /\ Exact(Look(a)) => watch[a].exact
        /\ AllSeen(watch[a].seen) /\ StillAsSeen(Look(a), watch[a].seen, watch[a].again) =>
               watch[a].exact

\* A directory that was seen at the destination is at no staging path any more.
SeenThere(v) ==
    doing[v] = "verifying" =>
        /\ \A q \in OwnersIn(watch[v].seen) \cap Exporters : installed[q] # "none"
        /\ \A p \in Exporters : OwnersOf(tree[p]) \cap OwnersIn(watch[v].seen) = {}

-----------------------------------------------------------------------------
(***************************************************************************)
(* An export at each place of its call.                                    *)
(***************************************************************************)
Staging == {"building", "making", "made", "opened", "verifying", "renaming", "failed", "removing"}

ExportFits(p) ==
    /\ doing[p] \in Staging => installed[p] = "none" /\ publication[p] = "unpublished"
    /\ doing[p] = "still staged" => installed[p] = "none"
    /\ doing[p] = "renamed" => publication[p] = "published" /\ installed[p] # "none"
    /\ doing[p] = "reporting" => /\ publication[p] = "published" => installed[p] # "none"
                                 /\ publication[p] = "unpublished" => installed[p] = "none"
    /\ doing[p] = "idle" /\ answer[p] = "nothing" =>
           installed[p] = "none" /\ publication[p] = "unpublished"
    /\ doing[p] # "idle" => answer[p] = "nothing"
    /\ installed[p] # "none" => ~IsOwnRoot(p, p)
    /\ IsOwnRoot(p, "destination") => installed[p] = "own"

\* The directory that an export takes for its root is at no staging path of another.
RootFits(p) ==
    /\ identified[p]["root"] \in {NoNode} \cup Known
    /\ identified[p]["root"] \in Exporters => identified[p]["root"] = p
    /\ \A q \in Exporters : q # p => ~IsOwnRoot(p, q)

\* What is at the name that was just made, or just looked at, is that, or newer.
NameFits(p) ==
    /\ since[p] <= acts
    /\ doing[p] = "made" => \A n \in Staged :
           Turn(p, n) /\ Exists(tree[p], n) => tree[p][n].owner \in {p} \cup Newer(p)
    /\ doing[p] = "removing" => \A n \in Staged :
           LastTurn(p, n) /\ Exists(tree[p], n) =>
               tree[p][n].owner \in {p, identified[p][n]} \cup Newer(p)

StateFits(p) ==
    /\ answer[p] = "returned" => installed[p] = "own"
    /\ answer[p] = "published" => installed[p] # "none"
    /\ answer[p] = "unpublished" => installed[p] = "none"

VerifierFits(v) == doing[v] \in {"idle", "verifying"}

DirInv ==
    /\ DirectoriesSound /\ TreesFit /\ OwnersFit
    /\ \A a \in Actors : WatchFits(a)
    /\ \A p \in Exporters : ExportFits(p) /\ RootFits(p) /\ NameFits(p)
    /\ \A v \in Verifiers : VerifierFits(v) /\ SeenThere(v)

\* Names of nodes are different, and what is above, below and around them.
LEMMA NodeNames ==
    /\ \A m \in Members : m # "root" /\ m # "version" /\ m # "xroot" /\ m # "xversion"
    /\ {"root", "version", "xroot", "xversion"} \subseteq Nodes /\ Members \subseteq Nodes
    /\ Below("root") = Nodes /\ Below("version") = {"version", "xversion"} \cup Members
    /\ Below("xroot") = {"xroot"} /\ Below("xversion") = {"xversion"}
    /\ \A m \in Members : Below(m) = {m}
    /\ Parent("version") = "root" /\ Parent("xroot") = "root" /\ Parent("xversion") = "version"
    /\ \A m \in Members : Parent(m) = "version"
BY DirectoryAssumption DEF Nodes, Staged, Below, Parent

LEMMA AboveNodes ==
    /\ Above("root") = {"root"} /\ Above("version") = {"root", "version"}
    /\ Above("xroot") = {"root", "xroot"} /\ Above("xversion") = {"root", "version", "xversion"}
    /\ \A m \in Members : Above(m) = {"root", "version", m}
<1>1. \A n \in Nodes : n \in {"root", "version", "xroot", "xversion"} \cup Members
  BY DEF Nodes, Staged
<1>2. ASSUME NEW n \in Nodes, NEW k \in Nodes
      PROVE  n \in Below(k) <=> k = "root" \/ k = n \/ (k = "version" /\ n \in {"xversion"} \cup Members)
  <2>1. CASE k = "root"
    BY <2>1, NodeNames
  <2>2. CASE k = "version"
    BY <2>2, NodeNames
  <2>3. CASE k \notin {"root", "version"}
    BY <1>1, <2>3, NodeNames
  <2> QED BY <2>1, <2>2, <2>3
<1> QED BY <1>2, NodeNames DEF Above

LEMMA GrownIsClosed ==
    ASSUME NEW t
    PROVE  Grown(t) <=> \A n \in Nodes : Exists(t, n) => \A m \in Above(n) : Exists(t, m)
<1>1. \A n \in Nodes : n \in {"root", "version", "xroot", "xversion"} \cup Members
  BY DEF Nodes, Staged
<1>2. ASSUME Grown(t), NEW n \in Nodes, Exists(t, n), NEW m \in Above(n) PROVE Exists(t, m)
  BY <1>1, <1>2, AboveNodes DEF Grown
<1>3. ASSUME \A n \in Nodes : Exists(t, n) => \A m \in Above(n) : Exists(t, m)
      PROVE  Grown(t)
  BY <1>3, AboveNodes, NodeNames DEF Grown
<1> QED BY <1>2, <1>3

LEMMA TouchFits ==
    ASSUME NEW t \in Trees, NEW n \in Nodes, n # "root", Exists(t, Parent(n))
    PROVE  /\ Touch(t, n) \in Trees
           /\ \A k \in Nodes : k # Parent(n) => Touch(t, n)[k] = t[k]
           /\ Exists(Touch(t, n), Parent(n))
           /\ Touch(t, n)[Parent(n)].owner = t[Parent(n)].owner
           /\ Touch(t, n)[Parent(n)].stamp = t[Parent(n)].stamp + 1
<1> DEFINE dir == Parent(n)
           new == [t[dir] EXCEPT !.stamp = @ + 1]
<1>1. dir \in Nodes
  BY NodeNames DEF Parent
<1>2. t[dir] \in Node
  BY <1>1 DEF Trees, Exists
<1>3. new \in Node /\ new.owner = t[dir].owner /\ new.stamp = t[dir].stamp + 1
  BY <1>2 DEF Node
<1>4. Touch(t, n) = [t EXCEPT ![dir] = new]
  BY DEF Touch
<1> HIDE DEF new
<1> QED BY <1>1, <1>3, <1>4, DirectoryAssumption DEF Trees, Exists

LEMMA AddFits ==
    ASSUME NEW t \in Trees, NEW n \in Nodes, n # "root" => Exists(t, Parent(n)),
           NEW who \in Owners, NEW data \in {"good", "bad"}
    PROVE  /\ Add(t, n, who, data) \in Trees
           /\ Add(t, n, who, data)[n] = [owner |-> who, data |-> data, stamp |-> 0]
           /\ Exists(Add(t, n, who, data), n)
           /\ \A k \in Nodes \ {n} : n = "root" \/ k # Parent(n) => Add(t, n, who, data)[k] = t[k]
           /\ n # "root" => /\ Exists(Add(t, n, who, data), Parent(n))
                            /\ Add(t, n, who, data)[Parent(n)].owner = t[Parent(n)].owner
                            /\ Add(t, n, who, data)[Parent(n)].stamp = t[Parent(n)].stamp + 1
<1> DEFINE node == [owner |-> who, data |-> data, stamp |-> 0]
           one == [t EXCEPT ![n] = node]
<1>1. node \in Node /\ node # NoNode
  BY DirectoryAssumption DEF Node
<1>2. one \in Trees /\ one[n] = node /\ \A k \in Nodes \ {n} : one[k] = t[k]
  BY <1>1 DEF Trees
<1>3. Add(t, n, who, data) = Touch(one, n)
  BY DEF Add
<1>4. n # "root" => Parent(n) # n /\ Parent(n) \in Nodes
  BY NodeNames DEF Parent
<1>5. n # "root" => Exists(one, Parent(n))
  BY <1>2, <1>4 DEF Exists
<1> HIDE DEF one, node
<1>6. CASE n = "root"
  BY <1>1, <1>2, <1>3, <1>6 DEF Touch, Exists, node
<1>7. CASE n # "root"
  BY <1>1, <1>2, <1>3, <1>4, <1>5, <1>7, TouchFits DEF Exists, node
<1> QED BY <1>6, <1>7

LEMMA AddKeeps ==
    ASSUME NEW t \in Trees, NEW n \in Nodes, n # "root" => Exists(t, Parent(n)),
           NEW who \in Owners, NEW data \in {"good", "bad"},
           NEW k \in Nodes \ {n}, n = "root" \/ k # Parent(n)
    PROVE  Add(t, n, who, data)[k] = t[k]
<1> DEFINE added == Add(t, n, who, data)
<1>1. \A m \in Nodes \ {n} : n = "root" \/ m # Parent(n) => added[m] = t[m]
  BY AddFits
<1> HIDE DEF added
<1>2. added[k] = t[k]
  BY <1>1
<1> QED BY <1>2 DEF added

LEMMA DropFits ==
    ASSUME NEW t \in Trees, Grown(t), NEW n \in Nodes, Exists(t, n)
    PROVE  /\ Drop(t, n) \in Trees
           /\ \A k \in Below(n) : ~Exists(Drop(t, n), k)
           /\ \A k \in Nodes \ Below(n) : n = "root" \/ k # Parent(n) => Drop(t, n)[k] = t[k]
           /\ n # "root" => /\ Parent(n) \notin Below(n) /\ Exists(Drop(t, n), Parent(n))
                            /\ Drop(t, n)[Parent(n)].owner = t[Parent(n)].owner
                            /\ Drop(t, n)[Parent(n)].stamp = t[Parent(n)].stamp + 1
<1> DEFINE cut == [m \in Nodes |-> IF m \in Below(n) THEN NoNode ELSE t[m]]
<1>1. cut \in Trees
  BY DEF Trees
<1>2. Drop(t, n) = Touch(cut, n)
  BY DEF Drop
<1>3. Below(n) \subseteq Nodes
  BY NodeNames DEF Below
<1>4. \A k \in Nodes : cut[k] = IF k \in Below(n) THEN NoNode ELSE t[k]
  OBVIOUS
<1> HIDE DEF cut
<1>5. CASE n = "root"
  BY <1>1, <1>2, <1>3, <1>4, <1>5 DEF Touch, Exists
<1>6. CASE n # "root"
  <2>1. Parent(n) \in Nodes /\ Parent(n) \notin Below(n)
    BY <1>6, NodeNames DEF Nodes, Staged
  <2>2. Exists(t, Parent(n))
    BY <1>6, NodeNames DEF Grown, Nodes, Staged
  <2>3. Exists(cut, Parent(n))
    BY <1>4, <2>1, <2>2 DEF Exists
  <2> QED BY <1>1, <1>2, <1>3, <1>4, <1>6, <2>1, <2>3, TouchFits DEF Exists
<1> QED BY <1>5, <1>6

-----------------------------------------------------------------------------
(***************************************************************************)
(* What others do to a tree: u is t after one of their changes.  They      *)
(* create nothing but in a name of their own, `who`, and what they do      *)
(* below a directory shows in its time stamps.                             *)
(***************************************************************************)
SameEntries(t, u, names) == \A k \in names : Exists(u, k) <=> Exists(t, k)

KeptMember(t, u, m) ==
    /\ Exists(t, m) /\ Exists(u, m)
    /\ u[m].owner = t[m].owner /\ u[m].stamp >= t[m].stamp
    /\ u[m].stamp = t[m].stamp => u[m] = t[m]

KeptDirectory(t, u, n, who) ==
    Exists(u, n) /\ u[n].owner # who =>
        Exists(t, n) /\ u[n].owner = t[n].owner /\ u[n].stamp >= t[n].stamp

\* A directory that was there and looks as it did.
SameDirectory(t, u, n, who) ==
    /\ Exists(t, n) /\ Exists(u, n) /\ u[n].owner # who
    /\ Version(t, n) = Version(u, n)

Later(t, u, who) ==
    /\ u \in Trees /\ Grown(u)
    /\ KeptDirectory(t, u, "root", who) /\ KeptDirectory(t, u, "version", who)
    /\ SameDirectory(t, u, "root", who) => SameEntries(t, u, {"version", "xroot"})
    /\ SameDirectory(t, u, "version", who) => SameEntries(t, u, {"xversion"} \cup Members)
    /\ SameDirectory(t, u, "version", who) => \A m \in Members : Exists(u, m) => KeptMember(t, u, m)

LEMMA NodeFacts ==
    ASSUME NEW t \in Trees, NEW n \in Nodes, Exists(t, n)
    PROVE  /\ t[n] \in Node /\ t[n].owner \in Owners /\ t[n].stamp \in Nat
           /\ t[n].data \in {"good", "bad"}
BY DEF Trees, Exists, Node

\* A file is rewritten in place.
LEMMA RewrittenIsLater ==
    ASSUME NEW t \in Trees, Grown(t), NEW m \in Members, Exists(t, m),
           NEW data \in {"good", "bad"}, NEW who \in Owners
    PROVE  Later(t, [t EXCEPT ![m].data = data, ![m].stamp = @ + 1], who)
<1> DEFINE new == [owner |-> t[m].owner, data |-> data, stamp |-> t[m].stamp + 1]
           u == [t EXCEPT ![m] = new]
<1>1. t[m] \in Node /\ m \in Nodes /\ m # "root" /\ m # "version" /\ m # "xroot" /\ m # "xversion"
  BY NodeNames, NodeFacts
<1>2. [t EXCEPT ![m].data = data, ![m].stamp = @ + 1] = u
  <2> DEFINE half == [t[m] EXCEPT !.data = data]
             one == [t EXCEPT ![m] = half]
  <2>1. half = [owner |-> t[m].owner, data |-> data, stamp |-> t[m].stamp]
    BY <1>1 DEF Node
  <2>2. [half EXCEPT !.stamp = @ + 1] = new
    <3> HIDE DEF half
    <3> QED BY <2>1
  <2>3. one \in [Nodes -> {NoNode} \cup Node] /\ one[m] = half
    BY <1>1, <2>1 DEF Trees, Node
  <2>4. [one EXCEPT ![m].stamp = @ + 1] = [one EXCEPT ![m] = new]
    BY <2>2, <2>3
  <2>5. [one EXCEPT ![m] = new] = u
    BY <1>1 DEF Trees
  <2> QED BY <2>4, <2>5
<1>3. new \in Node /\ new # NoNode /\ new.owner = t[m].owner /\ new.stamp = t[m].stamp + 1 /\ t[m].stamp \in Nat
  BY <1>1, DirectoryAssumption DEF Node
<1> HIDE DEF new
<1>4. u \in Trees /\ u[m] = new /\ \A k \in Nodes \ {m} : u[k] = t[k]
  BY <1>1, <1>3 DEF Trees
<1> HIDE DEF u
<1>5. \A k \in Nodes : Exists(u, k) <=> Exists(t, k)
  BY <1>3, <1>4 DEF Exists
<1>6. \A k \in {"root", "version", "xroot", "xversion"} : u[k] = t[k] /\ k \in Nodes
  BY <1>1, <1>4, NodeNames
<1>7. Grown(u)
  BY <1>5, <1>6, NodeNames DEF Grown
<1>8. KeptDirectory(t, u, "root", who) /\ KeptDirectory(t, u, "version", who)
  BY <1>4, <1>5, <1>6, NodeFacts DEF KeptDirectory
<1>9. ASSUME NEW k \in Members, Exists(u, k) PROVE KeptMember(t, u, k)
  <2>1. k \in Nodes /\ Exists(t, k) /\ t[k].stamp \in Nat
    BY <1>5, <1>9, NodeNames, NodeFacts
  <2> QED BY <1>3, <1>4, <1>9, <2>1 DEF KeptMember
<1>10. Later(t, u, who)
  BY <1>4, <1>5, <1>6, <1>7, <1>8, <1>9, NodeNames DEF Later, SameEntries
<1> QED BY <1>2, <1>10

\* An entry is removed.
LEMMA DroppedIsLater ==
    ASSUME NEW t \in Trees, Grown(t), NEW n \in Nodes, Exists(t, n), NEW who \in Owners
    PROVE  Later(t, Drop(t, n), who)
<1> DEFINE u == Drop(t, n)
<1>1. /\ u \in Trees
      /\ \A k \in Below(n) : ~Exists(u, k)
      /\ \A k \in Nodes \ Below(n) : n = "root" \/ k # Parent(n) => u[k] = t[k]
      /\ n # "root" => /\ Parent(n) \notin Below(n) /\ Exists(u, Parent(n))
                       /\ u[Parent(n)].owner = t[Parent(n)].owner
                       /\ u[Parent(n)].stamp = t[Parent(n)].stamp + 1
  BY DropFits
<1> SUFFICES Later(t, u, who)
  OBVIOUS
<1> HIDE DEF u
<1>2. n \in {"root", "version", "xroot", "xversion"} \cup Members
  BY DEF Nodes, Staged
<1>3. \A k \in Nodes : Exists(t, k) => t[k].stamp \in Nat /\ t[k].owner \in Owners
  BY NodeFacts
<1>4. CASE n = "root"
  <2>1. \A k \in Nodes : ~Exists(u, k)
    BY <1>1, <1>4, NodeNames
  <2> QED BY <1>1, <2>1, NodeNames DEF Later, Grown, KeptDirectory, SameDirectory
<1>5. CASE n = "version" \/ n = "xroot"
  <2>1. /\ Parent(n) = "root" /\ Exists(u, "root") /\ Exists(t, "root")
        /\ u["root"].owner = t["root"].owner /\ u["root"].stamp = t["root"].stamp + 1
        /\ t["root"].stamp \in Nat
    BY <1>1, <1>3, <1>5, NodeNames DEF Grown
  <2>2. /\ n = "version" => ~Exists(u, "version") /\ ~Exists(u, "xversion") /\ \A m \in Members : ~Exists(u, m)
        /\ n = "version" => u["xroot"] = t["xroot"]
        /\ n = "xroot" => /\ ~Exists(u, "xroot") /\ u["version"] = t["version"] /\ u["xversion"] = t["xversion"]
                          /\ \A m \in Members : u[m] = t[m]
    BY <1>1, <1>5, <2>1, NodeNames
  <2>3. ~SameDirectory(t, u, "root", who)
    BY <2>1 DEF Version, SameDirectory
  <2>4. Grown(u)
    BY <1>5, <2>1, <2>2 DEF Grown, Exists
  <2>5. KeptDirectory(t, u, "root", who) /\ KeptDirectory(t, u, "version", who)
    BY <1>3, <1>5, <2>1, <2>2, NodeNames DEF KeptDirectory, Exists
  <2>6. Exists(u, "version") => /\ SameEntries(t, u, {"xversion"} \cup Members)
                                /\ \A m \in Members : Exists(u, m) => KeptMember(t, u, m)
    BY <1>3, <1>5, <2>2, NodeNames DEF SameEntries, KeptMember, Exists, SameDirectory
  <2> QED BY <1>1, <2>3, <2>4, <2>5, <2>6 DEF Later, SameDirectory
<1>6. CASE n \in {"xversion"} \cup Members
  <2>1. /\ Parent(n) = "version" /\ Below(n) = {n} /\ Exists(u, "version") /\ Exists(t, "version") /\ Exists(t, "root")
        /\ u["version"].owner = t["version"].owner /\ u["version"].stamp = t["version"].stamp + 1
        /\ t["version"].stamp \in Nat /\ ~Exists(u, n)
    BY <1>1, <1>3, <1>6, NodeNames DEF Grown
  <2>2. \A k \in Nodes \ {n, "version"} : u[k] = t[k]
    BY <1>1, <1>6, <2>1, NodeNames
  <2>3. u["root"] = t["root"] /\ u["xroot"] = t["xroot"]
    BY <1>6, <2>2, NodeNames
  <2>4. \A k \in Nodes : Exists(u, k) => Exists(t, k)
    BY <2>1, <2>2 DEF Exists
  <2>5. Grown(u)
    BY <2>1, <2>3, <2>4, NodeNames DEF Grown, Exists
  <2>6. KeptDirectory(t, u, "root", who) /\ KeptDirectory(t, u, "version", who)
    BY <1>3, <2>1, <2>3, NodeNames DEF KeptDirectory, Exists
  <2>7. ~SameDirectory(t, u, "version", who)
    BY <2>1 DEF Version, SameDirectory
  <2>8. SameEntries(t, u, {"version", "xroot"})
    BY <2>1, <2>3 DEF SameEntries, Exists
  <2> QED BY <1>1, <2>5, <2>6, <2>7, <2>8 DEF Later
<1> QED BY <1>2, <1>4, <1>5, <1>6

\* What somebody else adds, as AddFits says.
LEMMA ForeignAddFits ==
    ASSUME NEW t \in Trees, NEW n \in Nodes, n # "root" => Exists(t, Parent(n)),
           NEW who \in Owners, NEW u, u = Add(t, n, who, "good")
    PROVE  /\ u \in Trees /\ u[n] = [owner |-> who, data |-> "good", stamp |-> 0] /\ Exists(u, n)
           /\ \A k \in Nodes \ {n} : n = "root" \/ k # Parent(n) => u[k] = t[k]
           /\ n # "root" => /\ Exists(u, Parent(n))
                            /\ u[Parent(n)].owner = t[Parent(n)].owner
                            /\ u[Parent(n)].stamp = t[Parent(n)].stamp + 1
<1> DEFINE data == "good"
<1>1. data \in {"good", "bad"}
  OBVIOUS
<1>2. u = Add(t, n, who, data)
  OBVIOUS
<1>3. u[n] = [owner |-> who, data |-> data, stamp |-> 0] => u[n] = [owner |-> who, data |-> "good", stamp |-> 0]
  OBVIOUS
<1> HIDE DEF data
<1> DEFINE added == Add(t, n, who, data)
<1>4. /\ added \in Trees /\ added[n] = [owner |-> who, data |-> data, stamp |-> 0] /\ Exists(added, n)
      /\ \A k \in Nodes \ {n} : n = "root" \/ k # Parent(n) => added[k] = t[k]
  BY <1>1, AddFits
<1>5. n # "root" => /\ Exists(added, Parent(n))
                    /\ added[Parent(n)].owner = t[Parent(n)].owner
                    /\ added[Parent(n)].stamp = t[Parent(n)].stamp + 1
  BY <1>1, AddFits
<1>6. u = added
  BY <1>2
<1> HIDE DEF added
<1> QED BY <1>3, <1>4, <1>5, <1>6

\* An entry is put where there is none.
LEMMA AddedIsLater ==
    ASSUME NEW t \in Trees, Grown(t), NEW n \in {"root", "xroot", "xversion"}, ~Exists(t, n),
           n # "root" => Exists(t, Parent(n)), NEW who \in Owners
    PROVE  Later(t, Add(t, n, who, "good"), who)
<1> DEFINE u == Add(t, n, who, "good")
<1>1. /\ u \in Trees /\ u[n] = [owner |-> who, data |-> "good", stamp |-> 0] /\ Exists(u, n)
      /\ \A k \in Nodes \ {n} : n = "root" \/ k # Parent(n) => u[k] = t[k]
      /\ n # "root" => /\ Exists(u, Parent(n))
                       /\ u[Parent(n)].owner = t[Parent(n)].owner
                       /\ u[Parent(n)].stamp = t[Parent(n)].stamp + 1
  BY ForeignAddFits, NodeNames
<1> SUFFICES Later(t, u, who)
  OBVIOUS
<1> HIDE DEF u
<1>2. \A k \in Nodes : Exists(t, k) => t[k].stamp \in Nat /\ t[k].owner \in Owners
  BY NodeFacts
<1>3. \A k \in Nodes : Exists(t, k) => k # n
  OBVIOUS
<1>4. CASE n = "root"
  <2>1. ~Exists(t, "version") /\ ~Exists(t, "xroot") /\ ~Exists(t, "xversion") /\ \A m \in Members : ~Exists(t, m)
    BY <1>4 DEF Grown
  <2>2. ~Exists(u, "version") /\ ~Exists(u, "xroot") /\ ~Exists(u, "xversion") /\ \A m \in Members : ~Exists(u, m)
    BY <1>1, <1>4, <2>1, NodeNames DEF Exists
  <2>3. u["root"].owner = who
    BY <1>1, <1>4
  <2> QED BY <1>1, <1>4, <2>1, <2>2, <2>3, DirectoryAssumption
          DEF Later, Grown, KeptDirectory, SameDirectory
<1>5. CASE n = "xroot"
  <2>1. /\ Exists(u, "root") /\ Exists(t, "root")
        /\ u["root"].owner = t["root"].owner /\ u["root"].stamp = t["root"].stamp + 1
        /\ t["root"].stamp \in Nat
    BY <1>1, <1>2, <1>5, NodeNames
  <2>2. u["version"] = t["version"] /\ u["xversion"] = t["xversion"] /\ \A m \in Members : u[m] = t[m]
    BY <1>1, <1>5, NodeNames
  <2>3. ~SameDirectory(t, u, "root", who)
    BY <2>1 DEF Version, SameDirectory
  <2>4. Grown(u)
    BY <2>1, <2>2 DEF Grown, Exists
  <2>5. KeptDirectory(t, u, "root", who) /\ KeptDirectory(t, u, "version", who)
    BY <1>2, <2>1, <2>2, NodeNames DEF KeptDirectory, Exists
  <2>6. Exists(u, "version") => /\ SameEntries(t, u, {"xversion"} \cup Members)
                                /\ \A m \in Members : Exists(u, m) => KeptMember(t, u, m)
    BY <1>2, <2>2, NodeNames DEF SameEntries, KeptMember, Exists, SameDirectory
  <2> QED BY <1>1, <2>3, <2>4, <2>5, <2>6 DEF Later, SameDirectory
<1>6. CASE n = "xversion"
  <2>1. /\ Exists(u, "version") /\ Exists(t, "version") /\ Exists(t, "root")
        /\ u["version"].owner = t["version"].owner /\ u["version"].stamp = t["version"].stamp + 1
        /\ t["version"].stamp \in Nat
    BY <1>1, <1>2, <1>6, NodeNames DEF Grown
  <2>2. u["root"] = t["root"] /\ u["xroot"] = t["xroot"] /\ \A m \in Members : u[m] = t[m]
    BY <1>1, <1>6, NodeNames
  <2>3. Grown(u)
    BY <2>1, <2>2 DEF Grown, Exists
  <2>4. KeptDirectory(t, u, "root", who) /\ KeptDirectory(t, u, "version", who)
    BY <1>2, <2>1, <2>2, NodeNames DEF KeptDirectory, Exists
  <2>5. ~SameDirectory(t, u, "version", who)
    BY <2>1 DEF Version, SameDirectory
  <2>6. SameEntries(t, u, {"version", "xroot"})
    BY <2>1, <2>2 DEF SameEntries, Exists
  <2> QED BY <1>1, <2>3, <2>4, <2>5, <2>6 DEF Later, SameDirectory
<1> QED BY <1>4, <1>5, <1>6

\* An entry is replaced.
LEMMA ReplacedIsLater ==
    ASSUME NEW t \in Trees, Grown(t), NEW n \in Nodes, Exists(t, n), NEW who \in Owners
    PROVE  Later(t, Add(Drop(t, n), n, who, "good"), who)
<1> DEFINE c == Drop(t, n)
           u == Add(c, n, who, "good")
<1>1. /\ c \in Trees
      /\ \A k \in Below(n) : ~Exists(c, k)
      /\ \A k \in Nodes \ Below(n) : n = "root" \/ k # Parent(n) => c[k] = t[k]
      /\ n # "root" => /\ Parent(n) \notin Below(n) /\ Exists(c, Parent(n))
                       /\ c[Parent(n)].owner = t[Parent(n)].owner
                       /\ c[Parent(n)].stamp = t[Parent(n)].stamp + 1
  BY DropFits
<1>2. /\ u \in Trees /\ u[n] = [owner |-> who, data |-> "good", stamp |-> 0] /\ Exists(u, n)
      /\ \A k \in Nodes \ {n} : n = "root" \/ k # Parent(n) => u[k] = c[k]
      /\ n # "root" => /\ Exists(u, Parent(n))
                       /\ u[Parent(n)].owner = c[Parent(n)].owner
                       /\ u[Parent(n)].stamp = c[Parent(n)].stamp + 1
  <2> HIDE DEF c
  <2> QED BY <1>1, ForeignAddFits
<1> SUFFICES Later(t, u, who)
  OBVIOUS
<1> HIDE DEF u, c
<1>3. n \in {"root", "version", "xroot", "xversion"} \cup Members
  BY DEF Nodes, Staged
<1>4. \A k \in Nodes : Exists(t, k) => t[k].stamp \in Nat /\ t[k].owner \in Owners
  BY NodeFacts
<1>5. u[n].owner = who
  BY <1>2
<1>6. CASE n = "root"
  <2>1. \A k \in Nodes \ {"root"} : ~Exists(u, k)
    BY <1>1, <1>2, <1>6, NodeNames DEF Exists
  <2>2. /\ ~Exists(u, "version") /\ ~Exists(u, "xroot") /\ ~Exists(u, "xversion")
        /\ \A m \in Members : ~Exists(u, m)
    BY <2>1, NodeNames
  <2> QED BY <1>2, <1>5, <1>6, <2>2 DEF Later, Grown, KeptDirectory, SameDirectory
<1>7. CASE n = "version" \/ n = "xroot"
  <2>1. /\ Parent(n) = "root" /\ Exists(u, "root") /\ Exists(t, "root")
        /\ u["root"].owner = t["root"].owner /\ u["root"].stamp = t["root"].stamp + 2
        /\ t["root"].stamp \in Nat
    BY <1>1, <1>2, <1>4, <1>7, NodeNames DEF Grown
  <2>2. /\ n = "version" => ~Exists(u, "xversion") /\ \A m \in Members : ~Exists(u, m)
        /\ n = "xroot" => /\ u["version"] = t["version"] /\ u["xversion"] = t["xversion"]
                          /\ \A m \in Members : u[m] = t[m]
    BY <1>1, <1>2, <1>7, <2>1, NodeNames DEF Exists
  <2>3. ~SameDirectory(t, u, "root", who)
    BY <2>1 DEF Version, SameDirectory
  <2>5. Grown(u)
    BY <1>7, <2>1, <2>2 DEF Grown, Exists
  <2>6. KeptDirectory(t, u, "root", who) /\ KeptDirectory(t, u, "version", who)
    BY <1>4, <1>5, <1>7, <2>1, <2>2, NodeNames DEF KeptDirectory, Exists
  <2>7. SameDirectory(t, u, "version", who) =>
            /\ SameEntries(t, u, {"xversion"} \cup Members)
            /\ \A m \in Members : Exists(u, m) => KeptMember(t, u, m)
    BY <1>4, <1>5, <1>7, <2>2, NodeNames DEF SameEntries, KeptMember, Exists, SameDirectory
  <2> QED BY <1>2, <2>3, <2>5, <2>6, <2>7 DEF Later
<1>8. CASE n \in {"xversion"} \cup Members
  <2>1. /\ Parent(n) = "version" /\ Below(n) = {n} /\ Exists(u, "version") /\ Exists(t, "version") /\ Exists(t, "root")
        /\ u["version"].owner = t["version"].owner /\ u["version"].stamp = t["version"].stamp + 2
        /\ t["version"].stamp \in Nat
    BY <1>1, <1>2, <1>4, <1>8, NodeNames DEF Grown
  <2>2. \A k \in Nodes \ {n, "version"} : u[k] = t[k]
    BY <1>1, <1>2, <1>8, <2>1, NodeNames
  <2>3. u["root"] = t["root"] /\ u["xroot"] = t["xroot"]
    BY <1>8, <2>2, NodeNames
  <2>4. \A k \in Nodes : Exists(u, k) => Exists(t, k)
    BY <2>1, <2>2 DEF Exists
  <2>5. Grown(u)
    BY <2>1, <2>3, <2>4, NodeNames DEF Grown, Exists
  <2>6. KeptDirectory(t, u, "root", who) /\ KeptDirectory(t, u, "version", who)
    BY <1>4, <2>1, <2>3, NodeNames DEF KeptDirectory, Exists
  <2>7. ~SameDirectory(t, u, "version", who)
    BY <2>1 DEF Version, SameDirectory
  <2>8. SameEntries(t, u, {"version", "xroot"})
    BY <2>1, <2>3 DEF SameEntries, Exists
  <2> QED BY <1>2, <2>5, <2>6, <2>7, <2>8 DEF Later
<1> QED BY <1>3, <1>6, <1>7, <1>8

LEMMA ChangedIsLater ==
    ASSUME NEW t \in Trees, Grown(t), NEW who \in Owners, NEW u \in Changed(t, who)
    PROVE  Later(t, u, who)
<1>0. ASSUME NEW m \in Members, Exists(t, m), NEW data \in {"good", "bad"}
      PROVE  Later(t, [t EXCEPT ![m].data = data, ![m].stamp = @ + 1], who)
  BY <1>0, RewrittenIsLater
<1>1. CASE u \in {[t EXCEPT ![n].data = "bad", ![n].stamp = @ + 1] : n \in {m \in Members : Exists(t, m)}}
  <2>1. PICK m \in Members : Exists(t, m) /\ u = [t EXCEPT ![m].data = "bad", ![m].stamp = @ + 1]
    BY <1>1
  <2> QED BY <1>0, <2>1
<1>2. CASE u \in {[t EXCEPT ![n].data = "good", ![n].stamp = @ + 1] : n \in {m \in Members : Exists(t, m)}}
  <2>1. PICK m \in Members : Exists(t, m) /\ u = [t EXCEPT ![m].data = "good", ![m].stamp = @ + 1]
    BY <1>2
  <2> QED BY <1>0, <2>1
<1>3. CASE u \in {Drop(t, n) : n \in {m \in Nodes : Exists(t, m)}}
  BY <1>3, DroppedIsLater
<1>4. CASE u \in {Add(Drop(t, n), n, who, "good") : n \in {m \in Nodes : Exists(t, m)}}
  BY <1>4, ReplacedIsLater
<1>5. CASE u \in {Add(t, n, who, "good") : n \in {m \in {"xroot", "xversion"} :
                                                     ~Exists(t, m) /\ Exists(t, Parent(m))}}
  BY <1>5, AddedIsLater
<1>6. CASE ~Exists(t, "root") /\ u = Add(t, "root", who, "good")
  BY <1>6, AddedIsLater
<1> QED BY <1>1, <1>2, <1>3, <1>4, <1>5, <1>6 DEF Changed

-----------------------------------------------------------------------------
(***************************************************************************)
(* A verification sees through what others do to its tree.                 *)
(***************************************************************************)
Sights == [Nodes -> {NoNode} \cup Observation]

LEMMA VersionFacts ==
    ASSUME NEW t \in Trees, NEW n \in Nodes, Exists(t, n)
    PROVE  Version(t, n) \in Observation /\ Version(t, n) # NoNode
<1>1. Version(t, n) \in Observation
  BY NodeFacts DEF Version, Observation
<1> QED BY <1>1, DirectoryAssumption

LEMMA SightFacts ==
    ASSUME NEW t \in Trees, NEW s \in Sights, NEW n \in Nodes
    PROVE  /\ s[n] # NoNode => /\ s[n].owner \in Owners /\ s[n].stamp \in Nat
                               /\ s[n] = [owner |-> s[n].owner, stamp |-> s[n].stamp]
           /\ Exists(t, n) => Version(t, n) \in Observation /\ Version(t, n) # NoNode
           /\ Version(t, n) = [owner |-> t[n].owner, stamp |-> t[n].stamp]
           /\ Version(t, n).owner = t[n].owner /\ Version(t, n).stamp = t[n].stamp
<1>1. s[n] # NoNode => s[n] \in Observation
  BY DEF Sights
<1>2. Exists(t, n) => Version(t, n) \in Observation
  BY NodeFacts DEF Version, Observation
<1>3. s[n] \in Observation => s[n] = [owner |-> s[n].owner, stamp |-> s[n].stamp]
  BY DEF Observation
<1> QED BY <1>1, <1>2, <1>3, DirectoryAssumption DEF Observation, Version

LEMMA SameNodeIs ==
    ASSUME NEW t \in Trees, NEW s \in Sights, NEW n \in Nodes
    PROVE  SameNode(t, s, n) <=> /\ Exists(t, n) /\ s[n] # NoNode
                                 /\ t[n].owner = s[n].owner /\ t[n].stamp = s[n].stamp
BY SightFacts DEF SameNode

LEMMA DirectorySeenLater ==
    ASSUME NEW t \in Trees, NEW u \in Trees, NEW s \in Sights, NEW n \in Nodes, NEW who,
           KeptDirectory(t, u, n, who), NotOlder(t, s, n), s[n] # NoNode, s[n].owner # who
    PROVE  /\ NotOlder(u, s, n)
           /\ SameNode(u, s, n) => SameNode(t, s, n) /\ SameDirectory(t, u, n, who)
<1>1. CASE Exists(u, n) /\ u[n].owner = s[n].owner
  <2>1. Exists(t, n) /\ t[n].owner = s[n].owner /\ u[n].stamp >= t[n].stamp /\ t[n].stamp >= s[n].stamp
    BY <1>1 DEF KeptDirectory, NotOlder
  <2>2. t[n].stamp \in Nat /\ u[n].stamp \in Nat /\ s[n].stamp \in Nat
    BY <1>1, <2>1, NodeFacts, SightFacts
  <2>3. u[n].stamp >= s[n].stamp /\ (u[n].stamp = s[n].stamp => t[n].stamp = s[n].stamp)
    BY <2>1, <2>2
  <2>4. t[n].stamp = u[n].stamp => Version(t, n) = Version(u, n)
    BY <1>1, <2>1 DEF Version
  <2> QED BY <1>1, <2>1, <2>3, <2>4, SameNodeIs DEF NotOlder, SameDirectory
<1>2. CASE ~(Exists(u, n) /\ u[n].owner = s[n].owner)
  BY <1>2, SameNodeIs DEF NotOlder
<1> QED BY <1>1, <1>2

LEMMA WatchedLater ==
    ASSUME NEW t \in Trees, NEW u, NEW s \in Sights, NEW who, Watched(t, s), Later(t, u, who),
           who \notin OwnersIn(s)
    PROVE  /\ Watched(u, s)
           /\ SameNode(u, s, "root") => SameNode(t, s, "root")
           /\ s["version"] # NoNode /\ SameNode(u, s, "version") =>
                  /\ SameNode(t, s, "version")
                  /\ \A m \in Members : SameNode(u, s, m) => SameNode(t, s, m)
<1>1. u \in Trees /\ "root" \in Nodes /\ "version" \in Nodes /\ Members \subseteq Nodes
  BY NodeNames DEF Later
<1>0. \A n \in Dirs : s[n] # NoNode => s[n].owner # who
  BY DEF OwnersIn
<1>2. /\ NotOlder(u, s, "root")
      /\ SameNode(u, s, "root") => SameNode(t, s, "root") /\ SameDirectory(t, u, "root", who)
  BY <1>0, <1>1, DirectorySeenLater DEF Watched, RootSeen, Later, Dirs
<1>3. RootSeen(u, s)
  BY <1>2 DEF Watched, RootSeen, Later, SameEntries
<1>4. ASSUME s["version"] # NoNode
      PROVE  /\ VersionSeen(u, s)
             /\ SameNode(u, s, "version") =>
                    /\ SameNode(t, s, "version")
                    /\ \A m \in Members : SameNode(u, s, m) => SameNode(t, s, m)
  <2>1. VersionSeen(t, s)
    BY <1>4 DEF Watched
  <2>2. /\ NotOlder(u, s, "version")
        /\ SameNode(u, s, "version") => SameNode(t, s, "version") /\ SameDirectory(t, u, "version", who)
    BY <1>0, <1>1, <1>4, <2>1, DirectorySeenLater DEF VersionSeen, Later, Dirs
  <2>3. CASE SameNode(u, s, "version")
    <3>1. ~Exists(u, "xversion")
      BY <2>1, <2>2, <2>3 DEF VersionSeen, Later, SameEntries
    <3>2. ASSUME NEW m \in Members
          PROVE  /\ Exists(u, m) /\ (s[m] # NoNode => MemberSeen(u, s, m))
                 /\ SameNode(u, s, m) => SameNode(t, s, m)
      <4>1. Exists(t, m) /\ (s[m] # NoNode => MemberSeen(t, s, m))
        BY <2>1, <2>2, <2>3 DEF VersionSeen
      <4>2. Exists(u, m)
        BY <2>2, <2>3, <4>1 DEF Later, SameEntries
      <4>3. KeptMember(t, u, m)
        BY <2>2, <2>3, <4>2 DEF Later
      <4>4. CASE s[m] = NoNode
        BY <4>2, <4>4 DEF SameNode
      <4>5. CASE s[m] # NoNode
        <5>1. t[m].stamp \in Nat /\ u[m].stamp \in Nat /\ s[m].stamp \in Nat /\ m \in Nodes
          BY <1>1, <4>1, <4>2, <4>5, NodeFacts, SightFacts
        <5>2. t[m].stamp >= s[m].stamp /\ u[m].stamp >= t[m].stamp
          BY <4>1, <4>3, <4>5 DEF MemberSeen, KeptMember
        <5>3. u[m].stamp >= s[m].stamp /\ (u[m].stamp = s[m].stamp => t[m].stamp = s[m].stamp /\ u[m].stamp = t[m].stamp)
          BY <5>1, <5>2
        <5>4. u[m].owner = s[m].owner /\ t[m].owner = s[m].owner
          BY <4>1, <4>3, <4>5 DEF MemberSeen, KeptMember
        <5>5. u[m].stamp = s[m].stamp => u[m].data = "good"
          BY <4>1, <4>3, <4>5, <5>3 DEF MemberSeen, KeptMember
        <5>6. MemberSeen(u, s, m)
          BY <5>3, <5>4, <5>5 DEF MemberSeen
        <5>7. SameNode(u, s, m) => SameNode(t, s, m)
          BY <1>1, <4>1, <4>5, <5>1, <5>3, <5>4, SameNodeIs
        <5> QED BY <4>2, <5>6, <5>7
      <4> QED BY <4>4, <4>5
    <3>3. VersionSeen(u, s)
      BY <2>1, <2>2, <3>1, <3>2 DEF VersionSeen
    <3> QED BY <2>2, <3>2, <3>3
  <2>4. CASE ~SameNode(u, s, "version")
    BY <2>1, <2>2, <2>4 DEF VersionSeen
  <2> QED BY <2>3, <2>4
<1>5. Watched(u, s)
  BY <1>3, <1>4 DEF Watched
<1> QED BY <1>2, <1>4, <1>5

\* What was seen and is still as it was seen, was exact.
LEMMA SeenIsExact ==
    ASSUME NEW t \in Trees, NEW s \in Sights, Watched(t, s), AllSeen(s), StillAsSeen(t, s, {})
    PROVE  Exact(t)
<1>1. SameNode(t, s, "root") /\ SameNode(t, s, "version") /\ \A m \in Members : SameNode(t, s, m)
  BY DEF StillAsSeen
<1>2. Exists(t, "root") /\ Exists(t, "version") /\ ~Exists(t, "xroot")
  BY <1>1 DEF Watched, RootSeen, SameNode
<1>3. VersionSeen(t, s) /\ \A m \in Members : s[m] # NoNode
  BY DEF Watched, AllSeen, Dirs
<1>4. ~Exists(t, "xversion") /\ \A m \in Members : Exists(t, m) /\ MemberSeen(t, s, m)
  BY <1>1, <1>3 DEF VersionSeen
<1>5. \A m \in Members : t[m].data = "good"
  BY <1>1, <1>4, SameNodeIs, NodeNames DEF MemberSeen
<1> QED BY <1>2, <1>4, <1>5 DEF Exact

\* The nodes of a tree that was changed are those it had, or new.
OwnersKept(t, u, who) ==
    \A n \in Nodes : Exists(u, n) => u[n].owner = who \/ (Exists(t, n) /\ u[n].owner = t[n].owner)

LEMMA AddOwners ==
    ASSUME NEW t \in Trees, NEW n \in Nodes, n # "root" => Exists(t, Parent(n)),
           NEW who \in Owners, NEW data \in {"good", "bad"}
    PROVE  OwnersKept(t, Add(t, n, who, data), who)
<1> DEFINE u == Add(t, n, who, data)
<1>1. /\ u[n] = [owner |-> who, data |-> data, stamp |-> 0]
      /\ n # "root" => u[Parent(n)].owner = t[Parent(n)].owner
  BY AddFits
<1>2. \A k \in Nodes \ {n} : n = "root" \/ k # Parent(n) => u[k] = t[k]
  BY AddKeeps
<1> HIDE DEF u
<1>3. u[n].owner = who
  BY <1>1
<1>4. OwnersKept(t, u, who)
  BY <1>1, <1>2, <1>3 DEF OwnersKept, Exists
<1> QED BY <1>4 DEF u

LEMMA DropOwners ==
    ASSUME NEW t \in Trees, Grown(t), NEW n \in Nodes, Exists(t, n), NEW who
    PROVE  OwnersKept(t, Drop(t, n), who)
<1> DEFINE u == Drop(t, n)
<1>1. /\ \A k \in Below(n) : ~Exists(u, k)
      /\ \A k \in Nodes \ Below(n) : n = "root" \/ k # Parent(n) => u[k] = t[k]
      /\ n # "root" => u[Parent(n)].owner = t[Parent(n)].owner
  BY DropFits
<1>2. n # "root" => Exists(t, Parent(n))
  BY NodeNames DEF Grown, Nodes, Staged
<1> HIDE DEF u
<1>3. OwnersKept(t, u, who)
  BY <1>1, <1>2 DEF OwnersKept, Exists
<1> QED BY <1>3 DEF u

LEMMA ChangedOwners ==
    ASSUME NEW t \in Trees, Grown(t), NEW who \in Owners, NEW u \in Changed(t, who)
    PROVE  OwnersKept(t, u, who)
<1>1. ASSUME NEW m \in Members, Exists(t, m), NEW data \in {"good", "bad"},
             u = [t EXCEPT ![m].data = data, ![m].stamp = @ + 1]
      PROVE  OwnersKept(t, u, who)
  <2>1. m \in Nodes /\ t[m] \in Node
    BY <1>1, NodeNames, NodeFacts
  <2>2. \A k \in Nodes \ {m} : u[k] = t[k]
    BY <1>1, <2>1 DEF Trees
  <2>3. u[m].owner = t[m].owner
    BY <1>1, <2>1 DEF Trees, Node
  <2> QED BY <1>1, <2>2, <2>3 DEF OwnersKept, Exists
<1>2. ASSUME NEW n \in Nodes, Exists(t, n), u = Drop(t, n)
      PROVE  OwnersKept(t, u, who)
  BY <1>2, DropOwners
<1>3. ASSUME NEW n \in Nodes, Exists(t, n), u = Add(Drop(t, n), n, who, "good")
      PROVE  OwnersKept(t, u, who)
  <2> DEFINE c == Drop(t, n)
  <2>1. OwnersKept(t, c, who)
    BY <1>3, DropOwners
  <2>2. c \in Trees /\ (n # "root" => Exists(c, Parent(n)))
    BY <1>3, DropFits
  <2>3. u = Add(c, n, who, "good")
    BY <1>3
  <2> HIDE DEF c
  <2>4. OwnersKept(c, u, who)
    BY <2>2, <2>3, AddOwners
  <2> QED BY <2>1, <2>4 DEF OwnersKept
<1>4. ASSUME NEW n \in Nodes, n # "root" => Exists(t, Parent(n)), u = Add(t, n, who, "good")
      PROVE  OwnersKept(t, u, who)
  BY <1>4, AddOwners
<1>5. {"root", "xroot", "xversion"} \subseteq Nodes
  BY NodeNames
<1>7. CASE \E n \in Nodes : Exists(t, n) /\ u \in {Drop(t, n), Add(Drop(t, n), n, who, "good")}
  BY <1>2, <1>3, <1>7
<1>8. CASE \E n \in Nodes : (n # "root" => Exists(t, Parent(n))) /\ u = Add(t, n, who, "good")
  BY <1>4, <1>8
<1>9. CASE u \in {[t EXCEPT ![n].data = "bad", ![n].stamp = @ + 1] : n \in {m \in Members : Exists(t, m)}}
  <2>1. PICK m \in Members : Exists(t, m) /\ u = [t EXCEPT ![m].data = "bad", ![m].stamp = @ + 1]
    BY <1>9
  <2> QED BY <1>1, <2>1
<1>10. CASE u \in {[t EXCEPT ![n].data = "good", ![n].stamp = @ + 1] : n \in {m \in Members : Exists(t, m)}}
  <2>1. PICK m \in Members : Exists(t, m) /\ u = [t EXCEPT ![m].data = "good", ![m].stamp = @ + 1]
    BY <1>10
  <2> QED BY <1>1, <2>1
<1>11. CASE u \in {Drop(t, n) : n \in {m \in Nodes : Exists(t, m)}}
  BY <1>7, <1>11
<1>12. CASE u \in {Add(Drop(t, n), n, who, "good") : n \in {m \in Nodes : Exists(t, m)}}
  BY <1>7, <1>12
<1>13. CASE u \in {Add(t, n, who, "good") : n \in {m \in {"xroot", "xversion"} :
                                                     ~Exists(t, m) /\ Exists(t, Parent(m))}}
  BY <1>5, <1>8, <1>13
<1>14. CASE ~Exists(t, "root") /\ u = Add(t, "root", who, "good")
  BY <1>5, <1>8, <1>14
<1> QED BY <1>9, <1>10, <1>11, <1>12, <1>13, <1>14 DEF Changed

\* The directories of a tree that was changed.
LEMMA KeptOwners ==
    ASSUME NEW t, NEW u, NEW who, OwnersKept(t, u, who)
    PROVE  OwnersOf(u) \subseteq OwnersOf(t) \cup {who}
<1>1. Dirs \subseteq Nodes
  BY NodeNames DEF Dirs
<1> QED BY <1>1 DEF OwnersKept, OwnersOf

\* Nobody sees a tree of which it has seen no directory.
LEMMA WatchedElsewhere ==
    ASSUME NEW u \in Trees, NEW s \in Sights, Watched(NoTree, s),
           OwnersOf(u) \cap OwnersIn(s) = {}
    PROVE  Watched(u, s) /\ ~SameNode(u, s, "root") /\ ~SameNode(u, s, "version")
<1>0. "root" \in Nodes /\ "version" \in Nodes /\ Dirs = {"root", "version"}
  BY NodeNames DEF Dirs
<1>1. ASSUME NEW n \in Dirs, s[n] # NoNode
      PROVE  NotOlder(u, s, n) /\ ~SameNode(u, s, n)
  <2>1. Exists(u, n) => u[n].owner # s[n].owner
    BY <1>1 DEF OwnersOf, OwnersIn
  <2> QED BY <1>0, <1>1, <2>1, SameNodeIs DEF NotOlder
<1>2. RootSeen(u, s) /\ ~SameNode(u, s, "root")
  BY <1>0, <1>1 DEF Watched, RootSeen
<1>3. CASE s["version"] = NoNode
  BY <1>2, <1>3 DEF Watched, SameNode
<1>4. CASE s["version"] # NoNode
  <2>1. VersionSeen(u, s) /\ ~SameNode(u, s, "version")
    BY <1>0, <1>1, <1>4 DEF VersionSeen
  <2> QED BY <1>2, <2>1 DEF Watched
<1> QED BY <1>3, <1>4

-----------------------------------------------------------------------------
(***************************************************************************)
(* Steps that change no tree.                                              *)
(***************************************************************************)
Places == Staging \cup {"idle", "renamed", "failed after", "still staged", "other staged",
                        "not staged", "reporting"}

Answers == {"nothing", "verified", "error", "returned", "unpublished", "published", "unknown"}

Watches == [path: Paths, seen: Sights, again: SUBSET (Members \cup {"root"}), exact: BOOLEAN]

Marks == [Nodes -> {NoNode} \cup Owners]

\* The locals of the calls.
LocalsOK ==
    /\ doing \in [Actors -> Places] /\ answer \in [Actors -> Answers]
    /\ todo \in [Exporters -> SUBSET Staged] /\ identified \in [Exporters -> Marks]
    /\ publication \in [Exporters -> {"unpublished", "published", "unknown"}]
    /\ since \in [Exporters -> 0..MaxForeign]

LEMMA DirTypes ==
    DirTypeOK <=>
        /\ TreesFit /\ LocalsOK
        /\ watch \in [Actors -> Watches] /\ installed \in [Exporters -> {"none", "own", "other"}]
        /\ acts \in 0..MaxForeign /\ harmed \in BOOLEAN
<1>1. (\A x \in Paths, n \in Nodes : Exists(tree[x], n) => \A m \in Above(n) : Exists(tree[x], m))
      <=> \A x \in Paths : Grown(tree[x])
  BY GrownIsClosed
<1>2. Places = {"idle", "building", "making", "made", "opened", "verifying", "renaming",
                "renamed", "failed", "removing", "failed after", "still staged",
                "other staged", "not staged", "reporting"}
  BY DEF Places, Staging
<1> QED BY <1>1, <1>2 DEF DirTypeOK, TreesFit, LocalsOK, Trees, Marks, Watches, Sights, Answers

LEMMA DirTypesNext ==
    ASSUME TreesFit', LocalsOK', watch' \in [Actors -> Watches],
           installed' \in [Exporters -> {"none", "own", "other"}],
           acts' \in 0..MaxForeign, harmed' \in BOOLEAN
    PROVE  DirTypeOK'
<1>1. (\A x \in Paths, n \in Nodes : Exists(tree'[x], n) => \A m \in Above(n) : Exists(tree'[x], m))
      <=> \A x \in Paths : Grown(tree'[x])
  BY GrownIsClosed
<1>2. Places = {"idle", "building", "making", "made", "opened", "verifying", "renaming",
                "renamed", "failed", "removing", "failed after", "still staged",
                "other staged", "not staged", "reporting"}
  BY DEF Places, Staging
<1> QED BY <1>1, <1>2 DEF DirTypeOK, TreesFit, LocalsOK, Trees, Marks, Watches, Sights, Answers

\* The parts of the invariant.
LEMMA Facts ==
    ASSUME DirInv
    PROVE  /\ DirTypeOK /\ TreesFit /\ OwnersFit /\ LocalsOK /\ harmed = FALSE
           /\ watch \in [Actors -> Watches] /\ installed \in [Exporters -> {"none", "own", "other"}]
           /\ acts \in 0..MaxForeign
           /\ \A p \in Exporters : ExportFits(p) /\ RootFits(p) /\ NameFits(p) /\ StateFits(p)
BY DirTypes DEF DirInv, DirectoriesSound, CleansOnlyItsOwn, StateTruthful, StateFits

LEMMA Kinds ==
    /\ Exporters \cap Verifiers = {} /\ Actors = Exporters \cup Verifiers
    /\ "destination" \notin Exporters /\ Paths = Exporters \cup {"destination"}
    /\ NoNode \notin Owners /\ Dirs \subseteq Nodes /\ Staged \subseteq Nodes
    /\ acts \in 0..MaxForeign => Known \subseteq Owners /\ NoNode \notin Known
BY DirectoryAssumption, NodeNames DEF Actors, Paths, Dirs, Nodes, Known, Owners

LEMMA DirStart ==
    ASSUME DirInit
    PROVE  DirInv
<1>1. \A n \in Nodes : ~Exists(NoTree, n)
  BY DEF NoTree, Exists
<1>2. NoTree \in Trees /\ Grown(NoTree) /\ OwnersOf(NoTree) = {}
  BY <1>1, NodeNames, Kinds DEF NoTree, Trees, Grown, OwnersOf
<1>3. \A x \in Paths : tree[x] = NoTree
  BY DEF DirInit
<1>4. TreesFit
  BY <1>2, <1>3 DEF DirInit, TreesFit
<1>5. OwnersFit
  BY <1>2, <1>3, Kinds DEF OwnersFit
<1>6. DirTypeOK
  <2>1. NoneSeen \in Marks /\ NoneSeen \in Sights
    BY DEF NoneSeen, Marks, Sights
  <2>2. NoWatch \in Watches
    BY <2>1 DEF NoWatch, Watches, Paths
  <2>3. 0 \in 0..MaxForeign
    BY DirectoryAssumption
  <2>4. LocalsOK
    BY <2>1, <2>3 DEF DirInit, LocalsOK, Places, Answers
  <2> QED BY <1>4, <2>2, <2>3, <2>4, DirTypes DEF DirInit
<1>7. ASSUME NEW p \in Exporters
      PROVE  ExportFits(p) /\ RootFits(p) /\ NameFits(p) /\ StateFits(p)
  <2>1. \A x \in Paths : ~IsOwnRoot(p, x)
    BY <1>1, <1>3, NodeNames DEF IsOwnRoot
  <2>2. identified[p]["root"] = NoNode
    BY NodeNames DEF DirInit, NoneSeen
  <2>3. ExportFits(p) /\ StateFits(p)
    BY <2>1, Kinds DEF DirInit, ExportFits, StateFits, Staging
  <2>4. RootFits(p)
    BY <2>1, <2>2, Kinds DEF RootFits, Owners
  <2>5. NameFits(p)
    BY Kinds DEF DirInit, NameFits
  <2> QED BY <2>3, <2>4, <2>5
<1> QED BY <1>4, <1>5, <1>6, <1>7, Kinds DEF DirInv, DirectoriesSound, DirInit, WatchFits,
           VerifierFits, SeenThere, VerifiedWasExact, StateTruthful, StateFits, CleansOnlyItsOwn

\* What another step does to an actor, and to an exporter.
SameActor(a) == doing'[a] = doing[a] /\ answer'[a] = answer[a] /\ watch'[a] = watch[a]

SameExporter(q) ==
    /\ todo'[q] = todo[q] /\ identified'[q] = identified[q]
    /\ publication'[q] = publication[q] /\ since'[q] = since[q] /\ installed'[q] = installed[q]

\* An exporter that takes no step, and whose trees do not change.
LEMMA IdleFits ==
    ASSUME DirInv, NEW q \in Exporters, SameActor(q), SameExporter(q), UNCHANGED <<tree, acts>>
    PROVE  ExportFits(q)' /\ StateFits(q)' /\ RootFits(q)' /\ NameFits(q)'
<1>1. ExportFits(q) /\ StateFits(q) /\ RootFits(q) /\ NameFits(q)
  BY Facts
<1>2. \A x : IsOwnRoot(q, x)' <=> IsOwnRoot(q, x)
  BY DEF IsOwnRoot, SameExporter
<1>3. ExportFits(q)' /\ StateFits(q)'
  BY <1>1, <1>2 DEF ExportFits, StateFits, SameActor, SameExporter
<1>4. RootFits(q)'
  BY <1>1, <1>2 DEF RootFits, Known, SameExporter
<1>5. NameFits(q)'
  BY <1>1 DEF NameFits, Turn, LastTurn, Newer, SameActor, SameExporter
<1> QED BY <1>3, <1>4, <1>5

\* An export goes on without touching a tree or verifying one.
LEMMA ControlFits ==
    ASSUME DirInv, NEW p \in Exporters,
           UNCHANGED <<tree, watch, acts, installed>>, LocalsOK', harmed' = FALSE,
           \A a \in Actors \ {p} : doing'[a] = doing[a] /\ answer'[a] = answer[a],
           \A q \in Exporters \ {p} : SameExporter(q),
           doing'[p] # "verifying", doing'[p] \in {"renaming", "renamed"} => watch[p].exact,
           ExportFits(p)', StateFits(p)', RootFits(p)', NameFits(p)'
    PROVE  DirInv'
<1>1. TreesFit' /\ OwnersFit'
  BY Facts DEF TreesFit, OwnersFit, Known
<1>2. DirTypeOK'
  BY <1>1, Facts, DirTypesNext
<1>3. ASSUME NEW a \in Actors PROVE WatchFits(a)'
  <2>1. CASE a = p
    BY <2>1 DEF WatchFits
  <2>2. CASE a # p
    BY <2>2 DEF DirInv, WatchFits, Look, Known
  <2> QED BY <2>1, <2>2
<1>4. ASSUME NEW q \in Exporters
      PROVE  ExportFits(q)' /\ StateFits(q)' /\ RootFits(q)' /\ NameFits(q)'
  <2>1. CASE q # p
    BY <2>1, IdleFits, Kinds DEF SameActor
  <2> QED BY <2>1
<1>5. ASSUME NEW v \in Verifiers PROVE VerifierFits(v)' /\ SeenThere(v)'
  BY <1>5, Kinds DEF DirInv, VerifierFits, SeenThere
<1>6. VerifiedWasExact'
  BY Kinds DEF DirInv, DirectoriesSound, VerifiedWasExact
<1> QED BY <1>1, <1>2, <1>3, <1>4, <1>5, <1>6
        DEF DirInv, DirectoriesSound, StateTruthful, StateFits, CleansOnlyItsOwn

\* An export that only goes on, to a place where nothing is said of a name.
LEMMA PlainFits ==
    ASSUME DirInv, NEW p \in Exporters,
           UNCHANGED <<tree, identified, watch, acts, installed, harmed>>,
           NEW place \in Places \ {"verifying", "renaming", "renamed", "made", "removing"},
           NEW reported \in Answers, NEW state \in {"unpublished", "published", "unknown"},
           NEW left \in SUBSET Staged, NEW relied \in {0, since[p]},
           doing' = [doing EXCEPT ![p] = place], answer' = [answer EXCEPT ![p] = reported],
           publication' = [publication EXCEPT ![p] = state], todo' = [todo EXCEPT ![p] = left],
           since' = [since EXCEPT ![p] = relied],
           ExportFits(p)', StateFits(p)'
    PROVE  DirInv'
<1>1. LocalsOK /\ harmed' = FALSE /\ RootFits(p) /\ NameFits(p) /\ acts \in 0..MaxForeign
  BY Facts
<1>2. since[p] \in 0..MaxForeign /\ 0 \in 0..MaxForeign /\ p \in Actors
  BY <1>1, Kinds, DirectoryAssumption DEF LocalsOK
<1>3. LocalsOK'
  BY <1>1, <1>2 DEF LocalsOK
<1>4. /\ doing'[p] = place /\ since'[p] = relied
      /\ \A a \in Actors \ {p} : doing'[a] = doing[a] /\ answer'[a] = answer[a]
      /\ \A q \in Exporters \ {p} : SameExporter(q)
  BY <1>1, <1>2 DEF LocalsOK, SameExporter
<1>5. RootFits(p)'
  BY <1>1 DEF RootFits, IsOwnRoot, Known
<1>6. NameFits(p)'
  BY <1>1, <1>2, <1>4 DEF NameFits
<1> QED BY <1>1, <1>3, <1>4, <1>5, <1>6, ControlFits

\* Before and after: what is said of an export that does not touch a tree.
LEMMA PlainFacts ==
    ASSUME DirInv, NEW p \in Exporters
    PROVE  /\ ExportFits(p) /\ StateFits(p) /\ p \in Actors
           /\ doing \in [Actors -> Places] /\ answer \in [Actors -> Answers]
           /\ answer[p] \in Answers /\ doing = [doing EXCEPT ![p] = @]
           /\ answer = [answer EXCEPT ![p] = @]
           /\ publication \in [Exporters -> {"unpublished", "published", "unknown"}]
           /\ publication[p] \in {"unpublished", "published", "unknown"}
           /\ publication = [publication EXCEPT ![p] = @]
           /\ todo \in [Exporters -> SUBSET Staged] /\ todo[p] \subseteq Staged
           /\ todo = [todo EXCEPT ![p] = @]
           /\ since \in [Exporters -> 0..MaxForeign] /\ since = [since EXCEPT ![p] = @]
           /\ installed[p] \in {"none", "own", "other"}
<1>1. LocalsOK /\ ExportFits(p) /\ StateFits(p) /\ p \in Actors
      /\ installed \in [Exporters -> {"none", "own", "other"}]
  BY Facts, Kinds
<1> QED BY <1>1 DEF LocalsOK

LEMMA GoesOn ==
    ASSUME DirInv, NEW p \in Exporters,
           \/ ExportStarts(p) \/ RenameRefused(p) \/ ExportLosesSight(p) \/ CleanEnds(p)
           \/ (\E n \in Staged : CheckParent(p, n) \/ CleanSkips(p, n)) \/ ExportFails(p)
    PROVE  DirInv'
<1> DEFINE Changes(place, left, relied) ==
               /\ doing' = [doing EXCEPT ![p] = place] /\ todo' = [todo EXCEPT ![p] = left]
               /\ since' = [since EXCEPT ![p] = relied]
<1>0. UNCHANGED <<tree, identified, watch, acts, installed, harmed, answer, publication>>
  BY DEF ExportStarts, RenameRefused, ExportLosesSight, CleanEnds, CheckParent, CleanSkips,
         ExportFails
<1>1. \E place \in {"building", "making", "failed after", "reporting", "failed"},
         left \in SUBSET Staged, relied \in {0, since[p]} : Changes(place, left, relied)
  <2>1. CASE ExportStarts(p) \/ RenameRefused(p) \/ ExportLosesSight(p) \/ CleanEnds(p)
    <3>1. PICK place \in {"building", "failed after", "reporting"} : Changes(place, todo[p], since[p])
      BY <2>1, PlainFacts DEF ExportStarts, RenameRefused, ExportLosesSight, CleanEnds, Goto
    <3>2. todo[p] \in SUBSET Staged /\ since[p] \in {0, since[p]}
          /\ place \in {"building", "making", "failed after", "reporting", "failed"}
      BY PlainFacts
    <3> HIDE DEF Changes
    <3> QED BY <3>1, <3>2
  <2>2. CASE \E n \in Staged : CheckParent(p, n)
    <3>1. Changes("making", todo[p], since[p])
      BY <2>2, PlainFacts DEF CheckParent, Goto
    <3> HIDE DEF Changes
    <3> QED BY <3>1, PlainFacts
  <2>3. CASE ExportFails(p)
    <3>1. Changes("failed", Staged, 0)
      BY <2>3 DEF ExportFails
    <3> HIDE DEF Changes
    <3> QED BY <3>1
  <2>4. ASSUME NEW n \in Staged, CleanSkips(p, n)
        PROVE  Changes("failed", todo[p] \ {n}, 0)
    BY <2>4 DEF CleanSkips
  <2>5. todo[p] \subseteq Staged
    BY PlainFacts
  <2> HIDE DEF Changes
  <2> QED BY <2>1, <2>2, <2>3, <2>4, <2>5
<1>2. PICK place \in {"building", "making", "failed after", "reporting", "failed"},
           left \in SUBSET Staged, relied \in {0, since[p]} :
           /\ doing' = [doing EXCEPT ![p] = place] /\ todo' = [todo EXCEPT ![p] = left]
           /\ since' = [since EXCEPT ![p] = relied]
  BY <1>1
<1> HIDE DEF Changes
<1>3. ExportFits(p) /\ StateFits(p) /\ StateFits(p)'
  BY <1>0, PlainFacts DEF StateFits
<1>4. (IsOwnRoot(p, p)' <=> IsOwnRoot(p, p)) /\ (IsOwnRoot(p, "destination")' <=> IsOwnRoot(p, "destination"))
  BY <1>0 DEF IsOwnRoot
<1>5. ExportFits(p)'
  <2>1. CASE ExportStarts(p)
    BY <1>0, <1>3, <1>4, <2>1, PlainFacts DEF ExportStarts, Goto, ExportFits, Staging
  <2>2. CASE RenameRefused(p) \/ ExportLosesSight(p) \/ CleanEnds(p)
    BY <1>0, <1>3, <1>4, <2>2, PlainFacts DEF RenameRefused, ExportLosesSight, CleanEnds, Goto,
           ExportFits, Staging
  <2>3. CASE ExportFails(p) \/ \E n \in Staged : CheckParent(p, n) \/ CleanSkips(p, n)
    BY <1>0, <1>3, <1>4, <2>3, PlainFacts DEF ExportFails, CheckParent, CleanSkips, Goto,
           ExportFits, Staging
  <2> QED BY <2>1, <2>2, <2>3
<1>6. answer' = [answer EXCEPT ![p] = answer[p]] /\ publication' = [publication EXCEPT ![p] = publication[p]]
      /\ answer[p] \in Answers /\ publication[p] \in {"unpublished", "published", "unknown"}
  BY <1>0, PlainFacts
<1>7. place \in Places \ {"verifying", "renaming", "renamed", "made", "removing"}
  BY DEF Places, Staging
<1> QED BY <1>0, <1>2, <1>3, <1>5, <1>6, <1>7, PlainFits

LEMMA Answered ==
    ASSUME DirInv, NEW p \in Exporters, ExportReturns(p) \/ Report(p)
    PROVE  DirInv'
<1> DEFINE reported == IF ExportReturns(p) THEN "returned" ELSE publication[p]
<1>1. /\ UNCHANGED <<tree, identified, watch, acts, installed, harmed, todo, since, publication>>
      /\ doing' = [doing EXCEPT ![p] = "idle"] /\ answer' = [answer EXCEPT ![p] = reported]
  BY DEF ExportReturns, Report, Goto
<1>2. "idle" \in Places \ {"verifying", "renaming", "renamed", "made", "removing"} /\ reported \in Answers
  BY PlainFacts DEF Places, Answers
<1>3. (IsOwnRoot(p, p)' <=> IsOwnRoot(p, p)) /\ (IsOwnRoot(p, "destination")' <=> IsOwnRoot(p, "destination"))
  BY <1>1 DEF IsOwnRoot
<1>4. ExportFits(p)' /\ StateFits(p)'
  <2>1. CASE ExportReturns(p)
    BY <1>1, <1>3, <2>1, PlainFacts DEF ExportReturns, Goto, ExportFits, StateFits, Staging
  <2>2. CASE ~ExportReturns(p)
    BY <1>1, <1>3, <2>2, PlainFacts DEF Report, Goto, ExportFits, StateFits, Staging
  <2> QED BY <2>1, <2>2
<1>5. /\ publication' = [publication EXCEPT ![p] = publication[p]]
      /\ todo' = [todo EXCEPT ![p] = todo[p]] /\ since' = [since EXCEPT ![p] = since[p]]
      /\ publication[p] \in {"unpublished", "published", "unknown"} /\ todo[p] \in SUBSET Staged
  BY <1>1, PlainFacts
<1> HIDE DEF reported
<1> QED BY <1>1, <1>2, <1>4, <1>5, PlainFits

LEMMA ObservesFit ==
    ASSUME DirInv, NEW p \in Exporters,
           ExportFindsAnother(p) \/ ObserveStaging(p) \/ Observe(p) \/ ObservationFails(p)
    PROVE  DirInv'
<1>1. /\ UNCHANGED <<tree, identified, watch, acts, installed, harmed, answer, since>>
      /\ doing' = [doing EXCEPT ![p] = doing'[p]]
      /\ doing'[p] \in {"reporting", "failed", "still staged", "other staged", "not staged"}
      /\ publication' = [publication EXCEPT ![p] = publication'[p]]
      /\ publication'[p] \in {"unpublished", "published", "unknown"}
      /\ todo' = [todo EXCEPT ![p] = todo'[p]] /\ todo'[p] \in SUBSET Staged
  BY PlainFacts DEF ExportFindsAnother, ObserveStaging, Observe, Observed, ObservationFails, Goto
<1>2. doing'[p] \in Places \ {"verifying", "renaming", "renamed", "made", "removing"}
  BY <1>1 DEF Places, Staging
<1>3. (IsOwnRoot(p, p)' <=> IsOwnRoot(p, p)) /\ (IsOwnRoot(p, "destination")' <=> IsOwnRoot(p, "destination"))
  BY <1>1 DEF IsOwnRoot
<1>4. StateFits(p)'
  BY <1>1, PlainFacts DEF StateFits
<1>5. ExportFits(p)'
  <2>1. CASE ExportFindsAnother(p) \/ ObservationFails(p)
    BY <1>1, <1>3, <2>1, PlainFacts DEF ExportFindsAnother, ObservationFails, Goto, ExportFits,
           Staging
  <2>2. CASE ObserveStaging(p)
    BY <1>1, <1>3, <2>2, PlainFacts DEF ObserveStaging, Goto, ExportFits, Staging
  <2>3. CASE Observe(p)
    BY <1>1, <1>3, <2>3, PlainFacts DEF Observe, Observed, ExportFits, Staging
  <2> QED BY <2>1, <2>2, <2>3
<1>6. answer' = [answer EXCEPT ![p] = answer[p]] /\ since' = [since EXCEPT ![p] = since[p]]
      /\ answer[p] \in Answers
  BY <1>1, PlainFacts
<1>7. PICK place \in Places \ {"verifying", "renaming", "renamed", "made", "removing"} :
           doing' = [doing EXCEPT ![p] = place]
  BY <1>1, <1>2
<1>8. PICK state \in {"unpublished", "published", "unknown"} :
           publication' = [publication EXCEPT ![p] = state]
  BY <1>1
<1>9. PICK left \in SUBSET Staged : todo' = [todo EXCEPT ![p] = left]
  BY <1>1
<1>10. UNCHANGED <<tree, identified, watch, acts, installed, harmed>>
  BY <1>1
<1> QED BY <1>4, <1>5, <1>6, <1>7, <1>8, <1>9, <1>10, PlainFits

-----------------------------------------------------------------------------
(***************************************************************************)
(* The steps that rely on what has a name.                                 *)
(***************************************************************************)
\* Only one name has its turn.
LEMMA OneTurn ==
    ASSUME NEW p \in Exporters, NEW m \in Staged, NEW n \in Staged
    PROVE  (Turn(p, m) /\ Turn(p, n)) \/ (LastTurn(p, m) /\ LastTurn(p, n)) => m = n
<1>1. ASSUME m # n PROVE m \in Earlier(n) <=> n \notin Earlier(m)
  BY <1>1, NodeNames, DirectoryAssumption DEF Staged, Earlier
<1> QED BY <1>1 DEF Turn, LastTurn

\* What is said of an export that looks at what it just made, or is about to remove.
LEMMA StagingFits ==
    ASSUME DirInv, NEW p \in Exporters, UNCHANGED <<tree, publication, answer, installed>>,
           doing[p] \in Staging, doing'[p] \in Staging, identified'[p]["root"] = identified[p]["root"]
    PROVE  ExportFits(p)' /\ StateFits(p)'
<1>1. \A x : IsOwnRoot(p, x)' <=> IsOwnRoot(p, x)
  BY DEF IsOwnRoot
<1> QED BY <1>1, PlainFacts DEF ExportFits, StateFits, Staging

LEMMA CleanChecksFits ==
    ASSUME DirInv, NEW p \in Exporters, NEW n \in Staged, CleanChecks(p, n)
    PROVE  DirInv'
<1>1. /\ LastTurn(p, n) /\ Owned(p, n) /\ doing[p] = "failed"
      /\ doing' = [doing EXCEPT ![p] = "removing"] /\ since' = [since EXCEPT ![p] = acts]
      /\ UNCHANGED <<tree, todo, identified, publication, watch, answer, acts, installed, harmed>>
  BY DEF CleanChecks, Removable, Goto
<1>2. LocalsOK /\ acts \in 0..MaxForeign /\ p \in Actors /\ harmed' = FALSE /\ RootFits(p)
  BY <1>1, Facts, Kinds
<1>3. LocalsOK'
  BY <1>1, <1>2 DEF LocalsOK, Places, Staging
<1>4. /\ doing'[p] = "removing" /\ since'[p] = acts
      /\ \A a \in Actors \ {p} : doing'[a] = doing[a]
      /\ \A q \in Exporters \ {p} : SameExporter(q)
  BY <1>1, <1>2 DEF LocalsOK, SameExporter
<1>5. RootFits(p)'
  BY <1>1, <1>2 DEF RootFits, IsOwnRoot, Known
<1>6. NameFits(p)'
  <2>1. n \in Above(n)
    BY NodeNames, AboveNodes DEF Staged
  <2>2. tree[p][n].owner = identified[p][n]
    BY <1>1, <2>1 DEF Owned
  <2>3. \A m \in Staged : LastTurn(p, m) => m = n
    BY <1>1, OneTurn
  <2> QED BY <1>1, <1>2, <1>4, <2>2, <2>3 DEF NameFits, LastTurn
<1>7. ExportFits(p)' /\ StateFits(p)'
  BY <1>1, <1>4, StagingFits DEF Staging
<1> QED BY <1>1, <1>2, <1>3, <1>4, <1>5, <1>6, <1>7, ControlFits

\* The identity of a node is recorded.
LEMMA CaptureFits ==
    ASSUME DirInv, NEW p \in Exporters, NEW n \in Staged, NEW owner \in Owners,
           doing[p] = "made", NEW place \in {"building", "opened"}, NEW left \in SUBSET Staged,
           doing' = [doing EXCEPT ![p] = place], todo' = [todo EXCEPT ![p] = left],
           identified' = [identified EXCEPT ![p][n] = owner], since' = [since EXCEPT ![p] = 0],
           harmed' = FALSE, UNCHANGED <<tree, publication, watch, answer, acts, installed>>,
           n = "root" => Exists(tree[p], "root") /\ owner = tree[p]["root"].owner
    PROVE  DirInv'
<1>1. /\ LocalsOK /\ ExportFits(p) /\ StateFits(p) /\ RootFits(p) /\ OwnersFit /\ p \in Actors
      /\ acts \in 0..MaxForeign /\ 0 \in 0..MaxForeign
  BY Facts, Kinds, DirectoryAssumption
<1>2. /\ identified' \in [Exporters -> Marks] /\ identified'[p][n] = owner
      /\ \A m \in Nodes \ {n} : identified'[p][m] = identified[p][m]
      /\ \A q \in Exporters \ {p} : identified'[q] = identified[q]
  <2> DEFINE f == [identified[p] EXCEPT ![n] = owner]
  <2>1. identified \in [Exporters -> Marks] /\ identified[p] \in Marks /\ n \in Nodes
    BY <1>1, Kinds DEF LocalsOK
  <2>2. f \in Marks /\ f[n] = owner /\ \A m \in Nodes \ {n} : f[m] = identified[p][m]
    BY <2>1 DEF Marks
  <2>3. identified' = [identified EXCEPT ![p] = f]
    BY <2>1
  <2> HIDE DEF f
  <2> QED BY <2>1, <2>2, <2>3
<1>3. LocalsOK'
  BY <1>1, <1>2 DEF LocalsOK, Places, Staging
<1>4. /\ doing'[p] = place
      /\ \A a \in Actors \ {p} : doing'[a] = doing[a]
      /\ \A q \in Exporters \ {p} : SameExporter(q)
  BY <1>1, <1>2 DEF LocalsOK, SameExporter
<1>5. NameFits(p)'
  <2>1. since'[p] = 0 /\ acts' >= 0
    BY <1>1 DEF LocalsOK
  <2> QED BY <1>4, <2>1 DEF NameFits
<1>6. installed[p] = "none" /\ publication[p] = "unpublished" /\ answer[p] = "nothing"
  BY <1>1 DEF ExportFits, Staging
<1>7. CASE n # "root"
  <2>1. identified'[p]["root"] = identified[p]["root"]
    BY <1>2, <1>7, NodeNames
  <2>2. ExportFits(p)' /\ StateFits(p)'
    BY <1>4, <2>1, StagingFits DEF Staging
  <2>3. RootFits(p)'
    BY <1>1, <2>1 DEF RootFits, IsOwnRoot, Known
  <2> QED BY <1>1, <1>3, <1>4, <1>5, <2>2, <2>3, ControlFits
<1>8. CASE n = "root"
  <2>1. owner \in OwnersOf(tree[p])
    BY <1>8 DEF OwnersOf, Dirs
  <2>2. ASSUME NEW x \in Paths, x # p PROVE ~IsOwnRoot(p, x)'
    <3>1. owner \notin OwnersOf(tree[x])
      BY <1>1, <2>1, <2>2 DEF OwnersFit
    <3> QED BY <1>2, <1>8, <3>1 DEF IsOwnRoot, OwnersOf, Dirs
  <2>3. ExportFits(p)' /\ StateFits(p)'
    BY <1>1, <1>4, <1>6, <2>2, Kinds DEF ExportFits, StateFits, Staging
  <2>4. RootFits(p)'
    <3>1. owner \in Known /\ (owner \in Exporters => owner = p) /\ Known' = Known
      BY <1>1, <2>1, Kinds DEF OwnersFit, Known
    <3> QED BY <1>2, <1>8, <2>2, <3>1, Kinds DEF RootFits
  <2> QED BY <1>1, <1>3, <1>4, <1>5, <2>3, <2>4, ControlFits
<1> QED BY <1>7, <1>8

LEMMA CapturesFit ==
    ASSUME DirInv, NEW p \in Exporters, NEW n \in Staged, CaptureDirectory(p, n) \/ CaptureFile(p, n)
    PROVE  DirInv'
<1>1. LocalsOK /\ NameFits(p) /\ harmed = FALSE /\ TreesFit /\ todo[p] \subseteq Staged /\ n \in Nodes
  BY Facts, Kinds DEF LocalsOK
<1>2. CASE CaptureDirectory(p, n)
  <2>1. /\ Turn(p, n) /\ Exists(tree[p], n) /\ doing[p] = "made"
        /\ doing' = [doing EXCEPT ![p] = "building"] /\ todo' = [todo EXCEPT ![p] = todo[p] \ {n}]
        /\ identified' = [identified EXCEPT ![p][n] = tree[p][n].owner]
        /\ since' = [since EXCEPT ![p] = 0]
        /\ harmed' = (harmed \/ tree[p][n].owner \notin {p} \cup Newer(p))
        /\ UNCHANGED <<tree, publication, watch, answer, acts, installed>>
    BY <1>2 DEF CaptureDirectory, Goto
  <2>2. harmed' = FALSE
    BY <1>1, <2>1 DEF NameFits
  <2>3. tree[p][n].owner \in Owners
    BY <1>1, <2>1, NodeFacts, Kinds DEF TreesFit
  <2>4. n = "root" => Exists(tree[p], "root") /\ tree[p][n].owner = tree[p]["root"].owner
    BY <2>1
  <2>5. todo[p] \ {n} \in SUBSET Staged
    BY <1>1
  <2> QED BY <2>1, <2>2, <2>3, <2>4, <2>5, CaptureFits
<1>3. CASE CaptureFile(p, n)
  <2>1. /\ n \in Members /\ doing[p] = "made"
        /\ doing' = [doing EXCEPT ![p] = "opened"]
        /\ identified' = [identified EXCEPT ![p][n] = p] /\ since' = [since EXCEPT ![p] = 0]
        /\ UNCHANGED <<tree, todo, publication, watch, answer, acts, installed, harmed>>
    BY <1>3 DEF CaptureFile, Goto
  <2>2. n # "root" /\ p \in Owners /\ todo[p] \in SUBSET Staged
    BY <1>1, <2>1, NodeNames DEF Owners
  <2>3. todo' = [todo EXCEPT ![p] = todo[p]]
    BY <1>1, <2>1 DEF LocalsOK
  <2> QED BY <1>1, <2>1, <2>2, <2>3, CaptureFits
<1> QED BY <1>2, <1>3

-----------------------------------------------------------------------------
(***************************************************************************)
(* Steps that change a tree.                                               *)
(***************************************************************************)
\* An exporter changes its own staging tree.
LEMMA OwnTreeFits ==
    ASSUME DirInv, NEW p \in Exporters, NEW u \in Trees, Grown(u), OwnersKept(tree[p], u, p),
           tree' = [tree EXCEPT ![p] = u],
           doing[p] \in Staging \ {"verifying"}, doing'[p] \in Staging \ {"verifying", "renaming"},
           \A a \in Actors \ {p} : doing'[a] = doing[a],
           LocalsOK', harmed' = FALSE, NameFits(p)', \A q \in Exporters \ {p} : SameExporter(q),
           UNCHANGED <<identified, publication, watch, answer, acts, installed>>
    PROVE  DirInv'
<1>1. /\ DirTypeOK /\ TreesFit /\ OwnersFit
      /\ ExportFits(p) /\ StateFits(p) /\ installed[p] = "none" /\ answer[p] = "nothing"
  BY Facts DEF ExportFits, Staging
<1>2. tree' \in [Paths -> Trees] /\ tree'[p] = u /\ \A x \in Paths \ {p} : tree'[x] = tree[x]
  BY <1>1, Kinds DEF TreesFit
<1>3. TreesFit'
  BY <1>1, <1>2 DEF TreesFit
<1>4. OwnersOf(u) \subseteq OwnersOf(tree[p]) \cup {p}
  BY KeptOwners
<1>5. \A x \in Paths \ {p} : p \notin OwnersOf(tree[x])
  BY <1>1, Kinds DEF OwnersFit
<1>6. OwnersFit'
  <2>1. Known' = Known /\ p \in Known
    BY DEF Known
  <2>2. \A x \in Paths : OwnersOf(tree'[x]) \subseteq Known
    BY <1>1, <1>2, <1>4, <2>1 DEF OwnersFit
  <2>3. \A q \in Exporters : OwnersOf(tree'[q]) \cap Exporters \subseteq {q}
    BY <1>1, <1>2, <1>4, Kinds DEF OwnersFit
  <2>4. \A q \in OwnersOf(tree'["destination"]) \cap Exporters : installed'[q] # "none"
    BY <1>1, <1>2, Kinds DEF OwnersFit
  <2>5. ASSUME NEW q \in Exporters, NEW x \in Paths, x # q
        PROVE  OwnersOf(tree'[q]) \cap OwnersOf(tree'[x]) = {}
    <3>1. OwnersOf(tree[q]) \cap OwnersOf(tree[x]) = {}
      BY <1>1, <2>5 DEF OwnersFit
    <3> QED BY <1>2, <1>4, <1>5, <2>5, <3>1, Kinds
  <2> QED BY <2>1, <2>2, <2>3, <2>4, <2>5 DEF OwnersFit
<1>7. DirTypeOK'
  BY <1>3, Facts, DirTypesNext
<1>8. ASSUME NEW a \in Actors PROVE WatchFits(a)'
  <2>1. CASE a = p
    BY <2>1 DEF WatchFits
  <2>2. CASE a # p
    <3>1. Look(a)' = Look(a)
      BY <1>2, <2>2, Kinds DEF Look, PathOf
    <3> QED BY <2>2, <3>1 DEF DirInv, WatchFits, PathOf, Known
  <2> QED BY <2>1, <2>2
<1>9. ASSUME NEW q \in Exporters PROVE ExportFits(q)' /\ RootFits(q)' /\ NameFits(q)'
  <2>1. ExportFits(q) /\ RootFits(q) /\ NameFits(q) /\ (IsOwnRoot(q, "destination")' <=> IsOwnRoot(q, "destination"))
    BY <1>2, Facts, Kinds DEF IsOwnRoot
  <2>2. \A r \in Exporters \ {p} : IsOwnRoot(q, r)' <=> IsOwnRoot(q, r)
    BY <1>2, Kinds DEF IsOwnRoot
  <2>3. CASE q = p
    BY <1>1, <2>1, <2>2, <2>3 DEF ExportFits, RootFits, Known, Staging
  <2>4. CASE q # p
    <3>1. ~IsOwnRoot(q, p)'
      <4>1. Exists(u, "root") => u["root"].owner = p \/ (Exists(tree[p], "root") /\ u["root"].owner = tree[p]["root"].owner)
        BY NodeNames DEF OwnersKept
      <4> QED BY <1>2, <2>1, <2>4, <4>1 DEF RootFits, IsOwnRoot
    <3>2. doing'[q] = doing[q] /\ SameExporter(q) /\ tree'[q] = tree[q]
      BY <1>2, <2>4, Kinds
    <3>3. ExportFits(q)'
      BY <2>1, <2>2, <2>4, <3>2 DEF ExportFits
    <3>4. RootFits(q)'
      BY <2>1, <2>2, <3>1 DEF RootFits, Known
    <3>5. NameFits(q)'
      BY <2>1, <3>2 DEF NameFits, Turn, LastTurn, Newer, SameExporter
    <3> QED BY <3>3, <3>4, <3>5
  <2> QED BY <2>3, <2>4
<1>10. ASSUME NEW v \in Verifiers PROVE VerifierFits(v)' /\ SeenThere(v)'
  <2>1. VerifierFits(v) /\ SeenThere(v) /\ doing'[v] = doing[v]
    BY Kinds DEF DirInv
  <2>2. ASSUME doing[v] = "verifying", NEW q \in Exporters
        PROVE  OwnersOf(tree'[q]) \cap OwnersIn(watch[v].seen) = {}
    <3>1. OwnersOf(tree[q]) \cap OwnersIn(watch[v].seen) = {} /\ p \notin OwnersIn(watch[v].seen)
      BY <1>1, <2>1, <2>2 DEF SeenThere
    <3> QED BY <1>2, <1>4, <3>1, Kinds
  <2> QED BY <2>1, <2>2 DEF VerifierFits, SeenThere
<1>11. VerifiedWasExact' /\ StateTruthful'
  BY Kinds DEF DirInv, DirectoriesSound, VerifiedWasExact, StateTruthful, Staging
<1> QED BY <1>3, <1>6, <1>7, <1>8, <1>9, <1>10, <1>11 DEF DirInv, DirectoriesSound, CleansOnlyItsOwn

\* A node is added to the staging tree.
LEMMA MakeFits ==
    ASSUME DirInv, NEW p \in Exporters, NEW n \in Staged, Make(p, n)
    PROVE  DirInv'
<1> DEFINE t == tree[p]
           data == IF n \in Members THEN "bad" ELSE "good"
           u == Add(t, n, p, data)
<1>1. /\ Turn(p, n) /\ doing[p] = "making" /\ doing' = [doing EXCEPT ![p] = "made"]
      /\ ~Exists(t, n) /\ (n # "root" => Exists(t, Parent(n)))
      /\ tree' = [tree EXCEPT ![p] = u] /\ since' = [since EXCEPT ![p] = acts]
      /\ UNCHANGED <<todo, identified, publication, watch, answer, acts, installed, harmed>>
  BY DEF Make, Goto
<1>2. /\ t \in Trees /\ Grown(t) /\ LocalsOK /\ harmed = FALSE /\ acts \in 0..MaxForeign
      /\ tree \in [Paths -> Trees] /\ p \in Paths /\ p \in Actors /\ p \in Owners /\ n \in Nodes
  BY Facts, Kinds DEF TreesFit, Owners
<1>3. data \in {"good", "bad"}
  OBVIOUS
<1> HIDE DEF t, data
<1>4. /\ u \in Trees /\ u[n] = [owner |-> p, data |-> data, stamp |-> 0] /\ Exists(u, n)
      /\ n # "root" => Exists(u, Parent(n))
  BY <1>1, <1>2, <1>3, AddFits
<1>5. \A k \in Nodes \ {n} : n = "root" \/ k # Parent(n) => u[k] = t[k]
  BY <1>1, <1>2, <1>3, AddKeeps
<1>6. OwnersKept(t, u, p)
  BY <1>1, <1>2, <1>3, AddOwners
<1> HIDE DEF u
<1>7. Grown(u)
  <2>1. CASE n = "root"
    <3>1. /\ ~Exists(u, "version") /\ ~Exists(u, "xroot") /\ ~Exists(u, "xversion")
          /\ \A m \in Members : ~Exists(u, m)
      BY <1>1, <1>2, <1>5, <2>1, NodeNames DEF Grown, Exists
    <3> QED BY <3>1 DEF Grown
  <2>2. CASE n = "version"
    <3>1. Exists(u, "root") /\ ~Exists(u, "xversion") /\ \A m \in Members : ~Exists(u, m)
      BY <1>1, <1>2, <1>4, <1>5, <2>2, NodeNames DEF Grown, Exists
    <3> QED BY <3>1 DEF Grown
  <2>3. CASE n \in Members
    <3>1. Exists(u, "version") /\ u["root"] = t["root"] /\ Exists(t, "version")
      BY <1>1, <1>4, <1>5, <2>3, NodeNames
    <3> QED BY <1>2, <3>1 DEF Grown, Exists
  <2> QED BY <2>1, <2>2, <2>3 DEF Staged
<1>8. /\ doing'[p] = "made" /\ since'[p] = acts /\ tree'[p] = u
      /\ \A a \in Actors \ {p} : doing'[a] = doing[a]
      /\ \A q \in Exporters \ {p} : SameExporter(q)
  BY <1>1, <1>2 DEF LocalsOK, SameExporter
<1>9. LocalsOK'
  BY <1>1, <1>2 DEF LocalsOK, Places, Staging
<1>10. NameFits(p)'
  <2>1. u[n].owner = p /\ \A m \in Staged : Turn(p, m) => m = n
    BY <1>1, <1>4, OneTurn
  <2> QED BY <1>1, <1>2, <1>8, <2>1 DEF NameFits, Turn
<1>11. harmed' = FALSE /\ doing[p] \in Staging \ {"verifying"} /\ doing'[p] \in Staging \ {"verifying", "renaming"}
  BY <1>1, <1>2, <1>8 DEF Staging
<1>12. OwnersKept(tree[p], u, p)
  BY <1>6 DEF t
<1> QED BY <1>1, <1>4, <1>7, <1>8, <1>9, <1>10, <1>11, <1>12, OwnTreeFits

\* The bytes of a file are written.
LEMMA WriteFits ==
    ASSUME DirInv, NEW p \in Exporters, NEW n \in Staged, WriteFile(p, n)
    PROVE  DirInv'
<1> DEFINE t == tree[p]
           u == [t EXCEPT ![n].data = "good", ![n].stamp = @ + 1]
<1>1. /\ n \in Members /\ Owned(p, n) /\ doing[p] = "opened" /\ doing' = [doing EXCEPT ![p] = "building"]
      /\ todo' = [todo EXCEPT ![p] = @ \ {n}]
      /\ UNCHANGED <<identified, publication, watch, answer, acts, since, installed, harmed>>
  BY DEF WriteFile, Goto
<1>2. /\ t \in Trees /\ Grown(t) /\ LocalsOK /\ harmed = FALSE /\ NameFits(p)
      /\ tree \in [Paths -> Trees] /\ p \in Paths /\ p \in Actors /\ p \in Owners /\ n \in Nodes
  BY Facts, Kinds DEF TreesFit, Owners
<1>3. tree' = [tree EXCEPT ![p] = u]
  BY <1>2 DEF WriteFile
<1>4. Exists(t, n)
  BY <1>1, NodeNames, AboveNodes DEF Owned, Staged
<1>5. u \in Trees /\ Grown(u)
  <2>1. ASSUME NEW data \in {"good", "bad"}
        PROVE  Later(t, [t EXCEPT ![n].data = data, ![n].stamp = @ + 1], p)
    BY <1>1, <1>2, <1>4, RewrittenIsLater
  <2> QED BY <2>1 DEF Later
<1>6. OwnersKept(t, u, p)
  <2>1. t[n] \in Node
    BY <1>2, <1>4, NodeFacts
  <2>2. \A k \in Nodes \ {n} : u[k] = t[k]
    BY <1>2 DEF Trees
  <2>3. u[n].owner = t[n].owner
    BY <1>2, <2>1 DEF Trees, Node
  <2> QED BY <1>4, <2>2, <2>3 DEF OwnersKept, Exists
<1> HIDE DEF u
<1>7. /\ doing'[p] = "building"
      /\ \A a \in Actors \ {p} : doing'[a] = doing[a]
      /\ \A q \in Exporters \ {p} : SameExporter(q)
  BY <1>1, <1>2 DEF LocalsOK, SameExporter
<1>8. LocalsOK'
  BY <1>1, <1>2 DEF LocalsOK, Places, Staging
<1>9. NameFits(p)'
  BY <1>1, <1>2, <1>7 DEF NameFits
<1>10. harmed' = FALSE /\ doing[p] \in Staging \ {"verifying"} /\ doing'[p] \in Staging \ {"verifying", "renaming"}
  BY <1>1, <1>2, <1>7 DEF Staging
<1> QED BY <1>1, <1>3, <1>5, <1>6, <1>7, <1>8, <1>9, <1>10, OwnTreeFits

\* A node of the staging tree is removed.
LEMMA CleanRemovesFits ==
    ASSUME DirInv, NEW p \in Exporters, NEW n \in Staged, CleanRemoves(p, n)
    PROVE  DirInv'
<1> DEFINE t == tree[p]
           u == Drop(t, n)
<1>1. /\ LastTurn(p, n) /\ doing[p] = "removing" /\ doing' = [doing EXCEPT ![p] = "failed"]
      /\ Exists(t, n) /\ tree' = [tree EXCEPT ![p] = u]
      /\ harmed' = (harmed \/ t[n].owner \notin {p, identified[p][n]} \cup Newer(p))
      /\ todo' = [todo EXCEPT ![p] = @ \ {n}] /\ since' = [since EXCEPT ![p] = 0]
      /\ UNCHANGED <<identified, publication, watch, answer, acts, installed>>
  BY DEF CleanRemoves, Goto
<1>2. /\ t \in Trees /\ Grown(t) /\ LocalsOK /\ harmed = FALSE /\ NameFits(p)
      /\ acts \in 0..MaxForeign /\ 0 \in 0..MaxForeign
      /\ tree \in [Paths -> Trees] /\ p \in Paths /\ p \in Actors /\ p \in Owners /\ n \in Nodes
  BY Facts, Kinds, DirectoryAssumption DEF TreesFit, Owners
<1>3. harmed' = FALSE
  BY <1>1, <1>2 DEF NameFits
<1>4. OwnersKept(t, u, p) /\ Later(t, u, p)
  <2> HIDE DEF t
  <2> QED BY <1>1, <1>2, DropOwners, DroppedIsLater
<1> HIDE DEF u
<1>5. u \in Trees /\ Grown(u)
  BY <1>4 DEF Later
<1>6. /\ doing'[p] = "failed" /\ since'[p] = 0
      /\ \A a \in Actors \ {p} : doing'[a] = doing[a]
      /\ \A q \in Exporters \ {p} : SameExporter(q)
  BY <1>1, <1>2 DEF LocalsOK, SameExporter
<1>7. LocalsOK'
  BY <1>1, <1>2 DEF LocalsOK, Places, Staging
<1>8. NameFits(p)'
  BY <1>1, <1>2, <1>6 DEF NameFits
<1>9. doing[p] \in Staging \ {"verifying"} /\ doing'[p] \in Staging \ {"verifying", "renaming"}
  BY <1>1, <1>6 DEF Staging
<1> QED BY <1>1, <1>3, <1>4, <1>5, <1>6, <1>7, <1>8, <1>9, OwnTreeFits

-----------------------------------------------------------------------------
(***************************************************************************)
(* Steps of a verification.                                                *)
(***************************************************************************)
LEMMA ActorFits ==
    ASSUME DirInv, NEW a \in Actors,
           UNCHANGED <<tree, todo, identified, publication, acts, since, installed, harmed>>,
           doing' \in [Actors -> Places], answer' \in [Actors -> Answers], watch' \in [Actors -> Watches],
           \A b \in Actors \ {a} : SameActor(b),
           WatchFits(a)',
           a \in Exporters => /\ ExportFits(a)' /\ StateFits(a)' /\ doing'[a] \notin {"made", "removing"}
                              /\ doing'[a] \in {"renaming", "renamed"} => watch'[a].exact,
           a \in Verifiers => /\ VerifierFits(a)' /\ SeenThere(a)'
                              /\ answer'[a] = "verified" /\ doing'[a] = "idle" => watch'[a].exact
    PROVE  DirInv'
<1>1. TreesFit' /\ OwnersFit' /\ harmed' = FALSE /\ LocalsOK'
  BY Facts DEF TreesFit, OwnersFit, Known, LocalsOK
<1>2. DirTypeOK'
  BY <1>1, Facts, DirTypesNext
<1>4. ASSUME NEW b \in Actors, b # a PROVE WatchFits(b)'
  BY <1>4 DEF DirInv, WatchFits, Look, SameActor, Known
<1>5. \A q \in Exporters : SameExporter(q)
  BY DEF SameExporter
<1>6. ASSUME NEW q \in Exporters
      PROVE  /\ ExportFits(q)' /\ StateFits(q)' /\ RootFits(q)' /\ NameFits(q)'
             /\ doing'[q] \in {"renaming", "renamed"} => watch'[q].exact
  <2>1. CASE q # a
    <3>1. SameActor(q) /\ (doing[q] \in {"renaming", "renamed"} => watch[q].exact)
      BY <2>1, Kinds DEF DirInv, DirectoriesSound, VerifiedWasExact
    <3> QED BY <1>5, <3>1, IdleFits DEF SameActor
  <2>2. CASE q = a
    <3>1. RootFits(a)'
      BY <2>2, Facts DEF RootFits, IsOwnRoot, Known
    <3>2. NameFits(a)'
      BY <2>2, Facts DEF NameFits
    <3> QED BY <2>2, <3>1, <3>2
  <2> QED BY <2>1, <2>2
<1>7. ASSUME NEW v \in Verifiers
      PROVE  /\ VerifierFits(v)' /\ SeenThere(v)'
             /\ answer'[v] = "verified" /\ doing'[v] = "idle" => watch'[v].exact
  <2>1. CASE v # a
    <3>1. /\ VerifierFits(v) /\ SeenThere(v) /\ SameActor(v)
          /\ answer[v] = "verified" /\ doing[v] = "idle" => watch[v].exact
      BY <2>1, Kinds DEF DirInv, DirectoriesSound, VerifiedWasExact
    <3> QED BY <3>1 DEF VerifierFits, SeenThere, SameActor
  <2> QED BY <2>1
<1>8. VerifiedWasExact'
  BY <1>6, <1>7 DEF VerifiedWasExact
<1>9. StateTruthful'
  BY <1>6 DEF StateTruthful, StateFits
<1> QED BY <1>1, <1>2, <1>4, <1>6, <1>7, <1>8, <1>9 DEF DirInv, DirectoriesSound, CleansOnlyItsOwn

\* What is known of an actor that verifies.
LEMMA VerifyingFacts ==
    ASSUME DirInv, NEW a \in Actors
    PROVE  /\ watch[a] \in Watches /\ watch \in [Actors -> Watches] /\ watch[a].seen \in Sights
           /\ PathOf(a) \in Paths /\ Look(a) \in Trees /\ Grown(Look(a))
           /\ doing[a] = "verifying" =>
                /\ Watched(Look(a), watch[a].seen) /\ OwnersIn(watch[a].seen) \subseteq Known
                /\ watch[a].path = PathOf(a)
                /\ watch[a].again # {} => AllSeen(watch[a].seen)
                /\ Exact(Look(a)) => watch[a].exact
                /\ AllSeen(watch[a].seen) /\ StillAsSeen(Look(a), watch[a].seen, watch[a].again) => watch[a].exact
<1>1. PathOf(a) \in Paths
  BY DEF PathOf, Paths
<1> QED BY <1>1, Facts DEF DirInv, WatchFits, Watches, TreesFit, Look

LEMMA SeesFits ==
    ASSUME watch \in [Actors -> Watches], NEW a \in Actors, NEW n \in Nodes, NEW o \in Observation,
           watch' = [watch EXCEPT ![a].seen[n] = o]
    PROVE  /\ watch' \in [Actors -> Watches] /\ \A b \in Actors \ {a} : watch'[b] = watch[b]
           /\ watch'[a].seen = [watch[a].seen EXCEPT ![n] = o] /\ watch'[a].path = watch[a].path
           /\ watch'[a].again = watch[a].again /\ watch'[a].exact = watch[a].exact
<1> DEFINE s == [watch[a].seen EXCEPT ![n] = o]
           w == [watch[a] EXCEPT !.seen = s]
<1>1. watch[a] \in Watches /\ watch[a].seen \in Sights
  BY DEF Watches
<1>2. s \in Sights
  BY <1>1 DEF Sights
<1>3. watch' = [watch EXCEPT ![a] = w]
  BY <1>1 DEF Watches
<1> HIDE DEF s
<1>4. w \in Watches /\ w.seen = s /\ w.path = watch[a].path /\ w.again = watch[a].again /\ w.exact = watch[a].exact
  BY <1>1, <1>2 DEF Watches
<1> HIDE DEF w
<1>5. watch'[a] = w /\ watch' \in [Actors -> Watches] /\ \A b \in Actors \ {a} : watch'[b] = watch[b]
  BY <1>3, <1>4
<1> QED BY <1>4, <1>5 DEF s

LEMMA RechecksFits ==
    ASSUME watch \in [Actors -> Watches], NEW a \in Actors, NEW n \in Members \cup {"root"},
           watch' = [watch EXCEPT ![a].again = @ \cup {n}]
    PROVE  /\ watch' \in [Actors -> Watches] /\ \A b \in Actors \ {a} : watch'[b] = watch[b]
           /\ watch'[a].seen = watch[a].seen /\ watch'[a].path = watch[a].path
           /\ watch'[a].again = watch[a].again \cup {n} /\ watch'[a].exact = watch[a].exact
<1> DEFINE w == [watch[a] EXCEPT !.again = @ \cup {n}]
<1>1. watch[a] \in Watches
  OBVIOUS
<1>2. w \in Watches /\ w.seen = watch[a].seen /\ w.path = watch[a].path
      /\ w.again = watch[a].again \cup {n} /\ w.exact = watch[a].exact
  BY <1>1 DEF Watches
<1>3. watch' = [watch EXCEPT ![a] = w]
  OBVIOUS
<1> HIDE DEF w
<1> QED BY <1>2, <1>3

\* A step that only sees more, or looks again.
LEMMA LookFits ==
    ASSUME DirInv, NEW a \in Actors, doing[a] = "verifying",
           UNCHANGED <<tree, doing, todo, identified, publication, answer, acts, since, installed,
           harmed>>,
           watch' \in [Actors -> Watches], \A b \in Actors \ {a} : watch'[b] = watch[b],
           WatchFits(a)', a \in Verifiers => SeenThere(a)'
    PROVE  DirInv'
<1>1. doing \in [Actors -> Places] /\ answer \in [Actors -> Answers]
  BY Facts DEF LocalsOK
<1>2. \A b \in Actors \ {a} : SameActor(b)
  BY DEF SameActor
<1>3. a \in Exporters => ExportFits(a)' /\ StateFits(a)'
  BY Facts DEF ExportFits, StateFits, IsOwnRoot
<1>4. a \in Verifiers => VerifierFits(a)'
  BY DEF DirInv, VerifierFits
<1> QED BY <1>1, <1>2, <1>3, <1>4, ActorFits

\* Who created a directory that is looked at.
LEMMA OwnersThere ==
    ASSUME DirInv, NEW a \in Actors, NEW n \in Dirs, Exists(Look(a), n)
    PROVE  /\ Look(a)[n].owner \in Known
           /\ a \in Verifiers => /\ Look(a)[n].owner \in Exporters => installed[Look(a)[n].owner] # "none"
                                 /\ \A p \in Exporters : Look(a)[n].owner \notin OwnersOf(tree[p])
<1>1. PathOf(a) \in Paths /\ Look(a) = tree[PathOf(a)] /\ (a \in Verifiers => PathOf(a) = "destination")
  BY Kinds DEF PathOf, Look
<1>2. Look(a)[n].owner \in OwnersOf(Look(a))
  BY DEF OwnersOf
<1> QED BY <1>1, <1>2, Facts, Kinds DEF OwnersFit

LEMMA ListVersionFits ==
    ASSUME DirInv, NEW a \in Actors, ListVersion(a)
    PROVE  DirInv'
<1> DEFINE t == Look(a)
           s == watch[a].seen
           o == Version(t, "version")
<1>1. /\ doing[a] = "verifying" /\ s["version"] = NoNode /\ Inventory(t, "version")
      /\ watch' = [watch EXCEPT ![a].seen["version"] = o]
      /\ UNCHANGED <<tree, doing, todo, identified, publication, answer, acts, since, installed, harmed>>
  BY DEF ListVersion
<1>2. /\ watch \in [Actors -> Watches] /\ s \in Sights /\ t \in Trees
      /\ Watched(t, s) /\ OwnersIn(s) \subseteq Known
      /\ watch[a].path = PathOf(a) /\ (watch[a].again # {} => AllSeen(s))
      /\ Exact(t) => watch[a].exact
  BY <1>1, VerifyingFacts
<1>3. Exists(t, "version") /\ ~Exists(t, "xversion") /\ \A m \in Members : Exists(t, m)
  BY <1>1 DEF Inventory
<1>4. /\ o \in Observation /\ o # NoNode /\ o.owner = t["version"].owner /\ o.stamp = t["version"].stamp
      /\ "version" \in Nodes /\ "root" \in Nodes /\ Members \subseteq Nodes
  <2>1. "version" \in Nodes /\ "root" \in Nodes /\ Members \subseteq Nodes
    BY NodeNames
  <2>2. o.owner = t["version"].owner /\ o.stamp = t["version"].stamp
    BY DEF Version
  <2>3. o \in Observation /\ o # NoNode
    <3> HIDE DEF t
    <3> QED BY <1>2, <1>3, <2>1, VersionFacts
  <2> QED BY <2>1, <2>2, <2>3
<1>5. /\ o.owner \in Known
      /\ a \in Verifiers => /\ o.owner \in Exporters => installed[o.owner] # "none"
                            /\ \A p \in Exporters : o.owner \notin OwnersOf(tree[p])
  BY <1>3, <1>4, OwnersThere DEF Dirs
<1>6. Look(a)' = t
  BY <1>1 DEF Look
<1> HIDE DEF t, s, o
<1>7. /\ watch' \in [Actors -> Watches] /\ \A b \in Actors \ {a} : watch'[b] = watch[b]
      /\ watch'[a].seen = [s EXCEPT !["version"] = o] /\ watch'[a].path = watch[a].path
      /\ watch'[a].again = watch[a].again /\ watch'[a].exact = watch[a].exact
  BY <1>1, <1>2, <1>4, SeesFits DEF s
<1> DEFINE r == [s EXCEPT !["version"] = o]
<1>8. /\ r \in Sights /\ r["version"] = o /\ r["root"] = s["root"]
      /\ \A m \in Members : r[m] = s[m] /\ s[m] = NoNode
  BY <1>1, <1>2, <1>4, NodeNames DEF Sights, Watched
<1> HIDE DEF r
<1>9. Watched(t, r)
  <2>1. RootSeen(t, r)
    BY <1>2, <1>8 DEF Watched, RootSeen, NotOlder, SameNode
  <2>2. VersionSeen(t, r)
    <3>1. o.stamp \in Nat
      BY <1>4 DEF Observation
    <3> QED BY <1>3, <1>4, <1>8, <3>1 DEF VersionSeen, NotOlder
  <2> QED BY <1>8, <2>1, <2>2, <1>4 DEF Watched
<1>10. ~AllSeen(s) /\ ~AllSeen(r)
  BY <1>1, <1>8, DirectoryAssumption DEF AllSeen, Dirs
<1>11. OwnersIn(r) \subseteq OwnersIn(s) \cup {o.owner}
  BY <1>8 DEF OwnersIn, Dirs
<1>12. OwnersIn(r) \subseteq Known /\ Known' = Known
  BY <1>1, <1>2, <1>5, <1>11 DEF Known
<1>13. WatchFits(a)'
  BY <1>1, <1>2, <1>6, <1>7, <1>9, <1>10, <1>12 DEF WatchFits, r, PathOf
<1>14. ASSUME a \in Verifiers PROVE SeenThere(a)'
  <2>1. SeenThere(a)
    BY <1>14 DEF DirInv
  <2> QED BY <1>1, <1>5, <1>7, <1>11, <1>14, <2>1 DEF SeenThere, r, s
<1> QED BY <1>1, <1>7, <1>13, <1>14, LookFits

LEMMA ReadMemberFits ==
    ASSUME DirInv, NEW a \in Actors, NEW m \in Members, ReadMember(a, m)
    PROVE  DirInv'
<1> DEFINE t == Look(a)
           s == watch[a].seen
           o == Version(t, m)
<1>1. /\ doing[a] = "verifying" /\ s[m] = NoNode /\ s["version"] # NoNode
      /\ Exists(t, m) /\ t[m].data = "good"
      /\ watch' = [watch EXCEPT ![a].seen[m] = o]
      /\ UNCHANGED <<tree, doing, todo, identified, publication, answer, acts, since, installed, harmed>>
  BY DEF ReadMember
<1>2. /\ watch \in [Actors -> Watches] /\ s \in Sights /\ t \in Trees
      /\ Watched(t, s) /\ OwnersIn(s) \subseteq Known
      /\ watch[a].path = PathOf(a) /\ (watch[a].again # {} => AllSeen(s))
      /\ Exact(t) => watch[a].exact
  BY <1>1, VerifyingFacts
<1>3. /\ m \in Nodes /\ m # "root" /\ m # "version" /\ "version" \in Nodes /\ "root" \in Nodes
      /\ Members \subseteq Nodes
  BY NodeNames
<1>4. o \in Observation /\ o # NoNode /\ o.owner = t[m].owner /\ o.stamp = t[m].stamp /\ o.stamp \in Nat
  BY <1>1, <1>2, <1>3, SightFacts, NodeFacts
<1>6. Look(a)' = t
  BY <1>1 DEF Look
<1> HIDE DEF t, s, o
<1>7. /\ watch' \in [Actors -> Watches] /\ \A b \in Actors \ {a} : watch'[b] = watch[b]
      /\ watch'[a].seen = [s EXCEPT ![m] = o] /\ watch'[a].path = watch[a].path
      /\ watch'[a].again = watch[a].again /\ watch'[a].exact = watch[a].exact
  BY <1>1, <1>2, <1>3, <1>4, SeesFits DEF s
<1> DEFINE r == [s EXCEPT ![m] = o]
<1>8. r \in Sights /\ r[m] = o /\ \A k \in Nodes \ {m} : r[k] = s[k]
  BY <1>2, <1>3, <1>4 DEF Sights
<1> HIDE DEF r
<1>9. Watched(t, r)
  <2>1. r["root"] = s["root"] /\ r["version"] = s["version"]
    BY <1>3, <1>8
  <2>2. RootSeen(t, r)
    BY <1>2, <2>1 DEF Watched, RootSeen, NotOlder, SameNode
  <2>3. VersionSeen(t, s)
    BY <1>1, <1>2 DEF Watched
  <2>4. MemberSeen(t, r, m)
    BY <1>1, <1>4, <1>8 DEF MemberSeen
  <2>5. ASSUME NEW k \in Members, MemberSeen(t, s, k), k # m PROVE MemberSeen(t, r, k)
    BY <1>3, <1>8, <2>5 DEF MemberSeen
  <2>6. \A k \in Members : k # m => r[k] = s[k]
    BY <1>3, <1>8
  <2>7. SameNode(t, r, "version") => SameNode(t, s, "version")
    BY <2>1 DEF SameNode
  <2>8. NotOlder(t, r, "version")
    BY <2>1, <2>3 DEF VersionSeen, NotOlder
  <2>9. VersionSeen(t, r)
    BY <2>3, <2>4, <2>5, <2>6, <2>7, <2>8 DEF VersionSeen
  <2> QED BY <1>1, <2>1, <2>2, <2>9 DEF Watched
<1>10. ~AllSeen(s)
  BY <1>1 DEF AllSeen
<1>11. AllSeen(r) /\ StillAsSeen(t, r, {}) => watch[a].exact
  BY <1>2, <1>8, <1>9, SeenIsExact
<1>12. OwnersIn(r) = OwnersIn(s)
  BY <1>3, <1>8 DEF OwnersIn, Dirs
<1>13. WatchFits(a)'
  <2>1. watch[a].again = {}
    BY <1>2, <1>10
  <2>2. OwnersIn(r) \subseteq Known /\ Known' = Known
    BY <1>1, <1>2, <1>12 DEF Known
  <2> QED BY <1>1, <1>2, <1>6, <1>7, <1>9, <1>11, <2>1, <2>2 DEF WatchFits, r, PathOf
<1>14. ASSUME a \in Verifiers PROVE SeenThere(a)'
  <2>1. SeenThere(a)
    BY <1>14 DEF DirInv
  <2> QED BY <1>1, <1>7, <1>12, <2>1 DEF SeenThere, r, s
<1> QED BY <1>1, <1>7, <1>13, <1>14, LookFits

LEMMA RecheckFits ==
    ASSUME DirInv, NEW a \in Actors,
           RecheckRoot(a) \/ \E m \in Members : RecheckMember(a, m)
    PROVE  DirInv'
<1>1. PICK n \in Members \cup {"root"} :
          /\ doing[a] = "verifying" /\ Unchanged(a, n)
          /\ (\A m \in Members : watch[a].seen[m] # NoNode) \/ watch[a].again = Members
          /\ watch' = [watch EXCEPT ![a].again = @ \cup {n}]
          /\ UNCHANGED <<tree, doing, todo, identified, publication, answer, acts, since, installed, harmed>>
  BY DEF RecheckRoot, RecheckMember
<1> DEFINE t == Look(a)
           s == watch[a].seen
<1>2. /\ watch \in [Actors -> Watches] /\ s \in Sights /\ t \in Trees
      /\ Watched(t, s) /\ OwnersIn(s) \subseteq Known
      /\ watch[a].path = PathOf(a) /\ (watch[a].again # {} => AllSeen(s))
      /\ Exact(t) => watch[a].exact
      /\ AllSeen(s) /\ StillAsSeen(t, s, watch[a].again) => watch[a].exact
  BY <1>1, VerifyingFacts
<1>3. AllSeen(s)
  BY <1>1, <1>2, DirectoryAssumption DEF AllSeen, Watched, RootSeen, Dirs
<1>4. SameNode(t, s, n)
  BY <1>1, <1>3 DEF Unchanged, SameNode, AllSeen, Dirs
<1>5. Look(a)' = t
  BY <1>1 DEF Look
<1> HIDE DEF t, s
<1>6. /\ watch' \in [Actors -> Watches] /\ \A b \in Actors \ {a} : watch'[b] = watch[b]
      /\ watch'[a].seen = s /\ watch'[a].path = watch[a].path
      /\ watch'[a].again = watch[a].again \cup {n} /\ watch'[a].exact = watch[a].exact
  BY <1>1, <1>2, RechecksFits DEF s
<1>7. StillAsSeen(t, s, watch[a].again \cup {n}) => StillAsSeen(t, s, watch[a].again)
  BY <1>4 DEF StillAsSeen
<1>8. WatchFits(a)'
  BY <1>1, <1>2, <1>3, <1>5, <1>6, <1>7 DEF WatchFits, PathOf, Known
<1>9. a \in Verifiers => SeenThere(a)'
  BY <1>1, <1>6 DEF DirInv, SeenThere, s
<1> QED BY <1>1, <1>6, <1>8, <1>9, LookFits

\* The first look of a verification.
LEMMA FirstLookFits ==
    ASSUME DirInv, NEW a \in Actors, NEW from \in Places, StartVerify(a, from), tree' = tree,
           installed' = installed, acts' = acts
    PROVE  /\ doing' \in [Actors -> Places] /\ doing[a] = from /\ doing'[a] = "verifying"
           /\ \A b \in Actors \ {a} : doing'[b] = doing[b] /\ watch'[b] = watch[b]
           /\ watch' \in [Actors -> Watches] /\ WatchFits(a)' /\ (a \in Verifiers => SeenThere(a)')
<1> DEFINE t == Look(a)
           o == Version(t, "root")
           r == [NoneSeen EXCEPT !["root"] = o]
           w == [path |-> PathOf(a), seen |-> r, again |-> {}, exact |-> Exact(t)]
<1>1. doing[a] = from /\ doing' = [doing EXCEPT ![a] = "verifying"] /\ Inventory(t, "root") /\ watch' = [watch EXCEPT ![a] = w]
  BY DEF StartVerify, Goto
<1>2. /\ watch \in [Actors -> Watches] /\ t \in Trees /\ PathOf(a) \in Paths
      /\ doing \in [Actors -> Places]
  BY VerifyingFacts, Facts DEF LocalsOK
<1>3. Exists(t, "root") /\ Exists(t, "version") /\ ~Exists(t, "xroot")
  BY <1>1 DEF Inventory
<1>4. "root" \in Nodes /\ "version" \in Nodes /\ Members \subseteq Nodes
      /\ \A m \in Members : m # "root"
  BY NodeNames
<1>5. o.owner = t["root"].owner /\ o.stamp = t["root"].stamp
  BY DEF Version
<1>6. /\ o.owner \in Known
      /\ a \in Verifiers => /\ o.owner \in Exporters => installed[o.owner] # "none"
                            /\ \A p \in Exporters : o.owner \notin OwnersOf(tree[p])
  BY <1>3, <1>5, OwnersThere DEF Dirs
<1>7. o \in Observation /\ o # NoNode
  <2> HIDE DEF t
  <2> QED BY <1>2, <1>3, <1>4, VersionFacts
<1>8. Look(a)' = t /\ Exact(t) \in BOOLEAN
  BY DEF Look, PathOf, Exact
<1> HIDE DEF t, o
<1>9. r \in Sights /\ r["root"] = o /\ \A n \in Nodes \ {"root"} : r[n] = NoNode
  BY <1>4, <1>7 DEF NoneSeen, Sights
<1> HIDE DEF r
<1>10. w \in Watches /\ w.seen = r /\ w.path = PathOf(a) /\ w.again = {} /\ w.exact = Exact(t)
  BY <1>2, <1>8, <1>9 DEF Watches
<1> HIDE DEF w
<1>11. /\ watch' \in [Actors -> Watches] /\ watch'[a] = w /\ doing' \in [Actors -> Places]
       /\ doing'[a] = "verifying" /\ \A b \in Actors \ {a} : doing'[b] = doing[b] /\ watch'[b] = watch[b]
  BY <1>1, <1>2, <1>10 DEF Places, Staging
<1>12. Watched(t, r)
  <2>1. o.stamp \in Nat
    BY <1>7 DEF Observation
  <2>2. RootSeen(t, r)
    BY <1>3, <1>5, <1>7, <1>9, <2>1 DEF RootSeen, NotOlder
  <2> QED BY <1>4, <1>9, <2>2 DEF Watched
<1>13. ~AllSeen(r)
  BY <1>4, <1>9 DEF AllSeen, Dirs
<1>14. OwnersIn(r) = {o.owner} /\ Known' = Known
  BY <1>4, <1>7, <1>9 DEF OwnersIn, Dirs, Known
<1>15. WatchFits(a)'
  BY <1>6, <1>8, <1>10, <1>11, <1>12, <1>13, <1>14 DEF WatchFits, PathOf
<1>16. ASSUME a \in Verifiers PROVE SeenThere(a)'
  <2>1. OwnersIn(watch'[a].seen) = {o.owner}
    BY <1>10, <1>11, <1>14
  <2> QED BY <1>6, <1>16, <2>1 DEF SeenThere
<1> QED BY <1>1, <1>11, <1>15, <1>16

LEMMA StartsFit ==
    ASSUME DirInv, (\E v \in Verifiers : VerifierStarts(v)) \/ (\E p \in Exporters : ExportVerifies(p))
    PROVE  DirInv'
<1>0. answer \in [Actors -> Answers]
  BY Facts DEF LocalsOK
<1>1. ASSUME NEW v \in Verifiers, VerifierStarts(v) PROVE DirInv'
  <2>1. /\ StartVerify(v, "idle") /\ answer' = [answer EXCEPT ![v] = "nothing"]
        /\ UNCHANGED <<tree, todo, identified, publication, acts, since, installed, harmed>>
    BY <1>1 DEF VerifierStarts
  <2>2. "idle" \in Places /\ v \in Actors /\ v \notin Exporters
    BY Kinds DEF Places
  <2>3. /\ doing' \in [Actors -> Places] /\ doing'[v] = "verifying"
        /\ \A b \in Actors \ {v} : doing'[b] = doing[b] /\ watch'[b] = watch[b]
        /\ watch' \in [Actors -> Watches] /\ WatchFits(v)' /\ SeenThere(v)'
    BY <2>1, <2>2, FirstLookFits
  <2>4. answer' \in [Actors -> Answers] /\ \A b \in Actors \ {v} : SameActor(b)
    BY <1>0, <2>1, <2>3 DEF Answers, SameActor
  <2>5. VerifierFits(v)'
    BY <2>3 DEF VerifierFits
  <2> QED BY <2>1, <2>2, <2>3, <2>4, <2>5, ActorFits
<1>2. ASSUME NEW p \in Exporters, ExportVerifies(p) PROVE DirInv'
  <2>1. /\ StartVerify(p, "building")
        /\ UNCHANGED <<tree, todo, identified, publication, answer, acts, since, installed, harmed>>
    BY <1>2 DEF ExportVerifies
  <2>2. "building" \in Places /\ p \in Actors /\ p \notin Verifiers
    BY Kinds DEF Places, Staging
  <2>3. /\ doing' \in [Actors -> Places] /\ doing'[p] = "verifying" /\ doing[p] = "building"
        /\ \A b \in Actors \ {p} : doing'[b] = doing[b] /\ watch'[b] = watch[b]
        /\ watch' \in [Actors -> Watches] /\ WatchFits(p)'
    BY <2>1, <2>2, FirstLookFits
  <2>4. answer' \in [Actors -> Answers] /\ \A b \in Actors \ {p} : SameActor(b)
    BY <1>0, <2>1, <2>3 DEF SameActor
  <2>5. ExportFits(p)' /\ StateFits(p)'
    BY <2>1, <2>3, StagingFits DEF Staging
  <2> QED BY <2>1, <2>2, <2>3, <2>4, <2>5, ActorFits
<1> QED BY <1>1, <1>2

\* What was verified was exact.
LEMMA VerifiedFits ==
    ASSUME DirInv, NEW a \in Actors, Verified(a)
    PROVE  watch[a].exact
<1> DEFINE t == Look(a)
           s == watch[a].seen
<1>1. /\ doing[a] = "verifying" /\ watch[a].again = Members \cup {"root"}
      /\ Exists(t, "version") /\ Version(t, "version") = s["version"]
  BY DEF Verified, Inventory
<1>2. /\ watch[a].again # {} => AllSeen(s)
      /\ AllSeen(s) /\ StillAsSeen(t, s, watch[a].again) => watch[a].exact
  BY <1>1, VerifyingFacts
<1>3. AllSeen(s)
  BY <1>1, <1>2
<1>4. StillAsSeen(t, s, watch[a].again)
  <2> HIDE DEF t, s
  <2> QED BY <1>1, <1>3 DEF StillAsSeen, SameNode, AllSeen, Dirs
<1> QED BY <1>2, <1>3, <1>4

LEMMA EndsFit ==
    ASSUME DirInv,
           \/ \E v \in Verifiers, how \in {"verified", "error"} : VerifierEnds(v, how)
           \/ \E p \in Exporters : Attempt(p)
    PROVE  DirInv'
<1>0. LocalsOK /\ watch \in [Actors -> Watches]
  BY Facts
<1>1. ASSUME NEW v \in Verifiers, NEW how \in {"verified", "error"}, VerifierEnds(v, how) PROVE DirInv'
  <2>1. /\ how = "verified" => Verified(v)
        /\ doing' = [doing EXCEPT ![v] = "idle"] /\ answer' = [answer EXCEPT ![v] = how]
        /\ watch' = IF how = "verified" THEN watch ELSE [watch EXCEPT ![v] = NoWatch]
        /\ UNCHANGED <<tree, todo, identified, publication, acts, since, installed, harmed>>
    BY <1>1 DEF VerifierEnds, Goto
  <2>2. v \in Actors /\ v \notin Exporters
    BY Kinds
  <2>3. NoWatch \in Watches
    BY DEF NoWatch, Watches, Sights, NoneSeen, Paths
  <2>4. watch' \in [Actors -> Watches] /\ \A b \in Actors \ {v} : watch'[b] = watch[b]
    BY <1>0, <2>1, <2>3
  <2>5. /\ doing' \in [Actors -> Places] /\ answer' \in [Actors -> Answers]
        /\ doing'[v] = "idle" /\ answer'[v] = how /\ \A b \in Actors \ {v} : SameActor(b)
    BY <1>0, <2>1, <2>2, <2>4 DEF LocalsOK, SameActor, Places, Answers
  <2>6. WatchFits(v)' /\ VerifierFits(v)' /\ SeenThere(v)'
    BY <2>5 DEF WatchFits, VerifierFits, SeenThere
  <2>7. answer'[v] = "verified" => watch'[v].exact
    BY <2>1, <2>2, <2>5, VerifiedFits
  <2> QED BY <2>1, <2>2, <2>4, <2>5, <2>6, <2>7, ActorFits
<1>2. ASSUME NEW p \in Exporters, Attempt(p) PROVE DirInv'
  <2>1. /\ Verified(p) /\ doing[p] = "verifying" /\ doing' = [doing EXCEPT ![p] = "renaming"]
        /\ UNCHANGED <<tree, todo, identified, publication, watch, answer, acts, since, installed, harmed>>
    BY <1>2 DEF Attempt, Goto, Verified
  <2>2. p \in Actors /\ p \notin Verifiers /\ watch[p].exact
    BY <2>1, VerifiedFits, Kinds
  <2>3. doing' \in [Actors -> Places] /\ doing'[p] = "renaming" /\ \A b \in Actors \ {p} : SameActor(b)
    BY <1>0, <2>1, <2>2 DEF LocalsOK, Places, Staging, SameActor
  <2>4. ExportFits(p)' /\ StateFits(p)'
    BY <2>1, <2>3, StagingFits DEF Staging
  <2>5. WatchFits(p)'
    BY <2>3 DEF WatchFits
  <2> QED BY <1>0, <2>1, <2>2, <2>3, <2>4, <2>5, ActorFits DEF LocalsOK
<1> QED BY <1>1, <1>2

LEMMA WitnessFits ==
    ASSUME DirInv, tree' \in [Paths -> Trees], watch' = Witness(tree', watch)
    PROVE  /\ watch' \in [Actors -> Watches]
           /\ \A a \in Actors :
                /\ watch'[a].seen = watch[a].seen /\ watch'[a].again = watch[a].again
                /\ watch'[a].path = watch[a].path /\ (watch[a].exact => watch'[a].exact)
                /\ doing[a] = "verifying" /\ Exact(tree'[PathOf(a)]) => watch'[a].exact
<1>1. ASSUME NEW a \in Actors
      PROVE  /\ watch'[a] \in Watches
             /\ watch'[a].seen = watch[a].seen /\ watch'[a].again = watch[a].again
             /\ watch'[a].path = watch[a].path /\ (watch[a].exact => watch'[a].exact)
             /\ doing[a] = "verifying" /\ Exact(tree'[PathOf(a)]) => watch'[a].exact
  <2>1. watch[a] \in Watches /\ (doing[a] = "verifying" => watch[a].path = PathOf(a))
    BY VerifyingFacts
  <2>2. CASE doing[a] = "verifying"
    <3> DEFINE e == watch[a].exact \/ Exact(tree'[PathOf(a)])
    <3>1. watch'[a] = [watch[a] EXCEPT !.exact = e]
      BY <2>1, <2>2 DEF Witness
    <3>2. e \in BOOLEAN
      OBVIOUS
    <3> HIDE DEF e
    <3>3. watch'[a] \in Watches /\ watch'[a].exact = e /\ watch'[a].seen = watch[a].seen
          /\ watch'[a].again = watch[a].again /\ watch'[a].path = watch[a].path
      BY <2>1, <3>1, <3>2 DEF Watches
    <3> QED BY <3>3 DEF e
  <2>3. CASE doing[a] # "verifying"
    BY <2>1, <2>3 DEF Witness
  <2> QED BY <2>2, <2>3
<1>2. watch' = [a \in Actors |-> watch'[a]]
  BY DEF Witness
<1> QED BY <1>1, <1>2

\* Trees change under the verifications in progress.
LEMMA TreesMoveFits ==
    ASSUME DirInv, TreesFit', OwnersFit', watch' = Witness(tree', watch), LocalsOK',
           installed' \in [Exporters -> {"none", "own", "other"}], acts' \in 0..MaxForeign, acts' >= acts,
           UNCHANGED <<answer, harmed>>,
           \A a \in Actors : doing'[a] = "verifying" =>
               /\ doing[a] = "verifying"
               /\ Watched(tree'[PathOf(a)], watch[a].seen)
               /\ AllSeen(watch[a].seen) /\ StillAsSeen(tree'[PathOf(a)], watch[a].seen, watch[a].again) =>
                      StillAsSeen(Look(a), watch[a].seen, watch[a].again),
           \A p \in Exporters : /\ ExportFits(p)' /\ StateFits(p)' /\ RootFits(p)' /\ NameFits(p)'
                                /\ doing'[p] \in {"renaming", "renamed"} => doing[p] \in {"renaming", "renamed"},
           \A v \in Verifiers : doing'[v] = doing[v],
           \A v \in Verifiers, p \in Exporters :
               doing[v] = "verifying" => OwnersOf(tree'[p]) \cap OwnersIn(watch[v].seen) = {},
           \A q \in Exporters : installed[q] # "none" => installed'[q] # "none"
    PROVE  DirInv'
<1>1. /\ watch' \in [Actors -> Watches]
      /\ \A a \in Actors :
              /\ watch'[a].seen = watch[a].seen /\ watch'[a].again = watch[a].again
              /\ watch'[a].path = watch[a].path /\ (watch[a].exact => watch'[a].exact)
              /\ doing[a] = "verifying" /\ Exact(tree'[PathOf(a)]) => watch'[a].exact
  BY WitnessFits DEF TreesFit
<1>2. ASSUME NEW a \in Actors PROVE WatchFits(a)'
  <2>1. Look(a)' = tree'[PathOf(a)] /\ PathOf(a)' = PathOf(a)
    BY DEF Look, PathOf
  <2>2. CASE doing'[a] = "verifying"
    <3>1. /\ doing[a] = "verifying" /\ watch[a].path = PathOf(a)
          /\ watch[a].again # {} => AllSeen(watch[a].seen)
          /\ AllSeen(watch[a].seen) /\ StillAsSeen(Look(a), watch[a].seen, watch[a].again) => watch[a].exact
      BY <2>2, VerifyingFacts
    <3>2. OwnersIn(watch[a].seen) \subseteq Known
      BY <3>1, VerifyingFacts
    <3>3. Known \subseteq Known'
      BY Facts DEF Known
    <3> QED BY <1>1, <2>1, <2>2, <3>1, <3>2, <3>3 DEF WatchFits
  <2>3. CASE doing'[a] # "verifying"
    BY <2>3 DEF WatchFits
  <2> QED BY <2>2, <2>3
<1>3. ASSUME NEW v \in Verifiers PROVE VerifierFits(v)' /\ SeenThere(v)'
  <2>1. VerifierFits(v) /\ SeenThere(v) /\ v \in Actors /\ doing'[v] = doing[v]
    BY Kinds DEF DirInv
  <2>2. watch'[v].seen = watch[v].seen
    BY <1>1, <2>1
  <2> QED BY <2>1, <2>2 DEF VerifierFits, SeenThere
<1>4. VerifiedWasExact'
  <2>1. \A p \in Exporters : doing'[p] \in {"renaming", "renamed"} => watch'[p].exact
    BY <1>1, Kinds DEF DirInv, DirectoriesSound, VerifiedWasExact
  <2>2. \A v \in Verifiers : answer'[v] = "verified" /\ doing'[v] = "idle" => watch'[v].exact
    BY <1>1, Kinds DEF DirInv, DirectoriesSound, VerifiedWasExact
  <2> QED BY <2>1, <2>2 DEF VerifiedWasExact
<1>5. StateTruthful'
  BY DEF StateTruthful, StateFits
<1>6. CleansOnlyItsOwn' /\ harmed' = FALSE
  BY Facts DEF CleansOnlyItsOwn
<1>7. DirTypeOK'
  BY <1>1, <1>6, DirTypesNext
<1> QED BY <1>2, <1>3, <1>4, <1>5, <1>6, <1>7 DEF DirInv, DirectoriesSound

LEMMA NoTreeFits ==
    /\ NoTree \in Trees /\ Grown(NoTree) /\ OwnersOf(NoTree) = {}
    /\ \A n \in Nodes : ~Exists(NoTree, n)
<1>1. \A n \in Nodes : ~Exists(NoTree, n)
  BY DEF NoTree, Exists
<1> QED BY <1>1, NodeNames, Kinds DEF NoTree, Trees, Grown, OwnersOf

\* Where there is no root there is nothing.
LEMMA FreeIsEmpty ==
    ASSUME NEW t \in Trees, Grown(t), ~Exists(t, "root")
    PROVE  t = NoTree
<1>1. \A n \in Nodes : n \in {"root", "version", "xroot", "xversion"} \cup Members
  BY DEF Nodes, Staged
<1>2. \A n \in Nodes : ~Exists(t, n)
  BY <1>1 DEF Grown
<1> QED BY <1>2 DEF Trees, Exists, NoTree

\* The rename moves a staging tree to the destination, where nothing was.
LEMMA RenameFits ==
    ASSUME DirInv, NEW p \in Exporters, NEW acknowledged \in BOOLEAN, Rename(p, acknowledged)
    PROVE  DirInv'
<1> DEFINE u == tree[p]
<1>1. /\ LocalsOK /\ TreesFit /\ OwnersFit /\ u \in Trees /\ Grown(u)
      /\ p \in Paths /\ p \in Actors /\ "destination" \in Paths /\ p # "destination"
      /\ ExportFits(p) /\ RootFits(p) /\ NameFits(p)
      /\ acts \in 0..MaxForeign /\ installed \in [Exporters -> {"none", "own", "other"}]
  BY Facts, Kinds DEF TreesFit
<1>2. /\ DestinationFree /\ Exists(u, "root") /\ doing[p] = "renaming"
      /\ doing' = [doing EXCEPT ![p] = IF acknowledged THEN "renamed" ELSE "failed after"]
      /\ tree' = [tree EXCEPT !["destination"] = u, ![p] = NoTree] /\ watch' = Witness(tree', watch)
      /\ publication' = IF acknowledged THEN [publication EXCEPT ![p] = "published"] ELSE publication
      /\ installed' = [installed EXCEPT ![p] = IF IsOwnRoot(p, p) THEN "own" ELSE "other"]
      /\ UNCHANGED <<todo, identified, answer, acts, since, harmed>>
  BY DEF Rename, Goto
<1>3. tree["destination"] = NoTree
  BY <1>1, <1>2, FreeIsEmpty DEF DestinationFree, TreesFit
<1>4. /\ NoTree \in Trees /\ Grown(NoTree) /\ OwnersOf(NoTree) = {}
      /\ \A n \in Nodes : ~Exists(NoTree, n)
  BY NoTreeFits
<1>5. /\ tree' \in [Paths -> Trees] /\ tree'["destination"] = u /\ tree'[p] = NoTree
      /\ \A q \in Exporters \ {p} : tree'[q] = tree[q]
  BY <1>1, <1>2, <1>4, Kinds DEF TreesFit
<1> HIDE DEF u
<1>6. /\ doing'[p] = (IF acknowledged THEN "renamed" ELSE "failed after")
      /\ \A a \in Actors \ {p} : doing'[a] = doing[a]
  BY <1>1, <1>2 DEF LocalsOK
<1>7. /\ installed' \in [Exporters -> {"none", "own", "other"}]
      /\ installed'[p] = (IF IsOwnRoot(p, p) THEN "own" ELSE "other")
      /\ \A q \in Exporters \ {p} : installed'[q] = installed[q]
  BY <1>1, <1>2
<1>8. /\ publication' \in [Exporters -> {"unpublished", "published", "unknown"}]
      /\ acknowledged => publication'[p] = "published"
      /\ \A q \in Exporters \ {p} : publication'[q] = publication[q]
  BY <1>1, <1>2 DEF LocalsOK
<1>9. installed[p] = "none" /\ answer[p] = "nothing"
  BY <1>1, <1>2 DEF ExportFits, Staging
<1>10. TreesFit'
  BY <1>1, <1>4, <1>5, Kinds DEF TreesFit
<1>11. OwnersOf(u) \subseteq Known /\ OwnersOf(u) \cap Exporters \subseteq {p} /\ Known' = Known
  BY <1>1, <1>2 DEF OwnersFit, Known, u
<1>12. \A q \in Exporters \ {p} : OwnersOf(tree[q]) \cap OwnersOf(u) = {}
  BY <1>1, Kinds DEF OwnersFit, u
<1>13. OwnersFit'
  <2>1. \A x \in Paths : OwnersOf(tree'[x]) \subseteq Known
    BY <1>1, <1>4, <1>5, <1>11, Kinds DEF OwnersFit
  <2>2. \A q \in Exporters : OwnersOf(tree'[q]) \cap Exporters \subseteq {q}
    BY <1>1, <1>4, <1>5 DEF OwnersFit
  <2>3. \A q \in OwnersOf(tree'["destination"]) \cap Exporters : installed'[q] # "none"
    BY <1>5, <1>7, <1>11
  <2>4. ASSUME NEW q \in Exporters, NEW x \in Paths, x # q
        PROVE  OwnersOf(tree'[q]) \cap OwnersOf(tree'[x]) = {}
    <3>1. CASE q = p \/ x = p
      BY <1>4, <1>5, <3>1
    <3>2. CASE q # p /\ x = "destination"
      BY <1>5, <1>12, <3>2
    <3>3. CASE q # p /\ x # p /\ x # "destination"
      BY <1>1, <1>5, <2>4, <3>3, Kinds DEF OwnersFit
    <3> QED BY <3>1, <3>2, <3>3
  <2> QED BY <1>11, <2>1, <2>2, <2>3, <2>4 DEF OwnersFit
<1>14. LocalsOK'
  BY <1>1, <1>2, <1>8 DEF LocalsOK, Places
<1>15. ASSUME NEW a \in Actors, doing'[a] = "verifying"
       PROVE  /\ doing[a] = "verifying"
              /\ Watched(tree'[PathOf(a)], watch[a].seen)
              /\ AllSeen(watch[a].seen) /\ StillAsSeen(tree'[PathOf(a)], watch[a].seen, watch[a].again) =>
                     StillAsSeen(Look(a), watch[a].seen, watch[a].again)
  <2>1. a # p /\ doing[a] = "verifying"
    BY <1>6, <1>15
  <2>2. Watched(Look(a), watch[a].seen) /\ watch[a].seen \in Sights
    BY <2>1, VerifyingFacts
  <2>3. CASE a \in Exporters
    <3>1. tree'[PathOf(a)] = Look(a)
      BY <1>5, <2>1, <2>3 DEF PathOf, Look
    <3> QED BY <2>1, <2>2, <3>1
  <2>4. CASE a \notin Exporters
    <3>1. a \in Verifiers /\ PathOf(a) = "destination" /\ Look(a) = NoTree
      BY <1>3, <2>4, Kinds DEF PathOf, Look
    <3>2. OwnersOf(u) \cap OwnersIn(watch[a].seen) = {}
      BY <2>1, <3>1 DEF DirInv, SeenThere, u
    <3>3. Watched(u, watch[a].seen) /\ ~SameNode(u, watch[a].seen, "version")
      BY <1>1, <2>2, <3>1, <3>2, WatchedElsewhere
    <3> QED BY <1>5, <2>1, <3>1, <3>3 DEF StillAsSeen
  <2> QED BY <2>3, <2>4
<1>16. ASSUME NEW q \in Exporters
       PROVE  /\ ExportFits(q)' /\ StateFits(q)' /\ RootFits(q)' /\ NameFits(q)'
              /\ doing'[q] \in {"renaming", "renamed"} => doing[q] \in {"renaming", "renamed"}
  <2>1. ExportFits(q) /\ StateFits(q) /\ RootFits(q) /\ NameFits(q) /\ q \in Actors
    BY Facts, Kinds
  <2>2. \A r \in Exporters \ {p} : IsOwnRoot(q, r)' <=> IsOwnRoot(q, r)
    BY <1>2, <1>5 DEF IsOwnRoot
  <2>3. ~IsOwnRoot(q, p)' /\ (IsOwnRoot(q, "destination")' <=> IsOwnRoot(q, p))
    BY <1>2, <1>4, <1>5, NodeNames DEF IsOwnRoot, u
  <2>4. RootFits(q)'
    BY <1>2, <1>11, <2>1, <2>2, <2>3 DEF RootFits
  <2>5. CASE q = p
    <3>1. doing'[p] = "failed after" \/ (doing'[p] = "renamed" /\ publication'[p] = "published")
      BY <1>6, <1>8
    <3>2. ExportFits(p)' /\ StateFits(p)'
      BY <1>2, <1>7, <1>9, <2>3, <2>5, <3>1 DEF ExportFits, StateFits, Staging
    <3>3. NameFits(p)'
      BY <1>1, <1>2, <3>1 DEF NameFits
    <3> QED BY <1>2, <2>4, <2>5, <3>2, <3>3
  <2>6. CASE q # p
    <3>1. /\ doing'[q] = doing[q] /\ publication'[q] = publication[q] /\ installed'[q] = installed[q]
          /\ answer'[q] = answer[q] /\ (IsOwnRoot(q, q)' <=> IsOwnRoot(q, q)) /\ tree'[q] = tree[q]
      BY <1>2, <1>5, <1>6, <1>7, <1>8, <2>1, <2>2, <2>6
    <3>2. ~IsOwnRoot(q, "destination")'
      BY <2>1, <2>3, <2>6 DEF RootFits
    <3>3. ExportFits(q)' /\ StateFits(q)'
      BY <2>1, <3>1, <3>2 DEF ExportFits, StateFits
    <3>4. NameFits(q)'
      BY <1>2, <2>1, <3>1 DEF NameFits, Turn, LastTurn, Newer
    <3> QED BY <2>4, <3>1, <3>3, <3>4
  <2> QED BY <2>5, <2>6
<1>17. \A v \in Verifiers : doing'[v] = doing[v]
  BY <1>6, Kinds
<1>18. ASSUME NEW v \in Verifiers, NEW q \in Exporters, doing[v] = "verifying"
       PROVE  OwnersOf(tree'[q]) \cap OwnersIn(watch[v].seen) = {}
  <2>1. OwnersOf(tree[q]) \cap OwnersIn(watch[v].seen) = {}
    BY <1>18 DEF DirInv, SeenThere
  <2> QED BY <1>4, <1>5, <2>1
<1>19. \A q \in Exporters : installed[q] # "none" => installed'[q] # "none"
  BY <1>7, <1>9
<1>20. acts' \in 0..MaxForeign /\ acts' >= acts
  <2>1. acts' = acts
    BY <1>2
  <2>2. acts \in 0..MaxForeign
    BY <1>1
  <2> QED BY <2>1, <2>2, DirectoryAssumption
<1>21. watch' = Witness(tree', watch) /\ UNCHANGED <<answer, harmed>>
  BY <1>2
<1>22. installed' \in [Exporters -> {"none", "own", "other"}]
  BY <1>7
<1> QED BY <1>10, <1>13, <1>14, <1>15, <1>16, <1>17, <1>18, <1>19, <1>20, <1>21, <1>22,
       TreesMoveFits
\* Somebody else changes one tree.
LEMMA ForeignFits ==
    ASSUME DirInv, NEW x \in Paths, ForeignActs(x)
    PROVE  DirInv'
<1> DEFINE t == tree[x]
           who == acts + 1
<1>1. /\ LocalsOK /\ TreesFit /\ OwnersFit /\ t \in Trees /\ Grown(t)
      /\ acts \in 0..MaxForeign /\ installed \in [Exporters -> {"none", "own", "other"}]
  BY Facts DEF TreesFit
<1>2. PICK u \in Changed(t, who) :
          /\ tree' = [tree EXCEPT ![x] = u] /\ watch' = Witness(tree', watch)
          /\ acts < MaxForeign /\ acts' = acts + 1
          /\ UNCHANGED <<doing, todo, identified, publication, answer, since, installed, harmed>>
  BY DEF ForeignActs
<1>3. /\ who \in Owners /\ who \notin Known /\ who \in 1..MaxForeign /\ acts' \in 0..MaxForeign /\ acts' >= acts
      /\ Known' = Known \cup {who} /\ who \notin Exporters /\ who # NoNode
  <2>1. who \in 1..MaxForeign
    BY <1>1, <1>2, DirectoryAssumption
  <2>2. who \notin 1..acts /\ 1..(acts + 1) = 1..acts \cup {who}
    BY <1>1
  <2> QED BY <1>1, <1>2, <2>1, <2>2, Kinds, DirectoryAssumption DEF Owners, Known
<1>4. Later(t, u, who) /\ OwnersKept(t, u, who)
  <2> HIDE DEF t, who
  <2> QED BY <1>1, <1>2, <1>3, ChangedIsLater, ChangedOwners
<1>5. u \in Trees /\ Grown(u)
  BY <1>4 DEF Later
<1>6. OwnersOf(u) \subseteq OwnersOf(t) \cup {who}
  BY <1>4, KeptOwners
<1>7. tree' \in [Paths -> Trees] /\ tree'[x] = u /\ \A y \in Paths \ {x} : tree'[y] = tree[y]
  BY <1>1, <1>2, <1>5 DEF TreesFit
<1>8. TreesFit'
  BY <1>1, <1>5, <1>7 DEF TreesFit
<1>9. \A y \in Paths : OwnersOf(tree'[y]) \subseteq OwnersOf(tree[y]) \cup (IF y = x THEN {who} ELSE {})
  BY <1>6, <1>7
<1>10. \A y \in Paths : OwnersOf(tree[y]) \subseteq Known
  BY <1>1 DEF OwnersFit
<1> HIDE DEF t, who
<1>11. OwnersFit'
  <2>1. \A y \in Paths : OwnersOf(tree'[y]) \subseteq Known'
    BY <1>3, <1>9, <1>10
  <2>2. \A q \in Exporters : OwnersOf(tree'[q]) \cap Exporters \subseteq {q}
    BY <1>1, <1>3, <1>9, Kinds DEF OwnersFit
  <2>3. \A q \in OwnersOf(tree'["destination"]) \cap Exporters : installed'[q] # "none"
    BY <1>1, <1>2, <1>3, <1>9, Kinds DEF OwnersFit
  <2>4. ASSUME NEW q \in Exporters, NEW y \in Paths, y # q
        PROVE  OwnersOf(tree'[q]) \cap OwnersOf(tree'[y]) = {}
    <3>1. OwnersOf(tree[q]) \cap OwnersOf(tree[y]) = {} /\ q \in Paths
      BY <1>1, <2>4, Kinds DEF OwnersFit
    <3>2. who \notin OwnersOf(tree[q]) /\ who \notin OwnersOf(tree[y])
      BY <1>3, <1>10, <3>1
    <3> QED BY <1>9, <2>4, <3>1, <3>2
  <2> QED BY <2>1, <2>2, <2>3, <2>4 DEF OwnersFit
<1>12. LocalsOK'
  BY <1>1, <1>2 DEF LocalsOK
<1>13. \A a \in Actors : doing[a] = "verifying" => who \notin OwnersIn(watch[a].seen)
  BY <1>3, VerifyingFacts
<1>14. ASSUME NEW a \in Actors, doing'[a] = "verifying"
       PROVE  /\ doing[a] = "verifying"
              /\ Watched(tree'[PathOf(a)], watch[a].seen)
              /\ AllSeen(watch[a].seen) /\ StillAsSeen(tree'[PathOf(a)], watch[a].seen, watch[a].again) =>
                     StillAsSeen(Look(a), watch[a].seen, watch[a].again)
  <2> DEFINE s == watch[a].seen
  <2>1. doing[a] = "verifying"
    BY <1>2, <1>14
  <2>2. Watched(Look(a), s) /\ s \in Sights /\ PathOf(a) \in Paths /\ who \notin OwnersIn(s)
    BY <1>13, <2>1, VerifyingFacts
  <2>3. CASE PathOf(a) = x
    <3>1. tree'[PathOf(a)] = u /\ Look(a) = t
      BY <1>7, <2>3 DEF Look, t
    <3>2. Watched(u, s) /\ (SameNode(u, s, "root") => SameNode(t, s, "root"))
      BY <1>1, <1>4, <2>2, <3>1, WatchedLater
    <3>3. s["version"] # NoNode /\ SameNode(u, s, "version") =>
              SameNode(t, s, "version") /\ \A m \in Members : SameNode(u, s, m) => SameNode(t, s, m)
      BY <1>1, <1>4, <2>2, <3>1, WatchedLater
    <3> HIDE DEF s
    <3>4. AllSeen(s) /\ StillAsSeen(u, s, watch[a].again) => StillAsSeen(t, s, watch[a].again)
      BY <3>2, <3>3 DEF AllSeen, StillAsSeen, Dirs
    <3> QED BY <2>1, <3>1, <3>2, <3>4 DEF s
  <2>4. CASE PathOf(a) # x
    <3>1. tree'[PathOf(a)] = Look(a)
      BY <1>7, <2>2, <2>4 DEF Look
    <3> QED BY <2>1, <2>2, <3>1
  <2> QED BY <2>3, <2>4
<1>15. \A y \in Paths, n \in Nodes :
           Exists(tree'[y], n) =>
               tree'[y][n].owner = who \/ (Exists(tree[y], n) /\ tree'[y][n].owner = tree[y][n].owner)
  BY <1>4, <1>7 DEF OwnersKept, t
<1>16. ASSUME NEW q \in Exporters
       PROVE  /\ ExportFits(q)' /\ StateFits(q)' /\ RootFits(q)' /\ NameFits(q)'
              /\ doing'[q] \in {"renaming", "renamed"} => doing[q] \in {"renaming", "renamed"}
  <2>1. ExportFits(q) /\ StateFits(q) /\ RootFits(q) /\ NameFits(q) /\ q \in Paths /\ "destination" \in Paths
    BY Facts, Kinds
  <2>2. identified[q]["root"] # who
    BY <1>3, <2>1 DEF RootFits
  <2>3. \A y \in Paths : IsOwnRoot(q, y)' => IsOwnRoot(q, y)
    BY <1>2, <1>15, <2>2, NodeNames DEF IsOwnRoot
  <2>4. ExportFits(q)' /\ StateFits(q)'
    BY <1>2, <2>1, <2>3 DEF ExportFits, StateFits
  <2>5. RootFits(q)'
    BY <1>2, <1>3, <2>1, <2>3, Kinds DEF RootFits
  <2>6. NameFits(q)'
    <3>1. since[q] \in 0..MaxForeign /\ since[q] <= acts
      BY <1>1, <2>1 DEF LocalsOK, NameFits
    <3>2. who \in Newer(q)
      BY <1>1, <1>3, <3>1 DEF Newer, who
    <3>3. since'[q] <= acts'
      BY <1>1, <1>2, <3>1
    <3>4. \A n \in Staged : Exists(tree'[q], n) =>
              tree'[q][n].owner = who \/ (Exists(tree[q], n) /\ tree'[q][n].owner = tree[q][n].owner)
      BY <1>15, <2>1, Kinds
    <3> QED BY <1>2, <2>1, <3>2, <3>3, <3>4 DEF NameFits, Turn, LastTurn, Newer
  <2> QED BY <1>2, <2>4, <2>5, <2>6
<1>17. ASSUME NEW v \in Verifiers, NEW q \in Exporters, doing[v] = "verifying"
       PROVE  OwnersOf(tree'[q]) \cap OwnersIn(watch[v].seen) = {}
  <2>1. OwnersOf(tree[q]) \cap OwnersIn(watch[v].seen) = {}
    BY <1>17 DEF DirInv, SeenThere
  <2> QED BY <1>9, <1>13, <1>17, <2>1, Kinds
<1>18. /\ \A v \in Verifiers : doing'[v] = doing[v]
       /\ \A q \in Exporters : installed[q] # "none" => installed'[q] # "none"
       /\ watch' = Witness(tree', watch) /\ UNCHANGED <<answer, harmed>>
       /\ installed' \in [Exporters -> {"none", "own", "other"}]
  BY <1>1, <1>2
<1> QED BY <1>3, <1>8, <1>11, <1>12, <1>14, <1>16, <1>17, <1>18, TreesMoveFits

-----------------------------------------------------------------------------
(***************************************************************************)
(* The invariant, and what follows from it.                                *)
(***************************************************************************)
LEMMA DirStutter ==
    ASSUME DirInv, UNCHANGED dirVars
    PROVE  DirInv'
<1> USE DEF dirVars
<1>1. TreesFit' /\ OwnersFit' /\ LocalsOK'
  BY Facts DEF TreesFit, OwnersFit, LocalsOK, Known
<1>2. ASSUME NEW a \in Actors PROVE WatchFits(a)'
  <2>1. Look(a)' = Look(a) /\ WatchFits(a)
    BY DEF Look, PathOf, DirInv
  <2> QED BY <2>1 DEF WatchFits, PathOf, Known
<1>3. ASSUME NEW p \in Exporters PROVE ExportFits(p)' /\ RootFits(p)' /\ NameFits(p)'
  BY <1>3, IdleFits DEF SameActor, SameExporter
<1>4. ASSUME NEW v \in Verifiers PROVE VerifierFits(v)' /\ SeenThere(v)'
  BY DEF DirInv, VerifierFits, SeenThere
<1>5. DirTypeOK'
  BY <1>1, Facts, DirTypesNext
<1>6. VerifiedWasExact' /\ StateTruthful' /\ CleansOnlyItsOwn'
  BY DEF DirInv, DirectoriesSound, VerifiedWasExact, StateTruthful, CleansOnlyItsOwn
<1> QED BY <1>1, <1>2, <1>3, <1>4, <1>5, <1>6 DEF DirInv, DirectoriesSound

LEMMA DirStep ==
    ASSUME DirInv, [DirNext]_dirVars
    PROVE  DirInv'
<1>1. CASE (\E v \in Verifiers : VerifierStarts(v)) \/ (\E p \in Exporters : ExportVerifies(p))
  BY <1>1, StartsFit
<1>2. CASE \/ \E v \in Verifiers, how \in {"verified", "error"} : VerifierEnds(v, how)
           \/ \E p \in Exporters : Attempt(p)
  BY <1>2, EndsFit
<1>3. CASE \E a \in Actors : ListVersion(a)
  BY <1>3, ListVersionFits
<1>4. CASE \E a \in Actors : RecheckRoot(a) \/ \E m \in Members : RecheckMember(a, m)
  BY <1>4, RecheckFits
<1>5. CASE \E a \in Actors, m \in Members : ReadMember(a, m)
  BY <1>5, ReadMemberFits
<1>6. CASE \E p \in Exporters :
              \/ ExportStarts(p) \/ RenameRefused(p) \/ ExportLosesSight(p) \/ CleanEnds(p)
              \/ (\E n \in Staged : CheckParent(p, n) \/ CleanSkips(p, n)) \/ ExportFails(p)
  BY <1>6, GoesOn
<1>7. CASE \E p \in Exporters : ExportReturns(p) \/ Report(p)
  BY <1>7, Answered
<1>8. CASE \E p \in Exporters :
              ExportFindsAnother(p) \/ ObserveStaging(p) \/ Observe(p) \/ ObservationFails(p)
  BY <1>8, ObservesFit
<1>9. CASE \E p \in Exporters, n \in Staged :
              CaptureDirectory(p, n) \/ CaptureFile(p, n) \/ Make(p, n) \/ WriteFile(p, n)
  BY <1>9, CapturesFit, MakeFits, WriteFits
<1>10. CASE \E p \in Exporters, n \in Staged : CleanChecks(p, n) \/ CleanRemoves(p, n)
  BY <1>10, CleanChecksFits, CleanRemovesFits
<1>11. CASE \E p \in Exporters, acknowledged \in BOOLEAN : Rename(p, acknowledged)
  BY <1>11, RenameFits
<1>12. CASE \E x \in Paths : ForeignActs(x)
  BY <1>12, ForeignFits
<1>13. CASE UNCHANGED dirVars
  BY <1>13, DirStutter
<1>14. CASE DirNext
  BY <1>1, <1>2, <1>3, <1>4, <1>5, <1>6, <1>7, <1>8, <1>9, <1>10, <1>11, <1>12, <1>14 DEF DirNext
<1> QED BY <1>13, <1>14

LEMMA DirInvariant == DirSpec => []DirInv
BY DirStart, DirStep, PTL DEF DirSpec

\* What a verification accepts was exactly the publication at one moment, an export claims
\* and its cleanup removes nothing that was there before its mkdir or its last look at the
\* name, and the state an export reports is true, whoever writes at its paths and whichever
\* acknowledgement is lost (verify_schema_directory, export_schema_directory, _cleanup).
THEOREM DirectoriesAreSound == DirSpec => []DirectoriesSound
<1>1. DirInv => DirectoriesSound
  BY DEF DirInv
<1> QED BY <1>1, DirInvariant, PTL

\* Only the others put something else where there was something: a rename takes the
\* destination only while nothing is there (_rename_noreplace).
THEOREM ExportsReplaceNothing == DirSpec => [][ReplacesNothing]_dirVars
<1>1. ASSUME DirInv, DirNext PROVE ReplacesNothing
  <2>1. /\ tree \in [Paths -> Trees] /\ Grown(tree["destination"]) /\ acts \in 0..MaxForeign
        /\ "destination" \in Paths /\ "destination" \notin Exporters
    BY <1>1, Facts, Kinds DEF TreesFit
  <2>2. ASSUME NEW p \in Exporters, NEW acknowledged \in BOOLEAN, Rename(p, acknowledged)
        PROVE  tree["destination"] = NoTree
    BY <2>1, <2>2, FreeIsEmpty DEF Rename, DestinationFree
  <2>3. ASSUME NEW p \in Exporters, NEW n \in Staged,
               Make(p, n) \/ WriteFile(p, n) \/ CleanRemoves(p, n)
        PROVE  tree'["destination"] = tree["destination"]
    BY <2>1, <2>3 DEF Make, WriteFile, CleanRemoves
  <2>4. ASSUME NEW x \in Paths, ForeignActs(x) PROVE acts' # acts
    BY <2>1, <2>4 DEF ForeignActs
  <2>5. \/ UNCHANGED tree
        \/ \E p \in Exporters :
               \/ \E acknowledged \in BOOLEAN : Rename(p, acknowledged)
               \/ \E n \in Staged : Make(p, n) \/ WriteFile(p, n) \/ CleanRemoves(p, n)
        \/ \E x \in Paths : ForeignActs(x)
    <3>1. \A v \in Verifiers :
              (VerifierStarts(v) \/ \E how \in {"verified", "error"} : VerifierEnds(v, how)) => UNCHANGED tree
      BY DEF VerifierStarts, VerifierEnds
    <3>2. \A a \in Actors :
              (ListVersion(a) \/ RecheckRoot(a) \/ \E m \in Members : ReadMember(a, m) \/ RecheckMember(a, m))
              => UNCHANGED tree
      BY DEF ListVersion, RecheckRoot, ReadMember, RecheckMember
    <3>3. \A p \in Exporters, n \in Staged :
              \/ CheckParent(p, n) \/ CaptureDirectory(p, n) \/ CaptureFile(p, n)
              \/ CleanChecks(p, n) \/ CleanSkips(p, n)
              => UNCHANGED tree
      BY DEF CheckParent, CaptureDirectory, CaptureFile, CleanChecks, CleanSkips
    <3>4. \A p \in Exporters :
              \/ ExportStarts(p) \/ ExportVerifies(p) \/ Attempt(p) \/ RenameRefused(p)
              \/ ExportReturns(p) \/ ExportFindsAnother(p) \/ ExportLosesSight(p) \/ ExportFails(p)
              => UNCHANGED tree
      BY DEF ExportStarts, ExportVerifies, Attempt, RenameRefused, ExportReturns,
             ExportFindsAnother,
             ExportLosesSight, ExportFails
    <3>5. \A p \in Exporters :
              ObserveStaging(p) \/ Observe(p) \/ ObservationFails(p) \/ CleanEnds(p) \/ Report(p)
              => UNCHANGED tree
      BY DEF ObserveStaging, Observe, ObservationFails, CleanEnds, Report
    <3>6. ~UNCHANGED tree =>
              \/ \E p \in Exporters :
                     \/ \E acknowledged \in BOOLEAN : Rename(p, acknowledged)
                     \/ \E n \in Staged : Make(p, n) \/ WriteFile(p, n) \/ CleanRemoves(p, n)
              \/ \E x \in Paths : ForeignActs(x)
      BY <1>1, <3>1, <3>2, <3>3, <3>4, <3>5, Zenon DEF DirNext
    <3> QED BY <3>6
  <2> QED BY <2>2, <2>3, <2>4, <2>5 DEF ReplacesNothing
<1>2. DirInv /\ [DirNext]_dirVars => [ReplacesNothing]_dirVars
  BY <1>1
<1> QED BY <1>2, DirInvariant, PTL DEF DirSpec
=============================================================================
