------------------------------ MODULE MCFiles -------------------------------
(***************************************************************************)
(* What the commands make of files: an archive that is written by others   *)
(* while it is read, or built from sources that are; publishers of one     *)
(* name; schema directories; new stores; and the commands on a store.      *)
(***************************************************************************)
EXTENDS ArtifactBundle, SchemaDirectory, StoreCommand, TLC

CONSTANTS
    p1, p2, m1, m2,         \* an exporter and the files of a schema directory
    left                \* one of the contents of the commands file

A == <<0, 1>>
B == <<1, 0>>

Ref(id, sha, size) == [id |-> id, sha |-> sha, size |-> size]

\* Two artifact IDs with one content, two sizes declared for one content, and nothing.
BuildWorkflows ==
    {[head |-> 1, evidence |-> 1, refs |-> <<Ref("a", B, 2), Ref("b", A, 2), Ref("c", B, 2)>>],
     [head |-> 2, evidence |-> 1, refs |-> <<Ref("a", B, 2), Ref("b", B, 1)>>],
     [head |-> 3, evidence |-> 1, refs |-> <<>>]}
ReadWorkflows == {w \in BuildWorkflows : w.head # 3}
MCOthers == {[head |-> 1, evidence |-> 2, refs |-> <<Ref("a", A, 2)>>]}
\* All contents of two chunks, or three of them.
BuildDigests == <<<<0, 0>>, A, B, <<1, 1>>>>
ReadDigests == SubSeq(BuildDigests, 1, 3)
MCInitialData == [a |-> B, b |-> A, c |-> B]

MCBefore == (m1 :> {}) @@ (m2 :> {m1})

VARIABLES
    system,     \* what this behaviour is of
    path, content, sidecar, made, phase, mine, identity, outcome, closed, report, compared,
    removed, strays

reservation == <<path, content, sidecar, made, phase, mine, identity, outcome, closed, report,
                 compared, removed, strays>>

\* One builder, with source files that are written twice.
Build == INSTANCE ArtifactBundle WITH
    Readers <- {}, Workflows <- BuildWorkflows, DigestOrder <- BuildDigests,
    MaxEdits <- 2, MaxTampers <- 0

\* Two publishers that must not replace and one that may.
Publishing == INSTANCE Publication WITH Publishers <- {"n1", "n2", "r1"}, Replacing <- {"r1"}

\* Two creators of a workflow store, or of a case store, at one path.
Create == INSTANCE StoreReservation WITH
    Creators <- {"w1", "w2"}, CaseCreators <- {}, MaxFiles <- 3
CreateCase == INSTANCE StoreReservation WITH
    Creators <- {"w1", "w2"}, CaseCreators <- {"w1", "w2"}, MaxFiles <- 3

ASSUME Publishing!PublicationAssumption /\ Create!ReservationAssumption
ASSUME CreateCase!ReservationAssumption

FilesInit ==
    /\ system \in {"read", "build", "publish", "export", "race", "create", "create case", "command"}
    /\ CASE system = "build" -> Build!Init
         [] system = "publish" ->
                Publishing!PubInit /\ src = <<>> /\ build = <<>> /\ reader = <<>>
         [] OTHER -> Init
    /\ DirInit
    /\ IF system = "create case" THEN CreateCase!Init ELSE Create!Init
    /\ CommandInit /\ file = left      \* the two contents are alike

\* The archive is read, and written by others, when its only builder is done with it.
Settled ==
    /\ \A b \in Publishers : stage'[b] = "naming" => dest = NoFile
    /\ reader' # reader \/ (dest # NoFile /\ dest' # dest) =>
           \A b \in Publishers : stage[b] \in {"idle", "dead"}

\* Nobody exports in the name of p, or touches its staging path.
Alone(p) == doing'[p] = "idle" /\ tree'[p] = NoTree

\* One exporter and one verifier; others change things once more when the export is over.
Exporting == Alone(p2) /\ (acts' = MaxForeign => doing'[p1] = "idle")

\* Two exporters.  What they do up to the rename is their own, so that p2 starts when p1
\* has come to it, and nobody fails before; somebody else acts when the trees are complete.
Local == {"building", "making", "made", "opened", "verifying"}

Racing ==
    /\ \A v \in Verifiers : doing'[v] = "idle"
    /\ doing'[p2] # "idle" => doing[p1] \notin Local /\ (doing[p1] = "idle" => answer[p1] # "nothing")
    /\ \A p \in Exporters : doing[p] \in Local => doing'[p] # "failed"
    /\ acts' # acts => acts = 0 /\ {doing[p1], doing[p2]} \cap Local = {}

\* The components share nothing: a behaviour is one of a single component, beside
\* the initial states of the others.
FilesNext ==
    \/ /\ system = "read" /\ Next /\ Settled
       /\ UNCHANGED <<system, dirVars, reservation, commandVars>>
    \/ system = "build" /\ Build!Next /\ UNCHANGED <<system, dirVars, reservation, commandVars>>
    \/ /\ system = "publish" /\ Publishing!PubNext
       /\ UNCHANGED <<system, src, build, reader, dirVars, reservation, commandVars>>
    \/ /\ system = "export" /\ DirNext /\ Exporting
       /\ UNCHANGED <<system, vars, reservation, commandVars>>
    \/ /\ system = "race" /\ DirNext /\ Racing
       /\ UNCHANGED <<system, vars, reservation, commandVars>>
    \/ system = "create" /\ Create!Next /\ UNCHANGED <<system, vars, dirVars, commandVars>>
    \/ system = "create case" /\ CreateCase!Next /\ UNCHANGED <<system, vars, dirVars, commandVars>>
    \/ system = "command" /\ CommandNext /\ UNCHANGED <<system, vars, dirVars, reservation>>

allVars == <<system, vars, dirVars, reservation, commandVars>>

\* Only the operator can always go on; what others do is bounded.
Stopped == system # "command" /\ UNCHANGED allVars

FilesSpec == FilesInit /\ [][FilesNext \/ Stopped]_allVars

-----------------------------------------------------------------------------
\* What is built and published is what the workflow commits to, a reader accepts the
\* archive its heads commit to or none, and copies that passed verify (artifacts.py).
ArchivesSound ==
    /\ system = "read" => TypeOK /\ AcceptedIsCommitted
    /\ system = "build" => Build!TypeOK /\ Build!PublishedIsCommitted /\ Build!BuiltIsAccepted

\* What a publisher reports of its file and of its staging file is true (_atomic.py).
PublishersTruthful == system = "publish" => Publishing!PubTypeOK /\ Publishing!ReportsTruthful

\* A failed creation removes no store that was there when it compared the file with its
\* own, and reports outcome none when it made none (workflow_storage.py); a created case
\* store is in the file its creator opened, and outcome none means that it made none or
\* could not read what it had committed (case_storage.py).
CreationsSound ==
    /\ system = "create" => Create!CreationsSound
    /\ system = "create case" => CreateCase!CreationsSound

\* A step never takes a name that is not free: only replace=True replaces (_atomic.py),
\* no export replaces a destination (schema_directory.py); and a step never commits
\* but what was approved (workflow_store_cli.py).
NothingReplaced ==
    [][/\ system = "publish" => Publishing!TakesWhenFree
       /\ system \in {"export", "race"} => ReplacesNothing
       /\ system = "command" => CommitsTheApproved]_allVars
=============================================================================
