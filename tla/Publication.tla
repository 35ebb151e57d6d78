----------------------------- MODULE Publication -----------------------------
(***************************************************************************)
(* staged_output (_atomic.py): publishers fill a private staging file in   *)
(* the directory of one destination, flush and fsync it, and publish it by *)
(* rename (replace) or by hard link (no replace), then remove the staging  *)
(* name.  The body of the context, the publication and the removal can     *)
(* fail; an interrupt (KeyboardInterrupt, or any exception that is not an  *)
(* OSError outside the body) can arrive anywhere, before the name of the   *)
(* staging file is known and inside its removal too; and a process can die *)
(* anywhere.  A publisher whose staging name stayed does not call again.   *)
(***************************************************************************)
EXTENDS Naturals, FiniteSets

CONSTANTS
    Publishers,
    Replacing,      \* the publishers that call with replace=True
    NoFile,         \* no such name
    Torn            \* a file whose bytes are not all written and synced

PublicationAssumption ==
    /\ Replacing \subseteq Publishers
    /\ NoFile \notin Publishers /\ Torn \notin Publishers /\ NoFile # Torn

VARIABLES
    dest,       \* what the destination name holds
    staging,    \* per publisher: what its staging name holds
    stage,      \* per publisher: where its call stands
    flag,       \* per publisher: the local `published`
    cause,      \* per publisher: "none", or the `failure` that ends its call
    told,       \* per publisher: what its last call reported
    went        \* history, per publisher: its call put its file at the destination

pubVars == <<dest, staging, stage, flag, cause, told, went>>

-----------------------------------------------------------------------------
PubInit ==
    /\ dest = NoFile
    /\ staging = [p \in Publishers |-> NoFile]
    /\ stage = [p \in Publishers |-> "idle"]
    /\ flag = [p \in Publishers |-> FALSE]
    /\ cause = [p \in Publishers |-> "none"]
    /\ told = [p \in Publishers |-> "nothing"]
    /\ went = [p \in Publishers |-> FALSE]

Step(p, from, to) == stage[p] = from /\ stage' = [stage EXCEPT ![p] = to]

\* NamedTemporaryFile: the file is created, under a name nobody else uses.
OpenStaging(p) ==
    /\ Step(p, "idle", "naming")
    /\ staging[p] = NoFile
    /\ staging' = [staging EXCEPT ![p] = Torn]
    /\ flag' = [flag EXCEPT ![p] = FALSE]
    /\ cause' = [cause EXCEPT ![p] = "none"]
    /\ told' = [told EXCEPT ![p] = "nothing"]
    /\ went' = [went EXCEPT ![p] = FALSE]
    /\ UNCHANGED dest

\* temporary = Path(handle.name): from now on the call knows what it has to remove.
NameStaging(p) ==
    /\ Step(p, "naming", "filling")
    /\ UNCHANGED <<dest, staging, flag, cause, told, went>>

\* Mutant: the file is published before its bytes are flushed.
SyncedUnflushed(content) == Torn

\* flush, fsync, close: the staging file now holds the whole content.
Synced(content) == content

\* The body has written `content` and ends without an exception.
Sync(p, content) ==
    /\ Step(p, "filling", "synced")
    /\ staging' = [staging EXCEPT ![p] = Synced(content)]
    /\ UNCHANGED <<dest, flag, cause, told, went>>

\* Mutant: a rename where the hard link is.
MayTakeAlways(p) == TRUE

\* os.replace takes the name whatever it holds; os.link only a free one.
MayTake(p) == p \in Replacing \/ dest = NoFile

\* os.replace moves the staging name, os.link leaves it.
Publish(p) ==
    /\ MayTake(p) /\ Step(p, "synced", "taken")
    /\ dest' = staging[p]
    /\ staging' = IF p \in Replacing THEN [staging EXCEPT ![p] = NoFile] ELSE staging
    /\ went' = [went EXCEPT ![p] = TRUE]
    /\ UNCHANGED <<flag, cause, told>>

\* published = True
Acknowledge(p) ==
    /\ Step(p, "taken", "leaving")
    /\ flag' = [flag EXCEPT ![p] = TRUE]
    /\ UNCHANGED <<dest, staging, cause, told, went>>

\* An exception of the body (its own, or one of flush, fsync or close), or an
\* OSError of the publication: the name was not free, or the call failed.
Fails(p) ==
    /\ stage[p] \in {"filling", "synced"}
    /\ stage' = [stage EXCEPT ![p] = "leaving"]
    /\ cause' = [cause EXCEPT ![p] = "error"]
    /\ UNCHANGED <<dest, staging, flag, told, went>>

\* An interrupt before the finally clause, possibly between the link and its
\* acknowledgement: the removal is still tried.
Interrupt(p) ==
    /\ stage[p] \in {"filling", "synced", "taken", "leaving"}
    /\ stage' = [stage EXCEPT ![p] = "leaving"]
    /\ cause' = [cause EXCEPT ![p] = "interrupt"]
    /\ UNCHANGED <<dest, staging, flag, told, went>>

\* An interrupt that ends the call without a removal that is known to be done: before
\* the name is known, or before, inside or after the unlink, which catches OSError only.
InterruptCleanup(p) ==
    /\ stage[p] \in {"naming", "leaving"}
    /\ stage' = [stage EXCEPT ![p] = "idle"]
    /\ cause' = [cause EXCEPT ![p] = "interrupt"]
    /\ told' = [told EXCEPT ![p] = "interrupt"]
    /\ \/ UNCHANGED staging
       \/ stage[p] = "leaving" /\ staging' = [staging EXCEPT ![p] = NoFile]
    /\ UNCHANGED <<dest, flag, went>>

\* The note, or the error, that a failed removal of the staging name leaves.
Residue(p) == IF flag[p] THEN "published, residue" ELSE "unpublished, residue"

\* Mutant: an error of the removal is swallowed.
OutcomeSwallowed(p, removed) ==
    IF cause[p] = "none" THEN "ok" ELSE cause[p]

\* How the call ends; a note is added to the failure there already is.
Outcome(p, removed) ==
    IF ~removed THEN Residue(p) ELSE IF cause[p] = "none" THEN "ok" ELSE cause[p]

\* finally: the staging name is removed, when the call still owns one.
Leave(p, removed) ==
    /\ Step(p, "leaving", "idle")
    /\ removed \/ staging[p] # NoFile
    /\ staging' = IF removed THEN [staging EXCEPT ![p] = NoFile] ELSE staging
    /\ told' = [told EXCEPT ![p] = Outcome(p, removed)]
    /\ UNCHANGED <<dest, flag, cause, went>>

\* The process dies; what it staged stays, and nobody is told anything.
Crash(p) ==
    /\ stage[p] \notin {"idle", "dead"}
    /\ stage' = [stage EXCEPT ![p] = "dead"]
    /\ UNCHANGED <<dest, staging, flag, cause, told, went>>

\* Somebody else removes the destination.
RemoveDestination ==
    /\ dest # NoFile
    /\ dest' = NoFile
    /\ UNCHANGED <<staging, stage, flag, cause, told, went>>

\* What staged_output does around the body.
PublisherNext(p) ==
    \/ NameStaging(p)
    \/ Publish(p)
    \/ Acknowledge(p)
    \/ Fails(p)
    \/ Interrupt(p)
    \/ InterruptCleanup(p)
    \/ \E removed \in BOOLEAN : Leave(p, removed)
    \/ Crash(p)

\* Publishers that write something of their own.
PubNext ==
    \/ \E p \in Publishers : OpenStaging(p) \/ Sync(p, p) \/ PublisherNext(p)
    \/ RemoveDestination

PubSpec == PubInit /\ [][PubNext]_pubVars

-----------------------------------------------------------------------------
(***************************************************************************)
(* Type invariant.                                                         *)
(***************************************************************************)
PubTypeOK ==
    /\ dest \in Publishers \cup {NoFile}
    /\ staging \in [Publishers -> Publishers \cup {NoFile, Torn}]
    /\ stage \in [Publishers -> {"idle", "naming", "filling", "synced", "taken", "leaving", "dead"}]
    /\ flag \in [Publishers -> BOOLEAN] /\ went \in [Publishers -> BOOLEAN]
    /\ cause \in [Publishers -> {"none", "error", "interrupt"}]
    /\ told \in [Publishers -> {"nothing", "ok", "error", "interrupt",
                                "published, residue", "unpublished, residue"}]

(***************************************************************************)
(* An ordinary report is the truth: success and "published" mean that the  *)
(* file was put at the destination, an error and "unpublished" that it was *)
(* not, and neither success nor an error leaves a staging name behind.     *)
(* After an interrupt the report says nothing: the file may be there or    *)
(* not, and the staging name too.                                          *)
(***************************************************************************)
ReportsTruthful ==
    \A p \in Publishers : stage[p] = "idle" =>
        /\ told[p] \in {"ok", "published, residue"} => went[p]
        /\ told[p] = "error" => ~went[p]
        /\ told[p] = "unpublished, residue" /\ cause[p] # "interrupt" => ~went[p]
        /\ staging[p] # NoFile =>
               told[p] \in {"published, residue", "unpublished, residue", "interrupt"}

(***************************************************************************)
(* The name changes hands only by a publication of whole bytes: a          *)
(* publisher without replace never takes it from a file that is there,     *)
(* whoever else publishes, dies or is interrupted at the same time.        *)
(***************************************************************************)
TakesWhenFree == \A p \in Publishers \ Replacing : dest' = p => dest \in {NoFile, p}

(***************************************************************************)
(* The claim of the docstring (_atomic.py:28): a staging file that could   *)
(* not be removed after a no-replace publication is reported as published. *)
(***************************************************************************)
ResidueNamesPublication ==
    \A p \in Publishers :
        stage[p] = "idle" /\ told[p] = "unpublished, residue" => ~went[p]
=============================================================================
