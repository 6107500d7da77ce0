------------------------------ MODULE OutputWriter ------------------------------
(***************************************************************************)
(* What tslc leaves in an output tree (output/writer.py, and the order in  *)
(* which generation_command.py calls it): plan, remove what the previous   *)
(* manifest lists and this generation does not emit, write the artifacts,  *)
(* replace the manifest, format in place, re-hash the manifest, verify and *)
(* attest.  Every file operation may fail, the process may die between any *)
(* two of them or in the middle of a write, and the tree's owner changes   *)
(* files between runs.                                                     *)
(*                                                                         *)
(* A content says which run made it (0: the owner of the tree) and whether *)
(* it is as written, formatted, torn by a write of tslc that did not get   *)
(* to its end, or cut short by a formatter that did not.  A digest stands  *)
(* for the content it is the digest of.                                    *)
(***************************************************************************)
EXTENDS Integers, FiniteSetsExt, Functions

CONSTANTS
  Path,       \* logical paths, numbered in the order of their names
  Above,      \* the proper prefixes of a path
  Matched,    \* paths the formatter's file patterns match
  MaxRuns,    \* bound: runs of the compiler
  MaxChanges  \* bound: changes by the owner of the tree

ASSUME OutputWriterAssumption ==
  /\ Path \in SUBSET Nat /\ IsFiniteSet(Path) /\ Matched \subseteq Path
  /\ Above \in [Path -> SUBSET Path] /\ \A p \in Path : p \notin Above[p]
  /\ MaxRuns \in Nat /\ MaxChanges \in Nat

VARIABLES
  disk,      \* what is at each path: a content, a directory or nothing
  manifest,  \* digest of every path the generator manifest lists
  attested,  \* the manifest the attestation names, and the bytes it is about
  run,       \* the run under way
  runs,      \* runs so far; the number of the current one
  changes,   \* changes of the owner so far
  unlisted,  \* history: runs that ended without listing what they wrote
  theirs     \* history: paths of the owner's last file, where none was listed

vars == <<disk, manifest, attested, run, runs, changes, unlisted, theirs>>

Content == [made : 0..MaxRuns, form : {"whole", "formatted", "torn", "cut"}]
Absent == [made |-> 0, form |-> "absent"]
Directory == [made |-> 0, form |-> "directory"]

IsFile(p) == disk[p] \notin {Absent, Directory}
Owned == DOMAIN manifest
Fresh == [made |-> runs, form |-> "whole"]
Torn == [made |-> runs, form |-> "torn"]

Mode == {"overwrite", "manifest-clean"}
NoRun == [stage |-> "idle", mode |-> "overwrite", artifacts |-> {}, todo |-> {}, failed |-> FALSE]

\* Nothing but a directory can be above a file.
With(p, content) ==
  [q \in Path |-> IF q = p THEN content ELSE IF q \in Above[p] THEN Directory ELSE disk[q]]

Init ==
  /\ disk = [p \in Path |-> Absent]
  /\ manifest = [p \in {} |-> Absent]
  /\ attested = [manifest |-> manifest, compiled |-> manifest]
  /\ run = NoRun /\ runs = 0 /\ changes = 0 /\ unlisted = {} /\ theirs = {}

-----------------------------------------------------------------------------
\* Planning.  A path must not lie below another of the same set, nor be a
\* directory, nor lie below a file, in the tree as it is before anything is
\* removed from it.
Refused(artifacts) ==
  \E p \in artifacts :
    \/ disk[p] = Directory
    \/ \E q \in Above[p] : q \in artifacts \/ IsFile(q)

\* MUTANT: whatever is on the disk and not emitted counts as stale.
EverythingElse(artifacts) == {p \in Path \ artifacts : IsFile(p)}

Stale(artifacts) == Owned \ artifacts

Generate(artifacts, mode) ==
  /\ run.stage = "idle" /\ runs < MaxRuns
  /\ runs' = runs + 1
  /\ run' = IF Refused(artifacts) THEN NoRun
            ELSE [NoRun EXCEPT
                    !.stage = IF mode = "overwrite" THEN "writing" ELSE "removing",
                    !.mode = mode, !.artifacts = artifacts,
                    !.todo = IF mode = "overwrite" THEN artifacts ELSE Stale(artifacts)]
  /\ UNCHANGED <<disk, manifest, attested, changes, unlisted, theirs>>

\* The run is over and its files are not in the manifest.
EndUnlisted == run' = NoRun /\ unlisted' = unlisted \cup {runs}

\* One path of a list, in the order of names.
Item == Min(run.todo)
Did(failed) == run' = [run EXCEPT !.todo = @ \ {Item}, !.failed = @ \/ failed]

\* _remove_stale_manifest_paths: what is gone already is skipped; a directory
\* or an unlink that fails is a diagnostic.
Remove ==
  /\ run.stage = "removing" /\ run.todo # {}
  /\ \/ /\ IsFile(Item)
        /\ disk' = [disk EXCEPT ![Item] = Absent]
        /\ Did(FALSE)
     \/ /\ disk[Item] = Absent
        /\ Did(FALSE) /\ UNCHANGED disk
     \/ /\ disk[Item] # Absent
        /\ Did(TRUE) /\ UNCHANGED disk
  /\ UNCHANGED <<manifest, attested, runs, changes, unlisted, theirs>>

\* MUTANT: the artifacts are written whether or not all stale files went.
RemovedAnyway ==
  /\ run.stage = "removing" /\ run.todo = {}
  /\ run' = [run EXCEPT !.stage = "writing", !.todo = run.artifacts, !.failed = FALSE]
  /\ UNCHANGED <<disk, manifest, attested, runs, changes, unlisted, theirs>>

\* Any diagnostic ends the run here; nothing has been written.
Removed ==
  /\ run.stage = "removing" /\ run.todo = {}
  /\ IF run.failed
     THEN run' = NoRun
     ELSE run' = [run EXCEPT !.stage = "writing", !.todo = run.artifacts]
  /\ UNCHANGED <<disk, manifest, attested, runs, changes, unlisted, theirs>>

\* MUTANT: a write that fails leaves no diagnostic.
WriteUnreported ==
  /\ run.stage = "writing" /\ run.todo # {}
  /\ \/ disk' = With(Item, Fresh)
     \/ disk' = With(Item, Torn)
     \/ UNCHANGED disk
  /\ Did(FALSE)
  /\ UNCHANGED <<manifest, attested, runs, changes, unlisted, theirs>>

\* write_bytes truncates before it writes; a failure is a diagnostic and the
\* other artifacts are still written.
Write ==
  /\ run.stage = "writing" /\ run.todo # {}
  /\ \/ disk' = With(Item, Fresh) /\ Did(FALSE)
     \/ disk' = With(Item, Torn) /\ Did(TRUE)
     \/ UNCHANGED disk /\ Did(TRUE)
  /\ UNCHANGED <<manifest, attested, runs, changes, unlisted, theirs>>

\* _write_manifest: a temporary file takes the manifest's place, with the
\* digests of the artifacts in memory.  Not for a run with diagnostics, and
\* not in overwrite mode, which the command line never asks for.
WriteManifest ==
  /\ run.stage = "writing" /\ run.todo = {}
  /\ \/ /\ run.mode = "manifest-clean" /\ ~run.failed
        /\ manifest' = [p \in run.artifacts |-> Fresh]
        /\ run' = [run EXCEPT !.stage = "listed"]
        /\ UNCHANGED unlisted
     \/ EndUnlisted /\ UNCHANGED manifest
  /\ UNCHANGED <<disk, attested, runs, changes, theirs>>

-----------------------------------------------------------------------------
\* The rest of run_generation_command.

\* What a formatter makes of a file it rewrites in place.  What was cut short
\* before stays so.
Rewritten(content, form) ==
  IF content.form \in {"whole", "formatted"} THEN [content EXCEPT !.form = form] ELSE content

\* What it may leave: the file as it was, formatted, or cut short where it
\* failed or was killed.
Reformatted(content) ==
  {content, Rewritten(content, "formatted"), Rewritten(content, "cut")}

\* format_generated: the formatter is given every matching file of the tree
\* and may fail anywhere, which is a note; it was attempted if it was started
\* at all.
Format ==
  /\ run.stage = "listed"
  /\ \E done, cut \in SUBSET {p \in Matched : IsFile(p)} :
       disk' = [p \in Path |-> IF p \in cut THEN Rewritten(disk[p], "cut")
                               ELSE IF p \in done THEN Rewritten(disk[p], "formatted")
                               ELSE disk[p]]
  /\ run' = [run EXCEPT !.stage = "formatted"]
  /\ UNCHANGED <<manifest, attested, runs, changes, unlisted, theirs>>

\* MUTANT: the manifest is not re-hashed when the formatter failed.
RefreshSometimes ==
  /\ run.stage = "formatted"
  /\ \/ manifest' = [p \in Owned |-> disk[p]]
     \/ UNCHANGED manifest
  /\ run' = [run EXCEPT !.stage = "ready"]
  /\ UNCHANGED <<disk, attested, runs, changes, unlisted, theirs>>

\* refresh_manifest: every listed path is hashed again.  A diagnostic ends
\* the run and leaves the manifest.
Refresh ==
  /\ run.stage = "formatted"
  /\ \/ /\ \A p \in Owned : IsFile(p)
        /\ manifest' = [p \in Owned |-> disk[p]]
        /\ run' = [run EXCEPT !.stage = "ready"]
     \/ run' = NoRun /\ UNCHANGED manifest
  /\ UNCHANGED <<disk, attested, runs, changes, unlisted, theirs>>

\* verify_generated_project compiles the tree and names the manifest in the
\* attestation; without a formatter this follows the writing at once.
Verify ==
  /\ run.stage \in {"listed", "ready"}
  /\ \/ attested' = [manifest |-> manifest, compiled |-> [p \in Owned |-> disk[p]]]
     \/ UNCHANGED attested
  /\ run' = NoRun
  /\ UNCHANGED <<disk, manifest, runs, changes, unlisted, theirs>>

\* The process dies; a write it was at may have truncated its file.
Crash ==
  /\ run.stage # "idle"
  /\ \/ UNCHANGED disk
     \/ /\ run.stage = "writing" /\ run.todo # {}
        /\ disk' = With(Item, Torn)
  /\ IF run.stage = "writing" THEN EndUnlisted ELSE run' = NoRun /\ UNCHANGED unlisted
  /\ UNCHANGED <<manifest, attested, runs, changes, theirs>>

-----------------------------------------------------------------------------
\* The owner of the tree, between runs: writes a file or deletes one.
Change(p) ==
  /\ run.stage = "idle" /\ changes < MaxChanges
  /\ changes' = changes + 1
  /\ \/ /\ disk[p] # Directory /\ \A q \in Above[p] : ~IsFile(q)
        /\ disk' = With(p, [made |-> 0, form |-> "whole"])
        /\ theirs' = IF p \in Owned THEN theirs \ {p} ELSE theirs \cup {p}
     \/ /\ IsFile(p)
        /\ disk' = [disk EXCEPT ![p] = Absent]
        /\ theirs' = theirs \ {p}
  /\ UNCHANGED <<manifest, attested, run, runs, unlisted>>

RunStep == \/ Remove \/ Removed \/ Write \/ WriteManifest
           \/ Format \/ Refresh \/ Verify \/ Crash

Next ==
  \/ \E artifacts \in (SUBSET Path) \ {{}}, mode \in Mode : Generate(artifacts, mode)
  \/ RunStep
  \/ \E p \in Path : Change(p)

Spec == Init /\ [][Next]_vars

-----------------------------------------------------------------------------
\* Every variable has its type, and what is above a file is a directory.
TypeOK ==
  /\ disk \in [Path -> Content \cup {Absent, Directory}]
  /\ Owned \subseteq Path /\ Range(manifest) \subseteq Content
  /\ DOMAIN attested.manifest \subseteq Path
  /\ run.stage \in {"idle", "removing", "writing", "listed", "formatted", "ready"}
  /\ run.artifacts \subseteq Path /\ run.todo \subseteq Path
  /\ runs \in 0..MaxRuns /\ changes \in 0..MaxChanges
  /\ unlisted \subseteq 1..MaxRuns /\ theirs \subseteq Path
  /\ \A p \in Path : IsFile(p) => \A q \in Above[p] : disk[q] = Directory

\* A generated file the manifest does not list was written by a run that
\* never got as far as its manifest: whatever a completed run leaves behind,
\* later runs know and clean up, failures and crashes in between included
\* (ArtifactWriter.write, which stops before writing when a removal failed
\* and lists nothing when a write failed).
StrayFilesAreOfUnlistedRuns ==
  run.stage = "idle" =>
    \A p \in Path \ Owned :
      IsFile(p) /\ disk[p].made > 0 => disk[p].made \in unlisted

\* No run changes a byte the owner of the tree wrote, except where it emits a
\* file itself, where the formatter is given the file, or where the owner edited
\* a file that was listed and this run does not emit: such a file is taken away
\* whole, edit and all.  A file put where nothing was listed is never taken away,
\* however the manifests change meanwhile (_remove_stale_manifest_paths goes by
\* the manifest, never by what is found in the tree; _plan_writes sees to it
\* that no artifact needs a directory where a file is).
OwnersBytesSurvive ==
  [][\A p \in Path :
       run.stage # "idle" /\ IsFile(p) /\ disk[p].made = 0 =>
         \/ disk'[p] = disk[p]
         \/ run.stage = "writing" /\ p \in run.artifacts /\ disk'[p] \in {Fresh, Torn}
         \/ run.stage = "listed" /\ p \in Matched /\ disk'[p] \in Reformatted(disk[p])
         \/ run.stage = "removing" /\ p \notin theirs \cup run.artifacts
            /\ disk'[p] = Absent]_vars

\* The manifest is of one generation: whatever failed or was interrupted in
\* between, its digests are all of files one run made, none left over from an
\* earlier run or written by the owner, and none that a write of tslc cut short.
\* A file a failing formatter cut short is listed as it is: the re-hash, which
\* follows the formatter however it ended, takes what it finds
\* (ArtifactWriter.write, refresh_manifest).
ManifestIsOfOneGeneration ==
  \A p \in Owned :
    /\ manifest[p].form # "torn" /\ manifest[p].made > 0
    /\ \A q \in Owned : manifest[q].made = manifest[p].made

\* The attestation identifies the bytes that were compiled: every digest of
\* the manifest it names is that of the file the verification read, whatever
\* the formatter did to the tree before (generation_command.py,
\* write_verification_attestation).
AttestationIdentifiesTheBytes == attested.manifest = attested.compiled
=============================================================================
