---------------------------- MODULE SourceProjection ----------------------------
(***************************************************************************)
(* The build half of droidloom-update (tools/droidloom-update/src/main.rs, *)
(* android.rs, assemble.rs, util.rs; tools/droidloom-source/src/lib.rs).   *)
(* The builder patches the pinned AOSP checkout in place, compiles it and  *)
(* puts it back.  It may be killed at any point; the compilers it started  *)
(* keep running.  A durable journal of the original files, and a lock file *)
(* whose descriptor the compilers inherit, are what the next run relies on.*)
(***************************************************************************)
EXTENDS Integers, FiniteSets

CONSTANTS Sources,     \* files of the checkout that the patches touch
          Created,     \* those among them that only the patches create
          Projects,    \* AOSP projects that some source lock names
          Pins,        \* base images that some source lock selects
          ResourceSize, \* of each image: the size of its framework-res.apk
          MaxKills     \* bound: deaths of the builder

ASSUME BuilderAssumption ==
  Created \subseteq Sources /\ MaxKills \in Nat /\ ResourceSize \in [Pins -> Nat]

VARIABLES tree,      \* content of every file of the checkout
          journal,   \* source-projection.json: file |-> original content
          checkouts, \* the projects present in the source tree
          manifest,  \* the projects of .droidloom-source-manifest.json
          base,      \* the extracted system image and its marker file
          lock,      \* the source lock in the repository: projects and image
          run,       \* the builder: its step and what it holds in memory
          compiler,  \* a compiler is reading the checkout
          kills, dirty

builderVars == <<tree, journal, checkouts, manifest, base, lock, run, compiler, kills, dirty>>

NoImage == 0

Pristine(f) == IF f \in Created THEN "absent" ELSE "pinned"

Nothing == [f \in {} |-> "pinned"]

Unstarted == [pc |-> "idle", saved |-> Nothing, todo |-> {}]

(* A work directory in which nothing was built yet. *)
BuilderInit ==
  /\ tree = [f \in Sources |-> Pristine(f)]
  /\ journal = Nothing
  /\ checkouts = {} /\ manifest = {}
  /\ base = [marker |-> NoImage, image |-> NoImage, resources |-> FALSE, whole |-> FALSE]
  /\ lock \in [projects : (SUBSET Projects) \ {{}}, pin : Pins]
  /\ run = Unstarted /\ compiler = FALSE /\ kills = 0 /\ dirty = FALSE

Step(pc) == run' = [run EXCEPT !.pc = pc]

(* flock on package-build.lock and aosp-source-update.lock: the descriptor *)
(* stays open in the compilers of a builder that was killed.               *)
\* Mutant: the compilers do not inherit the lock.
FreeOfBuilders == run.pc = "idle"
Acquirable == FreeOfBuilders /\ ~compiler

(* The updater starts: locks, then restores an interrupted projection from *)
(* the journal before anything else.                                       *)
Begin ==
  /\ Acquirable
  /\ run' = [pc |-> IF DOMAIN journal = {} THEN "inputs" ELSE "recover",
             saved |-> journal, todo |-> DOMAIN journal]
  /\ UNCHANGED <<tree, journal, checkouts, manifest, base, lock, compiler, kills, dirty>>

(* prepare_inputs: the cached extraction of the system image is kept when  *)
(* its marker names the pinned image and the framework resources exist in  *)
(* it; otherwise it is removed, extracted again, and marked.               *)
BaseValid == base.marker = lock.pin /\ base.resources

(* The size of framework-res.apk is compared with the lock afterwards.     *)
KeepBase ==
  /\ run.pc = "inputs" /\ BaseValid
  /\ run' = IF ResourceSize[base.image] = ResourceSize[lock.pin]
            THEN [run EXCEPT !.pc = "source"] ELSE Unstarted
  /\ UNCHANGED <<tree, journal, checkouts, manifest, base, lock, compiler, kills, dirty>>

Extract ==
  /\ run.pc = "inputs" /\ ~BaseValid
  /\ \E r \in BOOLEAN :
       base' = [base EXCEPT !.image = lock.pin, !.resources = r, !.whole = FALSE]
  /\ Step("extract")
  /\ UNCHANGED <<tree, journal, checkouts, manifest, lock, compiler, kills, dirty>>

Extracted ==
  /\ run.pc = "extract"
  /\ base' = [base EXCEPT !.resources = TRUE, !.whole = TRUE,
                        !.marker = lock.pin]
  /\ Step("source")
  /\ UNCHANGED <<tree, journal, checkouts, manifest, lock, compiler, kills, dirty>>

(* materialize: the first checkout is staged and published by one rename.  *)
Materialize ==
  /\ run.pc = "source" /\ manifest = {}
  /\ checkouts' = lock.projects /\ manifest' = lock.projects
  /\ Step("project")
  /\ UNCHANGED <<tree, journal, base, lock, compiler, kills, dirty>>

(* git status of every project: the checkout equals its pinned commit.     *)
Clean == \A f \in Sources : tree[f] = Pristine(f)

(* reconcile adds projects one by one, verifying those that exist; the     *)
(* manifest follows when all of them are there.                            *)
Install(p) ==
  /\ run.pc = "source" /\ manifest # {} /\ manifest \subseteq lock.projects /\ Clean
  /\ p \in lock.projects \ checkouts
  /\ checkouts' = checkouts \cup {p}
  /\ UNCHANGED <<tree, journal, manifest, base, lock, run, compiler, kills, dirty>>

Reconcile ==
  /\ run.pc = "source" /\ manifest # {} /\ manifest \subseteq lock.projects /\ Clean
  /\ lock.projects \subseteq checkouts
  /\ manifest' = lock.projects
  /\ Step("project")
  /\ UNCHANGED <<tree, journal, checkouts, base, lock, compiler, kills, dirty>>

(* A lock that drops a project, or a checkout with local changes, ends the *)
(* run with an error.                                                      *)
RefuseSource ==
  /\ run.pc = "source" /\ manifest # {}
  /\ ~(manifest \subseteq lock.projects) \/ ~Clean
  /\ run' = Unstarted
  /\ dirty' = (dirty \/ ~Clean)
  /\ UNCHANGED <<tree, journal, checkouts, manifest, base, lock, compiler, kills>>

(* Projection::save: the original goes to the journal, durably, before the *)
(* file changes; a file saved earlier keeps its first original.            *)
\* Mutant: the content found last replaces the original saved first.
SaveAgain(f) == [g \in DOMAIN run.saved \cup {f} |-> IF g = f THEN tree[f] ELSE run.saved[g]]

Saved(f) == IF f \in DOMAIN run.saved THEN run.saved ELSE SaveAgain(f)

Save(f) ==
  /\ run.pc = "project"
  /\ run' = [run EXCEPT !.pc = "write", !.saved = Saved(f), !.todo = {f}]
  /\ journal' = Saved(f)
  /\ UNCHANGED <<tree, checkouts, manifest, base, lock, compiler, kills, dirty>>

(* Projection::put and git apply: the file is rewritten in place.          *)
Write ==
  /\ run.pc = "write"
  /\ tree' = [f \in Sources |-> IF f \in run.todo THEN "projected" ELSE tree[f]]
  /\ Step("project")
  /\ UNCHANGED <<journal, checkouts, manifest, base, lock, compiler, kills, dirty>>

(* Every patch and generated file is in place: soong runs.                 *)
Compile ==
  /\ run.pc = "project" /\ DOMAIN run.saved = Sources
  /\ compiler' = TRUE
  /\ Step("compile")
  /\ UNCHANGED <<tree, journal, checkouts, manifest, base, lock, kills, dirty>>

(* The compiler ends, with the builder still waiting for it or long gone.  *)
CompilerEnds ==
  /\ compiler /\ compiler' = FALSE
  /\ run' = IF run.pc = "compile" THEN [run EXCEPT !.pc = "restore", !.todo = DOMAIN run.saved]
                                  ELSE run
  /\ UNCHANGED <<tree, journal, checkouts, manifest, base, lock, kills, dirty>>

(* An error while projecting drops the Projection, which restores too.     *)
Fail ==
  /\ run.pc \in {"project", "write"}
  /\ run' = [run EXCEPT !.pc = "restore", !.todo = DOMAIN run.saved]
  /\ UNCHANGED <<tree, journal, checkouts, manifest, base, lock, compiler, kills, dirty>>

(* Projection::restore, file by file, and the journal last.                *)
Restore(f) ==
  /\ run.pc \in {"restore", "recover"} /\ f \in run.todo
  /\ tree' = [tree EXCEPT ![f] = run.saved[f]]
  /\ run' = [run EXCEPT !.todo = @ \ {f}]
  /\ UNCHANGED <<journal, checkouts, manifest, base, lock, compiler, kills, dirty>>

Forget ==
  /\ run.pc \in {"restore", "recover"} /\ run.todo = {}
  /\ journal' = Nothing
  /\ run' = IF run.pc = "recover" THEN [Unstarted EXCEPT !.pc = "inputs"] ELSE Unstarted
  /\ UNCHANGED <<tree, checkouts, manifest, base, lock, compiler, kills, dirty>>

(* SIGKILL or a power cut between two steps, or in the middle of rewriting *)
(* a file.                                                                 *)
Torn == IF run.pc \in {"write", "restore", "recover"} THEN run.todo ELSE {}

Kill ==
  /\ run.pc # "idle" /\ kills < MaxKills
  /\ kills' = kills + 1
  /\ run' = Unstarted
  /\ \/ tree' = tree
     \/ \E f \in Torn : tree' = [tree EXCEPT ![f] = "torn"]
  /\ UNCHANGED <<journal, checkouts, manifest, base, lock, compiler, dirty>>

(* Another revision of the repository is checked out between two runs.     *)
SelectLock ==
  /\ run.pc = "idle"
  /\ lock' \in [projects : (SUBSET Projects) \ {{}}, pin : Pins]
  /\ UNCHANGED <<tree, journal, checkouts, manifest, base, run, compiler, kills, dirty>>

BuilderNext ==
  \/ Begin \/ KeepBase \/ Extract \/ Extracted \/ Materialize \/ Reconcile \/ RefuseSource
  \/ \E p \in Projects : Install(p)
  \/ \E f \in Sources : Save(f) \/ Restore(f)
  \/ Write \/ Compile \/ CompilerEnds \/ Fail \/ Forget \/ Kill \/ SelectLock

BuilderSpec == BuilderInit /\ [][BuilderNext]_builderVars
----------------------------------------------------------------------------
BuilderTypeOK ==
  /\ tree \in [Sources -> {"pinned", "projected", "torn", "absent"}]
  /\ DOMAIN journal \subseteq Sources
  /\ checkouts \subseteq Projects /\ manifest \subseteq Projects
  /\ compiler \in BOOLEAN /\ kills \in 0..MaxKills

(* Whatever kills the builder and whenever, Projection (android.rs) and    *)
(* Lock (util.rs) together keep the checkout usable: without a journal it  *)
(* is exactly the pinned source, so verify_project never refuses a tree    *)
(* for changes that the builder itself left behind; and a compiler, also   *)
(* one that outlived its builder, reads only the fully projected tree.     *)
SourceKept ==
  /\ BuilderTypeOK
  /\ DOMAIN journal = {} => Clean
  /\ ~dirty
  /\ compiler => \A f \in Sources : tree[f] = "projected"
  /\ manifest \subseteq checkouts
  /\ run.pc \in {"project", "write", "compile"} => base.resources

(* "The APEX is taken from the verified system partition" (assemble.rs):   *)
(* what a build takes from the extracted image is a complete extraction of *)
(* the image that the source lock pins.                                    *)
BaseIsPinned ==
  run.pc \in {"source", "project", "write", "compile"} =>
    base.whole /\ base.image = lock.pin
=============================================================================
