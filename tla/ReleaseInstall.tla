----------------------------- MODULE ReleaseInstall -----------------------------
(***************************************************************************)
(* The activation half of droidloom-update: install.rs (apply, recover,    *)
(* restore), with the bundle that assemble.rs and bundle.rs hand to it.    *)
(* A release is switched by re-pointing the link "active", through which   *)
(* most installed paths resolve, and by rewriting the paths that must be   *)
(* plain files.  transaction.json, written before the first change and     *)
(* removed after the last, lets the next run undo a switch that was cut.   *)
(***************************************************************************)
EXTENDS Integers, FiniteSets

CONSTANTS Releases,    \* build ids of the bundles that may be applied
          Links,       \* installed paths that resolve through "active"
          Files,       \* installed paths that are plain files (cell.json)
          MaxCrashes,  \* bound: crashes of the installer or of the host
          MaxFailures  \* bound: commands that fail

None == 0          \* no link, no file, no release
Via == 100         \* a link through "active"
Distribution == 99 \* a file that Droidloom did not install
Mixed == 98        \* the runtime of an installation of two releases
Meddled == 97      \* the runtime that the owner started in mid-transaction

(* The installed paths include the units, which are links, and cell.json,  *)
(* which is a plain file.                                                  *)
ASSUME InstallAssumption ==
  /\ Links \cap Files = {} /\ Links # {} /\ Files # {}
  /\ MaxCrashes \in Nat /\ MaxFailures \in Nat
  /\ Releases \subseteq Nat \ {None, Via, Distribution, Mixed, Meddled}

VARIABLES disk,     \* what survives a crash
          service,  \* the release whose runtime is running
          proc,     \* the installer that holds update.lock
          settled,  \* the installation that the last finished transaction left
          crashes, failures

vars == <<disk, service, proc, settled, crashes, failures>>

Aliases == Links \cup Files

NoJournal == [open |-> FALSE, previous |-> None, active |-> FALSE,
              saved |-> [a \in Aliases |-> None]]

Idle == [pc |-> "idle", release |-> None, start |-> FALSE, todo |-> {}]

(* A host without Droidloom, where one path may already be taken, or one   *)
(* with a complete release.                                                *)
Fresh == {[a \in Aliases |-> IF a \in Links THEN None ELSE c] : c \in {None, Distribution}}
Complete(r) == [a \in Aliases |-> IF a \in Links THEN Via ELSE r]

Init ==
  /\ disk \in [active : {None}, alias : Fresh, journal : {NoJournal}, backup : {[f \in Files |-> None]},
               releases : {{}}]
  /\ service = None
  /\ proc = Idle
  /\ settled = [active |-> disk.active, alias |-> disk.alias]
  /\ crashes = 0 /\ failures = 0

(* The path resolves to something: Path::exists follows links.             *)
Exists(a) == IF disk.alias[a] = Via THEN disk.active # None ELSE disk.alias[a] # None

(* stop: the units are stopped when their unit files exist.                *)
Stopped == IF \A a \in Links : Exists(a) THEN None ELSE service

(* restore is entered at its first command and runs to the removal of      *)
(* transaction.json.  "then" is what follows: the switch, or nothing.      *)
Restoring(p) == [p EXCEPT !.pc = "undo"]

(* A command of apply fails: every change is undone.                       *)
Fails(pcs) ==
  /\ proc.pc \in pcs /\ failures < MaxFailures
  /\ failures' = failures + 1
  /\ proc' = [Restoring(proc) EXCEPT !.release = None]
  /\ UNCHANGED <<disk, service, settled, crashes>>

ApplyFails == Fails({"switch", "alias", "start", "ready"})

(* apply: takes the lock, recovers an interrupted activation, copies and   *)
(* verifies the bundle, and publishes it below releases/.                  *)
Apply(r) ==
  /\ proc.pc = "idle"
  /\ \E s \in BOOLEAN :
       proc' = [pc |-> IF disk.journal.open THEN "undo" ELSE "stage",
                release |-> r, start |-> s, todo |-> {}]
  /\ UNCHANGED <<disk, service, settled, crashes, failures>>

(* recover: only undoes.                                                   *)
Recover ==
  /\ proc.pc = "idle" /\ disk.journal.open
  /\ proc' = Restoring(Idle)
  /\ UNCHANGED <<disk, service, settled, crashes, failures>>

(* stage_bundle, verify: a bundle that lacks a component is refused before *)
(* anything changed.                                                       *)
Refuse ==
  /\ proc.pc = "stage" /\ failures < MaxFailures
  /\ failures' = failures + 1
  /\ proc' = Idle
  /\ UNCHANGED <<disk, service, settled, crashes>>

Stage ==
  /\ proc.pc = "stage"
  /\ disk' = [disk EXCEPT !.releases = @ \cup {proc.release}]
  /\ proc' = [proc EXCEPT !.pc = "backup", !.todo = Files]
  /\ UNCHANGED <<service, settled, crashes, failures>>

(* The previous backup is removed and plain files are copied anew.         *)
Backup ==
  /\ proc.pc = "backup"
  /\ IF proc.todo = Files
     THEN disk' = [disk EXCEPT !.backup = [f \in Files |-> None]]
     ELSE disk' = [disk EXCEPT !.backup = [f \in Files |-> disk.alias[f]]]
  /\ proc' = IF proc.todo = Files THEN [proc EXCEPT !.todo = {}]
                                  ELSE [proc EXCEPT !.pc = "journal"]
  /\ UNCHANGED <<service, settled, crashes, failures>>

(* transaction.json: the previous link, whether the runtime runs, and what *)
(* every alias was.                                                        *)
WriteJournal ==
  /\ proc.pc = "journal"
  /\ disk' = [disk EXCEPT !.journal =
       [open |-> TRUE, previous |-> disk.active, active |-> service # None,
        saved |-> disk.alias]]
  /\ proc' = [proc EXCEPT !.pc = "switch"]
  /\ UNCHANGED <<service, settled, crashes, failures>>

Switch ==
  /\ proc.pc = "switch"
  /\ service' = Stopped
  /\ disk' = [disk EXCEPT !.active = proc.release]
  /\ proc' = [proc EXCEPT !.pc = "alias", !.todo = Aliases]
  /\ UNCHANGED <<settled, crashes, failures>>

Alias(a) ==
  /\ proc.pc = "alias" /\ a \in proc.todo
  /\ disk' = [disk EXCEPT !.alias[a] = Complete(proc.release)[a]]
  /\ proc' = [proc EXCEPT !.todo = @ \ {a},
                          !.pc = IF proc.todo # {a} THEN @ ELSE IF proc.start THEN "start" ELSE "commit"]
  /\ UNCHANGED <<service, settled, crashes, failures>>

(* What starts is what the paths resolve to; a running unit stays.         *)
Resolved == IF \A f \in Files : disk.alias[f] = disk.active THEN disk.active ELSE Mixed
Started == IF service = None THEN Resolved ELSE service

Start ==
  /\ proc.pc = "start"
  /\ service' = Started
  /\ proc' = [proc EXCEPT !.pc = "ready"]
  /\ UNCHANGED <<disk, settled, crashes, failures>>

(* The application catalog answers.                                        *)
Ready ==
  /\ proc.pc = "ready"
  /\ proc' = [proc EXCEPT !.pc = "commit"]
  /\ UNCHANGED <<disk, service, settled, crashes, failures>>

Commit ==
  /\ proc.pc = "commit"
  /\ disk' = [disk EXCEPT !.journal = NoJournal]
  /\ settled' = [active |-> proc.release, alias |-> Complete(proc.release)]
  /\ proc' = Idle
  /\ UNCHANGED <<service, crashes, failures>>

(* Mutant: restore needs a previous release to go back to.                  *)
UndoActiveNeedsPrevious ==
  /\ proc.pc = "undo" /\ disk.journal.previous # None
  /\ service' = Stopped
  /\ disk' = [disk EXCEPT !.active = disk.journal.previous]
  /\ proc' = [proc EXCEPT !.pc = "undoAlias", !.todo = Aliases]
  /\ UNCHANGED <<settled, crashes, failures>>

(* restore: stop, "active", then every alias is removed and put back.      *)
UndoActive ==
  /\ proc.pc = "undo"
  /\ service' = Stopped
  /\ disk' = [disk EXCEPT !.active = IF disk.journal.previous # None
                                     THEN disk.journal.previous ELSE @]
  /\ proc' = [proc EXCEPT !.pc = "undoAlias", !.todo = Aliases]
  /\ UNCHANGED <<settled, crashes, failures>>

Original(a) == IF a \in Files THEN disk.backup[a] ELSE disk.journal.saved[a]

UndoAlias(a) ==
  /\ proc.pc = "undoAlias" /\ a \in proc.todo
  /\ \/ /\ disk.alias[a] # None
        /\ disk' = [disk EXCEPT !.alias[a] = None]
        /\ UNCHANGED proc
     \/ /\ disk.alias[a] = None
        /\ disk' = [disk EXCEPT !.alias[a] = Original(a)]
        /\ proc' = [proc EXCEPT !.todo = @ \ {a}]
  /\ UNCHANGED <<service, settled, crashes, failures>>

(* Mutant: "active" stays behind after a first installation is undone.      *)
UndoLastKeeps ==
  /\ proc.pc = "undoAlias" /\ proc.todo = {}
  /\ proc' = [proc EXCEPT !.pc = "undoStart"]
  /\ UNCHANGED <<disk, service, settled, crashes, failures>>

(* A first installation leaves no "active" behind.                         *)
UndoLast ==
  /\ proc.pc = "undoAlias" /\ proc.todo = {}
  /\ disk' = [disk EXCEPT !.active = disk.journal.previous]
  /\ proc' = [proc EXCEPT !.pc = "undoStart"]
  /\ UNCHANGED <<service, settled, crashes, failures>>

(* A runtime is started through its unit; without one the command fails.   *)
Startable == \A a \in Links : Exists(a)

Undo ==
  /\ proc.pc = "undoStart" /\ (disk.journal.active => Startable)
  /\ service' = IF disk.journal.active THEN Started ELSE service
  /\ proc' = [proc EXCEPT !.pc = "undone"]
  /\ UNCHANGED <<disk, settled, crashes, failures>>

(* transaction.json is removed only now; an interrupted apply continues.   *)
Undone ==
  /\ proc.pc = "undone"
  /\ disk' = [disk EXCEPT !.journal = NoJournal]
  /\ proc' = IF proc.release # None THEN [proc EXCEPT !.pc = "stage"] ELSE Idle
  /\ UNCHANGED <<service, settled, crashes, failures>>

(* A command of restore fails: transaction.json stays for the next run.    *)
UndoFails ==
  /\ \/ /\ proc.pc \in {"undo", "undoAlias", "undoStart"} /\ failures < MaxFailures
        /\ failures' = failures + 1
     \/ /\ proc.pc = "undoStart" /\ disk.journal.active /\ ~Startable
        /\ UNCHANGED failures
  /\ proc' = Idle
  /\ UNCHANGED <<disk, service, settled, crashes>>

(* The installer dies, or the host does and the runtime with it.           *)
Crash ==
  /\ proc.pc # "idle" /\ crashes < MaxCrashes
  /\ crashes' = crashes + 1
  /\ proc' = Idle
  /\ \E lost \in BOOLEAN : service' = IF lost THEN None ELSE service
  /\ UNCHANGED <<disk, settled, failures>>

(* The owner starts and stops the runtime at any time.  Nothing keeps them *)
(* from starting whatever a transaction has put in place so far.           *)
Owner ==
  /\ \A a \in Links : Exists(a)
  /\ service' = IF service # None THEN None
               ELSE IF disk.journal.open THEN Meddled ELSE Resolved
  /\ UNCHANGED <<disk, proc, settled, crashes, failures>>

Work ==
  \/ Stage \/ Backup \/ WriteJournal \/ Switch \/ Start \/ Ready \/ Commit
  \/ \E a \in Aliases : Alias(a) \/ UndoAlias(a)
  \/ UndoActive \/ UndoLast \/ Undo \/ Undone

Next ==
  \/ Work \/ Recover \/ Refuse \/ ApplyFails \/ UndoFails \/ Crash \/ Owner
  \/ \E r \in Releases : Apply(r)

(* The installer is scheduled, and a cut transaction is recovered: every   *)
(* build of droidloom-update asks for it first (main.rs).                  *)
Spec == Init /\ [][Next]_vars /\ WF_vars(Work) /\ WF_vars(Recover)
----------------------------------------------------------------------------
TypeOK ==
  /\ disk.active \in Releases \cup {None} /\ disk.releases \subseteq Releases
  /\ crashes \in 0..MaxCrashes /\ failures \in 0..MaxFailures

(* apply and restore (install.rs) switch a release as a whole, whatever    *)
(* command fails and wherever the installer or the host dies, also in the  *)
(* middle of undoing: when no transaction.json is left, "active" and every *)
(* installed path are those of the last transaction that finished, a       *)
(* verified release or the host before Droidloom, and the installer never  *)
(* starts a runtime from the paths of two releases.                        *)
InstalledWhole ==
  /\ TypeOK
  /\ ~disk.journal.open =>
       /\ disk.active = settled.active /\ disk.alias = settled.alias
       /\ disk.active \in disk.releases \cup {None}
  /\ service # Mixed

(* restore (install.rs) closes every transaction that a crash or a failure *)
(* cut, with one exception: the journal of a host without a release that   *)
(* recorded a running runtime asks for a start that no unit can answer.    *)
TransactionsClose ==
  (disk.journal.open /\ ~(disk.journal.active /\ disk.journal.previous = None))
    ~> ~disk.journal.open
=============================================================================
