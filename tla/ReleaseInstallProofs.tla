-------------------------- MODULE ReleaseInstallProofs --------------------------
(***************************************************************************)
(* InstalledWhole of ReleaseInstall for every set of releases and paths    *)
(* and any number of crashes and failures.                                 *)
(***************************************************************************)
EXTENDS ReleaseInstall, TLAPS

Applying == {"stage", "backup", "journal", "switch", "alias", "start", "ready", "commit"}
Undoing == {"undo", "undoAlias", "undoStart", "undone"}

(* A whole installation: the host before Droidloom, or one release.        *)
Whole(s) ==
  \/ s.active = None /\ s.alias \in Fresh
  \/ s.active \in Releases /\ s.alias = Complete(s.active)

Paths == [Aliases -> Nat]

Journals == [open : BOOLEAN, previous : Nat, active : BOOLEAN, saved : Paths]
Disks == [active : Releases \cup {None}, alias : Paths, journal : Journals,
          backup : [Files -> Nat], releases : SUBSET Releases]
Procs == [pc : {"idle"} \cup Applying \cup Undoing, release : Releases \cup {None},
          start : BOOLEAN, todo : SUBSET Aliases]

Types ==
  /\ disk \in Disks /\ proc \in Procs /\ settled.alias \in Paths
  /\ crashes \in 0..MaxCrashes /\ failures \in 0..MaxFailures

(* The journal, while it is open, together with the backup says what the   *)
(* last finished transaction left; how much of it is in place follows from *)
(* the step of the installer.                                              *)
IndInv ==
  /\ Types
  /\ Whole(settled) /\ settled.active \in disk.releases \cup {None}
  /\ ~disk.journal.open => disk.active = settled.active /\ disk.alias = settled.alias
  /\ disk.journal.open =>
       /\ disk.journal.previous = settled.active /\ disk.journal.saved = settled.alias
       /\ \A f \in Files : disk.backup[f] = settled.alias[f]
  /\ proc.pc \in {"stage", "backup", "journal"} => ~disk.journal.open
  /\ proc.pc = "journal" => \A f \in Files : disk.backup[f] = disk.alias[f]
  /\ proc.pc \in Applying => proc.release \in Releases
  /\ proc.pc \in {"backup", "journal", "switch", "alias", "start", "ready", "commit"} =>
       proc.release \in disk.releases
  /\ proc.pc \in {"switch", "alias", "start", "ready", "commit"} \cup Undoing => disk.journal.open
  /\ proc.pc \in {"alias", "start", "ready", "commit"} => disk.active = proc.release
  /\ proc.pc = "alias" =>
       \A a \in Aliases \ proc.todo : disk.alias[a] = Complete(proc.release)[a]
  /\ proc.pc \in {"start", "ready", "commit"} => disk.alias = Complete(proc.release)
  /\ proc.pc = "undoAlias" =>
       \A a \in Aliases \ proc.todo : disk.alias[a] = settled.alias[a]
  /\ proc.pc \in {"undoStart", "undone"} =>
       disk.active = settled.active /\ disk.alias = settled.alias
  /\ service # Mixed
----------------------------------------------------------------------------
(* What the invariant is for.                                              *)
LEMMA IndInvImplies == IndInv => InstalledWhole
  BY DEF IndInv, Types, Disks, TypeOK, InstalledWhole

(* What a settled installation resolves to is one release.                 *)
LEMMA WholeResolves ==
  ASSUME Whole(settled), disk.active = settled.active, disk.alias = settled.alias, Startable
  PROVE  disk.active \in Releases /\ Resolved = disk.active
  <1>1. PICK l \in Links : TRUE
    BY InstallAssumption
  <1>2. disk.alias[l] # None
    BY <1>1 DEF Startable, Exists, None, Via
  <1> QED
    BY <1>1, <1>2, InstallAssumption DEF Whole, Fresh, Complete, Startable, Exists, Resolved, Aliases, None, Via

(* What a path can hold.                                                   *)
LEMMA PathTypes ==
  /\ None \in Nat /\ Releases \subseteq Nat /\ Fresh \subseteq Paths
  /\ \A r \in Releases : Complete(r) \in Paths
  BY InstallAssumption DEF None, Via, Distribution, Fresh, Complete, Paths

(* The journal of a finished transaction.                                  *)
LEMMA NoJournalTypes == NoJournal \in Journals
  BY PathTypes DEF NoJournal, Journals, Paths

(* Stopping never leaves the runtime of two releases.                      *)
LEMMA StopKeeps == service # Mixed => Stopped # Mixed
  BY DEF Stopped, None, Mixed

(* A host without Droidloom, or with what its distribution installed.      *)
LEMMA InitInv == Init => IndInv
  <1> SUFFICES ASSUME Init PROVE IndInv
    OBVIOUS
  <1>1. disk = [active |-> None, alias |-> disk.alias, journal |-> NoJournal,
                backup |-> [f \in Files |-> None], releases |-> {}] /\ disk.alias \in Fresh
    BY DEF Init
  <1>2. disk.alias \in Paths /\ NoJournal.saved \in Paths /\ [f \in Files |-> None] \in [Files -> Nat]
    BY <1>1, PathTypes DEF Paths, NoJournal
  <1>3. disk \in Disks
    BY <1>1, <1>2, NoJournalTypes DEF Disks
  <1>4. Types
    BY <1>2, <1>3, InstallAssumption, PathTypes DEF Init, Types, Procs, Idle
  <1>5. settled = [active |-> None, alias |-> disk.alias]
    BY <1>1 DEF Init
  <1>6. service # Mixed
    BY DEF Init, None, Mixed
  <1> QED
    BY <1>1, <1>2, <1>4, <1>5, <1>6 DEF Init, IndInv, Whole, Idle, NoJournal, Applying, Undoing

(* Every step of apply, restore and recover, and every crash between two   *)
(* of them, keeps it.                                                      *)
LEMMA StepInv == IndInv /\ [Next]_vars => IndInv'
  <1> SUFFICES ASSUME IndInv, [Next]_vars PROVE IndInv'
    OBVIOUS
  <1> USE InstallAssumption, PathTypes DEF IndInv, Types, Disks, Journals, Procs, Whole, Applying, Undoing
  <1>1. CASE Stage
    <2>1. disk' = [active |-> disk.active, alias |-> disk.alias, journal |-> disk.journal,
                   backup |-> disk.backup, releases |-> disk.releases \cup {proc.release}]
      BY Zenon, <1>1 DEF Stage
    <2>2. proc' = [pc |-> "backup", release |-> proc.release, start |-> proc.start, todo |-> Files]
      BY ZenonT(60), <1>1 DEF Stage
    <2>3. Types'
      BY SMTT(60), <1>1, <2>1, <2>2 DEF Stage, Aliases
    <2> QED
      BY <1>1, <2>1, <2>2, <2>3 DEF Stage
  <1>2. CASE Backup
    <2>1. CASE proc.todo = Files
      <3>1. disk' = [active |-> disk.active, alias |-> disk.alias, journal |-> disk.journal,
                     backup |-> [f \in Files |-> None], releases |-> disk.releases]
        BY <1>2, <2>1 DEF Backup
      <3>2. proc' = [pc |-> "backup", release |-> proc.release, start |-> proc.start, todo |-> {}]
        BY Zenon, <1>2, <2>1 DEF Backup
      <3> QED
        BY <1>2, <3>1, <3>2 DEF Backup, Aliases
    <2>2. CASE proc.todo # Files
      <3>1. disk' = [active |-> disk.active, alias |-> disk.alias, journal |-> disk.journal,
                     backup |-> [f \in Files |-> disk.alias[f]], releases |-> disk.releases]
        BY <1>2, <2>2 DEF Backup
      <3>2. proc' = [pc |-> "journal", release |-> proc.release, start |-> proc.start,
                     todo |-> proc.todo]
        BY <1>2, <2>2 DEF Backup
      <3>3. [f \in Files |-> disk.alias[f]] \in [Files -> Nat]
        BY DEF Paths, Aliases
      <3>4. disk' \in Disks /\ proc' \in Procs
        BY <3>1, <3>2, <3>3
      <3> QED
        BY <1>2, <3>1, <3>2, <3>4 DEF Backup
    <2> QED
      BY <2>1, <2>2
  <1>3. CASE WriteJournal
    BY ZenonT(60), <1>3 DEF WriteJournal, Aliases
  <1>4. CASE Switch
    <2>1. disk' = [active |-> proc.release, alias |-> disk.alias, journal |-> disk.journal,
                   backup |-> disk.backup, releases |-> disk.releases]
      BY <1>4 DEF Switch
    <2>2. proc' = [pc |-> "alias", release |-> proc.release, start |-> proc.start, todo |-> Aliases]
      BY Zenon, <1>4 DEF Switch
    <2>3. service' # Mixed
      BY <1>4, StopKeeps DEF Switch
    <2>4. Types'
      BY <1>4, <2>1, <2>2 DEF Switch
    <2> QED
      BY <1>4, <2>1, <2>2, <2>3, <2>4 DEF Switch
  <1>5. CASE Start
    BY <1>5 DEF Start, Started, Resolved, Complete, Mixed, None, Aliases
  <1>6. CASE Ready
    BY <1>6 DEF Ready
  <1>7. CASE Commit
    <2>1. disk' = [active |-> disk.active, alias |-> disk.alias, journal |-> NoJournal,
                   backup |-> disk.backup, releases |-> disk.releases]
      BY <1>7 DEF Commit
    <2>2. disk' \in Disks /\ proc' \in Procs /\ disk'.journal.open = FALSE /\ proc'.pc = "idle"
      BY ZenonT(60), <1>7, <2>1, NoJournalTypes DEF Commit, Idle, NoJournal
    <2>3. settled' = [active |-> disk.active, alias |-> disk.alias]
      BY <1>7 DEF Commit
    <2> QED
      BY <1>7, <2>1, <2>2, <2>3 DEF Commit
  <1>8. CASE UndoActive
    <2>1. disk' = [active |-> IF disk.journal.previous # None THEN disk.journal.previous
                              ELSE disk.active,
                   alias |-> disk.alias, journal |-> disk.journal,
                   backup |-> disk.backup, releases |-> disk.releases]
      BY <1>8 DEF UndoActive
    <2>2. proc' = [pc |-> "undoAlias", release |-> proc.release, start |-> proc.start,
                   todo |-> Aliases]
      BY Zenon, <1>8 DEF UndoActive
    <2>3. service' # Mixed
      BY <1>8, StopKeeps DEF UndoActive
    <2>4. Types'
      BY <1>8, <2>1, <2>2 DEF UndoActive
    <2> QED
      BY <1>8, <2>1, <2>2, <2>3, <2>4 DEF UndoActive
  <1>9. CASE UndoLast
    <2>1. disk' = [active |-> settled.active, alias |-> disk.alias, journal |-> disk.journal,
                   backup |-> disk.backup, releases |-> disk.releases]
      BY <1>9 DEF UndoLast
    <2>2. proc' = [pc |-> "undoStart", release |-> proc.release, start |-> proc.start,
                   todo |-> proc.todo]
      BY Zenon, <1>9 DEF UndoLast
    <2>3. disk'.alias = settled.alias
      BY <1>9, <2>1 DEF UndoLast, Paths
    <2>4. Types'
      BY <1>9, <2>1, <2>2 DEF UndoLast
    <2> QED
      BY <1>9, <2>1, <2>2, <2>3, <2>4 DEF UndoLast
  <1>10. CASE Undo
    BY <1>10, WholeResolves DEF Undo, Started
  <1>11. CASE Undone
    <2>1. disk' = [active |-> disk.active, alias |-> disk.alias, journal |-> NoJournal,
                   backup |-> disk.backup, releases |-> disk.releases]
      BY <1>11 DEF Undone
    <2>2. disk' \in Disks /\ proc' \in Procs /\ disk'.journal.open = FALSE
      BY ZenonT(60), <1>11, <2>1, NoJournalTypes DEF Undone, Idle, NoJournal
    <2>3. proc'.pc = "idle" \/ (proc'.pc = "stage" /\ proc'.release \in Releases)
      BY <1>11 DEF Undone, Idle
    <2> QED
      BY <1>11, <2>1, <2>2, <2>3 DEF Undone
  <1>12. CASE Recover
    BY ZenonT(60), <1>12 DEF Recover, Idle, Restoring, None
  <1>13. CASE Refuse
    BY <1>13 DEF Refuse, Idle, None
  <1>14. CASE ApplyFails
    <2>1. proc' = [pc |-> "undo", release |-> None, start |-> proc.start, todo |-> proc.todo]
      BY ZenonT(60), <1>14 DEF ApplyFails, Fails, Restoring
    <2>2. failures' \in 0..MaxFailures /\ UNCHANGED <<disk, service, settled, crashes>>
      BY <1>14 DEF ApplyFails, Fails
    <2>3. disk.journal.open
      BY <1>14 DEF ApplyFails, Fails
    <2> QED
      BY <2>1, <2>2, <2>3
  <1>15. CASE UndoFails
    <2>1. proc' = [pc |-> "idle", release |-> None, start |-> FALSE, todo |-> {}]
      BY <1>15 DEF UndoFails, Idle
    <2>2. failures' \in 0..MaxFailures /\ UNCHANGED <<disk, service, settled, crashes>>
      BY <1>15 DEF UndoFails
    <2> QED
      BY <2>1, <2>2
  <1>16. CASE Crash
    BY SMTT(60), <1>16 DEF Crash, Idle, None, Mixed
  <1>17. CASE Owner
    BY SMTT(60), <1>17, WholeResolves DEF Owner, Mixed, Meddled, None, Startable
  <1>18. ASSUME NEW a \in Aliases, Alias(a) PROVE IndInv'
    <2>1. disk' = [active |-> disk.active,
                   alias |-> [disk.alias EXCEPT ![a] = Complete(proc.release)[a]],
                   journal |-> disk.journal, backup |-> disk.backup, releases |-> disk.releases]
      BY <1>18 DEF Alias
    <2>2. proc' = [pc |-> IF proc.todo # {a} THEN "alias"
                          ELSE IF proc.start THEN "start" ELSE "commit",
                   release |-> proc.release, start |-> proc.start, todo |-> proc.todo \ {a}]
      BY Zenon, <1>18 DEF Alias
    <2>3. disk'.alias = [b \in Aliases |-> IF b = a THEN Complete(proc.release)[b] ELSE disk.alias[b]]
      BY <2>1 DEF Paths
    <2>4. proc'.todo = proc.todo \ {a} /\ proc.pc = "alias" /\ disk'.active = disk.active
      BY ZenonT(60), <1>18, <2>1, <2>2 DEF Alias
    <2>5. \A b \in Aliases \ proc'.todo : disk'.alias[b] = Complete(proc.release)[b]
      BY <2>3, <2>4
    <2>6. proc'.todo = {} => disk'.alias = Complete(proc.release)
      BY <2>3, <2>5 DEF Complete
    <2>7. proc'.pc \in {"alias", "start", "commit"} /\ (proc'.pc # "alias" => proc'.todo = {})
      BY <2>2
    <2>8. disk'.alias \in Paths
      <3>1. Complete(proc.release) \in Paths
        BY ZenonT(60), <2>4
      <3> QED
        BY <2>3, <3>1 DEF Paths
    <2>9. disk' \in Disks /\ proc' \in Procs
      BY <2>1, <2>2, <2>8
    <2>10. UNCHANGED <<service, settled, crashes, failures>>
      BY <1>18 DEF Alias
    <2>11. /\ disk'.journal = disk.journal /\ disk'.backup = disk.backup
           /\ disk'.releases = disk.releases /\ proc'.release = proc.release
      BY SMTT(60), <2>1, <2>2
    <2> QED
      BY <2>4, <2>5, <2>6, <2>7, <2>9, <2>10, <2>11
  <1>19. ASSUME NEW a \in Aliases, UndoAlias(a) PROVE IndInv'
    <2>1. CASE UNCHANGED proc
      <3>1. disk' = [active |-> disk.active, alias |-> [disk.alias EXCEPT ![a] = None],
                     journal |-> disk.journal, backup |-> disk.backup, releases |-> disk.releases]
        BY SMTT(60), <1>19, <2>1 DEF UndoAlias
      <3>2. disk'.alias = [b \in Aliases |-> IF b = a THEN None ELSE disk.alias[b]]
        BY <3>1 DEF Paths
      <3>3. disk'.alias \in Paths
        BY <3>2 DEF Paths
      <3>4. disk' \in Disks
        BY <3>1, <3>3
      <3>5. proc.pc = "undoAlias" /\ a \in proc.todo
        BY <1>19 DEF UndoAlias
      <3> QED
        BY <1>19, <2>1, <3>1, <3>2, <3>4, <3>5 DEF UndoAlias
    <2>2. CASE proc' # proc
      <3>1. disk' = [active |-> disk.active, alias |-> [disk.alias EXCEPT ![a] = Original(a)],
                     journal |-> disk.journal, backup |-> disk.backup, releases |-> disk.releases]
        BY <1>19, <2>2 DEF UndoAlias
      <3>2. proc' = [pc |-> proc.pc, release |-> proc.release, start |-> proc.start,
                     todo |-> proc.todo \ {a}]
        BY <1>19, <2>2 DEF UndoAlias
      <3>3. Original(a) = settled.alias[a]
        BY <1>19 DEF UndoAlias, Original
      <3>4. disk'.alias = [b \in Aliases |-> IF b = a THEN settled.alias[b] ELSE disk.alias[b]]
        BY <3>1, <3>3 DEF Paths
      <3>5. disk'.alias \in Paths
        BY <3>4 DEF Paths
      <3>6. disk' \in Disks /\ proc' \in Procs
        BY <3>1, <3>2, <3>5
      <3>7. proc.pc = "undoAlias"
        BY SMTT(60), <1>19 DEF UndoAlias
      <3> QED
        BY <1>19, <3>1, <3>2, <3>4, <3>6, <3>7 DEF UndoAlias
    <2> QED
      BY <2>1, <2>2
  <1>20. ASSUME NEW r \in Releases, Apply(r) PROVE IndInv'
    BY SMTT(60), <1>20 DEF Apply
  <1>21. CASE UNCHANGED vars
    BY <1>21 DEF vars
  <1> QED
    BY ZenonT(60), <1>1, <1>2, <1>3, <1>4, <1>5, <1>6, <1>7, <1>8, <1>9, <1>10, <1>11, <1>12, <1>13, <1>14, <1>15, <1>16, <1>17, <1>18, <1>19, <1>20, <1>21 DEF Next, Work

(* Applying a release, restoring the previous one and recovering after a   *)
(* crash (apply, restore, recover of install.rs): without a journal the    *)
(* installation is the one the last finished transaction left, and no      *)
(* runtime is started from the files of two releases.                      *)
THEOREM ReleaseSwitchedWhole == Spec => []InstalledWhole
  <1>1. Init => IndInv
    BY InitInv
  <1>2. IndInv /\ [Next]_vars => IndInv'
    BY StepInv
  <1>3. IndInv => InstalledWhole
    BY IndInvImplies
  <1> QED
    BY <1>1, <1>2, <1>3, PTL DEF Spec
=============================================================================
