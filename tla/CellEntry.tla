------------------------------ MODULE CellEntry ------------------------------
(***************************************************************************)
(* enter_development_cell: the namespace child assembles Android's root    *)
(* mount by mount, guards the persistent data directory (gapps.rs), and    *)
(* becomes Android init.  The child can die anywhere, the start is         *)
(* repeated, and between two starts the administrator may select another   *)
(* Google-app add-on.  Paths are sequences of names below the cell root.   *)
(***************************************************************************)
EXTENDS Integers, Sequences, FiniteSets, SequencesExt

CONSTANTS AddOns,        \* add-on manifests: [signers, version] records
          MaxBoots, MaxDeaths

VARIABLES stage,         \* next stage of the entry, or "down", or "android"
          choice,        \* the cell specification's optional parts
          mounts,        \* targets mounted so far, in order
          text,          \* adaptations a shared file shows, by file
          data,          \* the persistent data directory
          boots, deaths, bootedWith

vars == <<stage, choice, mounts, text, data, boots, deaths, bootedWith>>

None == [signers |-> "none", version |-> 0]     \* no add-on selected or recorded
BaseCache == [signers |-> "base", version |-> 0]
Files == {"init.rc", "product build.prop"}
InitRc == <<"system", "etc", "init", "hw", "init.rc">>
BuildProp == <<"product", "etc", "build.prop">>

(* What each stage of the entry mounts, in the order of its calls.          *)
SyntheticRoot == << << >>, <<"system">>, <<"apex">>, <<"linkerconfig">> >>
Partitions == << <<"system_ext">>, <<"product">>, <<"vendor">> >>
PreloadAndInit == << <<"system", "lib64", "preload">>, <<"system", "bin", "init">> >>
Overrides == IF choice.override THEN <<InitRc>> ELSE << >>
RuntimeDirectories == << <<"droidloom", "tools">> >>
ProcAndSys == << <<"proc">>, <<"proc">>, <<"proc", "sys", "net">>,
                 <<"proc", "sys", "kernel", "unprivileged_bpf_disabled">>,
                 <<"proc", "sys", "net", "core">>, <<"sys">> >>
ProjectLoop == << <<"sys", "devices", "virtual", "block">> >>
ProjectPowerSupply == << <<"sys", "class", "power_supply", "battery", "status">> >>
ProjectCpu == << <<"sys", "devices", "system", "cpu", "online">> >>
SharedStorage == IF choice.shared THEN << <<"data", "media", "0", "Download">> >> ELSE << >>
PrivateInput == << <<"dev", "input">> >>
PrivateDev == << <<"dev">> >> \o PrivateInput
              \o << <<"dev", "pts">>, <<"dev", "binderfs">>,
                    <<"dev", "socket", "droidloom", "denial">>,
                    <<"dev", "socket", "droidloom-framework-host", "text-input">>,
                    <<"dev", "socket", "droidloom-framework-host", "clipboard">>,
                    <<"dev", "socket", "droidloom", "audio">> >>
FirstStage == << <<"mnt">>, <<"debug_ramdisk">>, <<"second_stage_resources">> >>
BootParameters == << <<"proc", "cmdline">>, <<"proc", "bootconfig">> >>
Cgroups == << <<"system", "etc", "cgroups.json">>, <<"system", "etc", "task_profiles.json">> >>
CpuPolicy == IF choice.cpu THEN <<InitRc, <<"system", "etc", "init", "surfaceflinger.rc">> >>
                           ELSE << >>
AppProperties == << <<"system", "build.prop">>, BuildProp >>
AdbConfiguration == IF choice.adb THEN << <<"adb_keys">>, BuildProp, InitRc >> ELSE << >>
ProductProperties == <<BuildProp>>

StagesSharedBeforeData ==
  <<"root", "partitions", "init", "overrides", "runtime", "shared", "data", "guard",
    "cache", "temporary", "rename", "metadata", "proc", "dev", "first stage", "boot",
    "cgroups", "cpu", "properties", "adb", "product", "exec">>
Stages == <<"root", "partitions", "init", "overrides", "runtime", "data", "guard",
            "cache", "temporary", "rename", "metadata", "proc", "shared", "dev",
            "first stage", "boot", "cgroups", "cpu", "properties", "adb", "product",
            "exec">>
Mounted(s) ==
  CASE s = "root" -> SyntheticRoot          [] s = "partitions" -> Partitions
    [] s = "init" -> PreloadAndInit         [] s = "overrides" -> Overrides
    [] s = "runtime" -> RuntimeDirectories  [] s = "data" -> << <<"data">> >>
    [] s = "metadata" -> << <<"metadata">> >>
    [] s = "proc" -> ProcAndSys \o ProjectLoop \o ProjectPowerSupply \o ProjectCpu
    [] s = "shared" -> SharedStorage        [] s = "dev" -> PrivateDev
    [] s = "first stage" -> FirstStage      [] s = "boot" -> BootParameters
    [] s = "cgroups" -> Cgroups             [] s = "cpu" -> CpuPolicy
    [] s = "properties" -> AppProperties    [] s = "adb" -> AdbConfiguration
    [] s = "product" -> ProductProperties   [] OTHER -> << >>

(* A generated file is what the tree shows at its target now, plus one more *)
(* adaptation; an override replaces the file.                               *)
Adapted(s) ==
  [f \in Files |->
     CASE f = "init.rc" /\ s = "overrides" /\ choice.override -> {"override"}
       [] f = "init.rc" /\ s = "cpu" /\ choice.cpu -> text[f] \cup {"cpu"}
       [] f = "init.rc" /\ s = "adb" /\ choice.adb -> text[f] \cup {"adb"}
       [] f = "product build.prop" /\ s = "properties" -> text[f] \cup {"release"}
       [] f = "product build.prop" /\ s = "adb" /\ choice.adb -> text[f] \cup {"secure"}
       [] f = "product build.prop" /\ s = "product" -> text[f] \cup {"identity"}
       [] OTHER -> text[f]]

CellChoices == [override : BOOLEAN, cpu : BOOLEAN, adb : BOOLEAN, shared : BOOLEAN,
                gapps : AddOns \cup {None}]
FreshDirectory == [initialized |-> FALSE, state |-> None, temporary |-> FALSE,
                   cached |-> None]

Init ==
  /\ stage = "down"
  /\ choice = [override |-> FALSE, cpu |-> FALSE, adb |-> FALSE, shared |-> FALSE, gapps |-> None]
  /\ mounts = << >> /\ text = [f \in Files |-> {}]
  /\ data \in {FreshDirectory,
               [FreshDirectory EXCEPT !.initialized = TRUE, !.cached = BaseCache]}
  /\ boots = 0 /\ deaths = 0 /\ bootedWith = {}

(* start_development_cell spawns the child on the specification as it is    *)
(* now; a stopped cell may have been reconfigured.                          *)
Spawn ==
  /\ stage = "down" /\ boots < MaxBoots
  /\ stage' = Stages[1] /\ mounts' = << >> /\ text' = [f \in Files |-> {}]
  /\ choice' \in CellChoices
  /\ UNCHANGED <<data, boots, deaths, bootedWith>>

After(s) == Stages[SelectInSeq(Stages, LAMBDA t : t = s) + 1]
Fail == stage' = "down" /\ UNCHANGED <<data, mounts, text>>

Assemble ==
  /\ stage \in {"root", "partitions", "init", "overrides", "runtime", "data", "metadata",
                "proc", "dev", "first stage", "boot", "cgroups", "cpu", "properties",
                "adb", "product"}
  /\ mounts' = mounts \o Mounted(stage) /\ text' = Adapted(stage)
  /\ stage' = After(stage) /\ UNCHANGED <<data, choice, boots, deaths, bootedWith>>

(* reconcile_data: which changes of the recorded add-on the data allows.    *)
RefusedOnlyRemoval == data.state # None /\ choice.gapps = None
Refused ==
  \/ data.state # None /\ choice.gapps = None
  \/ data.state = None /\ choice.gapps # None /\ data.initialized
  \/ /\ data.state # None /\ choice.gapps # None
     /\ data.state.signers # choice.gapps.signers
Guard ==
  /\ stage = "guard"
  /\ IF Refused THEN Fail
     ELSE /\ stage' = IF data.state = choice.gapps THEN "metadata" ELSE "cache"
          /\ UNCHANGED <<data, mounts, text>>
  /\ UNCHANGED <<choice, boots, deaths, bootedWith>>
InvalidateCache ==
  /\ stage = "cache" /\ data' = [data EXCEPT !.cached = None]
  /\ stage' = "temporary"
  /\ UNCHANGED <<choice, mounts, text, boots, deaths, bootedWith>>
(* create_new(".droidloom-gapps-<pid>.tmp"): the child is PID 1 of its own  *)
(* namespace, so the name is the same at every start.                       *)
CreateTemporary ==
  /\ stage = "temporary"
  /\ IF data.temporary THEN Fail
     ELSE data' = [data EXCEPT !.temporary = TRUE] /\ stage' = "rename"
          /\ UNCHANGED <<mounts, text>>
  /\ UNCHANGED <<choice, boots, deaths, bootedWith>>
RenameState ==
  /\ stage = "rename"
  /\ data' = [data EXCEPT !.temporary = FALSE, !.state = choice.gapps]
  /\ stage' = "metadata"
  /\ UNCHANGED <<choice, mounts, text, boots, deaths, bootedWith>>

(* mount_shared_storage_directories reads data/system/packages.list, which  *)
(* only a booted Android writes.                                            *)
MountShared ==
  /\ stage = "shared"
  /\ IF choice.shared /\ ~data.initialized THEN Fail
     ELSE /\ mounts' = mounts \o Mounted(stage) /\ stage' = After(stage)
          /\ UNCHANGED <<data, text>>
  /\ UNCHANGED <<choice, boots, deaths, bootedWith>>

(* Android boots on the data: Package Manager writes packages.xml and       *)
(* packages.list and parses what the images hold.                           *)
ExecInit ==
  /\ stage = "exec" /\ stage' = "android"
  /\ boots' = boots + 1 /\ bootedWith' = bootedWith \cup {choice.gapps}
  /\ data' = [data EXCEPT !.initialized = TRUE,
                          !.cached = IF @ = None THEN choice.gapps ELSE @]
  /\ UNCHANGED <<choice, mounts, text, deaths>>
Stop ==
  /\ stage = "android" /\ stage' = "down"
  /\ UNCHANGED <<choice, mounts, text, data, boots, deaths, bootedWith>>
(* Any stage can fail, and the child can be killed in any of them.          *)
Die ==
  /\ stage \in Range(Stages) /\ deaths < MaxDeaths /\ deaths' = deaths + 1
  /\ stage' = "down"
  /\ UNCHANGED <<choice, mounts, text, data, boots, bootedWith>>

Next == \/ Spawn \/ Assemble \/ Guard \/ InvalidateCache \/ CreateTemporary
        \/ RenameState \/ MountShared \/ ExecInit \/ Stop \/ Die
Spec == Init /\ [][Next]_vars

(* What Android init starts in: every mount the entry made is still         *)
(* reachable (nothing was mounted over a directory above it later), and     *)
(* each generated file carries all the adaptations before it: the CPU and   *)
(* ADB policies keep the override of init.rc, the product properties keep   *)
(* the ADB authentication and the release values.                           *)
TreeWhole ==
  stage = "android" =>
    /\ \A i, j \in 1..Len(mounts) :
         i < j => ~IsStrictPrefix(mounts[j], mounts[i])
    /\ text["init.rc"] = {a \in {"override", "cpu", "adb"} : choice[a]}
    /\ text["product build.prop"] = {"release", "identity"}
                                    \cup {a \in {"secure"} : choice.adb}

(* Android data that ran with Google apps never runs without them or with   *)
(* differently signed ones, data that ran without never gets them, and a    *)
(* parser cache of the applications never survives a change of the add-on:  *)
(* across kills between the cache's removal, the temporary file and the     *)
(* rename.                                                                  *)
DataKeepsItsAddOn ==
  /\ stage = "android" => data.state = choice.gapps /\ data.cached \in {choice.gapps, BaseCache}
  /\ \A g, h \in bootedWith : (g = None) = (h = None)
  /\ \A g, h \in bootedWith \ {None} : g.signers = h.signers

(* A start that was interrupted does not stop the next one: the temporary   *)
(* file of the data guard, like the rest of an interrupted cell's residue,  *)
(* is gone or tolerated when the guard creates it again.                    *)
InterruptionsRecover == stage = "temporary" => ~data.temporary

(* The first boot of an empty data directory gets as far as Android init:   *)
(* no stage of the entry needs what only a booted Android writes.           *)
FirstBootPossible == stage = "shared" => ~choice.shared \/ data.initialized
=============================================================================
