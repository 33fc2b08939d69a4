--------------------------- MODULE DevelopmentCell ---------------------------
(***************************************************************************)
(* The host side of one Android cell: what droidloomd creates when it      *)
(* starts a cell (the runtime directory, the network namespace, the veth   *)
(* pair, the nftables, the UFW rule, the host's IPv4 forwarding switch),   *)
(* what the namespace child adds to the runtime directory while it         *)
(* assembles Android's root, and how all of it is taken away again: by     *)
(* cleanup when the child exits or is stopped, by the unwinding of a start *)
(* that fails, and by recover_development_cell at the next start when the  *)
(* daemon itself died in between.                                          *)
(*                                                                         *)
(* The daemon is one thread; `phase` is the function it is in, `step` the  *)
(* operation it performs next there.  Every operation that touches the     *)
(* host is a step of its own, so a crash can fall between any two.  Up to  *)
(* MaxFaults operations fail and up to MaxCrashes crashes happen.          *)
(***************************************************************************)
EXTENDS Integers, Sequences, FiniteSets, SequencesExt

CONSTANTS MaxFaults, MaxCrashes,
          HostForwards,       \* the forwarding switch before Droidloom ran
          UnitWipesRuntime    \* droidloomd.service: RuntimeDirectory=droidloom

VARIABLES phase, step,
          starting,    \* the clean-up in progress belongs to a start
          failed,      \* an earlier operation of the phase reported an error
          net,         \* kernel objects that exist
          owned,       \* DevelopmentNetwork.resources, lost in a crash
          forward,     \* /proc/sys/net/ipv4/ip_forward
          previous,    \* DevelopmentNetwork.previous_ipv4_forward
          record,      \* content of host-ipv4-forward.before
          files,       \* what exists below, and including, the runtime directory
          entered,     \* files the namespace child has created so far
          child, faults, crashes, restoreFailed

vars == <<phase, step, starting, failed, net, owned, forward, previous, record,
          files, entered, child, faults, crashes, restoreFailed>>

None == "none"

(* The runtime directory: which entries each directory holds.  A directory  *)
(* whose files are removed by enumeration stands for all of them ("/").     *)
Inside == [runtime    |-> {"root", "system-lower", "record", "cmdline",
                           "bootconfig", "product.prop", "sysctls", "adb",
                           "policy", "properties"},
           properties |-> {"properties/"},
           adb        |-> {"adb/keys", "adb/init.rc", "adb/build.prop"},
           policy     |-> {"policy/"},
           sysctls    |-> {"bpf_disabled", "net-core"},
           netcore    |-> {"net-core/"}]
DirectoryOf(f) == IF f = "net-core" THEN "netcore" ELSE f
HasEntries(f) == DirectoryOf(f) \in DOMAIN Inside
                 /\ Inside[DirectoryOf(f)] \cap files # {}

BpfSysctls == <<"sysctls", "bpf_disabled", "net-core", "net-core/">>
BootParameters == <<"cmdline", "bootconfig">>
CgroupPolicy == <<"policy", "policy/">>
AppProperties == <<"properties", "properties/">>
AdbConfiguration == <<"adb/build.prop", "adb/init.rc">>
ProductProperties == <<"product.prop">>
EntryFiles == BpfSysctls \o BootParameters \o CgroupPolicy \o AppProperties
              \o AdbConfiguration \o ProductProperties

PropertiesCleanup == <<"properties/", "properties">>
AdbCleanup == <<"adb/keys", "adb/init.rc", "adb/build.prop", "adb">>
CleanupOrderForgetsBootconfig == PropertiesCleanup \o AdbCleanup
                \o <<"cmdline", "product.prop", "policy/", "policy",
                     "net-core/", "bpf_disabled", "net-core", "sysctls",
                     "root", "system-lower", "runtime">>
CleanupOrder == PropertiesCleanup \o AdbCleanup
                \o <<"cmdline", "bootconfig", "product.prop", "policy/", "policy",
                     "net-core/", "bpf_disabled", "net-core", "sysctls",
                     "root", "system-lower", "runtime">>

NetworkSetupForwardsFirst == <<"Namespace", "HostInterface", "links up", "forward",
                               "record", "write record", "tables", "UfwForwardRule">>
NetworkSetup == <<"Namespace", "HostInterface", "links up", "record", "write record",
                  "forward", "tables", "UfwForwardRule">>
RecoverOrder == <<"UfwForwardRule", "tables", "HostInterface", "Namespace",
                  "restore", "record">>
Tables == {"FilterTable", "NatTable"}

Init ==
  /\ phase = "idle" /\ step = 1 /\ starting = FALSE /\ failed = FALSE
  /\ net = {} /\ owned = << >> /\ forward = HostForwards /\ previous = None
  /\ record = None /\ files = {} /\ entered = 0 /\ child = None
  /\ faults = 0 /\ crashes = 0 /\ restoreFailed = FALSE

Goto(p) == phase' = p /\ step' = 1
Advance == phase' = phase /\ step' = step + 1
Fault == faults < MaxFaults /\ faults' = faults + 1
Host == <<net, forward, record, files>>
Memory == <<owned, previous>>
Child == <<entered, child>>

(* Daemon::start with no active cell: recover_development_cell comes first. *)
Start ==
  /\ phase = "idle" /\ Goto("recover")
  /\ starting' = TRUE /\ failed' = FALSE
  /\ UNCHANGED <<Host, Memory, Child, faults, crashes, restoreFailed>>

(* DevelopmentNetwork::recover: every deterministic name, errors kept.      *)
Recover ==
  /\ phase = "recover" /\ step <= Len(RecoverOrder)
  /\ LET op == RecoverOrder[step]
         Restores == op = "restore" /\ record \in {"0", "1"}
         Done == /\ net' = CASE op = "tables" -> net \ Tables
                             [] op \in {"restore", "record"} -> net
                             [] OTHER -> net \ {op}
                 /\ forward' = IF Restores THEN record ELSE forward
                 /\ record' = IF op = "record" THEN None ELSE record
                 /\ files' = IF op = "record" THEN files \ {"record"} ELSE files
                 /\ UNCHANGED <<failed, faults, restoreFailed>>
         Fails == /\ Fault /\ failed' = TRUE
                  /\ restoreFailed' = (restoreFailed \/ (Restores /\ record # forward))
                  /\ UNCHANGED Host
     IN Done \/ Fails
  /\ Advance /\ UNCHANGED <<starting, Memory, Child, crashes>>
Recovered ==
  /\ phase = "recover" /\ step > Len(RecoverOrder)
  /\ Goto(IF failed THEN "idle" ELSE "clean")
  /\ UNCHANGED <<starting, failed, Host, Memory, Child, faults, crashes, restoreFailed>>

(* cleanup_runtime_directory stops at the first error; NotFound is fine.    *)
Clean ==
  /\ phase = "clean" /\ step <= Len(CleanupOrder)
  /\ LET f == CleanupOrder[step]
     IN \/ /\ ~HasEntries(f) /\ files' = files \ {f} /\ Advance
           /\ UNCHANGED <<failed, faults>>
        \/ /\ HasEntries(f) /\ Goto("idle") /\ failed' = TRUE
           /\ UNCHANGED <<files, faults>>
        \/ /\ f \in files /\ Fault /\ Goto("idle") /\ failed' = TRUE
           /\ UNCHANGED files
  /\ UNCHANGED <<starting, net, forward, record, Memory, Child, crashes, restoreFailed>>
Cleaned ==
  /\ phase = "clean" /\ step > Len(CleanupOrder)
  /\ Goto(IF starting /\ ~failed THEN "prepare" ELSE "idle")
  /\ UNCHANGED <<starting, failed, Host, Memory, Child, faults, crashes, restoreFailed>>

(* prepare_host_directories: refuses an existing directory; its own error   *)
(* is returned without any cleanup.                                         *)
Prepare ==
  /\ phase = "prepare"
  /\ LET made == <<{}, {"runtime"}, {"runtime", "root"}, {"runtime", "root", "system-lower"}>>
     IN IF "runtime" \in files
        THEN Goto("idle") /\ failed' = TRUE /\ UNCHANGED <<files, faults>>
        ELSE \/ files' = made[4] /\ Goto("network") /\ UNCHANGED <<failed, faults>>
             \/ \E i \in 1..4 : files' = made[i] /\ Fault /\ failed' = TRUE /\ Goto("idle")
  /\ UNCHANGED <<starting, net, forward, record, Memory, Child, crashes, restoreFailed>>

(* DevelopmentNetwork::setup: links, forwarding, rules, UFW.  A kernel      *)
(* object is pushed on `resources` once it exists.                          *)
Setup ==
  /\ phase = "network" /\ step <= Len(NetworkSetup)
  /\ LET op == NetworkSetup[step]
         made == CASE op = "tables" -> <<"FilterTable", "NatTable">>
                   [] op \in {"Namespace", "HostInterface", "UfwForwardRule"} -> <<op>>
                   [] OTHER -> << >>
     IN \/ /\ net \cap ToSet(made) = {}
           /\ net' = net \cup ToSet(made) /\ owned' = owned \o made
           /\ files' = IF op = "record" THEN files \cup {"record"} ELSE files
           /\ record' = CASE op = "record" -> "empty"
                          [] op = "write record" -> forward [] OTHER -> record
           /\ previous' = IF op = "write record" THEN forward ELSE previous
           /\ forward' = IF op = "forward" THEN "1" ELSE forward
           /\ Advance /\ UNCHANGED <<failed, faults>>
        \/ /\ op = "UfwForwardRule" /\ Advance      \* no ufw-user-forward chain
           /\ UNCHANGED <<Host, Memory, failed, faults>>
        \/ /\ Fault \/ (net \cap ToSet(made) # {} /\ UNCHANGED faults)
           /\ failed' = TRUE /\ Goto("teardown") /\ UNCHANGED <<Host, Memory>>
  /\ UNCHANGED <<starting, Child, crashes, restoreFailed>>

(* AdbConnection::prepare may fail halfway: that only disables ADB.         *)
PrepareAdb ==
  /\ phase = "network" /\ step > Len(NetworkSetup) /\ Goto("spawn")
  /\ \E made \in {{}, {"adb"}, {"adb", "adb/keys"}} : files' = files \cup made
  /\ UNCHANGED <<starting, failed, net, forward, record, Memory, Child, faults, crashes,
                 restoreFailed>>
Spawn ==
  /\ phase = "spawn"
  /\ \/ Goto("active") /\ child' = "entering" /\ entered' = 0
        /\ UNCHANGED <<failed, faults>>
     \/ Goto("teardown") /\ Fault /\ failed' = TRUE /\ UNCHANGED Child
  /\ UNCHANGED <<starting, Host, Memory, crashes, restoreFailed>>

(* enter_development_cell, seen from the runtime directory: files appear in *)
(* this order, the optional ones or not, then Android init runs.            *)
Enter ==
  /\ child = "entering" /\ entered < Len(EntryFiles)
  /\ LET f == EntryFiles[entered + 1]
     IN IF f \in Range(AdbConfiguration) /\ "adb/keys" \notin files
        THEN files' = files
        ELSE \/ files' = files \cup {f}
             \/ f \in {"bootconfig", "properties/"} /\ files' = files
  /\ entered' = entered + 1
  /\ UNCHANGED <<phase, step, starting, failed, net, forward, record, Memory, child,
                 faults, crashes, restoreFailed>>
ExecInit ==
  /\ child = "entering" /\ entered = Len(EntryFiles) /\ child' = "running"
  /\ UNCHANGED <<phase, step, starting, failed, Host, Memory, entered, faults, crashes,
                 restoreFailed>>
(* An entry step that fails, or Android init ending, ends the child.        *)
ChildExits ==
  /\ child \in {"entering", "running"} /\ Fault /\ child' = "exited"
  /\ UNCHANGED <<phase, step, starting, failed, Host, Memory, entered, crashes,
                 restoreFailed>>

(* Daemon::poll sees the exit, or Daemon::stop ends the child; both go on   *)
(* to cleanup: network.teardown, then the runtime directory.                *)
Reap ==
  /\ phase = "active" /\ child = "exited"
  /\ Goto("teardown") /\ starting' = FALSE /\ failed' = FALSE
  /\ child' = None /\ entered' = 0
  /\ UNCHANGED <<Host, Memory, faults, crashes, restoreFailed>>
Stop ==
  /\ phase = "active" /\ child # None
  /\ Goto("teardown") /\ starting' = FALSE /\ failed' = FALSE
  /\ child' = None /\ entered' = 0
  /\ UNCHANGED <<Host, Memory, faults, crashes, restoreFailed>>

(* DevelopmentNetwork::teardown pops `resources`, then restores forwarding  *)
(* and removes the record whether or not that write worked.                 *)
Teardown ==
  /\ phase = "teardown" /\ owned # << >>
  /\ \/ net' = net \ {Last(owned)} /\ UNCHANGED <<failed, faults>>
     \/ Fault /\ failed' = TRUE /\ UNCHANGED net
  /\ owned' = Front(owned)
  /\ UNCHANGED <<phase, step, starting, forward, record, files, previous, Child, crashes,
                 restoreFailed>>
RestoreForwarding ==
  /\ phase = "teardown" /\ owned = << >> /\ step = 1 /\ previous # None
  /\ \/ forward' = (IF previous = "1" THEN forward ELSE previous) /\ UNCHANGED <<failed, faults, restoreFailed>>
     \/ previous # "1" /\ Fault /\ failed' = TRUE /\ restoreFailed' = TRUE /\ UNCHANGED forward
  /\ Advance
  /\ UNCHANGED <<starting, net, record, files, Memory, Child, crashes>>
ForgetForwarding ==
  /\ phase = "teardown" /\ owned = << >>
  /\ \/ /\ step = 2 /\ previous' = None
        /\ \/ record' = None /\ files' = files \ {"record"} /\ UNCHANGED <<failed, faults>>
           \/ Fault /\ failed' = TRUE /\ UNCHANGED <<record, files>>
     \/ step = 1 /\ previous = None /\ UNCHANGED <<previous, record, files, failed, faults>>
  /\ Goto("clean")
  /\ UNCHANGED <<starting, net, forward, owned, Child, crashes, restoreFailed>>

(* The daemon dies anywhere.  systemd ends the rest of the unit's cgroup,   *)
(* the cell included, and by default deletes the unit's RuntimeDirectory,   *)
(* before Restart=on-failure brings the daemon back.                        *)
Crash ==
  /\ crashes < MaxCrashes /\ crashes' = crashes + 1
  /\ Goto("idle") /\ starting' = FALSE /\ failed' = FALSE
  /\ owned' = << >> /\ previous' = None /\ child' = None /\ entered' = 0
  /\ IF UnitWipesRuntime THEN files' = {} /\ record' = None
                         ELSE UNCHANGED <<files, record>>
  /\ UNCHANGED <<net, forward, faults, restoreFailed>>

Daemon == \/ Start \/ Recover \/ Recovered \/ Clean \/ Cleaned \/ Prepare \/ Setup
          \/ PrepareAdb \/ Spawn \/ Reap \/ Teardown \/ RestoreForwarding
          \/ ForgetForwarding
Next == Daemon \/ Enter \/ ExecInit \/ ChildExits \/ Stop \/ Crash

Spec == Init /\ [][Next]_vars
(* The recovery companion keeps asking for a start, and a started child runs. *)
FairSpec == Spec /\ WF_vars(Daemon) /\ WF_vars(Enter \/ ExecInit)

(* An interrupted or failed start, stop or daemon never makes the host      *)
(* forget its own IPv4 forwarding setting: while the switch differs from    *)
(* what it was, the running daemon (previous_ipv4_forward) or the record in *)
(* the runtime directory still knows the old value, unless the write that   *)
(* restores it was itself refused.                                          *)
ForwardingAccounted ==
  \/ forward = HostForwards \/ restoreFailed
  \/ previous = HostForwards \/ record = HostForwards

(* Whatever an interrupted start, entry or clean-up left behind, repeated   *)
(* starts get through: once faults and crashes stop, recover and            *)
(* cleanup_runtime_directory leave nothing that makes                       *)
(* prepare_host_directories or the network set-up refuse.                   *)
StartsGetThrough == []<>(phase = "active")
=============================================================================
