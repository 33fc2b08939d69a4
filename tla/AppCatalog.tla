----------------------------- MODULE AppCatalog -----------------------------
(***************************************************************************)
(* Android's launchable activities as the desktop's application entries:   *)
(* package changes reach the framework's catalog thread (framework_ffi.rs) *)
(* as broadcasts, that thread tells one subscriber that something changed, *)
(* and the user's catalog service (droidloom-applications) reads the list  *)
(* and the icons through the supervisor and rewrites its files, one at a   *)
(* time, with a manifest last.  An application is 0 while absent and       *)
(* otherwise the moment of its last update, which its icon key contains.   *)
(***************************************************************************)
EXTENDS Integers, FiniteSets

CONSTANTS Apps,
          MaxStamp,     \* bound: package changes
          MaxFaults     \* bound: failed requests, crashes, restarts of Android

VARIABLES android,  \* apps, the framework's phase, cast (a broadcast on its way),
                    \* wake (the eventfd), stamp
          conn,     \* the subscription: its state and the generations in it
          rpc,      \* the request to the framework: at, want, reply
          service,  \* the catalog service: pc and the pass under way
          disk,     \* desk: entries (with or without icon), icon files, manifest
          faults

vars == <<android, conn, rpc, service, disk, faults>>

NoPass == [list |-> [a \in Apps |-> 0], icons |-> [a \in Apps |-> 0],
           cur |-> [a \in Apps |-> [key |-> 0, has |-> FALSE]],
           todo |-> {}, at |-> {}, retry |-> FALSE]
NoManifest == NoPass.cur
NoRequest == [at |-> "none", want |-> {}, reply |-> [a \in Apps |-> 0]]

Init ==
  /\ \E a \in Apps : android =
       [apps |-> [b \in Apps |-> IF b = a THEN 1 ELSE 0], fw |-> "down",
        cast |-> FALSE, wake |-> FALSE, stamp |-> 1]
  /\ conn = [at |-> "none", generations |-> 0]
  /\ rpc = NoRequest
  /\ service = [pc |-> "subscribe", pass |-> NoPass]
  /\ disk = [desk |-> [a \in Apps |-> "none"], icon |-> [a \in Apps |-> 0],
             manifest |-> NoManifest]
  /\ faults = 0

Fault == faults < MaxFaults /\ faults' = faults + 1
Listed == {a \in Apps : service.pass.list[a] # 0}

(* ---- Android ------------------------------------------------------------*)

(* droidloom_framework_start: both sockets and the watching thread.        *)
Listen ==
  /\ android.fw = "down" /\ android' = [android EXCEPT !.fw = "listening"]
  /\ UNCHANGED <<conn, rpc, service, disk, faults>>

(* The rest of startInstance: the receiver of broadcasts, then the thread  *)
(* that serves requests.                                                   *)
StartInstance ==
  /\ android.fw \in {"listening", "registered"}
  /\ android' = [android EXCEPT !.fw = IF @ = "listening" THEN "registered" ELSE "serving"]
  /\ UNCHANGED <<conn, rpc, service, disk, faults>>

(* A package is installed, updated or removed; then its broadcast is sent. *)
PackageChanges(a) ==
  /\ android.fw # "down" /\ android.stamp < MaxStamp
  /\ \E version \in {0, android.stamp + 1} :
       /\ version # android.apps[a]
       /\ android' = [android EXCEPT !.apps[a] = version, !.stamp = @ + 1,
                                     !.cast = @ \/ android.fw \in {"registered", "serving"}]
  /\ UNCHANGED <<conn, rpc, service, disk, faults>>

(* onReceive, droidloom_framework_catalog_changed: the next generation.    *)
CatalogChanged ==
  /\ android.cast
  /\ android' = [android EXCEPT !.cast = FALSE, !.wake = TRUE]
  /\ UNCHANGED <<conn, rpc, service, disk, faults>>

(* watch, one round: an accepted subscriber replaces the previous one, and *)
(* the subscriber is written to if it is new or something changed.         *)
Watch ==
  /\ android.fw # "down" /\ (android.wake \/ conn.at = "queued")
  /\ android' = [android EXCEPT !.wake = FALSE]
  /\ conn' = IF conn.at \in {"queued", "peer"}
             THEN [at |-> "peer", generations |-> IF conn.generations = 2 THEN 2
                                                  ELSE conn.generations + 1]
             ELSE conn
  /\ UNCHANGED <<rpc, service, disk, faults>>

(* The framework process ends and starts again; or a subscriber that does  *)
(* not read is dropped.  What was written before can still be read.        *)
Lost == IF conn.at = "none" THEN conn
        ELSE [at |-> "lost", generations |-> IF conn.at = "peer" THEN conn.generations ELSE 0]
FrameworkDies ==
  /\ Fault /\ android.fw # "down"
  /\ android' = [android EXCEPT !.fw = "down", !.cast = FALSE, !.wake = FALSE]
  /\ conn' = Lost
  /\ rpc' = IF rpc.at = "asked" THEN [rpc EXCEPT !.at = "failed"] ELSE rpc
  /\ UNCHANGED <<service, disk>>
SubscriberDropped ==
  /\ Fault /\ conn.at = "peer" /\ conn' = Lost
  /\ UNCHANGED <<android, rpc, service, disk>>

(* ---- the catalog service ------------------------------------------------*)

Goes(pc) == service' = [service EXCEPT !.pc = pc]
With(pc, pass) == service' = [pc |-> pc, pass |-> pass]

(* subscribe_applications: the connection waits in the listener's queue.   *)
Subscribe ==
  /\ service.pc = "subscribe" /\ android.fw # "down"
  /\ conn' = [at |-> "queued", generations |-> 0]
  /\ Goes("wait") /\ UNCHANGED <<android, rpc, disk, faults>>

(* read_exact: a generation starts a pass, the end a new subscription.     *)
ReadGeneration ==
  /\ service.pc = "wait"
  /\ \/ /\ conn.generations > 0
        /\ conn' = [conn EXCEPT !.generations = @ - 1] /\ Goes("list")
     \/ /\ conn.generations = 0 /\ conn.at = "lost"
        /\ conn' = [at |-> "none", generations |-> 0] /\ Goes("subscribe")
  /\ UNCHANGED <<android, rpc, disk, faults>>

(* framework_request, through the supervisor: without a framework there is *)
(* no connection; one that starts finds the request in its queue.          *)
Ask(want) ==
  /\ rpc.at = "none"
  /\ rpc' = [NoRequest EXCEPT !.at = IF android.fw = "down" THEN "failed" ELSE "asked",
                              !.want = want]
  /\ UNCHANGED <<android, conn, service, disk, faults>>
RequestTimesOut ==
  /\ Fault /\ rpc.at = "asked" /\ rpc' = [rpc EXCEPT !.at = "failed"]
  /\ UNCHANGED <<android, conn, service, disk>>

(* serve: the list, or the icons of the activities that still exist.       *)
LauncherActivities == {a \in Apps : android.apps[a] # 0}
Rendered(want) == [a \in Apps |-> IF a \in want \cap LauncherActivities THEN android.apps[a] ELSE 0]
Serve ==
  /\ android.fw = "serving" /\ rpc.at = "asked"
  /\ rpc' = [rpc EXCEPT !.at = "answered", !.reply = Rendered(rpc.want)]
  /\ UNCHANGED <<android, conn, service, disk, faults>>
Answered == rpc.at \in {"answered", "failed"} /\ rpc' = NoRequest

(* applications(): an unavailable or an empty list keeps the last catalog. *)
AskList == service.pc = "list" /\ Ask(Apps)
List ==
  /\ service.pc = "list" /\ Answered
  /\ IF \A a \in Apps : rpc.reply[a] = 0 THEN Goes("backoff")
     ELSE With("icons", [NoPass EXCEPT !.list = rpc.reply])
  /\ UNCHANGED <<android, conn, disk, faults>>

Fresh(a) == LET old == disk.manifest[a]
            IN old.has /\ old.key = service.pass.list[a] /\ disk.icon[a] # 0
Cached(a) == disk.manifest[a].has /\ disk.icon[a] # 0

(* icons(): one batch for the entries without a current icon.  A package   *)
(* that is gone by now has none; a failed batch leaves all of them out.    *)
Needed == {a \in Listed : ~Fresh(a)}
AskIcons == service.pc = "icons" /\ Needed # {} /\ Ask(Needed)
Icons ==
  /\ service.pc = "icons"
  /\ IF Needed = {} THEN UNCHANGED rpc ELSE Answered
  /\ With("apps", [service.pass EXCEPT !.todo = Listed, !.icons = rpc.reply,
                                       !.retry = rpc.at = "failed"])
  /\ UNCHANGED <<android, conn, disk, faults>>

(* One application of the pass: first its icon file ...                    *)
\* Mutant: an icon that could not be renewed is recorded with the new key.
WriteIconNewKey(a) ==
  /\ service.pc = "apps" /\ service.pass.at = {} /\ a \in service.pass.todo
  /\ LET p == service.pass
         renewed == ~Fresh(a) /\ p.icons[a] # 0
         deferred == ~Fresh(a) /\ p.icons[a] = 0
         entry == [key |-> p.list[a], has |-> renewed \/ Cached(a)]
     IN /\ disk' = IF renewed THEN [disk EXCEPT !.icon[a] = p.icons[a]] ELSE disk
        /\ With("apps", [p EXCEPT !.at = {a}, !.cur[a] = entry, !.retry = @ \/ deferred])
  /\ UNCHANGED <<android, conn, rpc, faults>>

WriteIcon(a) ==
  /\ service.pc = "apps" /\ service.pass.at = {} /\ a \in service.pass.todo
  /\ LET p == service.pass
         renewed == ~Fresh(a) /\ p.icons[a] # 0
         deferred == ~Fresh(a) /\ p.icons[a] = 0
         entry == IF deferred /\ Cached(a) THEN disk.manifest[a]
                  ELSE [key |-> p.list[a], has |-> ~deferred]
     IN /\ disk' = IF renewed THEN [disk EXCEPT !.icon[a] = p.icons[a]] ELSE disk
        /\ With("apps", [p EXCEPT !.at = {a}, !.cur[a] = entry, !.retry = @ \/ deferred])
  /\ UNCHANGED <<android, conn, rpc, faults>>

(* ... then its desktop entry, which names the icon if there is one.       *)
WriteDesktop ==
  /\ service.pc = "apps"
  /\ \E a \in service.pass.at :
       /\ disk' = [disk EXCEPT !.desk[a] = IF service.pass.cur[a].has THEN "icon" ELSE "plain"]
       /\ With("apps", [service.pass EXCEPT !.at = {}, !.todo = @ \ {a}])
  /\ UNCHANGED <<android, conn, rpc, faults>>

(* remove_stale, for the entries and then for the icon files.              *)
StaleDesktops == {a \in Apps \ Listed : disk.desk[a] # "none"}
StaleIcons == {a \in Apps : ~service.pass.cur[a].has /\ disk.icon[a] # 0}
RemoveStale ==
  /\ service.pc = "apps" /\ service.pass.todo = {}
  /\ IF StaleDesktops # {}
     THEN \E a \in StaleDesktops : disk' = [disk EXCEPT !.desk[a] = "none"] /\ UNCHANGED service
     ELSE IF StaleIcons # {}
     THEN \E a \in StaleIcons : disk' = [disk EXCEPT !.icon[a] = 0] /\ UNCHANGED service
     ELSE Goes("manifest") /\ UNCHANGED disk
  /\ UNCHANGED <<android, conn, rpc, faults>>

WriteManifest ==
  /\ service.pc = "manifest"
  /\ disk' = [disk EXCEPT !.manifest = service.pass.cur]
  /\ With(IF service.pass.retry THEN "backoff" ELSE "wait", NoPass)
  /\ UNCHANGED <<android, conn, rpc, faults>>

(* A pass that failed or left an icon out is repeated two seconds later.   *)
Backoff == service.pc = "backoff" /\ With("list", NoPass) /\ UNCHANGED <<android, conn, rpc, disk, faults>>
FileFails ==
  /\ Fault /\ service.pc \in {"apps", "manifest"} /\ With("backoff", NoPass)
  /\ UNCHANGED <<android, conn, rpc, disk>>

(* The user logs out or the service is killed, and started again; while it *)
(* is down, an uninstallation may remove what the manifest records.        *)
Crash ==
  /\ Fault /\ service.pc # "off" /\ With("off", NoPass)
  /\ conn' = [at |-> "none", generations |-> 0] /\ rpc' = NoRequest
  /\ UNCHANGED <<android, disk>>
Restart == service.pc = "off" /\ Goes("subscribe") /\ UNCHANGED <<android, conn, rpc, disk, faults>>
RemoveManaged ==
  /\ service.pc = "off" /\ disk.manifest # NoManifest
  /\ disk' = [desk |-> [a \in Apps |-> IF disk.manifest[a].key # 0 THEN "none" ELSE disk.desk[a]],
              icon |-> [a \in Apps |-> IF disk.manifest[a].has THEN 0 ELSE disk.icon[a]],
              manifest |-> NoManifest]
  /\ UNCHANGED <<android, conn, rpc, service, faults>>

Next ==
  \/ Listen \/ StartInstance \/ CatalogChanged \/ Watch \/ FrameworkDies \/ SubscriberDropped
  \/ Subscribe \/ ReadGeneration \/ AskList \/ List \/ AskIcons \/ Icons
  \/ RequestTimesOut \/ Serve \/ WriteDesktop \/ RemoveStale
  \/ WriteManifest \/ Backoff \/ FileFails \/ Crash \/ Restart \/ RemoveManaged
  \/ \E a \in Apps : PackageChanges(a) \/ WriteIcon(a)

Spec == Init /\ [][Next]_vars
-----------------------------------------------------------------------------
TypeOK ==
  /\ service.pc \in {"subscribe", "wait", "list", "icons", "apps", "manifest", "backoff", "off"}
  /\ conn.at \in {"none", "queued", "peer", "lost"} /\ conn.generations \in 0..2
  /\ disk.desk \in [Apps -> {"none", "plain", "icon"}] /\ disk.icon \in [Apps -> 0..MaxStamp]

(* The service sleeps on a live subscription and no change is on its way.  *)
Asleep ==
  /\ service.pc = "wait" /\ conn = [at |-> "peer", generations |-> 0]
  /\ ~android.cast /\ ~android.wake

(* Launchers (reconcile, watch, startInstance): no change of a package is  *)
(* missed, whatever it raced with: when the service goes back to sleep,    *)
(* which it does without a timer, the desktop has an entry for exactly     *)
(* Android's activities, each with the icon of its last update.  And at    *)
(* every moment, even after a crash between two files, an entry that names *)
(* an icon has one.  (An uninstallation removes both.)                     *)
CatalogCurrent ==
  /\ TypeOK
  /\ Asleep => \A a \in Apps :
       /\ disk.desk[a] = (IF android.apps[a] = 0 THEN "none" ELSE "icon")
       /\ disk.icon[a] = android.apps[a]
  /\ \A a \in Apps : disk.desk[a] = "icon" => disk.icon[a] # 0
=============================================================================
