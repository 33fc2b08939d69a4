----------------------------- MODULE CellRecovery -----------------------------
(***************************************************************************)
(* droidloomd's request loop (control.rs), the recovery companion          *)
(* `droidloomctl supervise --cell` (cell_watch.rs) and the other clients   *)
(* of the lifecycle socket.  The daemon serves one request at a time and   *)
(* reaps the cell's owner only between requests.  The companion names the  *)
(* owner by a PID it read from a reply, so PIDs are reused here: a process *)
(* is a unique id in a slot of the PID table.  systemd (external) restarts *)
(* a failed companion, whose unit first starts the daemon, and a daemon.   *)
(***************************************************************************)
EXTENDS Integers, FiniteSets

CONSTANTS Pids,        \* slots of the PID table
          MaxProcs,    \* processes created in a behaviour
          MaxFaults,   \* exits, crashes and failed steps
          MaxRequests  \* requests of the other clients

VARIABLES table,       \* PID -> [id, alive]; id 0 is a free PID
          serial,      \* processes created so far
          daemon,      \* "up" or "down"
          cell,        \* active cell: owner id (0 none), PID, cached ready init
          booted,      \* the active cell's Android answers the readiness probe
          busy,        \* who waits inside the daemon for readiness
          comp,        \* companion: pc, PID from the reply, process its pidfd names
          notice,      \* boot notice: "starting", "closed" or "failed"
          faults, requests

vars == <<table, serial, daemon, cell, booted, busy, comp, notice, faults, requests>>
android == <<table, serial, cell, booted>>

Free == [id |-> 0, alive |-> FALSE]
NoCell == [id |-> 0, pid |-> 0, ready |-> 0]
IsAlive(id) == \E p \in Pids : table[p].id = id /\ table[p].alive
Fault == faults < MaxFaults /\ faults' = faults + 1

Init ==
  /\ table = [p \in Pids |-> Free] /\ serial = 0 /\ daemon = "up" /\ cell = NoCell
  /\ booted = FALSE /\ busy = "none" /\ notice = "starting" /\ faults = 0 /\ requests = 0
  /\ comp = [pc |-> "start", pid |-> 0, fd |-> 0]

(* run_loop serves a request once poll found no exited owner.               *)
OwnerLive == cell.id = 0 \/ IsAlive(cell.id)
Serving == daemon = "up" /\ busy = "none" /\ OwnerLive

(* Daemon::start on a specification equal to the active cell's, and the     *)
(* construction of a new cell in place of none.                             *)
Spawned(c) ==
  /\ serial < MaxProcs /\ serial' = serial + 1
  /\ \E p \in Pids : /\ table[p] = Free
                     /\ c = [id |-> serial + 1, pid |-> p, ready |-> 0]
                     /\ table' = [table EXCEPT ![p] = [id |-> serial + 1, alive |-> TRUE]]
  /\ booted' = FALSE
Started(c) ==
  \/ cell.id # 0 /\ c = cell /\ UNCHANGED android
  \/ cell.id = 0 /\ \E n \in [id : {serial + 1}, pid : Pids, ready : {0}] :
                       Spawned(n) /\ c = n /\ cell' = n

(* Daemon::poll: the exited owner is reaped and its cell forgotten; a       *)
(* failing cleanup ends the loop, and with it the daemon.                   *)
ReapedStillActive == table' = [table EXCEPT ![cell.pid] = Free] /\ UNCHANGED <<cell, booted>>
Reaped == table' = [table EXCEPT ![cell.pid] = Free] /\ cell' = NoCell /\ booted' = FALSE
Poll ==
  /\ daemon = "up" /\ busy = "none" /\ ~OwnerLive /\ Reaped
  /\ \/ UNCHANGED <<daemon, faults>>
     \/ Fault /\ daemon' = "down"
  /\ UNCHANGED <<serial, busy, comp, notice, requests>>

(* supervise_cell, one action per request or system call.                   *)
Fails == comp' = [pc |-> "failed", pid |-> 0, fd |-> 0]
CompanionStart ==
  /\ comp.pc = "start" /\ Serving
  /\ \/ \E c \in [id : 1..MaxProcs, pid : Pids, ready : 0..MaxProcs] :
          Started(c) /\ comp' = [comp EXCEPT !.pc = "open", !.pid = c.pid]
                     /\ UNCHANGED faults
     \/ Fault /\ cell.id = 0 /\ Fails /\ UNCHANGED android
  /\ UNCHANGED <<daemon, busy, notice, requests>>
OpenOwner ==
  /\ comp.pc = "open"
  /\ IF table[comp.pid] = Free THEN Fails
     ELSE comp' = [comp EXCEPT !.pc = "check", !.fd = table[comp.pid].id]
  /\ UNCHANGED <<table, serial, daemon, cell, booted, busy, notice, faults, requests>>
CompanionCheckAnyOwner ==
  /\ comp.pc = "check" /\ Serving
  /\ \E c \in [id : 1..MaxProcs, pid : Pids, ready : 0..MaxProcs] :
       Started(c) /\ comp' = [comp EXCEPT !.pc = "wait_ready"]
  /\ UNCHANGED <<daemon, busy, notice, faults, requests>>
CompanionCheck ==
  /\ comp.pc = "check" /\ Serving
  /\ \/ \E c \in [id : 1..MaxProcs, pid : Pids, ready : 0..MaxProcs] :
          /\ Started(c) /\ UNCHANGED faults
          /\ IF c.pid = comp.pid THEN comp' = [comp EXCEPT !.pc = "wait_ready"]
             ELSE Fails
     \/ Fault /\ cell.id = 0 /\ Fails /\ UNCHANGED android
  /\ UNCHANGED <<daemon, busy, notice, requests>>
CompanionWaitReady ==
  /\ comp.pc = "wait_ready" /\ Serving
  /\ IF cell.id = 0 THEN /\ notice' = "failed" /\ comp' = [comp EXCEPT !.pc = "waiting"]
                         /\ UNCHANGED <<cell, busy>>
     ELSE /\ cell' = [cell EXCEPT !.ready = 0] /\ busy' = "companion"
          /\ UNCHANGED <<comp, notice>>
  /\ UNCHANGED <<table, serial, daemon, booted, faults, requests>>
CompanionUnanswered ==
  /\ daemon = "down" /\ comp.pc \in {"start", "check", "wait_ready"}
  /\ IF comp.pc = "wait_ready" THEN notice' = "failed" /\ comp' = [comp EXCEPT !.pc = "waiting"]
     ELSE Fails /\ UNCHANGED notice
  /\ UNCHANGED <<table, serial, daemon, cell, booted, busy, faults, requests>>
WaitForExit ==
  /\ comp.pc = "waiting" /\ ~IsAlive(comp.fd) /\ Fails
  /\ UNCHANGED <<table, serial, daemon, cell, booted, busy, notice, faults, requests>>

(* wait_for_android_init: answered when the probe reports no boot phase;    *)
(* failed by the owner's exit, the deadline or a cancelled client.          *)
Answered(c) ==
  IF busy = "companion"
  THEN comp' = [comp EXCEPT !.pc = "waiting"] /\ notice' = c
  ELSE UNCHANGED <<comp, notice>>
WaitSucceeds ==
  /\ busy # "none" /\ IsAlive(cell.id) /\ booted
  /\ cell' = [cell EXCEPT !.ready = cell.id] /\ busy' = "none" /\ Answered("closed")
  /\ UNCHANGED <<table, serial, daemon, booted, faults, requests>>
WaitFails ==
  /\ busy # "none" /\ busy' = "none" /\ Answered("failed")
  /\ \/ ~IsAlive(cell.id) /\ UNCHANGED faults
     \/ Fault
  /\ UNCHANGED <<table, serial, daemon, cell, booted, requests>>

(* The other clients: Stop, Restart, SetDpi (which starts a cell) and the   *)
(* requests that need a ready framework.                                    *)
Request == Serving /\ requests < MaxRequests /\ requests' = requests + 1
Stop == /\ Request /\ cell.id # 0 /\ Reaped
        /\ UNCHANGED <<serial, daemon, busy, comp, notice, faults>>
Restart ==
  /\ Request /\ cell.id # 0 /\ serial < MaxProcs /\ serial' = serial + 1 /\ booted' = FALSE
  /\ LET freed == [table EXCEPT ![cell.pid] = Free]
     IN \E p \in Pids : /\ freed[p] = Free
                        /\ table' = [freed EXCEPT ![p] = [id |-> serial + 1, alive |-> TRUE]]
                        /\ cell' = [id |-> serial + 1, pid |-> p, ready |-> 0]
  /\ UNCHANGED <<daemon, busy, comp, notice, faults>>
EnsureCell ==
  /\ Request /\ cell.id = 0
  /\ \E c \in [id : 1..MaxProcs, pid : Pids, ready : {0}] : Started(c)
  /\ busy' = "client" /\ UNCHANGED <<daemon, comp, notice, faults>>
FrameworkRequest ==
  /\ Request /\ cell.id # 0 /\ busy' = IF cell.ready # 0 THEN "none" ELSE "client"
  /\ UNCHANGED <<table, serial, daemon, cell, booted, comp, notice, faults>>

(* The environment.                                                         *)
OwnerExits == /\ Fault /\ IsAlive(cell.id) /\ table' = [table EXCEPT ![cell.pid].alive = FALSE]
              /\ UNCHANGED <<serial, daemon, cell, booted, busy, comp, notice, requests>>
Boots == /\ IsAlive(cell.id) /\ ~booted /\ booted' = TRUE
         /\ UNCHANGED <<table, serial, daemon, cell, busy, comp, notice, faults, requests>>
SystemServerRestarts ==
  /\ Fault /\ booted /\ booted' = FALSE
  /\ UNCHANGED <<table, serial, daemon, cell, busy, comp, notice, requests>>
OtherProcess ==
  /\ Fault /\ serial < MaxProcs /\ serial' = serial + 1
  /\ \E p, q \in Pids : p # q /\ table[p] = Free /\ table[q] = Free  \* PIDs never run out
       /\ table' = [table EXCEPT ![p] = [id |-> serial + 1, alive |-> TRUE]]
  /\ UNCHANGED <<daemon, cell, booted, busy, comp, notice, requests>>
OtherExits ==
  /\ \E p \in Pids : table[p].id \notin {0, cell.id} /\ table' = [table EXCEPT ![p] = Free]
  /\ UNCHANGED <<serial, daemon, cell, booted, busy, comp, notice, faults, requests>>
Crash ==
  /\ Fault /\ daemon = "up" /\ daemon' = "down" /\ busy' = "none"
  /\ IF cell.id = 0 THEN UNCHANGED <<table, cell, booted>> ELSE Reaped
  /\ IF busy = "companion" THEN Answered("failed") ELSE UNCHANGED <<comp, notice>>
  /\ UNCHANGED <<serial, requests>>
RestartDaemon ==
  /\ daemon = "down" /\ daemon' = "up"
  /\ UNCHANGED <<table, serial, cell, booted, busy, comp, notice, faults, requests>>
RestartCompanion ==
  /\ comp.pc = "failed" /\ comp' = [comp EXCEPT !.pc = "start"] /\ daemon' = "up"
  /\ UNCHANGED <<table, serial, cell, booted, busy, notice, faults, requests>>

Companion == CompanionStart \/ OpenOwner \/ CompanionCheck \/ CompanionWaitReady
               \/ CompanionUnanswered \/ WaitForExit
Daemon == Poll \/ WaitSucceeds \/ WaitFails
Clients == Stop \/ Restart \/ EnsureCell \/ FrameworkRequest
Environment == OwnerExits \/ Boots \/ SystemServerRestarts \/ OtherProcess \/ OtherExits
                 \/ Crash \/ RestartDaemon \/ RestartCompanion
Next == Companion \/ Daemon \/ Clients \/ Environment
Spec == Init /\ [][Next]_vars
FairSpec == Spec /\ WF_vars(Companion) /\ WF_vars(Daemon) /\ WF_vars(Boots)
              /\ WF_vars(RestartDaemon) /\ WF_vars(RestartCompanion)

(* "Never sleep on an unrelated reused PID": while the companion blocks in  *)
(* wait_for_exit on a process that lives, that process is the owner of the  *)
(* daemon's active cell.                                                    *)
SleepsOnOwner == comp.pc = "waiting" /\ IsAlive(comp.fd) => comp.fd = cell.id

(* Once owner exits, crashes and client requests stop, a cell runs with the *)
(* companion attached to its exact owner, for good.                         *)
Recovers == <>[](comp.pc = "waiting" /\ comp.fd = cell.id /\ IsAlive(cell.id))
=============================================================================
