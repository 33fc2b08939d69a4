-------------------------- MODULE CellRecoveryProofs --------------------------
(***************************************************************************)
(* SleepsOnOwner of CellRecovery for any number of PIDs, processes,        *)
(* requests and faults: the companion's second look at the daemon makes    *)
(* up for a PID that changed hands before pidfd_open.                      *)
(***************************************************************************)
EXTENDS CellRecovery, TLAPS

States == {"start", "open", "check", "wait_ready", "waiting", "failed"}

Table ==
  /\ table \in [Pids -> [id : Nat, alive : BOOLEAN]] /\ serial \in Nat
  /\ \A p \in Pids : table[p].id <= serial /\ (table[p].id = 0 => ~table[p].alive)
  /\ \A p, q \in Pids : table[p].id = table[q].id /\ p # q => table[p].id = 0
Types ==
  /\ cell \in [id : Nat, pid : Pids \cup {0}, ready : Nat]
  /\ comp \in [pc : States, pid : Pids \cup {0}, fd : Nat]

(* A process has one PID and was created before, the active cell's owner is *)
(* in the table until the daemon reaps it, and of the process behind the    *)
(* companion's descriptor: before the check, that nobody else has its PID;  *)
(* after it, that it is the owner unless it is dead.                        *)
IndInv ==
  /\ Table /\ Types
  /\ cell.id # 0 => cell.pid \in Pids /\ table[cell.pid].id = cell.id
  /\ comp.pc \in {"open", "check"} => comp.pid \in Pids
  /\ comp.pc \in {"check", "wait_ready", "waiting"} => comp.fd # 0 /\ comp.fd <= serial
  /\ comp.pc = "check" => \A p \in Pids : table[p].id = comp.fd => p = comp.pid
  /\ comp.pc \in {"wait_ready", "waiting"} =>
       \A p \in Pids : table[p].id = comp.fd /\ table[p].alive => comp.fd = cell.id
  /\ busy = "companion" => comp.pc = "wait_ready"
  /\ daemon = "down" => busy = "none"
----------------------------------------------------------------------------
(* What the invariant is for.                                              *)
LEMMA IndInvImplies == IndInv => SleepsOnOwner
  BY DEF IndInv, Table, SleepsOnOwner, IsAlive

(* A daemon without a cell and a companion that has asked for nothing.      *)
LEMMA InitInv == Init => IndInv
  BY DEF Init, IndInv, Table, Types, States, Free, NoCell

(* A process created in a free PID: the others keep theirs.                 *)
LEMMA SpawnTable ==
  ASSUME Table, NEW p \in Pids, table[p] = Free, serial' = serial + 1,
         table' = [table EXCEPT ![p] = [id |-> serial + 1, alive |-> TRUE]]
  PROVE  /\ Table'
         /\ \A q \in Pids : q # p => table'[q] = table[q]
         /\ table'[p].id = serial + 1
  BY SMTT(60) DEF Table, Free

(* Every request, exit, crash and restart keeps it.                         *)
LEMMA StepInv == IndInv /\ [Next]_vars => IndInv'
  <1> SUFFICES ASSUME IndInv, [Next]_vars PROVE IndInv'
    OBVIOUS
  <1> USE DEF IndInv, Table, Types, States, Free
  <1>1. CASE CompanionStart
    <2>1. CASE Fault /\ cell.id = 0 /\ Fails /\ UNCHANGED android
      BY <1>1, <2>1 DEF CompanionStart, Fails, android
    <2>2. CASE cell.id # 0 /\ comp' = [comp EXCEPT !.pc = "open", !.pid = cell.pid] /\ UNCHANGED android
      BY Zenon, <1>1, <2>2 DEF CompanionStart, Serving, android
    <2>3. CASE \E c \in [id : {serial + 1}, pid : Pids, ready : {0}] :
                  Spawned(c) /\ cell' = c /\ comp' = [comp EXCEPT !.pc = "open", !.pid = c.pid]
      <3>0. PICK c \in [id : {serial + 1}, pid : Pids, ready : {0}] :
              Spawned(c) /\ cell' = c /\ comp' = [comp EXCEPT !.pc = "open", !.pid = c.pid]
        BY Zenon, <2>3
      <3>1. PICK p \in Pids :
              /\ table[p] = Free /\ serial' = serial + 1
              /\ table' = [table EXCEPT ![p] = [id |-> serial + 1, alive |-> TRUE]]
              /\ c = [id |-> serial + 1, pid |-> p, ready |-> 0]
        BY Zenon, <3>0 DEF Spawned
      <3>2. c.pid = p
        BY <3>1
      <3>3. Table' /\ table'[p].id = serial + 1
        BY <3>1, SpawnTable
      <3> QED
        BY Zenon, <1>1, <3>0, <3>1, <3>2, <3>3 DEF CompanionStart, Serving
    <2> QED
      BY ZenonT(60), <1>1, <2>1, <2>2, <2>3 DEF CompanionStart, Started
  <1>2. CASE OpenOwner
    <2>1. CASE table[comp.pid] = Free
      BY <1>2, <2>1 DEF OpenOwner, Fails
    <2>2. CASE table[comp.pid] # Free
      <3>1. comp' = [comp EXCEPT !.pc = "check", !.fd = table[comp.pid].id]
        BY <1>2, <2>2 DEF OpenOwner
      <3>2. table[comp.pid].id # 0
        BY <1>2, <2>2 DEF OpenOwner
      <3> QED
        BY ZenonT(60), <1>2, <3>1, <3>2 DEF OpenOwner
    <2> QED
      BY <2>1, <2>2
  <1>3. CASE CompanionCheck
    <2>1. CASE comp' = [comp EXCEPT !.pc = "wait_ready"] /\ cell.id # 0 /\ cell.pid = comp.pid /\ UNCHANGED android
      BY <1>3, <2>1 DEF CompanionCheck, Serving, android
    <2>2. CASE Fails /\ UNCHANGED android
      BY <1>3, <2>2 DEF CompanionCheck, Fails, Serving, android
    <2>3. CASE \E c \in [id : {serial + 1}, pid : Pids, ready : {0}] :
                  Spawned(c) /\ cell' = c
                  /\ ((c.pid = comp.pid /\ comp' = [comp EXCEPT !.pc = "wait_ready"]) \/ Fails)
      <3>0. PICK c \in [id : {serial + 1}, pid : Pids, ready : {0}] :
              /\ Spawned(c) /\ cell' = c
              /\ ((c.pid = comp.pid /\ comp' = [comp EXCEPT !.pc = "wait_ready"]) \/ Fails)
        BY <2>3
      <3>1. PICK p \in Pids :
              /\ table[p] = Free /\ serial' = serial + 1
              /\ table' = [table EXCEPT ![p] = [id |-> serial + 1, alive |-> TRUE]]
              /\ c = [id |-> serial + 1, pid |-> p, ready |-> 0]
        BY Zenon, <3>0 DEF Spawned
      <3>2. c.pid = p
        BY <3>1
      <3>3. /\ Table' /\ table'[p].id = serial + 1
            /\ \A q \in Pids : q # p => table'[q] = table[q]
        BY <3>1, SpawnTable
      <3> QED
        BY <1>3, <3>0, <3>1, <3>2, <3>3 DEF CompanionCheck, Serving, Fails
    <2> QED
      BY <1>3, <2>1, <2>2, <2>3 DEF CompanionCheck, Started
  <1>4. CASE CompanionWaitReady
    BY <1>4 DEF CompanionWaitReady, Serving
  <1>5. CASE CompanionUnanswered
    BY <1>5 DEF CompanionUnanswered, Fails
  <1>6. CASE WaitForExit
    BY <1>6 DEF WaitForExit, Fails, IsAlive
  <1>7. CASE Poll
    BY <1>7 DEF Poll, Reaped, NoCell, OwnerLive
  <1>8. CASE WaitSucceeds
    BY <1>8 DEF WaitSucceeds, Answered
  <1>9. CASE WaitFails
    BY <1>9 DEF WaitFails, Answered
  <1>10. CASE Stop
    BY <1>10 DEF Stop, Request, Serving, Reaped, NoCell
  <1>11. CASE Restart
    <2> DEFINE freed == [table EXCEPT ![cell.pid] = Free]
    <2>1. PICK p \in Pids :
            /\ freed[p] = Free
            /\ table' = [freed EXCEPT ![p] = [id |-> serial + 1, alive |-> TRUE]]
            /\ cell' = [id |-> serial + 1, pid |-> p, ready |-> 0]
      BY <1>11 DEF Restart
    <2>2. cell.id # 0 /\ cell.pid \in Pids /\ serial' = serial + 1 /\ UNCHANGED <<daemon, busy, comp>>
      BY <1>11 DEF Restart
    <2>3. \A q \in Pids : table'[q] = IF q = p THEN [id |-> serial + 1, alive |-> TRUE]
                                      ELSE IF q = cell.pid THEN Free ELSE table[q]
      BY ZenonT(60), <2>1, <2>2
    <2>4. Table'
      <3>1. table' \in [Pids -> [id : Nat, alive : BOOLEAN]]
        <4>1. freed \in [Pids -> [id : Nat, alive : BOOLEAN]]
          BY <2>2
        <4>2. [id |-> serial + 1, alive |-> TRUE] \in [id : Nat, alive : BOOLEAN]
          OBVIOUS
        <4> HIDE DEF freed
        <4> QED
          BY <2>1, <4>1, <4>2
      <3>2. \A q \in Pids : q # p => table'[q].id <= serial
        BY <2>2, <2>3
      <3>3. \A q \in Pids : q # p => table'[q] = Free \/ table'[q] = table[q]
        BY <2>3
      <3> QED
        BY <2>2, <2>3, <3>1, <3>2, <3>3
    <2>5. busy = "none" /\ daemon = "up"
      BY <1>11 DEF Restart, Request, Serving
    <2>6. comp.pc # "check" \/ \A q \in Pids : table'[q].id = comp.fd => q = comp.pid
      BY <2>2, <2>3
    <2>7. comp.pc \in {"wait_ready", "waiting"} => \A q \in Pids : ~(table'[q].id = comp.fd /\ table'[q].alive)
      BY <2>2, <2>3
    <2>8. cell' \in [id : Nat, pid : Pids \cup {0}, ready : Nat] /\ table'[p].id = cell'.id /\ cell'.pid = p
      BY <2>1, <2>3
    <2> QED
      BY <2>2, <2>4, <2>5, <2>6, <2>7, <2>8
  <1>12. CASE EnsureCell
    <2>1. PICK p \in Pids :
            /\ table[p] = Free /\ serial' = serial + 1
            /\ table' = [table EXCEPT ![p] = [id |-> serial + 1, alive |-> TRUE]]
            /\ cell' = [id |-> serial + 1, pid |-> p, ready |-> 0]
      BY <1>12 DEF EnsureCell, Started, Spawned
    <2>2. /\ Table' /\ table'[p].id = serial + 1
          /\ \A q \in Pids : q # p => table'[q] = table[q]
      BY <2>1, SpawnTable
    <2> QED
      BY <1>12, <2>1, <2>2 DEF EnsureCell, Request, Serving
  <1>13. CASE FrameworkRequest
    BY <1>13 DEF FrameworkRequest, Request, Serving
  <1>14. CASE OwnerExits
    <2>1. cell.id # 0 /\ cell.pid \in Pids
      BY <1>14 DEF OwnerExits, IsAlive
    <2>2. \A q \in Pids : /\ table'[q].id = table[q].id
                          /\ table'[q].alive => table[q].alive
                          /\ table'[q] \in [id : Nat, alive : BOOLEAN]
      BY ZenonT(60), <1>14, <2>1 DEF OwnerExits
    <2>3. table' \in [Pids -> [id : Nat, alive : BOOLEAN]]
      BY Zenon, <1>14, <2>2 DEF OwnerExits
    <2>4. UNCHANGED <<serial, daemon, cell, busy, comp>>
      BY <1>14 DEF OwnerExits
    <2>5. Table'
      BY <2>2, <2>3, <2>4
    <2> QED
      BY <2>1, <2>2, <2>4, <2>5
  <1>15. CASE Boots
    BY <1>15 DEF Boots
  <1>16. CASE SystemServerRestarts
    BY <1>16 DEF SystemServerRestarts
  <1>17. CASE OtherProcess
    BY <1>17 DEF OtherProcess
  <1>18. CASE OtherExits
    BY <1>18 DEF OtherExits
  <1>19. CASE Crash
    <2>1. CASE cell.id = 0
      BY <1>19, <2>1 DEF Crash, Answered
    <2>2. CASE cell.id # 0
      <3>1. /\ table' = [table EXCEPT ![cell.pid] = Free] /\ cell' = NoCell /\ serial' = serial
            /\ cell.pid \in Pids /\ busy' = "none" /\ daemon' = "down"
        BY <1>19, <2>2 DEF Crash, Reaped
      <3>2. comp' = comp \/ (comp.pc = "wait_ready" /\ comp' = [comp EXCEPT !.pc = "waiting"])
        BY <1>19 DEF Crash, Answered
      <3>3. Table'
        BY <3>1
      <3> QED
        BY <3>1, <3>2, <3>3 DEF NoCell
    <2> QED
      BY <2>1, <2>2
  <1>20. CASE RestartDaemon
    BY <1>20 DEF RestartDaemon
  <1>21. CASE RestartCompanion
    BY <1>21 DEF RestartCompanion
  <1>22. CASE UNCHANGED vars
    BY <1>22 DEF vars
  <1> QED
    BY ZenonT(60), <1>1, <1>2, <1>3, <1>4, <1>5, <1>6, <1>7, <1>8, <1>9, <1>10, <1>11, <1>12, <1>13, <1>14, <1>15, <1>16, <1>17, <1>18, <1>19, <1>20, <1>21, <1>22 DEF Next, Companion, Daemon, Clients, Environment

(* "Never sleep on an unrelated reused PID" (cell_watch.rs), whatever PIDs  *)
(* are used again between the daemon's reply and pidfd_open.                *)
THEOREM CompanionSleepsOnOwner == Spec => []SleepsOnOwner
  <1>1. Init => IndInv
    BY InitInv
  <1>2. IndInv /\ [Next]_vars => IndInv'
    BY StepInv
  <1>3. IndInv => SleepsOnOwner
    BY IndInvImplies
  <1> QED
    BY <1>1, <1>2, <1>3, PTL DEF Spec
=============================================================================
