------------------------------ MODULE MCComposer ------------------------------
(***************************************************************************)
(* The command, timeline and lifecycle models side by side, at the bounds  *)
(* each question needs: `bench` names the model and the bounds a behaviour *)
(* is about and never changes, and the variables of the others keep their  *)
(* initial values.                                                         *)
(***************************************************************************)
EXTENDS TaskCommandsProperties, TLC

CONSTANTS Benches, Connections   \* of SurfaceFlinger, in the bench "racing"

VARIABLES bench
VARIABLES phase, ready, place, subscription, schedule, late, window, armed, idle, clockOn,
          manager, era, issued, events, owed, sent, shown, target
VARIABLES attached, incarnation, registry, published, direct, known, nextObject, binding,
          windows, inFlight, presents, opGate, regGate, pc, subject, asked, publishes,
          selected, pump, toHost, toAndroid, hostTask, hostBound, hostFrames, configures,
          fault

timelineVars == <<phase, ready, place, subscription, schedule, late, window, armed, idle,
                  clockOn, manager, era, issued, events, owed, sent, shown, target>>
lifecycleVars == <<attached, incarnation, registry, published, direct, known, nextObject,
                   binding, windows, inFlight, presents, opGate, regGate, pc, subject,
                   asked, publishes, selected, pump, toHost, toAndroid, hostTask,
                   hostBound, hostFrames, configures, fault>>
all == <<bench, vars, timelineVars, lifecycleVars>>

(* Enough commands to fill the backlog; and broken publication connections. *)
Backlog == INSTANCE TaskCommandsProperties WITH MaxCommands <- 4, MaxStreams <- 1
Broken == INSTANCE TaskCommandsProperties WITH MaxCommands <- 2, MaxStreams <- 1,
                                               MaxEpoch <- 2

(* A window whose output comes and goes, and the withdrawn global.          *)
Moving == INSTANCE FrameTimelineProperties WITH
  Tasks <- {"t"}, Outputs <- {"o"}, NoOutput <- "none", Places <- {"o", "none"},
  Rate <- [o \in {"o"} |-> 60], HostClock <- TRUE, CanIdle <- TRUE, CanBlock <- TRUE,
  CanLoseManager <- TRUE, FrameLimit <- 1, SceneLimit <- 1, MaxSubmissions <- 2,
  MaxGrants <- 1, MaxEra <- 2, MaxProxies <- 2, MaxEvents <- 1
(* A window that stays, without the host clock, over more grants.           *)
Staying == INSTANCE FrameTimelineProperties WITH
  Tasks <- {"t"}, Outputs <- {"o"}, NoOutput <- "none", Places <- {"o"},
  Rate <- [o \in {"o"} |-> 60], HostClock <- FALSE, CanIdle <- TRUE, CanBlock <- TRUE,
  CanLoseManager <- FALSE, FrameLimit <- 1, SceneLimit <- 1, MaxSubmissions <- 3,
  MaxGrants <- 2, MaxEra <- 2, MaxProxies <- 1, MaxEvents <- 3

(* Two control connections publish and remove the same task together.       *)
Clients == INSTANCE TaskLifecycleProperties WITH
  ControlThreads <- {"c1", "c2"}, SurfaceThreads <- {"s1"}, MaxObjects <- 1,
  MaxFrames <- 1, MaxConfigures <- 1, MaxPublishes <- 2, Nobody <- "nobody",
  wanted <- asked

(* One control connection, a stale SurfaceFlinger connection beside the     *)
(* current one, and two incarnations of the task.                           *)
Racing == INSTANCE TaskLifecycleProperties WITH
  ControlThreads <- {"c1"}, SurfaceThreads <- Connections, MaxObjects <- 2,
  MaxFrames <- 1, MaxConfigures <- 1, MaxPublishes <- 2, Nobody <- "nobody",
  wanted <- asked
(* One of each, with a configure for either incarnation.                    *)
Reopened == INSTANCE TaskLifecycleProperties WITH
  ControlThreads <- {"c1"}, SurfaceThreads <- {"s1"}, MaxObjects <- 2,
  MaxFrames <- 0, MaxConfigures <- 2, MaxPublishes <- 2, Nobody <- "nobody",
  wanted <- asked

(* Racing's connections are interchangeable: no property names one.         *)
Interchangeable == Permutations(Connections)

BenchInit ==
  /\ bench \in Benches
  /\ IF bench \in {"backlog", "broken"} THEN Backlog!Init ELSE Init
  /\ IF bench = "moving" THEN Moving!Init ELSE Staying!Init
  /\ CASE bench = "clients" -> Clients!Init
       [] bench = "reopened" -> Reopened!Init
       [] OTHER -> Racing!Init
BenchNext ==
  /\ UNCHANGED bench
  /\ \/ bench = "delivery" /\ Next /\ UNCHANGED <<timelineVars, lifecycleVars>>
     \/ bench = "backlog" /\ Backlog!Next /\ UNCHANGED <<timelineVars, lifecycleVars>>
     \/ bench = "broken" /\ Broken!Next /\ UNCHANGED <<timelineVars, lifecycleVars>>
     \/ bench = "moving" /\ Moving!Next /\ UNCHANGED <<vars, lifecycleVars>>
     \/ bench = "staying" /\ Staying!Next /\ UNCHANGED <<vars, lifecycleVars>>
     \/ bench = "clients" /\ Clients!Next /\ UNCHANGED <<vars, timelineVars>>
     \/ bench = "racing" /\ Racing!Next /\ UNCHANGED <<vars, timelineVars>>
     \/ bench = "reopened" /\ Reopened!Next /\ UNCHANGED <<vars, timelineVars>>

(* The fairness of each model, for the behaviours about it.                 *)
DeliveryFair ==
  LET On == bench = "delivery"
  IN /\ WF_vars(On /\ \E e \in pending : PassDebounce(e))
     /\ WF_vars(On /\ Subscribe) /\ WF_vars(On /\ ReceiveCommand)
     /\ WF_vars(On /\ ResolveCommand) /\ WF_vars(On /\ ApplyCommand)
     /\ WF_vars(On /\ AcknowledgeCommand)
     /\ \A c \in Streams : WF_vars(On /\ (ServeCommand(c) \/ ReplacedServer(c)
                                            \/ ReceiveAcknowledgement(c)))
     /\ WF_vars(On /\ FinishPublish) /\ WF_vars(On /\ CheckConnection)
     /\ \A w \in Windows : WF_vars(On /\ Publish(w)) /\ WF_vars(On /\ Retire(w))
ClientsFair ==
  LET On == bench = "clients" /\ fault = "none"
  IN /\ WF_lifecycleVars(On /\ Clients!Pump)
     /\ WF_lifecycleVars(On /\ Clients!HostMessage)
     /\ \A t \in {"c1", "c2", "s1"} : WF_lifecycleVars(On /\ Clients!Removing(t))
     /\ \A t \in {"c1", "c2"} :
          WF_lifecycleVars(On /\ pc[t] # "idle" /\ Clients!Publishing(t))
     /\ WF_lifecycleVars(On /\ Clients!Unmapped(1))
     /\ SF_lifecycleVars(On /\ \E t \in {"c1", "c2"} : Clients!RemoveRequest(t, 1))
BenchSpec == BenchInit /\ [][BenchNext]_all
FairBenchSpec == BenchSpec /\ DeliveryFair /\ ClientsFair

(* The properties of each model, for the behaviours about it: grants and    *)
(* callbacks are accounted for (end_frame, retire_task), and every waiting  *)
(* frame has something that will wake it (mark, arm),                       *)
GrantsAccounted ==
  IF bench = "moving" THEN Moving!GrantsAccounted
  ELSE Staying!GrantsAccounted /\ (bench = "staying" => Staying!NothingForgotten)
(* what is shown and targeted only advances, over both slots (commit),      *)
ScreenAdvances == Staying!ScreenAdvances
(* removals, publications and the host's table stay consistent, and no live *)
(* task is retired (remove_internal, register_direct_task, the event pump), *)
RemovalsSafe ==
  /\ bench = "racing" => Racing!RemovalsSafe
  /\ bench = "reopened" => Reopened!RemovalsSafe
LiveTaskKept == Racing!LiveTaskKept
(* and a drained removal is finished by a later attempt (remove_internal).  *)
DrainedRemovalCompletes == bench = "clients" => Clients!DrainedRemovalCompletes
=============================================================================
