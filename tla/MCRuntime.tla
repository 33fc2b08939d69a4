------------------------------ MODULE MCRuntime ------------------------------
(***************************************************************************)
(* The components of the runtime side, with its audio broker, the power    *)
(* hints and the answers to direct scenes, checked side by side: `bench`   *)
(* names the one a behaviour is about and never changes, and the variables *)
(* of the others keep their initial values.                                *)
(***************************************************************************)
EXTENDS CellRecovery, Sequences

CONSTANTS HostForwards, UnitWipesRuntime

VARIABLES bench
VARIABLES phase, step, starting, failed, net, owned, forward, previous, record, files,
          entered, child, hostFaults, crashes, restoreFailed
VARIABLES stage, choice, entryMounts, text, data, boots, deaths, bootedWith
VARIABLES planned, applied, planMounts, misordered, calls
VARIABLES audio, graph, server, client, wire, changes
VARIABLES c, kernel, alive, class, reborn, expiry, hints
VARIABLES app, content, sf, req, ev, layer, drawn

hostVars == <<phase, step, starting, failed, net, owned, forward, previous, record, files,
              entered, child, hostFaults, crashes, restoreFailed>>
entryVars == <<stage, choice, entryMounts, text, data, boots, deaths, bootedWith>>
planVars == <<planned, applied, planMounts, misordered, calls>>
audioVars == <<audio, graph, server, client, wire, changes>>
powerVars == <<c, kernel, alive, class, reborn, expiry, hints>>
layerVars == <<app, content, sf, req, ev, layer, drawn>>
all == <<bench, hostVars, entryVars, planVars, vars, audioVars, powerVars, layerVars>>

Host == INSTANCE DevelopmentCell WITH MaxFaults <- 2, MaxCrashes <- 1, faults <- hostFaults

AddOns == {[signers |-> "a", version |-> 1], [signers |-> "a", version |-> 2],
           [signers |-> "b", version |-> 1]}
Entry == INSTANCE CellEntry WITH MaxBoots <- 2, MaxDeaths <- 1, mounts <- entryMounts

Small == [uids |-> [start |-> 0, count |-> 4], gids |-> [start |-> 0, count |-> 4],
          host |-> 5, init |-> FALSE, overrides |-> << >>, runtime |-> << >>,
          shared |-> << >>]
Full == [Small EXCEPT
           !.init = TRUE,
           !.overrides = << <<"system", "etc", "x">>, <<"vendor", "y">> >>,
           !.runtime = << <<"droidloom", "t">>, <<"droidloom", "u", "v">> >>,
           !.shared = << [name |-> "p", gid |-> 1], [name |-> "q", gid |-> 1] >>]
Specs == {Small, Full,
          [Full EXCEPT !.runtime = << <<"droidloom", "u">>, <<"droidloom", "u", "v">> >>],
          [Small EXCEPT !.uids.start = 5], [Small EXCEPT !.host = 3]}
Plan == INSTANCE CellTransaction WITH MinIds <- 4, MaxId <- 7, MaxCalls <- 4,
                                      cell <- planned, mounts <- planMounts

(* Playback and capture, with two renegotiations of the graph.              *)
Sound == INSTANCE AudioStream WITH Slots <- {1, 2}, Capacity <- 2, Periods <- {1, 2},
                                   MaxFrames <- 3, MaxChanges <- 2, p <- audio

(* Two hint sessions over two threads on cores of three sizes, the largest  *)
(* capacity being 16.                                                       *)
Power == INSTANCE PowerHints WITH Sessions <- 1..2, Threads <- 1..2, Drivers <- {2},
           Capacities <- <<2, 2, 10, 10, 16>>, UTIL_MAX <- 16, MIN_RAISE <- 1, MAX_RAISE <- 2,
           DECAY <- 1, HINT_STEP <- 1, QUANTUM <- 3, Targets <- {10, 20},
           Works <- {0, 5, 8, 11, 40}, STALE_PERIODS <- 2, MIN_STALE <- 1, MAX_STALE <- 2,
           TICK <- 20, INTERACTION_HOLD <- 2, RESCAN <- 1, RtDefault <- 4, MaxCalls <- 4,
           calls <- hints

(* One layer whose scenes must be answered.                                 *)
Scenes == INSTANCE DirectLayers WITH Layers <- {1}, Buffers <- {1}, MaxLanes <- 2, MaxTickets <- 2,
             MaxWrites <- 1, MaxSerial <- 1, host <- layer, comp <- drawn

BenchInit ==
  /\ bench \in {"host", "entry", "plan", "recovery", "sound", "power", "scenes"}
  /\ Host!Init /\ Entry!Init /\ Plan!Init /\ Init /\ Sound!Init /\ Power!Init
  /\ Scenes!Init
  /\ bench # "entry" => data = Entry!FreshDirectory
  /\ bench # "power" => class[1] = "fair"
  /\ bench # "sound" => audio.direction = Sound!Playback /\ graph.size = 1
BenchNext ==
  /\ UNCHANGED bench
  /\ \/ /\ UNCHANGED <<audioVars, powerVars, layerVars>>
        /\ \/ bench = "host" /\ Host!Next /\ UNCHANGED <<entryVars, planVars, vars>>
           \/ bench = "entry" /\ Entry!Next /\ UNCHANGED <<hostVars, planVars, vars>>
           \/ bench = "plan" /\ Plan!Next /\ UNCHANGED <<hostVars, entryVars, vars>>
           \/ bench = "recovery" /\ Next /\ UNCHANGED <<hostVars, entryVars, planVars>>
     \/ /\ UNCHANGED <<hostVars, entryVars, planVars, vars>>
        /\ \/ bench = "sound" /\ Sound!Next /\ UNCHANGED <<powerVars, layerVars>>
           \/ bench = "power" /\ Power!Next /\ UNCHANGED <<audioVars, layerVars>>
           \/ bench = "scenes" /\ Scenes!Next /\ UNCHANGED <<audioVars, powerVars>>
(* The fairness of each component, for the behaviours about it.             *)
Fair ==
  /\ WF_hostVars(bench = "host" /\ Host!Daemon)
  /\ WF_hostVars(bench = "host" /\ (Host!Enter \/ Host!ExecInit))
  /\ WF_vars(bench = "recovery" /\ Companion)
  /\ WF_vars(bench = "recovery" /\ Daemon)
  /\ WF_vars(bench = "recovery" /\ Boots)
  /\ WF_vars(bench = "recovery" /\ RestartDaemon)
  /\ WF_vars(bench = "recovery" /\ RestartCompanion)
  /\ WF_layerVars(bench = "scenes" /\ Scenes!Latch)
  /\ WF_layerVars(bench = "scenes" /\ Scenes!DrainReleases)
  /\ WF_layerVars(bench = "scenes" /\ Scenes!LayerRequest)
  /\ WF_layerVars(bench = "scenes" /\ Scenes!Grant)
  /\ WF_layerVars(bench = "scenes" /\ Scenes!Event)
BenchSpec == BenchInit /\ [][BenchNext]_all /\ Fair

(* The host's forwarding setting is put back or is on record to be          *)
(* (development_network), and a start never meets residue it cannot clear.  *)
ForwardingAccounted == Host!ForwardingAccounted
StartsGetThrough == bench = "host" => Host!StartsGetThrough
(* Android's init runs only in a complete root, on data that never changes  *)
(* its add-on silently (android_namespace, gapps).                          *)
RootWhole == Entry!TreeWhole /\ Entry!DataKeepsItsAddOn
(* Whatever step of the plan fails, what is left mounted is on record, and  *)
(* is taken down in an order the kernel accepts (CellTransaction).          *)
ResidueInOrder == Plan!ResidueIsRecorded /\ Plan!UnmountsInOrder
(* A cell that dies is started again, with the companion attached to it     *)
(* (droidloom-cell-recovery).                                               *)
CellRecovers == bench = "recovery" => Recovers
(* Shared samples are never in two hands, and reported positions are real   *)
(* (droidloom-audio).                                                       *)
AudioHonest == Sound!AudioHonest
(* The kernel's utilization floors are those the hint sessions still ask    *)
(* for (droidloom-power, its service).                                      *)
FloorsHonest == Power!FloorsHonest
(* No direct scene waits for its answer for ever (layers.rs).               *)
SceneAnswered == bench = "scenes" => Scenes!SceneAnswered
=============================================================================
