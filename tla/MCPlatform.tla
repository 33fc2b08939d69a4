------------------------------ MODULE MCPlatform ------------------------------
(***************************************************************************)
(* The updater's two halves, the Composer service, its vsync timer, the    *)
(* wire protocol, the application catalogue, the sizes of windows and the  *)
(* package's setup, checked side by side: `bench` names the model and the  *)
(* bounds a behaviour is about and never changes, and the variables of the *)
(* others keep their initial values.                                       *)
(***************************************************************************)
EXTENDS SourceProjection, ReleaseInstall

VARIABLES bench
VARIABLES win, connected, callback, schedule, client, layers, sf, call, gate, due, refused
VARIABLES now, displays, phase, last
VARIABLES android, host, wire, fault
VARIABLES packages, conn, rpc, exporter, launchers, faults
VARIABLES files, store, outputs, canvas, task, tool, want, lasting, counts
VARIABLES etc, package, running, pacman, setups, owner, torn, operations

composerVars == <<win, connected, callback, schedule, client, layers, sf, call, gate, due, refused>>
clockVars == <<now, displays, phase, last>>
wireVars == <<android, host, wire, fault>>
catalogVars == <<packages, conn, rpc, exporter, launchers, faults>>
sizingVars == <<files, store, outputs, canvas, task, tool, want, lasting, counts>>
setupVars == <<etc, package, running, pacman, setups, owner, torn, operations>>
all == <<bench, vars, builderVars, composerVars, clockVars, wireVars, catalogVars, sizingVars,
         setupVars>>

Sizes == [p \in Pins |-> 1]

(* Two SurfaceFlinger clients in turn; a client that answers with an error; *)
(* and two layers for one client.                                           *)
Clients == INSTANCE ComposerSession WITH Displays <- {1}, Tasks <- {1}, MaxLayers <- 1,
             MaxClients <- 2, MaxFailures <- 0, DeliveryOutlivesClient <- FALSE,
             failures <- refused
Refused == INSTANCE ComposerSession WITH Displays <- {1}, Tasks <- {1}, MaxLayers <- 0,
             MaxClients <- 2, MaxFailures <- 1, DeliveryOutlivesClient <- FALSE,
             failures <- refused
Stack == INSTANCE ComposerSession WITH Displays <- {1}, Tasks <- {}, MaxLayers <- 2,
             MaxClients <- 1, MaxFailures <- 0, DeliveryOutlivesClient <- FALSE,
             failures <- refused
(* Periods that agree within the tolerance, and one that does not.          *)
Clock == INSTANCE VsyncClock WITH Displays <- {1}, Periods <- {2, 3, 5}, MaxTime <- 7
(* Every pair of builds that can complete the hello.                        *)
Wire == INSTANCE DenialWire WITH Minors <- 6..9, MaxInFlight <- 2
(* Two applications, changed twice.                                         *)
Catalog == INSTANCE AppCatalog WITH Apps <- {"a", "b"}, MaxStamp <- 3, MaxFaults <- 1,
             android <- packages, service <- exporter, disk <- launchers
(* A window under every kind of event; and two applications over a change   *)
(* of the policy and a restart.                                             *)
Turned == [logical |-> <<0, 0>>, mode |-> <<4, 3>>, turned |-> TRUE, scale |-> 2]
Plain == [logical |-> <<3, 3>>, mode |-> <<3, 3>>, turned |-> FALSE, scale |-> 1]
Window == INSTANCE WindowSizing WITH disk <- files, Packages <- {"a"}, MaxDimension <- 3,
            MaxApplications <- 1, MaxBuffer <- 4, Denominator <- 2, Scales <- {0, 2, 3},
            Requests <- {<<0, 0>>, <<1, 0>>, <<3, 3>>}, Bounds <- {<<0, 0>>, <<2, 2>>},
            OutputSets <- {{Plain}, {Turned, Plain}, {}}, Edits <- {}, Preferences <- {},
            MaxEvents <- 3, MaxEdits <- 0, MaxStarts <- 1
Fit == [mode |-> "fit", size |-> <<0, 0>>]
Unset == [mode |-> "none", size |-> <<0, 0>>]
Garbled == [default |-> Unset, apps |-> [p \in {"a", "b"} |-> Unset]]
Policy == INSTANCE WindowSizing WITH disk <- files, Packages <- {"a", "b"}, MaxDimension <- 3,
            MaxApplications <- 1, MaxBuffer <- 4, Denominator <- 2, Scales <- {},
            Requests <- {<<1, 0>>}, Bounds <- {<<2, 2>>}, OutputSets <- {{Plain}},
            Edits <- {Garbled}, Preferences <- {Fit},
            MaxEvents <- 4, MaxEdits <- 1, MaxStarts <- 2
(* Two desktop users and two versions of the package.                       *)
Setup == INSTANCE PackageSetup WITH Users <- {1, 2}, Versions <- {1, 2}, Renders <- {1, 2},
            MaxOperations <- 4

BenchInit ==
  /\ bench \in {"build", "install", "clients", "refused", "stack", "clock", "wire", "catalog",
               "window", "policy", "setup"}
  /\ BuilderInit /\ Init /\ Clients!Init /\ Clock!Init /\ Wire!Init /\ Catalog!Init
  /\ IF bench = "window" THEN Window!Init ELSE Policy!Init
  /\ Setup!Init /\ package.version = 1
  /\ bench # "build" => lock = [projects |-> Projects, pin |-> 1]
  /\ bench # "install" => \A f \in Files : disk.alias[f] = None
  /\ bench # "catalog" => packages.apps["a"] = 1
  /\ bench # "wire" => android.minor = 9 /\ host.minor = 9 /\ host.caps = Wire!Known(9)
BenchNext ==
  /\ UNCHANGED bench
  /\ \/ /\ \/ bench = "build" /\ BuilderNext /\ UNCHANGED vars
           \/ bench = "install" /\ Next /\ UNCHANGED builderVars
        /\ UNCHANGED <<composerVars, clockVars, wireVars, catalogVars, sizingVars, setupVars>>
     \/ /\ UNCHANGED <<vars, builderVars, catalogVars, sizingVars, setupVars>>
        /\ \/ bench = "clients" /\ Clients!Next /\ UNCHANGED <<clockVars, wireVars>>
           \/ bench = "refused" /\ Refused!Next /\ UNCHANGED <<clockVars, wireVars>>
           \/ bench = "stack" /\ Stack!Next /\ UNCHANGED <<clockVars, wireVars>>
           \/ bench = "clock" /\ Clock!Next /\ UNCHANGED <<composerVars, wireVars>>
           \/ bench = "wire" /\ Wire!Next /\ UNCHANGED <<composerVars, clockVars>>
     \/ /\ UNCHANGED <<vars, builderVars, composerVars, clockVars, wireVars>>
        /\ \/ bench = "catalog" /\ Catalog!Next /\ UNCHANGED <<sizingVars, setupVars>>
           \/ bench = "window" /\ Window!Next /\ UNCHANGED <<catalogVars, setupVars>>
           \/ bench = "policy" /\ Policy!Next /\ UNCHANGED <<catalogVars, setupVars>>
           \/ bench = "setup" /\ Setup!Next /\ UNCHANGED <<catalogVars, sizingVars>>
(* The fairness of the installer, for the behaviours about it.              *)
BenchSpec ==
  /\ BenchInit /\ [][BenchNext]_all
  /\ WF_vars(bench = "install" /\ Work) /\ WF_vars(bench = "install" /\ Recover)

(* SurfaceFlinger presents only what was validated (hwc3.rs, lib.rs of the  *)
(* Composer), and its displays and vsync requests survive removals and      *)
(* restarts (aidl/service.rs),                                              *)
ClientsServed ==
  bench \in {"clients", "refused", "stack"} => Clients!PresentsValidated /\ Clients!VsyncKept
(* the free-running timer keeps its period and phase (run_vsync_scheduler), *)
TicksSteady == bench = "clock" => Clock!TicksSteady
(* builds of different minors understand each other (denial-protocol,       *)
(* denial-endpoint, the Composer handshake),                                *)
PeersUnderstand == bench = "wire" => Wire!PeersUnderstand
(* the host's launchers are Android's applications once the catalogue       *)
(* service sleeps (droidloom-applications, DroidloomApplicationCatalog),    *)
CatalogCurrent == bench = "catalog" => Catalog!CatalogCurrent
(* a window has the size last asked for, and opens where it was left        *)
(* (droidloom-window-policy, resize.rs, main.rs of the presenter),          *)
WindowsSized ==
  CASE bench = "window" -> Window!WindowsSized
    [] bench = "policy" -> Policy!WindowsSized
    [] OTHER -> TRUE
(* and a start relies only on a setup that is whole (package-support).      *)
SetupWhole == bench = "setup" => Setup!SetupWhole
=============================================================================
