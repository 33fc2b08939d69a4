--------------------------- MODULE MCTargetPool ---------------------------
(***************************************************************************)
(* The pool as configured, and a second set of behaviours (bench "eager")  *)
(* in which the host neither allocates on demand nor keeps exact           *)
(* timelines: pools are announced at once and frames committed at once.    *)
(* Beside them (benches "lane", "lanes", "shared") the buffers that reach  *)
(* the compositor without the pool, as direct layers.                      *)
(***************************************************************************)
EXTENDS TargetPoolProperties

CONSTANT Benches
VARIABLES bench, app, content, sf, req, ev, layer, comp

layerVars == <<app, content, sf, req, ev, layer, comp>>

Eager == INSTANCE TargetPoolProperties WITH Lazy <- FALSE, Exact <- FALSE, MaxFrames <- 2

(* A buffer written twice, under two configures; a layer that changes       *)
(* between two buffers, with one timeline each; and two layers that show    *)
(* the same buffer.                                                         *)
Lane == INSTANCE DirectLayers WITH Layers <- {1}, Buffers <- {1}, MaxLanes <- 2, MaxTickets <- 2,
            MaxWrites <- 2, MaxSerial <- 2, host <- layer
Lanes == INSTANCE DirectLayers WITH Layers <- {1}, Buffers <- {1, 2}, MaxLanes <- 1,
            MaxTickets <- 2, MaxWrites <- 1, MaxSerial <- 1, host <- layer
Shared == INSTANCE DirectLayers WITH Layers <- {1, 2}, Buffers <- {1}, MaxLanes <- 1,
            MaxTickets <- 2, MaxWrites <- 1, MaxSerial <- 1, host <- layer

BenchInit ==
    /\ bench \in Benches
    /\ IF bench = "eager" THEN Eager!Init ELSE Init
    /\ CASE bench = "lanes" -> Lanes!Init [] bench = "shared" -> Shared!Init [] OTHER -> Lane!Init
BenchNext == /\ UNCHANGED bench
             /\ \/ bench = "pool" /\ Next /\ UNCHANGED layerVars
                \/ bench = "eager" /\ Eager!Next /\ UNCHANGED layerVars
                \/ bench = "lane" /\ Lane!Next /\ UNCHANGED vars
                \/ bench = "lanes" /\ Lanes!Next /\ UNCHANGED vars
                \/ bench = "shared" /\ Shared!Next /\ UNCHANGED vars
BenchSpec == BenchInit /\ [][BenchNext]_<<bench, vars, layerVars>>
FairBenchSpec == BenchSpec /\ Fairness

(* In both sets of behaviours the pools of Android and of the host never   *)
(* drift apart, and an eager host too accepts every message and commit     *)
(* (register_render_target, ensure_render_targets, App::present).          *)
BothPoolsAgree ==
    IF bench # "eager" THEN PoolsAgree ELSE Eager!PoolsAgree /\ Eager!NoProtocolError

(* No producer writes a buffer the compositor still reads, and every        *)
(* answered read is resolved before its stream goes (layers.rs).            *)
LayersIntact == bench \in {"lane", "lanes", "shared"} => Lane!PixelsIntact /\ Lane!ReadsResolve
=============================================================================
