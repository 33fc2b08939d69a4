--------------------------- MODULE ComposerSession ---------------------------
(***************************************************************************)
(* The Composer service: SurfaceFlinger's client calls, the lifecycle      *)
(* handle the task bridge uses, and the vsync scheduler, over one session  *)
(* of displays.  `win` is the session (behind its lock), `connected`,      *)
(* `callback` and `schedule` have locks of their own, and the lifecycle    *)
(* operations and registerCallback exclude each other with the gate.  A    *)
(* call that takes one lock after another is two steps.  `sf` is what      *)
(* SurfaceFlinger was told and has asked for.                              *)
(***************************************************************************)
EXTENDS Integers, FiniteSets

CONSTANTS Displays, Tasks,
          MaxLayers, MaxClients, MaxFailures,
          DeliveryOutlivesClient  \* a vsync callback may still be under way
                                  \* when the next client is up

VARIABLES win, connected, callback, schedule, client, layers, sf, call, gate, due, failures
vars == <<win, connected, callback, schedule, client, layers, sf, call, gate, due, failures>>

(* Composer::new, before the display is staged and after.                   *)
Absent ==
    [staged |-> FALSE, task |-> 0, layers |-> [l \in {} |-> 0], validated |-> FALSE,
     accepted |-> FALSE, agreed |-> {}, power |-> FALSE, vsync |-> FALSE, period |-> -1,
     inFlight |-> 0]
Fresh == [Absent EXCEPT !.staged = TRUE]
Told == [connected |-> {}, vsync |-> {}]
NoCall == [op |-> "none", display |-> 0, arg |-> FALSE]

Init ==
    /\ win = [d \in Displays |-> Absent] /\ connected = {} /\ callback = 0 /\ schedule = {}
    /\ client = [active |-> FALSE, number |-> 0] /\ layers = 0 /\ sf = Told
    /\ call = NoCall /\ gate = 0 /\ due = [displays |-> {}, callback |-> 0] /\ failures = 0

Staged == {d \in Displays : win[d].staged}
Calling == client.active /\ callback # 0 /\ call = NoCall
Free == gate = 0

-----------------------------------------------------------------------------
(* The session's commands (hwc3.rs, and Composer in lib.rs).                *)
Invalidated(w) == [w EXCEPT !.validated = FALSE, !.accepted = FALSE]
Updated(w, l, s) == IF w.layers[l] = s THEN w ELSE Invalidated([w EXCEPT !.layers[l] = s])
Validate(w) ==
    IF \E l \in DOMAIN w.layers : w.layers[l].protected THEN w
    ELSE [w EXCEPT !.validated = TRUE, !.agreed = DOMAIN w.layers,
                   !.accepted = \A l \in DOMAIN w.layers : w.layers[l].client]
AcceptChanges(w) ==
    IF ~w.validated \/ ~w.power THEN w
    ELSE [w EXCEPT !.accepted = TRUE, !.layers = [l \in DOMAIN @ |-> [@[l] EXCEPT !.client = TRUE]]]
Presentable(w) == w.validated /\ w.accepted /\ w.power
Present(w) == IF Presentable(w) THEN Invalidated(w) ELSE w

CreateLayer(d) ==
    /\ Calling /\ win[d].staged /\ layers < MaxLayers /\ layers' = layers + 1
    /\ win' = [win EXCEPT ![d] = Invalidated([@ EXCEPT !.layers =
                 [l \in DOMAIN @ \cup {layers'} |->
                     IF l = layers' THEN [client |-> TRUE, protected |-> FALSE] ELSE @[l]]])]
    /\ UNCHANGED <<connected, callback, schedule, client, sf, call, gate, due, failures>>
DestroyLayer(d, l) ==
    /\ Calling /\ l \in DOMAIN win[d].layers
    /\ win' = [win EXCEPT ![d] = Invalidated([@ EXCEPT !.layers =
                 [m \in DOMAIN @ \ {l} |-> @[m]]])]
    /\ UNCHANGED <<connected, callback, schedule, client, layers, sf, call, gate, due, failures>>
(* execute_one: a patch of a layer, then the operations in their order; an  *)
(* error ends the command, with what it had done.                           *)
Execute(d, l, s, ops) ==
    /\ Calling /\ win[d].staged /\ (l # 0 => l \in DOMAIN win[d].layers)
    /\ LET w0 == IF l = 0 THEN win[d] ELSE Updated(win[d], l, s)
           w1 == IF "validate" \in ops THEN Validate(w0) ELSE w0
           w2 == IF "accept" \in ops THEN AcceptChanges(w1) ELSE w1
           w3 == IF "present" \in ops THEN Present(w2) ELSE w2
           pov == IF Presentable(w0) THEN Present(w0)
                  ELSE IF ~w0.validated THEN Validate(w0) ELSE w0
       IN win' = [win EXCEPT ![d] = IF ops = {"either"} THEN pov ELSE w3]
    /\ UNCHANGED <<connected, callback, schedule, client, layers, sf, call, gate, due, failures>>
NoPatch == [client |-> TRUE, protected |-> FALSE]   \* of no layer
Ops == (SUBSET {"validate", "accept", "present"}) \cup {{"either"}}

-----------------------------------------------------------------------------
(* The client's other calls.                                                *)
CreateClient ==
    /\ ~client.active /\ client.number < MaxClients
    /\ due.displays = {} \/ DeliveryOutlivesClient
    /\ client' = [active |-> TRUE, number |-> client.number + 1]
    /\ UNCHANGED <<win, connected, callback, schedule, layers, sf, call, gate, due, failures>>
\* Mutant: a new client is not told the displays that are connected already.
RegisterCallbackSilent ==
    /\ client.active /\ callback = 0 /\ Free
    /\ callback' = client.number
    /\ UNCHANGED <<win, connected, schedule, client, layers, sf, call, gate, due, failures>>
RegisterCallback ==
    /\ client.active /\ callback = 0 /\ Free
    /\ callback' = client.number /\ sf' = [sf EXCEPT !.connected = connected]
    /\ UNCHANGED <<win, connected, schedule, client, layers, call, gate, due, failures>>
ClientDies ==
    /\ client.active /\ call = NoCall
    /\ client' = [client EXCEPT !.active = FALSE]
    /\ callback' = 0 /\ schedule' = {} /\ sf' = Told
    /\ UNCHANGED <<win, connected, layers, call, gate, due, failures>>

(* setPowerMode and setVsyncEnabled: the session, then the scheduler.       *)
SetPowerMode(d, on) ==
    /\ Calling /\ win[d].staged
    /\ win' = [win EXCEPT ![d].power = on, ![d].vsync = @ /\ on]
    /\ call' = IF on THEN NoCall ELSE [op |-> "off", display |-> d, arg |-> FALSE]
    /\ UNCHANGED <<connected, callback, schedule, client, layers, sf, gate, due, failures>>
SetVsyncEnabled(d, on) ==
    /\ Calling /\ win[d].staged /\ (on => win[d].power)
    /\ win' = [win EXCEPT ![d].vsync = on]
    /\ call' = IF win[d].period <= 0 THEN NoCall ELSE [op |-> "vsync", display |-> d, arg |-> on]
    /\ UNCHANGED <<connected, callback, schedule, client, layers, sf, gate, due, failures>>
Enabled(d, on) == IF on THEN schedule \cup {d} ELSE schedule \ {d}
EndCall ==
    /\ call # NoCall /\ call' = NoCall
    /\ schedule' = Enabled(call.display, call.arg)
    /\ sf' = [sf EXCEPT !.vsync = IF call.arg /\ call.display \in sf.connected
                                    THEN @ \cup {call.display} ELSE @ \ {call.display}]
    /\ UNCHANGED <<win, connected, callback, client, layers, gate, due, failures>>

-----------------------------------------------------------------------------
(* ComposerLifecycle, under the gate.  A callback that fails is an error to *)
(* the caller; what was changed before it stays.                            *)
StageTask(d) ==
    /\ Free /\ ~win[d].staged
    /\ win' = [win EXCEPT ![d] = Fresh]
    /\ UNCHANGED <<connected, callback, schedule, client, layers, sf, call, gate, due, failures>>
Configured(d, p) ==                        \* Composer::configure, by the event pump
    /\ win[d].staged
    /\ win' = [win EXCEPT ![d].period = p]
    /\ UNCHANGED <<connected, callback, schedule, client, layers, sf, call, gate, due, failures>>
BindTask(d, t) ==
    /\ Free /\ win[d].staged /\ win[d].task = 0 /\ \A e \in Displays : win[e].task # t
    /\ win' = [win EXCEPT ![d].task = t,
                          ![d].power = @ \/ d \notin connected]   \* bind_direct_task
    /\ UNCHANGED <<connected, callback, schedule, client, layers, sf, call, gate, due, failures>>
Notify(told) ==
    \/ sf' = (IF callback = 0 THEN sf ELSE told) /\ UNCHANGED failures
    \/ /\ callback # 0 /\ failures < MaxFailures
       /\ failures' = failures + 1 /\ UNCHANGED sf
ConnectDisplay(d) ==
    /\ Free /\ win[d].staged /\ win[d].period >= 0 /\ d \notin connected
    /\ connected' = connected \cup {d}
    /\ Notify([sf EXCEPT !.connected = @ \cup {d}])
    /\ UNCHANGED <<win, callback, schedule, client, layers, call, gate, due>>
(* refresh: a display already connected is announced again; a period that   *)
(* cannot be used is an error before anything changes.                      *)
Refresh(d) ==
    /\ Free /\ d \in connected /\ win[d].period > 0
    /\ Notify([sf EXCEPT !.connected = @ \cup {d}])
    /\ UNCHANGED <<win, connected, callback, schedule, client, layers, call, gate, due>>
Unannounced(d) == [connected |-> sf.connected \ {d}, vsync |-> sf.vsync \ {d}]
RemoveDisplay(d) ==                        \* up to its use of the session
    /\ Free /\ connected' = connected \ {d} /\ schedule' = schedule \ {d}
    /\ IF d \in connected THEN Notify(Unannounced(d)) ELSE UNCHANGED <<sf, failures>>
    /\ gate' = IF failures' = failures THEN d ELSE 0
    /\ UNCHANGED <<win, callback, client, layers, call, due>>
RemoveFromSession ==
    /\ ~Free /\ gate' = 0
    /\ win' = [win EXCEPT ![gate] = IF @.inFlight = 0 THEN Absent ELSE @]
    /\ UNCHANGED <<connected, callback, schedule, client, layers, sf, call, due, failures>>
RemoveTask(d) ==
    /\ Free /\ win[d].task # 0 /\ win[d].inFlight = 0
    /\ win' = [win EXCEPT ![d] = Absent]
    /\ connected' = connected \ {d} /\ schedule' = schedule \ {d}
    /\ IF d \in connected THEN Notify(Unannounced(d)) ELSE UNCHANGED <<sf, failures>>
    /\ UNCHANGED <<callback, client, layers, call, gate, due>>
(* Frames the bridge submits for the display, and their releases.           *)
Submit(d) ==
    /\ win[d].power /\ win[d].period >= 0 /\ win[d].inFlight = 0
    /\ win' = [win EXCEPT ![d].inFlight = 1]
    /\ UNCHANGED <<connected, callback, schedule, client, layers, sf, call, gate, due, failures>>
Release(d) ==
    /\ win[d].inFlight = 1
    /\ win' = [win EXCEPT ![d].inFlight = 0]
    /\ UNCHANGED <<connected, callback, schedule, client, layers, sf, call, gate, due, failures>>

-----------------------------------------------------------------------------
(* A frame grant, or the timer: the displays due are collected, then called *)
(* back without the lock; those whose callback fails are taken out.         *)
CollectDue ==
    /\ due.displays = {} /\ schedule # {} /\ callback # 0
    /\ due' = [displays |-> schedule, callback |-> callback]
    /\ UNCHANGED <<win, connected, callback, schedule, client, layers, sf, call, gate, failures>>
Alive(c) == client.active /\ client.number = c
DeliverVsyncs ==
    /\ due.displays # {}
    /\ schedule' = IF Alive(due.callback) THEN schedule ELSE schedule \ due.displays
    /\ due' = [displays |-> {}, callback |-> 0]
    /\ UNCHANGED <<win, connected, callback, client, layers, sf, call, gate, failures>>

Next ==
    \/ \E d \in Displays :
        \/ CreateLayer(d) \/ (\E l \in DOMAIN win[d].layers : DestroyLayer(d, l))
        \/ \E ops \in Ops :
             \/ Execute(d, 0, NoPatch, ops)
             \/ \E l \in DOMAIN win[d].layers, s \in [client : BOOLEAN, protected : BOOLEAN] :
                  Execute(d, l, s, ops)
        \/ (\E on \in BOOLEAN : SetPowerMode(d, on) \/ SetVsyncEnabled(d, on))
        \/ StageTask(d) \/ (\E p \in 0..1 : Configured(d, p))
        \/ (\E t \in Tasks : BindTask(d, t)) \/ ConnectDisplay(d) \/ Refresh(d)
        \/ RemoveDisplay(d) \/ RemoveTask(d) \/ Submit(d) \/ Release(d)
    \/ CreateClient \/ RegisterCallback \/ ClientDies \/ EndCall \/ RemoveFromSession
    \/ CollectDue \/ DeliverVsyncs
Spec == Init /\ [][Next]_vars

-----------------------------------------------------------------------------
(* What can be presented is what was validated: no layer came, went or      *)
(* changed since, none is protected, and none still waits for the           *)
(* composition SurfaceFlinger asked for.                                    *)
PresentsValidated ==
    \A d \in Displays : Presentable(win[d]) =>
        /\ DOMAIN win[d].layers = win[d].agreed
        /\ \A l \in DOMAIN win[d].layers : win[d].layers[l] = [client |-> TRUE, protected |-> FALSE]

(* SurfaceFlinger and the service agree once no operation is under way: it  *)
(* knows exactly the connected displays, unless a callback failed; every    *)
(* display it enabled vsync for is scheduled, through removals, restarts    *)
(* and late callbacks.                                                      *)
VsyncKept ==
    callback # 0 /\ call = NoCall /\ Free /\ failures = 0 =>
        sf.connected = connected /\ sf.vsync \subseteq schedule
=============================================================================
