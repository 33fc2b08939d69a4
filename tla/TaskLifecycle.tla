--------------------------- MODULE TaskLifecycle ---------------------------
(***************************************************************************)
(* Publication and retirement of one Android task's native window.         *)
(*                                                                         *)
(* The Composer service runs several threads over shared state: control    *)
(* connections (publish, remove), SurfaceFlinger connections (hello,       *)
(* present, retire) and one event pump that applies what the host          *)
(* presenter sends.  Every publication of the task gets a fresh object.    *)
(* Two locks order the control operations, operation_gate (opGate) and     *)
(* direct_registration_gate (regGate); the pump takes neither.  The state, *)
(* task-map and session mutexes each protect one step of this module; the  *)
(* session mutex also spans the pump's apply and acknowledge steps.        *)
(***************************************************************************)
EXTENDS Naturals, Sequences

CONSTANTS
    ControlThreads,   \* task-control connections of the framework
    SurfaceThreads,   \* SurfaceFlinger connections
    MaxObjects,       \* bound: publications that reserve an object
    MaxFrames,        \* bound: frames presented in a behaviour
    MaxConfigures,    \* bound: host configures and targets in a behaviour
    MaxPublishes,     \* bound: publication requests in a behaviour
    Nobody

Threads == ControlThreads \cup SurfaceThreads
Objects == 1..MaxObjects

VARIABLES
    attached,     \* WindowManager has the task attached
    incarnation,  \* WindowManager's incarnation of the task
    registry,     \* phase of each object in the coordinator's registry
    published,    \* incarnation each object was reserved for
    direct,       \* direct_tasks entry of the task: an object, or 0
    known,        \* objects a Bound reply has named
    nextObject,
    binding,      \* the sink's task map: none, open, or destroy requested
    windows,      \* objects with a Composer window in the session
    inFlight,     \* frames Composer counts in flight, by object
    presents,
    opGate, regGate,
    pc, subject,  \* what each thread is doing, and on which object
    wanted,       \* incarnation a publisher's request carries
    publishes,
    selected,     \* display a SurfaceFlinger connection selected, or 0
    pump,         \* event pump: its step and the message it holds
    toHost, toAndroid,
    hostTask, hostBound, hostFrames,   \* the endpoint's task table
    configures,
    fault         \* why the connection went down, or none

androidVars == <<registry, published, direct, known, nextObject, binding,
                 windows, inFlight, presents>>
requestVars == <<wanted, publishes, selected>>
threadVars == <<opGate, regGate, pc, subject, requestVars>>
hostVars == <<hostTask, hostBound, hostFrames, configures>>
wmVars == <<attached, incarnation>>
vars == <<wmVars, androidVars, threadVars, pump, toHost, toAndroid, hostVars,
          fault>>

Msg(type, o) == [type |-> type, object |-> o]
NoMsg == Msg("None", 0)

Init ==
    /\ attached = TRUE /\ incarnation = 1
    /\ registry = [o \in Objects |-> "unknown"]
    /\ published = [o \in Objects |-> 0]
    /\ direct = 0 /\ known = {} /\ nextObject = 1
    /\ binding = [o \in Objects |-> "none"]
    /\ windows = {}
    /\ inFlight = [o \in Objects |-> 0]
    /\ presents = 0
    /\ opGate = Nobody /\ regGate = Nobody
    /\ pc = [t \in Threads |-> "idle"]
    /\ subject = [t \in Threads |-> 0]
    /\ wanted = [t \in ControlThreads |-> 0]
    /\ publishes = 0
    /\ selected = [t \in SurfaceThreads |-> 0]
    /\ pump = [step |-> "receive", msg |-> NoMsg]
    /\ toHost = <<>> /\ toAndroid = <<>>
    /\ hostTask = [o \in Objects |-> "none"]
    /\ hostBound = {}
    /\ hostFrames = [o \in Objects |-> 0]
    /\ configures = 0
    /\ fault = "none"

Goto(t, label) == pc' = [pc EXCEPT ![t] = label]
OperationGate(t) == opGate = Nobody

Rests(t) == Goto(t, "idle") /\ subject' = [subject EXCEPT ![t] = 0]
Frees(gate, t) == IF gate = t THEN Nobody ELSE gate

-----------------------------------------------------------------------------
(* WindowManager: the task is removed, and may be opened again later. *)

CloseTask ==
    /\ attached
    /\ attached' = FALSE
    /\ UNCHANGED <<incarnation, androidVars, threadVars, pump, toHost,
                   toAndroid, hostVars, fault>>

ReopenTask ==
    /\ ~attached /\ incarnation < MaxObjects
    /\ attached' = TRUE
    /\ incarnation' = incarnation + 1
    /\ UNCHANGED <<androidVars, threadVars, pump, toHost, toAndroid, hostVars,
                   fault>>

Current(o) == attached /\ published[o] = incarnation

-----------------------------------------------------------------------------
(* Publication: register_direct and register_direct_task. *)

PublishRequest(t) ==
    /\ pc[t] = "idle" /\ attached /\ publishes < MaxPublishes
    /\ publishes' = publishes + 1
    /\ wanted' = [wanted EXCEPT ![t] = incarnation]
    /\ Goto(t, "lookup")
    /\ UNCHANGED <<wmVars, androidVars, opGate, regGate, subject, selected,
                   pump, toHost, toAndroid, hostVars, fault>>

LookupUngated(t) == TRUE \* Mutant: direct_registration_gate not taken
LookupGate(t) == regGate = Nobody

\* A registration of the wanted incarnation is reused, whatever its phase; one
\* of another incarnation is superseded.
ReusesNone(t) == FALSE \* Mutant: a repeated publication supersedes its own
Reuses(t) == direct # 0 /\ published[direct] = wanted[t]
PublishLookup(t) ==
    /\ pc[t] = "lookup" /\ LookupGate(t)
    /\ Goto(t, IF Reuses(t) THEN "route"
               ELSE IF direct # 0 THEN "gate" ELSE "reserve")
    /\ regGate' = IF Reuses(t) THEN regGate ELSE t
    /\ subject' = [subject EXCEPT ![t] = direct]
    /\ UNCHANGED <<wmVars, androidVars, opGate, requestVars, pump, toHost,
                   toAndroid, hostVars, fault>>

SupersedeGate(t) ==
    /\ pc[t] = "gate" /\ OperationGate(t)
    /\ opGate' = t
    /\ Goto(t, "begin")
    /\ UNCHANGED <<wmVars, androidVars, regGate, subject, requestVars, pump,
                   toHost, toAndroid, hostVars, fault>>

\* reserve_with_kind up to the configure wait, under operation_gate: no other
\* thread knows the object before CreateTask is sent.
Reserve(t) ==
    /\ pc[t] = "reserve" /\ OperationGate(t) /\ nextObject \in Objects
    /\ direct = 0
    /\ registry' = [registry EXCEPT ![nextObject] = "Staged"]
    /\ published' = [published EXCEPT ![nextObject] = wanted[t]]
    /\ direct' = nextObject
    /\ windows' = windows \cup {nextObject}
    /\ binding' = [binding EXCEPT ![nextObject] = "open"]
    /\ toHost' = Append(toHost, Msg("Create", nextObject))
    /\ subject' = [subject EXCEPT ![t] = nextObject]
    /\ nextObject' = nextObject + 1
    /\ Goto(t, "wait")
    /\ UNCHANGED <<wmVars, known, inFlight, presents, opGate, regGate,
                   requestVars, pump, toAndroid, hostVars, fault>>

AwaitConnected(t) ==
    /\ pc[t] = "wait" /\ registry[subject[t]] = "Connected"
    /\ Goto(t, "bind")
    /\ UNCHANGED <<wmVars, androidVars, opGate, regGate, subject, requestVars,
                   pump, toHost, toAndroid, hostVars, fault>>

\* CONFIGURE_TIMEOUT passed: remove_internal runs without operation_gate.
ConfigureTimeout(t) ==
    /\ pc[t] = "wait" /\ registry[subject[t]] = "Staged"
    /\ Goto(t, "begin")
    /\ UNCHANGED <<wmVars, androidVars, opGate, regGate, subject, requestVars,
                   pump, toHost, toAndroid, hostVars, fault>>

Bind(t) ==
    /\ pc[t] = "bind" /\ OperationGate(t)
    /\ LET o == subject[t] IN
       /\ registry[o] = "Connected" /\ binding[o] = "open"
       /\ registry' = [registry EXCEPT ![o] = "Bound"]
       /\ toHost' = Append(toHost, Msg("Bind", o))
    /\ regGate' = Nobody
    /\ Goto(t, "route")
    /\ UNCHANGED <<wmVars, published, direct, known, nextObject, binding,
                   windows, inFlight, presents, opGate, subject, requestVars,
                   pump, toAndroid, hostVars, fault>>

\* The route is sent only while direct_task_route_for_object resolves.
RouteInput(t) ==
    /\ pc[t] = "route"
    /\ LET o == subject[t] IN
       toHost' = IF registry[o] # "retired" THEN Append(toHost, Msg("Route", o))
                                            ELSE toHost
    /\ Goto(t, "activate")
    /\ UNCHANGED <<wmVars, androidVars, opGate, regGate, subject, requestVars,
                   pump, toAndroid, hostVars, fault>>

\* The reply: Bound, after an activation request if the publisher asked for
\* one, or an error when the binding is already forgotten.
FinishPublish(t) ==
    /\ pc[t] = "activate"
    /\ LET o == subject[t] IN
       \/ known' = known \cup {o} /\ UNCHANGED toHost
       \/ /\ binding[o] # "none"
          /\ toHost' = Append(toHost, Msg("Activate", o))
          /\ known' = known \cup {o}
       \/ binding[o] = "none" /\ UNCHANGED <<known, toHost>>
    /\ Rests(t)
    /\ UNCHANGED <<wmVars, registry, published, direct, nextObject, binding,
                   windows, inFlight, presents, opGate, regGate,
                   requestVars, pump, toAndroid, hostVars, fault>>

-----------------------------------------------------------------------------
(* Retirement: remove, retire_direct_task and remove_internal. *)

\* The framework asks for the removal of an object whose incarnation is gone,
\* and asks again for as long as the removal is refused.
RemoveRequest(t, o) ==
    /\ pc[t] = "idle" /\ OperationGate(t)
    /\ o \in known /\ ~Current(o)
    /\ IF registry[o] = "retired"
       THEN known' = known \ {o} /\ UNCHANGED <<opGate, pc, subject>>
       ELSE /\ opGate' = t
            /\ subject' = [subject EXCEPT ![t] = o]
            /\ Goto(t, "begin")
            /\ UNCHANGED known
    /\ UNCHANGED <<wmVars, registry, published, direct, nextObject, binding,
                   windows, inFlight, presents, regGate, requestVars, pump,
                   toHost, toAndroid, hostVars, fault>>

RetireMatches(t) == direct = selected[t]

\* SurfaceFlinger saw the layer subtree of its display's task destroyed.
RetireRequest(t) ==
    /\ pc[t] = "idle" /\ OperationGate(t)
    /\ selected[t] # 0 /\ ~Current(selected[t])
    /\ IF direct # 0 /\ RetireMatches(t)
       THEN /\ opGate' = t
            /\ subject' = [subject EXCEPT ![t] = direct]
            /\ Goto(t, "begin")
       ELSE UNCHANGED <<opGate, pc, subject>>
    /\ selected' = [selected EXCEPT ![t] = 0]
    /\ UNCHANGED <<wmVars, androidVars, regGate, wanted, publishes, pump,
                   toHost, toAndroid, hostVars, fault>>

\* remove_internal returns: a publisher that superseded an object goes on to
\* reserve, every other caller replies and drops its gates.
Returns(t, removed) ==
    LET superseding == regGate = t /\ opGate = t IN
    /\ opGate' = Frees(opGate, t)
    /\ regGate' = IF removed /\ superseding THEN regGate ELSE Frees(regGate, t)
    /\ IF removed /\ superseding THEN Goto(t, "reserve") /\ UNCHANGED subject
                                ELSE Rests(t)
    /\ UNCHANGED <<wmVars, requestVars, pump, toAndroid, hostVars, fault>>

BeginRemovalOnce(t) == \* Mutant: an interrupted removal is not resumed
    /\ pc[t] = "begin" /\ registry[subject[t]] \notin {"retired", "Removing"}
    /\ registry' = [registry EXCEPT ![subject[t]] = "Removing"]
    /\ Goto(t, "destroy")
    /\ UNCHANGED <<wmVars, published, direct, known, nextObject, binding,
                   windows, inFlight, presents, opGate, regGate, subject,
                   requestVars, pump, toHost, toAndroid, hostVars, fault>>

BeginRemoval(t) ==
    /\ pc[t] = "begin" /\ registry[subject[t]] # "retired"
    /\ registry' = [registry EXCEPT ![subject[t]] = "Removing"]
    /\ Goto(t, "destroy")
    /\ UNCHANGED <<wmVars, published, direct, known, nextObject, binding,
                   windows, inFlight, presents, opGate, regGate, subject,
                   requestVars, pump, toHost, toAndroid, hostVars, fault>>

\* The object a publisher found was retired while it waited for the gate.
AlreadyRetired(t) ==
    /\ pc[t] = "begin" /\ registry[subject[t]] = "retired"
    /\ Returns(t, FALSE)
    /\ UNCHANGED <<androidVars, toHost>>

RequestDestroy(t) ==
    /\ pc[t] = "destroy" /\ binding[subject[t]] # "none"
    /\ LET o == subject[t] IN
       /\ toHost' = IF binding[o] = "open"
                    THEN Append(toHost, Msg("Destroy", o)) ELSE toHost
       /\ binding' = [binding EXCEPT ![o] = "destroyed"]
    /\ Goto(t, "display")
    /\ UNCHANGED <<wmVars, registry, published, direct, known, nextObject,
                   windows, inFlight, presents, opGate, regGate, subject,
                   requestVars, pump, toAndroid, hostVars, fault>>

DrainedUnchecked(o) == TRUE \* Mutant: removed with a frame in flight
Drained(o) == inFlight[o] = 0

SessionFree == pump.step # "acknowledge"

RemoveDisplay(t) ==
    /\ pc[t] = "display" /\ SessionFree
    /\ subject[t] \in windows /\ Drained(subject[t])
    /\ windows' = windows \ {subject[t]}
    /\ Goto(t, "forget")
    /\ UNCHANGED <<wmVars, registry, published, direct, known, nextObject,
                   binding, inFlight, presents, opGate, regGate, subject,
                   requestVars, pump, toHost, toAndroid, hostVars, fault>>

\* BuffersInFlight: the registration stays in Removing for a later attempt.
RemoveBusy(t) ==
    /\ pc[t] = "display" /\ SessionFree
    /\ subject[t] \in windows /\ ~Drained(subject[t])
    /\ Returns(t, FALSE)
    /\ UNCHANGED <<androidVars, toHost>>

UnregisterTask(t) ==
    /\ pc[t] = "forget"
    /\ binding' = [binding EXCEPT ![subject[t]] = "none"]
    /\ Goto(t, "finish")
    /\ UNCHANGED <<wmVars, registry, published, direct, known, nextObject,
                   windows, inFlight, presents, opGate, regGate, subject,
                   requestVars, pump, toHost, toAndroid, hostVars, fault>>

FinishKeepsDirect(t) == \* Mutant: the direct_tasks entry is left behind
    /\ pc[t] = "finish" /\ registry[subject[t]] = "Removing"
    /\ registry' = [registry EXCEPT ![subject[t]] = "retired"]
    /\ Returns(t, TRUE)
    /\ UNCHANGED <<published, direct, known, nextObject, binding, windows, inFlight,
                   presents, toHost>>

FinishRemoval(t) ==
    /\ pc[t] = "finish" /\ registry[subject[t]] = "Removing"
    /\ registry' = [registry EXCEPT ![subject[t]] = "retired"]
    /\ direct' = IF direct = subject[t] THEN 0 ELSE direct
    /\ Returns(t, TRUE)
    /\ UNCHANGED <<published, known, nextObject, binding, windows, inFlight,
                   presents, toHost>>

-----------------------------------------------------------------------------
(* SurfaceFlinger connections. *)

SelectChannel(t) ==
    /\ pc[t] = "idle" /\ selected[t] = 0
    /\ direct # 0 /\ registry[direct] = "Bound"
    /\ selected' = [selected EXCEPT ![t] = direct]
    /\ UNCHANGED <<wmVars, androidVars, opGate, regGate, pc, subject, wanted,
                   publishes, pump, toHost, toAndroid, hostVars, fault>>

\* Present holds the session and the task map over the whole submission.
PresentFrame(t) ==
    /\ pc[t] = "idle" /\ selected[t] # 0 /\ presents < MaxFrames /\ SessionFree
    /\ LET o == selected[t] IN
       /\ o \in windows /\ binding[o] = "open"
       /\ inFlight' = [inFlight EXCEPT ![o] = @ + 1]
       /\ toHost' = Append(toHost, Msg("Present", o))
    /\ presents' = presents + 1
    /\ UNCHANGED <<wmVars, registry, published, direct, known, nextObject,
                   binding, windows, threadVars, pump, toAndroid, hostVars,
                   fault>>

-----------------------------------------------------------------------------
(* The event pump: event_loop of the Composer service. *)

PumpGoes(step) == pump' = [pump EXCEPT !.step = step]
PumpDrops == pump' = [step |-> "receive", msg |-> NoMsg]
PumpObject == pump.msg.object
PumpUnchanged == UNCHANGED <<wmVars, threadVars, hostVars>>

\* Receive, then is_retired.
PumpReceive ==
    /\ pump.step = "receive" /\ toAndroid # <<>>
    /\ toAndroid' = Tail(toAndroid)
    /\ IF registry[Head(toAndroid).object] = "retired"
       THEN PumpDrops
       ELSE pump' = [step |-> "removing", msg |-> Head(toAndroid)]
    /\ UNCHANGED <<androidVars, toHost, fault>> /\ PumpUnchanged

\* is_removing, a second acquisition of the state lock: only releases pass.
PumpPhaseCheck ==
    /\ pump.step = "removing"
    /\ IF registry[PumpObject] = "Removing" /\ pump.msg.type # "Released"
       THEN PumpDrops
       ELSE PumpGoes(IF pump.msg.type = "Target" THEN "register" ELSE "lookup")
    /\ UNCHANGED <<androidVars, toHost, toAndroid, fault>> /\ PumpUnchanged

\* register_render_target: a missing binding is looked up in the registry again.
PumpRegisterTarget ==
    /\ pump.step = "register"
    /\ IF binding[PumpObject] = "none" THEN PumpGoes("recheck") ELSE PumpDrops
    /\ UNCHANGED <<androidVars, toHost, toAndroid, fault>> /\ PumpUnchanged

RemovingSeen(o) == registry[o] = "Removing" \* Mutant: a finished removal is not excused
RetirementSeen(o) == registry[o] \in {"Removing", "retired"}

PumpRecheckTarget ==
    /\ pump.step = "recheck"
    /\ fault' = IF RetirementSeen(PumpObject) THEN fault ELSE "target"
    /\ PumpDrops
    /\ UNCHANGED <<androidVars, toHost, toAndroid>> /\ PumpUnchanged

\* display_for_object, whose failure is excused only for a retired object.
PumpLookup ==
    /\ pump.step = "lookup"
    /\ PumpGoes(IF binding[PumpObject] = "none" THEN "excuse" ELSE "apply")
    /\ UNCHANGED <<androidVars, toHost, toAndroid, fault>> /\ PumpUnchanged

PumpExcuse ==
    /\ pump.step = "excuse"
    /\ fault' = IF registry[PumpObject] = "retired" THEN fault ELSE "event"
    /\ PumpDrops
    /\ UNCHANGED <<androidVars, toHost, toAndroid>> /\ PumpUnchanged

Applicable(o) == binding[o] # "none" /\ o \in windows

PumpApplyConfigure ==
    /\ pump.step = "apply" /\ Applicable(PumpObject)
    /\ pump.msg.type = "Configure"
    /\ PumpGoes("acknowledge")
    /\ UNCHANGED <<androidVars, toHost, toAndroid, fault>> /\ PumpUnchanged

PumpAppliesTwice == \* Mutant: one release counted twice
    /\ pump.step = "apply" /\ Applicable(PumpObject)
    /\ pump.msg.type = "Released"
    /\ inFlight' = [inFlight EXCEPT ![PumpObject] = @ - 2]
    /\ PumpDrops
    /\ UNCHANGED <<registry, published, direct, known, nextObject, binding,
                   windows, presents, toHost, toAndroid, fault>>
    /\ PumpUnchanged

PumpApplyReleased ==
    /\ pump.step = "apply" /\ Applicable(PumpObject)
    /\ pump.msg.type = "Released"
    /\ inFlight' = [inFlight EXCEPT ![PumpObject] = @ - 1]
    /\ PumpDrops
    /\ UNCHANGED <<registry, published, direct, known, nextObject, binding,
                   windows, presents, toHost, toAndroid, fault>>
    /\ PumpUnchanged

\* apply_task_event fails: the pump's error ends the process.
PumpApplyFails ==
    /\ pump.step = "apply" /\ ~Applicable(PumpObject)
    /\ fault' = "event"
    /\ PumpDrops
    /\ UNCHANGED <<androidVars, toHost, toAndroid>> /\ PumpUnchanged

PumpAcknowledge ==
    /\ pump.step = "acknowledge"
    /\ toHost' = Append(toHost, Msg("Ack", PumpObject))
    /\ PumpGoes("connected")
    /\ UNCHANGED <<androidVars, toAndroid, fault>> /\ PumpUnchanged

\* display_connected, which fails when the registration is gone.
PumpConnected ==
    /\ pump.step = "connected"
    /\ registry' = [registry EXCEPT ![PumpObject] =
                      IF @ = "Staged" THEN "Connected" ELSE @]
    /\ fault' = IF registry[PumpObject] = "retired" THEN "event" ELSE fault
    /\ PumpDrops
    /\ UNCHANGED <<published, direct, known, nextObject, binding, windows,
                   inFlight, presents, toHost, toAndroid>>
    /\ PumpUnchanged

-----------------------------------------------------------------------------
(* The host presenter's endpoint. *)

HostUnchanged == UNCHANGED <<wmVars, androidVars, threadVars, pump>>

HostReceives(types) ==
    /\ toHost # <<>> /\ Head(toHost).type \in types
    /\ toHost' = Tail(toHost)

HostObject == Head(toHost).object

HostCreate ==
    /\ HostReceives({"Create"})
    /\ hostTask' = [hostTask EXCEPT ![HostObject] = "live"]
    /\ UNCHANGED <<toAndroid, hostBound, hostFrames, configures, fault>>
    /\ HostUnchanged

\* DuplicateIdentity: another object of the table carries the Android task.
HostBind ==
    /\ HostReceives({"Bind"})
    /\ hostBound' = hostBound \cup {HostObject}
    /\ fault' = IF hostBound = {} THEN fault ELSE "duplicate"
    /\ UNCHANGED <<toAndroid, hostTask, hostFrames, configures>>
    /\ HostUnchanged

\* AckConfigure, BindInputRoute and RequestActivation name a live object.
HostLookup ==
    /\ HostReceives({"Ack", "Route", "Activate"})
    /\ fault' = IF hostTask[HostObject] = "none" THEN Head(toHost).type
                                               ELSE fault
    /\ UNCHANGED <<toAndroid, hostVars>>
    /\ HostUnchanged

HostPresent ==
    /\ HostReceives({"Present"})
    /\ hostFrames' = [hostFrames EXCEPT ![HostObject] = @ + 1]
    /\ fault' = IF hostTask[HostObject] = "none" THEN "present" ELSE fault
    /\ UNCHANGED <<toAndroid, hostTask, hostBound, configures>>
    /\ HostUnchanged

\* The endpoint forgets the object once no frame of it is in flight.
HostForgets(o) ==
    /\ hostTask' = [hostTask EXCEPT ![o] = "none"]
    /\ hostBound' = hostBound \ {o}

HostDestroy ==
    /\ HostReceives({"Destroy"})
    /\ IF hostFrames[HostObject] = 0
       THEN HostForgets(HostObject)
       ELSE /\ hostTask' = [hostTask EXCEPT ![HostObject] = "retiring"]
            /\ UNCHANGED hostBound
    /\ UNCHANGED <<toAndroid, hostFrames, configures, fault>>
    /\ HostUnchanged

HostSends(type, o) ==
    /\ hostTask[o] = "live" /\ configures < MaxConfigures
    /\ toAndroid' = Append(toAndroid, Msg(type, o))
    /\ configures' = configures + 1
    /\ UNCHANGED <<toHost, hostTask, hostBound, hostFrames, fault>>
    /\ HostUnchanged

HostConfigure(o) == HostSends("Configure", o)

HostTarget(o) == HostSends("Target", o)

\* finish_release: the compositor is done with a frame.  A retiring task's
\* release is consumed locally.
HostRelease(o) ==
    /\ hostFrames[o] > 0
    /\ hostFrames' = [hostFrames EXCEPT ![o] = @ - 1]
    /\ toAndroid' = IF hostTask[o] = "retiring" THEN toAndroid
                    ELSE Append(toAndroid, Msg("Released", o))
    /\ IF hostTask[o] = "retiring" /\ hostFrames[o] = 1
       THEN HostForgets(o) ELSE UNCHANGED <<hostTask, hostBound>>
    /\ UNCHANGED <<toHost, configures, fault>>
    /\ HostUnchanged

-----------------------------------------------------------------------------

Publishing(t) ==
    \/ PublishRequest(t) \/ PublishLookup(t) \/ SupersedeGate(t)
    \/ Reserve(t) \/ AwaitConnected(t) \/ ConfigureTimeout(t) \/ Bind(t)
    \/ RouteInput(t) \/ FinishPublish(t)

Removing(t) ==
    \/ BeginRemoval(t) \/ AlreadyRetired(t) \/ RequestDestroy(t)
    \/ RemoveDisplay(t) \/ RemoveBusy(t) \/ UnregisterTask(t)
    \/ FinishRemoval(t)

Pump ==
    \/ PumpReceive \/ PumpPhaseCheck \/ PumpRegisterTarget \/ PumpRecheckTarget
    \/ PumpLookup \/ PumpExcuse \/ PumpApplyConfigure \/ PumpApplyReleased
    \/ PumpApplyFails \/ PumpAcknowledge \/ PumpConnected

HostMessage ==
    \/ HostCreate \/ HostBind \/ HostLookup \/ HostPresent \/ HostDestroy

\* A fault takes the connection, and with it every task, down.
Next ==
    /\ fault = "none"
    /\ \/ CloseTask \/ ReopenTask
       \/ \E t \in ControlThreads :
             Publishing(t) \/ (\E o \in Objects : RemoveRequest(t, o))
       \/ \E t \in SurfaceThreads :
             SelectChannel(t) \/ PresentFrame(t) \/ RetireRequest(t)
       \/ \E t \in Threads : Removing(t)
       \/ Pump
       \/ HostMessage
       \/ \E o \in Objects : HostConfigure(o) \/ HostTarget(o) \/ HostRelease(o)

Spec == Init /\ [][Next]_vars

(* Scheduling: every thread of the service and the presenter keep running, *)
(* the compositor finishes the frames of a window that was unmapped, and   *)
(* the framework keeps asking for a removal that was refused.              *)
Unmapped(o) == hostTask[o] = "retiring" /\ HostRelease(o)

FairSpec ==
    /\ Spec
    /\ WF_vars(fault = "none" /\ Pump)
    /\ WF_vars(fault = "none" /\ HostMessage)
    /\ \A t \in Threads : WF_vars(fault = "none" /\ Removing(t))
    /\ \A t \in ControlThreads :
          WF_vars(fault = "none" /\ pc[t] # "idle" /\ Publishing(t))
    /\ \A o \in Objects : WF_vars(fault = "none" /\ Unmapped(o))
    /\ \A o \in Objects :
          SF_vars(fault = "none"
                    /\ \E t \in ControlThreads : RemoveRequest(t, o))

=============================================================================
