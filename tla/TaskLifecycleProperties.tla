---------------------- MODULE TaskLifecycleProperties ----------------------
(***************************************************************************)
(* What publication and retirement promise, over every interleaving of the *)
(* control threads, the SurfaceFlinger connections, the event pump and the *)
(* host presenter.                                                         *)
(***************************************************************************)
EXTENDS TaskLifecycle

InChannel(channel, type, o) ==
    {i \in DOMAIN channel : channel[i] = Msg(type, o)}

(* remove_internal retires an object only when Composer's in-flight count  *)
(* is zero.  By then the object is gone from the session and the task map, *)
(* no frame of it is on its way to the host or held by it, and no release  *)
(* is on its way back: a queued final event can only be a harmless one.    *)
RetiredIsDrained ==
    \A o \in Objects : registry[o] = "retired" =>
        /\ o \notin windows /\ binding[o] = "none" /\ direct # o
        /\ hostFrames[o] = 0
        /\ InChannel(toHost, "Present", o) = {}
        /\ InChannel(toAndroid, "Released", o) = {}

(* The Android task ID is published again only after its previous object   *)
(* left the host's table, so BindTask never meets DuplicateIdentity, and   *)
(* no frame is presented for an object the host does not have; a record of *)
(* a render target that loses the race against a removal is always excused *)
(* by the second phase check of the event pump.                            *)
RacesExcused == fault \notin {"duplicate", "present", "target"}

RemovalSteps == {"destroy", "display", "forget", "finish"}

(* No two threads are inside remove_internal for one object, although the  *)
(* configure timeout enters it without operation_gate, and a thread that   *)
(* is finds the binding and the window its next step needs.                *)
RemovalExclusive ==
    \A t \in Threads :
        /\ pc[t] \in RemovalSteps =>
              /\ registry[subject[t]] = "Removing"
              /\ \A u \in Threads \ {t} :
                    pc[u] \in RemovalSteps => subject[u] # subject[t]
        /\ pc[t] = "destroy" => binding[subject[t]] # "none"
        /\ pc[t] = "display" => subject[t] \in windows

(* register_direct_task reaches its reservation only when the task has no  *)
(* direct channel, and its binding only for a connected, unremoved object: *)
(* neither the Conflict reply nor an InvalidPhase ever answers it.         *)
PublicationUncontended ==
    \A t \in ControlThreads :
        /\ pc[t] = "reserve" => direct = 0
        /\ pc[t] = "bind" =>
              registry[subject[t]] = "Connected" /\ binding[subject[t]] = "open"

(* Removal, publication and the host's table stay consistent over every    *)
(* interleaving of remove_internal, register_direct_task and the pump: what *)
(* is retired is drained, every race is an excused one, one thread removes  *)
(* an object at a time, and no publication meets another's.                 *)
RemovalsSafe ==
    RetiredIsDrained /\ RacesExcused /\ RemovalExclusive /\ PublicationUncontended

(* A bound registration is torn down only once its incarnation is gone: no *)
(* stale connection or late request retires the window of a live task.     *)
LiveTaskKept ==
    [][\A o \in Objects :
          registry[o] = "Bound" /\ registry'[o] = "Removing" => ~Current(o)]_vars

(* A removal that asked for destruction and has received every release     *)
(* completes: no frame is added, and the next attempt finds the display    *)
(* drained.                                                                *)
DrainedRemovalCompletes ==
    \A o \in Objects :
        (binding[o] = "destroyed" /\ inFlight[o] = 0)
            ~> (registry[o] = "retired" \/ fault # "none")

(* native-app-integration.md: the binding is retained "to route the        *)
(* displayed frame's final buffer release; then remove the drained Composer*)
(* display and binding".  Every removal that was begun completes.          *)
RemovalCompletes ==
    \A o \in Objects :
        registry[o] = "Removing" ~> (registry[o] = "retired" \/ fault # "none")

=============================================================================
