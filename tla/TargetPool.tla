---------------------------- MODULE TargetPool ----------------------------
(***************************************************************************)
(* The composed-frame path of one task window.                             *)
(*                                                                         *)
(* The host presenter allocates a pool of render targets for each configure*)
(* generation and lends them to Android's Composer service, which reserves *)
(* one, renders into it and presents it.  Presents, acknowledgements and   *)
(* pool requests travel one way; configures, registrations, revocations and*)
(* releases travel the other, on the two directions of one ordered socket. *)
(* Three state machines must agree on who owns a buffer: Android's target  *)
(* cache (droidloom-composer-aidl/src/denial.rs), the host endpoint        *)
(* (droidloom-denial-protocol and droidloom-denial-endpoint) and the       *)
(* presenter (droidloom-wayland/src/main.rs).                              *)
(*                                                                         *)
(* A handler's error path disconnects the peer or ends the service.  Here  *)
(* the conditions under which a message is accepted are named operators,   *)
(* and the invariant NoProtocolError says no error path is ever taken.     *)
(***************************************************************************)
EXTENDS Naturals, Sequences, FiniteSets, Functions

CONSTANTS Sizes,           \* buffer dimensions the compositor may ask for
          PoolLength,      \* TARGET_POOL_LENGTH
          MaxReservations, \* MAX_RESERVATIONS of one SurfaceFlinger connection
          SerialSpace,     \* 2^32 in the code: configure serials are u32
          Lazy,            \* demand allocation was negotiated
          Exact,           \* the compositor offers exact frame timelines
          MaxSerial,       \* bound: configure generations
          MaxFrames,       \* bound: frames submitted by SurfaceFlinger
          MaxRefreshes     \* bound: refresh-only configures

ASSUME PoolAssumption ==
    /\ PoolLength \in Nat \ {0}
    /\ MaxReservations \in Nat
    /\ MaxSerial \in Nat /\ MaxFrames \in Nat /\ MaxRefreshes \in Nat
    /\ SerialSpace \in Nat /\ SerialSpace > 2 * MaxSerial
    /\ Lazy \in BOOLEAN /\ Exact \in BOOLEAN

VARIABLES
    demand,     \* Android: newest configure serial applied (0: none)
    ackDue,     \* Android: that configure is applied, not yet acknowledged
    requested,  \* Android: generation whose pool was requested (0: none)
    cache,      \* Android: identities of the cached render targets
    reserved,   \* Android: targets some renderer is drawing into
    busy,       \* Android: targets given back to the host by a Present
    revoked,    \* Android: targets the host revoked while they were in use
    flying,     \* Android: frames presented and not yet released
    nextFrame,  \* Android: last FrameId allocated
    nextPoint,  \* Android: last timeline point allocated
    toHost,     \* socket, Android to host
    toAndroid,  \* socket, host to Android
    sizes,      \* host: sizes[s] is the size of configure serial s
    ackSeen,    \* endpoint: the newest configure was acknowledged
    inFlight,   \* endpoint: frames accepted and not released
    lastPoint,  \* endpoint: last timeline point consumed
    generation, \* host: generation[b] is the serial buffer b was made for
    targets,    \* host: registered render targets
    retired,    \* presenter: targets of superseded generations
    queued,     \* presenter: the frame waiting for its grant, if any
    pending,    \* presenter: frames committed and not released
    mapped,     \* presenter: the native window still accepts frames
    refreshes   \* host: refresh-only configures so far

targetVars == <<cache, reserved, busy, revoked>>
frameVars == <<flying, nextFrame, nextPoint>>
androidVars == <<demand, ackDue, requested, targetVars, frameVars>>
endpointVars == <<ackSeen, inFlight, lastPoint>>
poolVars == <<generation, targets, retired>>
windowVars == <<queued, pending, mapped>>
hostVars == <<sizes, endpointVars, poolVars, windowVars, refreshes>>
vars == <<androidVars, toHost, toAndroid, hostVars>>

Buffers == 1 .. (MaxSerial * PoolLength)
Serials == 0 .. MaxSerial
Frame == [id : 1 .. MaxFrames, buffer : Nat, point : 1 .. MaxFrames]

HostBound ==
    [type : {"ack", "request"}, serial : Serials]
        \cup [type : {"present"}, frame : Frame, serial : Serials]
AndroidBound ==
    [type : {"configure"}, serial : Serials]
        \cup [type : {"register", "unregister"}, buffer : Nat]
        \cup [type : {"released"}, frame : Frame]

Ack(s) == [type |-> "ack", serial |-> s]
Request(s) == [type |-> "request", serial |-> s]
Present(f, s) == [type |-> "present", frame |-> f, serial |-> s]
Configure(s) == [type |-> "configure", serial |-> s]
Register(b) == [type |-> "register", buffer |-> b]
Unregister(b) == [type |-> "unregister", buffer |-> b]
Released(f) == [type |-> "released", frame |-> f]

BuffersOf(frames) == {f.buffer : f \in frames}

\* A set of buffer identities in the order a BTreeMap yields them.
Ascending(S) ==
    {order \in [1 .. Cardinality(S) -> S] :
        \A i, j \in 1 .. Cardinality(S) : i < j => order[i] < order[j]}

Init ==
    /\ demand = 0 /\ ackDue = FALSE /\ requested = 0
    /\ cache = {} /\ reserved = {} /\ busy = {} /\ revoked = {}
    /\ flying = {} /\ nextFrame = 0 /\ nextPoint = 0
    /\ toHost = <<>> /\ toAndroid = <<>>
    /\ sizes = <<>> /\ ackSeen = FALSE /\ inFlight = {} /\ lastPoint = 0
    /\ generation = <<>> /\ targets = {} /\ retired = {}
    /\ queued = <<>> /\ pending = {} /\ mapped = TRUE
    /\ refreshes = 0

-----------------------------------------------------------------------------
(* Android: the connection of SurfaceFlinger's renderer to the service.    *)

\* Targets of the newest generation that the host has not revoked.
Pool == {b \in cache \ revoked : generation[b] = demand}

\* Mutant: the acquire forgets the busy flag.
IdleOrBusy == Pool \ reserved
Idle == Pool \ (reserved \cup busy)

\* An acquire that finds no pool asks for it once per generation and fails
\* with NoRenderTarget; SurfaceFlinger tries again on a later composition.
RequestTargets ==
    /\ demand # 0 /\ Lazy /\ Pool = {} /\ requested # demand
    /\ Cardinality(reserved) < MaxReservations
    /\ toHost' = Append(toHost, Request(demand))
    /\ requested' = demand
    /\ UNCHANGED <<demand, ackDue, targetVars, frameVars, toAndroid, hostVars>>

\* An acquire that finds an idle target reserves the lowest identity.
AcquireTarget ==
    /\ Cardinality(reserved) < MaxReservations
    /\ \E b \in Idle :
        /\ \A c \in Idle : b <= c
        /\ reserved' = reserved \cup {b}
    /\ UNCHANGED <<demand, ackDue, requested, cache, busy, revoked, frameVars,
                   toHost, toAndroid, hostVars>>

\* Mutant: a cancelled reservation leaves the revoked import in the cache.
UnreserveOnly(b) == reserved' = reserved \ {b} /\ UNCHANGED <<cache, busy, revoked>>

\* Drop a reservation, and with it the cached import of a revoked target.
Unreserve(b) ==
    /\ reserved' = reserved \ {b}
    /\ cache' = IF b \in revoked THEN cache \ {b} ELSE cache
    /\ revoked' = revoked \ {b}
    /\ UNCHANGED busy

\* A Cancel record, or the renderer's connection closing.
CancelTarget ==
    \E b \in reserved :
        /\ Unreserve(b)
        /\ UNCHANGED <<demand, ackDue, requested, frameVars, toHost, toAndroid, hostVars>>

\* The session lock is free and another frame may be submitted.  The event
\* loop keeps the lock from applying a configure until it has acknowledged it.
MaySubmit == ~ackDue /\ nextFrame < MaxFrames

\* Composer accepts a target that fits the acknowledged configure.
ComposerAccepts(b) == sizes[generation[b]] = sizes[demand] /\ b \notin busy

\* Mutant: a target revoked while it was drawn is presented all the same.
TargetReserved(b) == b \in reserved /\ b \notin busy

\* The target is still the host's and still reserved once Composer accepted it.
TargetUsable(b) == b \in reserved /\ b \notin busy /\ b \notin revoked

\* The Present is on the wire: the target is busy until it is released.
SubmitTarget ==
    \E b \in reserved :
        LET f == [id |-> nextFrame + 1, buffer |-> b, point |-> nextPoint + 1] IN
        /\ MaySubmit /\ ComposerAccepts(b) /\ TargetUsable(b)
        /\ nextFrame' = f.id
        /\ nextPoint' = f.point
        /\ flying' = flying \cup {f}
        /\ toHost' = Append(toHost, Present(f, demand))
        /\ reserved' = reserved \ {b}
        /\ busy' = busy \cup {b}
        /\ UNCHANGED <<demand, ackDue, requested, cache, revoked, toAndroid, hostVars>>

\* Composer refuses the target, or it was revoked meanwhile: the reservation
\* is returned.  A FrameId that Composer allocated stays consumed.
SubmitRejected ==
    \E b \in reserved :
        /\ MaySubmit /\ ~(ComposerAccepts(b) /\ TargetUsable(b))
        /\ nextFrame' = IF ComposerAccepts(b) THEN nextFrame + 1 ELSE nextFrame
        /\ Unreserve(b)
        /\ UNCHANGED <<demand, ackDue, requested, flying, nextPoint, toHost, toAndroid, hostVars>>

\* The acquire fence cannot be imported: the point stays consumed as well.
SubmitFenceFailed ==
    \E b \in reserved :
        /\ MaySubmit /\ ComposerAccepts(b) /\ TargetUsable(b)
        /\ nextFrame' = nextFrame + 1
        /\ nextPoint' = nextPoint + 1
        /\ Unreserve(b)
        /\ UNCHANGED <<demand, ackDue, requested, flying, toHost, toAndroid, hostVars>>

-----------------------------------------------------------------------------
(* Android: the event loop, one host message at a time.                    *)

AndroidReceives(type) ==
    /\ ~ackDue /\ toAndroid # <<>> /\ Head(toAndroid).type = type
    /\ toAndroid' = Tail(toAndroid)

\* Apply a configure; a new serial also forgets the outstanding pool request.
ApplyConfigure ==
    /\ AndroidReceives("configure")
    /\ LET s == Head(toAndroid).serial IN
        /\ demand' = s
        /\ requested' = IF s = demand THEN requested ELSE 0
    /\ ackDue' = TRUE
    /\ UNCHANGED <<targetVars, frameVars, toHost, hostVars>>

AcknowledgeConfigure ==
    /\ ackDue
    /\ ackDue' = FALSE
    /\ toHost' = Append(toHost, Ack(demand))
    /\ UNCHANGED <<demand, requested, targetVars, frameVars, toAndroid, hostVars>>

RegisterTarget ==
    /\ AndroidReceives("register")
    /\ cache' = cache \cup {Head(toAndroid).buffer}
    /\ UNCHANGED <<demand, ackDue, requested, reserved, busy, revoked, frameVars, toHost, hostVars>>

\* A target in use is only marked: its import goes at cancel or release.
UnregisterTarget ==
    /\ AndroidReceives("unregister")
    /\ LET b == Head(toAndroid).buffer IN
        IF b \in reserved \cup busy
        THEN revoked' = revoked \cup {b} /\ UNCHANGED cache
        ELSE cache' = cache \ {b} /\ UNCHANGED revoked
    /\ UNCHANGED <<demand, ackDue, requested, reserved, busy, frameVars, toHost, hostVars>>

ReleaseTarget ==
    /\ AndroidReceives("released")
    /\ LET f == Head(toAndroid).frame IN
        /\ flying' = flying \ {f}
        /\ busy' = busy \ {f.buffer}
        /\ cache' = IF f.buffer \in revoked THEN cache \ {f.buffer} ELSE cache
        /\ revoked' = revoked \ {f.buffer}
    /\ UNCHANGED <<demand, ackDue, requested, reserved, nextFrame, nextPoint, toHost, hostVars>>

-----------------------------------------------------------------------------
(* Host: the endpoint's protocol state.                                    *)

Latest == Len(sizes)

\* Serial arithmetic: an older serial lies less than half the space behind.
serial_precedes(actual, expected) ==
    actual # expected /\ (expected + SerialSpace - actual) % SerialSpace < SerialSpace \div 2

\* Mutant: the acknowledgement must name the newest configure.
AckExact(s) == Latest # 0 /\ s = Latest

\* acknowledge_configure refuses only a serial from the future.
AckAccepted(s) == Latest # 0 /\ (s = Latest \/ serial_precedes(s, Latest))

\* Checks shared by a present that will be shown and one that is superseded.
FrameIsNew(f) ==
    /\ f.buffer \notin BuffersOf(inFlight)
    /\ \A g \in inFlight : g.id # f.id
    /\ f.point > lastPoint

PresentCurrent(f, s) ==
    /\ Latest # 0 /\ s = Latest /\ ackSeen
    /\ f.buffer \in targets
    /\ sizes[generation[f.buffer]] = sizes[Latest]
    /\ FrameIsNew(f)

PresentSuperseded(f, s) ==
    Latest # 0 /\ serial_precedes(s, Latest) /\ FrameIsNew(f)

\* The presenter attaches only a target that is neither shown nor retired.
Attachable(b) == b \in targets /\ b \notin BuffersOf(pending) /\ b \notin retired

HostReceives(type) ==
    /\ toHost # <<>> /\ Head(toHost).type = type
    /\ toHost' = Tail(toHost)

ReceiveAck ==
    /\ HostReceives("ack")
    /\ AckAccepted(Head(toHost).serial)
    /\ ackSeen' = (ackSeen \/ Head(toHost).serial = Latest)
    /\ UNCHANGED <<androidVars, toAndroid, sizes, inFlight, lastPoint, poolVars, windowVars, refreshes>>

-----------------------------------------------------------------------------
(* Host: the presenter.                                                    *)

\* The next whole pool of buffer identities, made for serial s.
NewPool == (Len(generation) + 1) .. (Len(generation) + PoolLength)
Allocate(s, published) ==
    /\ generation' = generation \o [i \in 1 .. PoolLength |-> s]
    /\ targets' = published \cup NewPool

Registrations == [i \in 1 .. PoolLength |-> Register(Len(generation) + i)]

\* Mutant: the queued frame is dropped and its buffer is not given back.
NoReleases == <<>>

\* Discarding the queued frame gives its buffer back without showing it.
QueuedReleases == [i \in DOMAIN queued |-> Released(queued[i])]

\* Mutant: a target still on screen counts as the pool of its successor.
PoolAbsent(s) == mapped /\ s = Latest /\ targets = {}

\* A request is obsolete if a resize or a close overtook it, and moot if the
\* generation already has its pool.
PoolWanted(s) == mapped /\ s = Latest /\ targets \subseteq retired

ReceiveRequest ==
    /\ HostReceives("request")
    /\ IF PoolWanted(Head(toHost).serial)
       THEN /\ Allocate(Head(toHost).serial, targets)
            /\ toAndroid' = toAndroid \o Registrations
       ELSE UNCHANGED <<generation, targets, toAndroid>>
    /\ UNCHANGED <<androidVars, sizes, endpointVars, retired, windowVars, refreshes>>

\* Mutant: the queued frame survives the configure that outdates it.
ConfigureTaskKeepsQueue ==
    LET idle == targets \ BuffersOf(inFlight) IN
    \E size \in Sizes, order \in Ascending(idle) :
        /\ mapped /\ Latest < MaxSerial
        /\ sizes' = Append(sizes, size)
        /\ ackSeen' = FALSE
        /\ retired' = BuffersOf(pending)
        /\ targets' = targets \ idle
        /\ toAndroid' = toAndroid \o [i \in DOMAIN order |-> Unregister(order[i])]
                            \o <<Configure(Latest + 1)>>
        /\ UNCHANGED <<androidVars, toHost, inFlight, lastPoint, generation, windowVars, refreshes>>

\* A geometry change: drop the queued frame, revoke the idle targets, then
\* publish the new serial (and its pool, unless allocation is on demand).
ConfigureTask ==
    LET idle == targets \ BuffersOf(pending) IN
    \E size \in Sizes, order \in Ascending(idle) :
        /\ mapped /\ Latest < MaxSerial
        /\ sizes' = Append(sizes, size)
        /\ ackSeen' = FALSE
        /\ inFlight' = inFlight \ Range(queued)
        /\ queued' = <<>>
        /\ retired' = targets \ idle
        /\ IF Lazy
           THEN targets' = targets \ idle /\ UNCHANGED generation
           ELSE Allocate(Latest + 1, targets \ idle)
        /\ toAndroid' = toAndroid \o QueuedReleases
                            \o [i \in DOMAIN order |-> Unregister(order[i])]
                            \o <<Configure(Latest + 1)>>
                            \o IF Lazy THEN <<>> ELSE Registrations
        /\ UNCHANGED <<androidVars, toHost, lastPoint, pending, mapped, refreshes>>

\* Mutant: the cadence change invalidates the acknowledgement.
RefreshForgetsAck ==
    /\ Latest # 0 /\ refreshes < MaxRefreshes
    /\ refreshes' = refreshes + 1
    /\ ackSeen' = FALSE
    /\ toAndroid' = Append(toAndroid, Configure(Latest))
    /\ UNCHANGED <<androidVars, toHost, sizes, inFlight, lastPoint, poolVars, windowVars>>

\* A cadence change repeats the newest serial and keeps its acknowledgement.
RefreshConfigure ==
    /\ Latest # 0 /\ refreshes < MaxRefreshes
    /\ refreshes' = refreshes + 1
    /\ toAndroid' = Append(toAndroid, Configure(Latest))
    /\ UNCHANGED <<androidVars, toHost, sizes, endpointVars, poolVars, windowVars>>

\* Mutant: a superseded frame is dropped without giving its buffer back.
DropSuperseded ==
    /\ HostReceives("present")
    /\ LET f == Head(toHost).frame IN
        /\ PresentSuperseded(f, Head(toHost).serial)
        /\ lastPoint' = f.point
    /\ UNCHANGED <<androidVars, toAndroid, sizes, ackSeen, inFlight, poolVars, windowVars, refreshes>>

\* A frame of a superseded configure is released without looking at it.
DiscardSuperseded ==
    /\ HostReceives("present")
    /\ LET f == Head(toHost).frame IN
        /\ PresentSuperseded(f, Head(toHost).serial)
        /\ lastPoint' = f.point
        /\ toAndroid' = Append(toAndroid, Released(f))
    /\ UNCHANGED <<androidVars, sizes, ackSeen, inFlight, poolVars, windowVars, refreshes>>

\* A frame that reaches a closed window is released without being shown.
DiscardUnmapped ==
    /\ HostReceives("present") /\ ~mapped
    /\ LET f == Head(toHost).frame IN
        /\ PresentCurrent(f, Head(toHost).serial)
        /\ lastPoint' = f.point
        /\ toAndroid' = Append(toAndroid, Released(f))
    /\ UNCHANGED <<androidVars, sizes, ackSeen, inFlight, poolVars, windowVars, refreshes>>

\* Without exact timelines the frame is attached and committed at once.
CommitPresent ==
    /\ HostReceives("present") /\ mapped /\ ~Exact
    /\ LET f == Head(toHost).frame IN
        /\ PresentCurrent(f, Head(toHost).serial) /\ Attachable(f.buffer)
        /\ lastPoint' = f.point
        /\ inFlight' = inFlight \cup {f}
        /\ pending' = pending \cup {f}
    /\ UNCHANGED <<androidVars, toAndroid, sizes, ackSeen, poolVars, queued, mapped, refreshes>>

\* Mutant: the frame joins the one still waiting.
QueueBehind ==
    /\ HostReceives("present") /\ mapped /\ Exact
    /\ LET f == Head(toHost).frame IN
        /\ PresentCurrent(f, Head(toHost).serial)
        /\ lastPoint' = f.point
        /\ inFlight' = inFlight \cup {f}
        /\ queued' = Append(queued, f)
    /\ UNCHANGED <<androidVars, toAndroid, sizes, ackSeen, poolVars, pending, mapped, refreshes>>

\* With them it waits for a grant and displaces a frame still waiting.
QueuePresent ==
    /\ HostReceives("present") /\ mapped /\ Exact
    /\ LET f == Head(toHost).frame IN
        /\ PresentCurrent(f, Head(toHost).serial)
        /\ lastPoint' = f.point
        /\ inFlight' = (inFlight \ Range(queued)) \cup {f}
        /\ queued' = <<f>>
    /\ toAndroid' = toAndroid \o QueuedReleases
    /\ UNCHANGED <<androidVars, sizes, ackSeen, poolVars, pending, mapped, refreshes>>

\* The frame got its grant, or grants are disarmed and none is needed.
FlushQueued ==
    /\ queued # <<>> /\ mapped /\ Attachable(queued[1].buffer)
    /\ pending' = pending \cup {queued[1]}
    /\ queued' = <<>>
    /\ UNCHANGED <<androidVars, toHost, toAndroid, sizes, endpointVars, poolVars, mapped, refreshes>>

DropQueued ==
    /\ inFlight' = inFlight \ Range(queued)
    /\ queued' = <<>>
    /\ toAndroid' = toAndroid \o QueuedReleases

\* The output's epoch or the window's output changed.
AbortTimeline ==
    /\ queued # <<>>
    /\ DropQueued
    /\ UNCHANGED <<androidVars, toHost, sizes, ackSeen, lastPoint, poolVars, pending, mapped, refreshes>>

\* Mutant: closing the window forgets the frame waiting for its grant.
CloseWindowKeepsQueue ==
    /\ mapped
    /\ mapped' = FALSE
    /\ UNCHANGED <<androidVars, toHost, toAndroid, sizes, endpointVars, poolVars, queued, pending, refreshes>>

\* The user closes the native window; it is unmapped before any other work.
CloseWindow ==
    /\ mapped
    /\ mapped' = FALSE
    /\ DropQueued
    /\ UNCHANGED <<androidVars, toHost, sizes, ackSeen, lastPoint, poolVars, pending, refreshes>>

\* Mutant: a retired target is kept when its last frame comes back.
NothingRevocable(f) == {}

\* The target to revoke when frame f comes back: its own, if it is retired.
Revocable(f) == retired \cap {f.buffer}

\* The compositor signalled the frame's release point.  A retired target is
\* revoked as soon as its last frame is back.
ReleaseReady(f) ==
    LET gone == Revocable(f) IN
    /\ f \in pending
    /\ pending' = pending \ {f}
    /\ inFlight' = inFlight \ {f}
    /\ targets' = targets \ gone
    /\ retired' = retired \ gone
    /\ toAndroid' = toAndroid \o <<Released(f)>>
                        \o IF gone = {} THEN <<>> ELSE <<Unregister(f.buffer)>>
    /\ UNCHANGED <<androidVars, toHost, sizes, ackSeen, lastPoint, generation, queued, mapped, refreshes>>

-----------------------------------------------------------------------------

EventLoop ==
    ApplyConfigure \/ AcknowledgeConfigure \/ RegisterTarget \/ UnregisterTarget \/ ReleaseTarget

Renderer ==
    \/ RequestTargets \/ AcquireTarget \/ CancelTarget
    \/ SubmitTarget \/ SubmitRejected \/ SubmitFenceFailed

DrainEndpoint ==
    \/ ReceiveAck \/ ReceiveRequest
    \/ DiscardSuperseded \/ DiscardUnmapped \/ CommitPresent \/ QueuePresent

Compositor ==
    \/ ConfigureTask \/ RefreshConfigure
    \/ FlushQueued \/ AbortTimeline \/ CloseWindow
    \/ \E f \in pending : ReleaseReady(f)

Next == EventLoop \/ Renderer \/ DrainEndpoint \/ Compositor

Spec == Init /\ [][Next]_vars

\* A Wayland compositor returns a buffer once a later commit replaced it, or
\* once its surface is unmapped; the buffer on screen it may keep for ever.
Replaced(f) == ~mapped \/ \E g \in pending : g.id > f.id
ReleaseReplaced == \E f \in pending : Replaced(f) /\ ReleaseReady(f)

\* Both sides block in a receive loop, so each message is eventually handled.
\* Nothing is assumed of the renderer, of grants or of the user.
Fairness ==
    /\ WF_vars(EventLoop)
    /\ WF_vars(DrainEndpoint)
    /\ WF_vars(ReleaseReplaced)

=============================================================================
