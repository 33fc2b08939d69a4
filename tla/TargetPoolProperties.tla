----------------------- MODULE TargetPoolProperties -----------------------
(***************************************************************************)
(* What the composed-frame path of TargetPool promises.                    *)
(***************************************************************************)
EXTENDS TargetPool

AndroidTypeOK ==
    /\ demand \in Serials /\ ackDue \in BOOLEAN /\ requested \in Serials
    /\ cache \subseteq Nat /\ reserved \subseteq Nat
    /\ busy \subseteq Nat /\ revoked \subseteq Nat
    /\ flying \subseteq Frame /\ nextFrame \in 0 .. MaxFrames /\ nextPoint \in 0 .. MaxFrames

SocketTypeOK == toHost \in Seq(HostBound) /\ toAndroid \in Seq(AndroidBound)

HostTypeOK ==
    /\ sizes \in Seq(Sizes) /\ Len(sizes) <= MaxSerial
    /\ ackSeen \in BOOLEAN /\ inFlight \subseteq Frame /\ lastPoint \in 0 .. MaxFrames
    /\ generation \in Seq(Serials)
    /\ targets \subseteq Nat /\ retired \subseteq Nat
    /\ queued \in Seq(Frame) /\ Len(queued) <= 1 /\ pending \subseteq Frame
    /\ mapped \in BOOLEAN /\ refreshes \in 0 .. MaxRefreshes

\* Every variable keeps its type: both socket directions hold only well-formed
\* messages, and at most one frame waits for its grant.
TypeOK == AndroidTypeOK /\ SocketTypeOK /\ HostTypeOK

HostWouldAccept(m) ==
    CASE m.type = "ack" -> AckAccepted(m.serial)
      [] m.type = "request" -> Lazy
      [] m.type = "present" ->
            \/ PresentSuperseded(m.frame, m.serial)
            \/ /\ PresentCurrent(m.frame, m.serial)
               /\ mapped /\ ~Exact => Attachable(m.frame.buffer)

AndroidWouldAccept(m) ==
    CASE m.type = "configure" -> TRUE
      [] m.type = "register" -> m.buffer \notin cache
      [] m.type = "unregister" -> m.buffer \in cache
      [] m.type = "released" -> m.frame \in flying /\ m.frame.buffer \in cache

\* No handler ever takes its error path.  The endpoint accepts every message
\* of a correct Android peer, however resizes, closes and late frames cross on
\* the wire; Android knows every target and frame it is told about; and the
\* presenter's own steps never meet a busy, retired or unregistered target.
\* (receive_action, TaskPresentationState::present, apply_task_event,
\* register_render_target, unregister_render_target, App::present.)
NoProtocolError ==
    /\ toHost # <<>> => HostWouldAccept(Head(toHost))
    /\ toAndroid # <<>> => AndroidWouldAccept(Head(toAndroid))
    /\ queued # <<>> => Attachable(queued[1].buffer)
    /\ BuffersOf(inFlight \ Range(queued)) \subseteq BuffersOf(pending)
    /\ BuffersOf(inFlight) \subseteq targets

\* The frames the messages of type t in channel s carry, and that no two of
\* those messages carry the same one.
Carrying(s, t) == {j \in DOMAIN s : s[j].type = t}
FramesIn(s, t) == {s[j].frame : j \in Carrying(s, t)}
Once(s, t) == \A i, j \in Carrying(s, t) : s[i].frame = s[j].frame => i = j

Presented == FramesIn(toHost, "present")
Returned == FramesIn(toAndroid, "released")

\* The buffers the host or the compositor may still read.
HostReads == BuffersOf(Presented \cup inFlight)

\* Release before reuse: a target a renderer is drawing into is never one whose
\* pixels the host holds or is about to receive.  Android relies on its busy
\* flags alone (acquire_surfaceflinger_target), the host on its own.
ReleaseBeforeReuse == reserved \cap HostReads = {}

\* The pool implements an exclusive loan of each buffer: drawing by a renderer,
\* reading by the host, and a return between the two.  A revocation, a resize
\* or a close never lets the two overlap (BufferLoan).
Loan == INSTANCE BufferLoan WITH drawing <- reserved, reading <- HostReads
LoanSpec == Loan!Spec

\* Every frame Android waits for is in exactly one place: on its way to the
\* host, held by the host, or on its way back.  Neither a superseded, a
\* displaced nor a discarded frame is ever lost or returned twice.
FrameConservation ==
    /\ flying = Presented \cup inFlight \cup Returned
    /\ Presented \cap inFlight = {} /\ Presented \cap Returned = {} /\ inFlight \cap Returned = {}
    /\ Once(toHost, "present") /\ Once(toAndroid, "released")
    /\ inFlight = pending \cup Range(queued)

\* Android's busy flags are exact: a target is busy if and only if one frame
\* drawn into it is still out, never two, and no renderer holds it meanwhile.
\* On the host no frame both waits for its grant and is committed.
\* (RenderTarget::busy, submit_surfaceflinger_target, release_render_target.)
BusyIsExact ==
    /\ busy = BuffersOf(flying)
    /\ \A f, g \in flying : f.buffer = g.buffer => f = g
    /\ reserved \cap busy = {}
    /\ pending \cap Range(queued) = {}

\* Frames and flags together: each frame is in exactly one place, and the busy
\* flags say which targets have one (present, finish_release, busy).
FramesOwned == FrameConservation /\ BusyIsExact

Quiet == toHost = <<>> /\ toAndroid = <<>> /\ ~ackDue

\* Once no message is in transit the two sides agree on the configure, on the
\* targets that exist and on those in use; Android keeps beyond that only the
\* revoked imports a renderer is still drawing into.
QuietAgreement ==
    Quiet =>
        /\ demand = Latest /\ (Latest # 0 => ackSeen)
        /\ revoked \subseteq reserved
        /\ cache = targets \cup revoked
        /\ busy = BuffersOf(inFlight)

\* A pool request is never lost.  Android asks once per generation, so a
\* request the host drops because a resize overtook it must be replaced by one
\* for the new generation (RenderTargetDemand, ensure_render_targets).
PoolRequestAnswered ==
    Quiet /\ mapped /\ demand # 0 /\ (Lazy => requested = demand) => Pool # {}

\* The host keeps a superseded target only while the compositor reads it.
RetiredOnlyWhileShown == retired = {b \in BuffersOf(pending) : generation[b] # Latest}

\* The two pools, Android's imports and the host's targets, never drift apart:
\* they agree when nothing is in transit, no request for a pool is lost on the
\* way, and the host keeps no superseded target beyond its last use.
PoolsAgree == QuietAgreement /\ PoolRequestAnswered /\ RetiredOnlyWhileShown

\* Every frame that reaches the screen was drawn into a target of the configure
\* in force when it is committed, even when an earlier generation had the same
\* size: the dimensions alone would let such a frame through.
CommitsCurrentGeneration ==
    [][\A f \in pending' \ pending : generation[f.buffer] = Latest]_vars

\* When resizes stop, Android ends up acknowledging the last one.
Converges == <>[](Latest # 0 => demand = Latest /\ ackSeen /\ ~ackDue)

\* Every frame comes back, except the one on screen and the one waiting for a
\* grant; after the window is closed every frame comes back.
FramesReturn ==
    <>[](/\ flying = pending \cup Range(queued)
         /\ Cardinality(pending) <= 1
         /\ ~mapped => flying = {})

\* A pool of three never starves the renderer: with one frame on screen and one
\* waiting for its grant, a target always becomes idle again.
Starved == mapped /\ demand = Latest /\ Pool # {} /\ Idle = {} /\ reserved = {}
NeverStarved == Starved ~> ~Starved

=============================================================================
