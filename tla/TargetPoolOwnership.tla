------------------------ MODULE TargetPoolOwnership ------------------------
(***************************************************************************)
(* Every buffer of TargetPool has one owner at a time, for every pool      *)
(* length, any number of configures and frames and every negotiated mode.  *)
(*                                                                         *)
(* ReleaseBeforeReuse is not inductive: it speaks of the host's copy of a  *)
(* frame, while Android decides from its own busy flags.  The inductive    *)
(* invariant follows each frame through its three places (on its way to the*)
(* host, held there, on its way back) and ties the flags to them.          *)
(***************************************************************************)
EXTENDS TargetPoolProofs

Owned == FrameConservation /\ BusyIsExact

\* At first no frame is out and no target is busy.
LEMMA OwnedInit == Init => Owned
<1> SUFFICES ASSUME Init PROVE Owned
  OBVIOUS
<1>1. Carrying(toHost, "present") = {} /\ Carrying(toAndroid, "released") = {}
  BY DEF Init, Carrying
<1>2. Presented = {} /\ Returned = {} /\ Once(toHost, "present") /\ Once(toAndroid, "released")
  BY <1>1 DEF Presented, Returned, FramesIn, Once
<1>3. Range(queued) = {} /\ BuffersOf(flying) = {}
  BY DEF Init, Range, BuffersOf
<1> QED  BY <1>2, <1>3 DEF Init, Owned, FrameConservation, BusyIsExact

\* A step that moves no frame keeps every frame where it is.
LEMMA Unmoved ==
    ASSUME Owned, reserved' \cap busy = {},
           UNCHANGED <<busy, flying, inFlight, pending, queued>>,
           Presented' = Presented, Once(toHost, "present")',
           Returned' = Returned, Once(toAndroid, "released")'
    PROVE  Owned'
  BY DEF Owned, FrameConservation, BusyIsExact, BuffersOf, Range

\* A renderer reserves only targets that are not busy; a submission makes the
\* target busy and puts its frame on the wire in one step.
LEMMA OwnedRenderer ==
    ASSUME Typed, Owned, Renderer
    PROVE  Owned'
<1>0. toHost \in Seq(HostBound) /\ demand \in Serials /\ UNCHANGED toAndroid
  BY Zenon DEF Typed, TypeOK, SocketTypeOK, AndroidTypeOK, Renderer, RequestTargets, AcquireTarget,
         CancelTarget, SubmitTarget, SubmitRejected, SubmitFenceFailed
<1>1. Returned' = Returned /\ Once(toAndroid, "released")'
  BY <1>0 DEF Returned, Owned, FrameConservation
<1>2. UNCHANGED <<inFlight, pending, queued>>
  BY ZenonT(60) DEF Renderer, RequestTargets, AcquireTarget, CancelTarget, SubmitTarget, SubmitRejected,
         SubmitFenceFailed, hostVars, endpointVars, windowVars
<1>3. UNCHANGED toHost => Presented' = Presented /\ Once(toHost, "present")'
  BY DEF Presented, Owned, FrameConservation
<1>4. reserved \cap busy = {}
  BY DEF Owned, BusyIsExact
<1>5. CASE RequestTargets
  <2>1. Presented' = Presented /\ Once(toHost, "present")'
    BY <1>0, <1>5, AppendOther, Constructors
    DEF RequestTargets, Presented, Owned, FrameConservation
  <2> QED  BY SMTT(60), <1>1, <1>2, <1>4, <1>5, <2>1, Unmoved DEF RequestTargets, targetVars, frameVars
<1>6. CASE AcquireTarget
  <2>1. reserved' \cap busy = {}
    BY <1>4, <1>6 DEF AcquireTarget, Idle
  <2> QED  BY SMTT(60), <1>1, <1>2, <1>3, <1>6, <2>1, Unmoved DEF AcquireTarget, frameVars
<1>7. CASE CancelTarget
  <2>1. reserved' \cap busy = {}
    BY <1>4, <1>7 DEF CancelTarget, Unreserve
  <2>2. UNCHANGED <<busy, flying, toHost>>
    BY SMTT(60), <1>7 DEF CancelTarget, Unreserve, frameVars
  <2> QED  BY SMTT(60), <1>1, <1>2, <1>3, <2>1, <2>2, Unmoved
<1>8. CASE SubmitRejected
  <2>1. reserved' \cap busy = {}
    BY <1>4, <1>8 DEF SubmitRejected, Unreserve
  <2>2. UNCHANGED <<busy, flying, toHost>>
    BY SMTT(60), <1>8 DEF SubmitRejected, Unreserve
  <2> QED  BY <1>1, <1>2, <1>3, <2>1, <2>2, Unmoved
<1>9. CASE SubmitFenceFailed
  <2>1. reserved' \cap busy = {}
    BY <1>4, <1>9 DEF SubmitFenceFailed, Unreserve
  <2>2. UNCHANGED <<busy, flying, toHost>>
    BY <1>9 DEF SubmitFenceFailed, Unreserve
  <2> QED  BY <1>1, <1>2, <1>3, <2>1, <2>2, Unmoved
<1>10. CASE SubmitTarget
  <2> PICK b \in reserved :
        LET f == [id |-> nextFrame + 1, buffer |-> b, point |-> nextPoint + 1] IN
        /\ MaySubmit /\ TargetUsable(b)
        /\ flying' = flying \cup {f}
        /\ toHost' = Append(toHost, Present(f, demand))
        /\ reserved' = reserved \ {b}
        /\ busy' = busy \cup {b}
    BY <1>10 DEF SubmitTarget
  <2> DEFINE f == [id |-> nextFrame + 1, buffer |-> b, point |-> nextPoint + 1]
  <2>1. f \in Frame /\ f.buffer = b
    BY PoolAssumption DEF Typed, TypeOK, AndroidTypeOK, Counters, MaySubmit, Frame
  <2>2. b \notin busy
    BY <1>4
  <2> HIDE DEF f
  <2>3. \A g \in flying : g.buffer # b
    BY <2>2 DEF Owned, BusyIsExact, BuffersOf
  <2>4. f \notin flying
    BY <2>1, <2>3
  <2>5. Presented' = Presented \cup {f} /\ Once(toHost, "present")'
    <3>1. Present(f, demand) \in HostBound /\ Present(f, demand).type = "present"
          /\ Present(f, demand).frame = f
      BY <1>0, <2>1, Constructors
    <3>2. f \notin FramesIn(toHost, "present") /\ Once(toHost, "present")
      BY <2>4 DEF Owned, FrameConservation, Presented
    <3>3. toHost' = Append(toHost, Present(f, demand))
      BY DEF f
    <3> QED  BY SMTT(60), <1>0, <3>1, <3>2, <3>3, AppendFrame DEF Presented
  <2>6. flying' = flying \cup {f} /\ busy' = busy \cup {b} /\ reserved' = reserved \ {b}
    BY DEF f
  <2>7. FrameConservation'
    BY SMTT(60), <1>1, <1>2, <2>4, <2>5, <2>6 DEF Owned, FrameConservation, Range
  <2>8. BusyIsExact'
    BY <1>2, <1>4, <2>1, <2>3, <2>6 DEF Owned, BusyIsExact, BuffersOf, Range
  <2> QED  BY <2>7, <2>8 DEF Owned
<1> QED  BY <1>5, <1>6, <1>7, <1>8, <1>9, <1>10 DEF Renderer

\* The event loop takes a frame off the wire and clears its flag in one step.
LEMMA OwnedEventLoop ==
    ASSUME Typed, Owned, EventLoop
    PROVE  Owned'
<1>0. toHost \in Seq(HostBound) /\ toAndroid \in Seq(AndroidBound) /\ demand \in Serials
  BY DEF Typed, TypeOK, SocketTypeOK, AndroidTypeOK
<1>1. UNCHANGED <<inFlight, pending, queued, reserved>>
  BY DEF EventLoop, ApplyConfigure, AcknowledgeConfigure, RegisterTarget, UnregisterTarget,
         ReleaseTarget, targetVars, hostVars, endpointVars, windowVars
<1>2. UNCHANGED toHost => Presented' = Presented /\ Once(toHost, "present")'
  BY DEF Presented, Owned, FrameConservation
<1>3. reserved' \cap busy = {}
  BY <1>1 DEF Owned, BusyIsExact
<1>4. ASSUME NEW t, t # "released", AndroidReceives(t)
      PROVE  Returned' = Returned /\ Once(toAndroid, "released")'
  BY <1>0, <1>4, TailOther DEF AndroidReceives, Returned, Owned, FrameConservation
<1>5. CASE ApplyConfigure
  <2>1. UNCHANGED <<busy, flying, toHost>>
    BY <1>5 DEF ApplyConfigure, targetVars, frameVars
  <2> QED  BY SMTT(60), <1>1, <1>2, <1>3, <1>4, <1>5, <2>1, Unmoved DEF ApplyConfigure
<1>6. CASE AcknowledgeConfigure
  <2>1. UNCHANGED <<busy, flying, toAndroid>>
    BY <1>6 DEF AcknowledgeConfigure, targetVars, frameVars
  <2>2. Presented' = Presented /\ Once(toHost, "present")'
    BY <1>0, <1>6, AppendOther, Constructors
    DEF AcknowledgeConfigure, Presented, Owned, FrameConservation
  <2>3. Returned' = Returned /\ Once(toAndroid, "released")'
    BY <2>1 DEF Returned, Owned, FrameConservation
  <2> QED  BY SMTT(60), <1>1, <1>3, <2>1, <2>2, <2>3, Unmoved
<1>7. CASE RegisterTarget
  <2>1. UNCHANGED <<busy, flying, toHost>>
    BY <1>7 DEF RegisterTarget, frameVars
  <2> QED  BY SMTT(60), <1>1, <1>2, <1>3, <1>4, <1>7, <2>1, Unmoved DEF RegisterTarget
<1>8. CASE UnregisterTarget
  <2>1. UNCHANGED <<busy, flying, toHost>>
    BY <1>8 DEF UnregisterTarget, frameVars
  <2> QED  BY SMTT(60), <1>1, <1>2, <1>3, <1>4, <1>8, <2>1, Unmoved DEF UnregisterTarget
<1>9. CASE ReleaseTarget
  <2> DEFINE f == Head(toAndroid).frame
  <2>1. /\ f \in Returned /\ Returned' = Returned \ {f} /\ Once(toAndroid, "released")'
    BY <1>0, <1>9, TailFrame
    DEF ReleaseTarget, AndroidReceives, Returned, Owned, FrameConservation
  <2>2. flying' = flying \ {f} /\ busy' = busy \ {f.buffer} /\ UNCHANGED toHost
    BY <1>9 DEF ReleaseTarget
  <2> HIDE DEF f
  <2>3. f \in flying /\ f \notin Presented /\ f \notin inFlight
    BY <2>1 DEF Owned, FrameConservation
  <2>4. FrameConservation'
    BY SMTT(60), <1>1, <1>2, <2>1, <2>2, <2>3 DEF Owned, FrameConservation, Range
  <2>5. BusyIsExact'
    <3>1. busy' = BuffersOf(flying')
      BY <2>2, <2>3 DEF Owned, BusyIsExact, BuffersOf
    <3> QED  BY <1>1, <2>2, <3>1 DEF Owned, BusyIsExact, Range
  <2> QED  BY <2>4, <2>5 DEF Owned
<1> QED  BY <1>5, <1>6, <1>7, <1>8, <1>9 DEF EventLoop

\* The host takes each frame off the wire once, and holds it or returns it.
LEMMA OwnedDrain ==
    ASSUME Typed, Owned, DrainEndpoint
    PROVE  Owned'
<1>0. /\ toHost \in Seq(HostBound) /\ toAndroid \in Seq(AndroidBound)
      /\ queued \in Seq(Frame) /\ Len(queued) <= 1 /\ generation \in Seq(Serials)
  BY SMTT(60) DEF Typed, TypeOK, SocketTypeOK, HostTypeOK
<1>1. UNCHANGED <<flying, busy, reserved>>
  BY DEF DrainEndpoint, ReceiveAck, ReceiveRequest, DiscardSuperseded, DiscardUnmapped,
         CommitPresent, QueuePresent, androidVars, targetVars, frameVars
<1>2. reserved' \cap busy = {}
  BY <1>1 DEF Owned, BusyIsExact
<1>3. UNCHANGED toAndroid => Returned' = Returned /\ Once(toAndroid, "released")'
  BY DEF Returned, Owned, FrameConservation
<1>4. ASSUME NEW t, t # "present", HostReceives(t)
      PROVE  Presented' = Presented /\ Once(toHost, "present")'
  BY SMTT(60), <1>0, <1>4, TailOther DEF HostReceives, Presented, Owned, FrameConservation
<1> DEFINE f == Head(toHost).frame
<1>5. ASSUME HostReceives("present")
      PROVE  /\ f \in Frame /\ f \in Presented /\ f \notin inFlight /\ f \notin Returned
             /\ Presented' = Presented \ {f} /\ Once(toHost, "present")'
  <2>1. f \in Presented /\ Presented' = Presented \ {f} /\ Once(toHost, "present")'
    BY ZenonT(60), <1>0, <1>5, TailFrame DEF HostReceives, Presented, Owned, FrameConservation
  <2>2. f \in Frame
    BY <1>5, HostReceivesTyped DEF Typed, TypeOK
  <2> QED  BY <2>1, <2>2 DEF Owned, FrameConservation
<1>6. CASE ReceiveAck
  BY SMTT(60), <1>1, <1>2, <1>3, <1>4, <1>6, Unmoved DEF ReceiveAck, windowVars
<1>7. CASE ReceiveRequest
  <2>1. UNCHANGED <<inFlight, pending, queued>> /\ HostReceives("request")
    BY <1>7 DEF ReceiveRequest, endpointVars, windowVars
  <2>2. Returned' = Returned /\ Once(toAndroid, "released")'
    <3>1. toAndroid' = toAndroid \/ toAndroid' = toAndroid \o Registrations
      BY <1>7 DEF ReceiveRequest
    <3>2. /\ Registrations \in Seq(AndroidBound)
          /\ FramesIn(Registrations, "released") = {} /\ Once(Registrations, "released")
      BY <1>0, RegistrationsSend
    <3>3. /\ FramesIn(toAndroid \o Registrations, "released") = FramesIn(toAndroid, "released")
          /\ Once(toAndroid, "released") => Once(toAndroid \o Registrations, "released")
      BY SMTT(60), <1>0, <3>2, BatchOfOthers
    <3> QED  BY ZenonT(60), <1>3, <3>1, <3>3 DEF Returned, Owned, FrameConservation
  <2> QED  BY SMTT(60), <1>1, <1>2, <1>4, <2>1, <2>2, Unmoved
<1> HIDE DEF f
<1>8. ASSUME HostReceives("present"), toAndroid' = Append(toAndroid, Released(f)),
             UNCHANGED <<inFlight, pending, queued>>
      PROVE  Owned'
  <2>1. Returned' = Returned \cup {f} /\ Once(toAndroid, "released")'
    <3>1. /\ Released(f) \in AndroidBound /\ Released(f).type = "released"
          /\ Released(f).frame = f
      BY SMTT(60), <1>5, <1>8, Constructors
    <3>2. f \notin FramesIn(toAndroid, "released") /\ Once(toAndroid, "released")
      BY SMTT(60), <1>5, <1>8 DEF Returned, Owned, FrameConservation
    <3>3. /\ FramesIn(Append(toAndroid, Released(f)), "released")
                = FramesIn(toAndroid, "released") \cup {f}
          /\ Once(Append(toAndroid, Released(f)), "released")
      BY SMTT(60), <1>0, <3>1, <3>2, AppendFrame
    <3> QED  BY SMTT(60), <1>8, <3>3 DEF Returned
  <2>2. FrameConservation'
    BY SMTT(60), <1>1, <1>5, <1>8, <2>1 DEF Owned, FrameConservation, Range
  <2>3. BusyIsExact'
    BY SMTT(60), <1>1, <1>8 DEF Owned, BusyIsExact, BuffersOf, Range
  <2> QED  BY <2>2, <2>3 DEF Owned
<1>9. CASE DiscardSuperseded
  BY SMTT(60), <1>8, <1>9 DEF DiscardSuperseded, windowVars, f
<1>10. CASE DiscardUnmapped
  BY SMTT(60), <1>8, <1>10 DEF DiscardUnmapped, windowVars, f
<1>11. CASE CommitPresent
  <2>1. /\ HostReceives("present") /\ UNCHANGED <<toAndroid, queued>>
        /\ inFlight' = inFlight \cup {f} /\ pending' = pending \cup {f}
    BY SMTT(60), <1>11 DEF CommitPresent, f
  <2>2. FrameConservation'
    BY SMTT(60), <1>1, <1>3, <1>5, <2>1 DEF Owned, FrameConservation, Range
  <2>3. f \notin Range(queued)
    BY SMTT(60), <1>5, <2>1 DEF Owned, FrameConservation
  <2>4. BusyIsExact'
    BY SMTT(60), <1>1, <2>1, <2>3 DEF Owned, BusyIsExact, BuffersOf, Range
  <2> QED  BY <2>2, <2>4 DEF Owned
<1>12. CASE QueuePresent
  <2>1. /\ HostReceives("present") /\ UNCHANGED pending
        /\ toAndroid' = toAndroid \o QueuedReleases
        /\ inFlight' = (inFlight \ Range(queued)) \cup {f} /\ queued' = <<f>>
    BY <1>12 DEF QueuePresent, f
  <2>2. Range(queued) \subseteq inFlight /\ Range(queued) \cap Returned = {}
    BY SMTT(60) DEF Owned, FrameConservation
  <2>3. Returned' = Returned \cup Range(queued) /\ Once(toAndroid, "released")'
    BY SMTT(60), <1>0, <2>1, <2>2, QueuedReleasesSend, Concatenation DEF Returned, Owned, FrameConservation
  <2>4. Range(queued') = {f}
    BY SMTT(60), <2>1 DEF Range
  <2>5. FrameConservation'
    <3>1. inFlight' = pending' \cup Range(queued')
      BY SMTT(60), <2>1, <2>4 DEF Owned, FrameConservation, BusyIsExact
    <3> QED  BY SMTT(60), <1>1, <1>5, <2>1, <2>2, <2>3, <3>1 DEF Owned, FrameConservation
  <2>6. f \notin pending
    BY SMTT(60), <1>5, <2>1 DEF Owned, FrameConservation
  <2>7. BusyIsExact'
    BY SMTT(60), <1>1, <2>1, <2>4, <2>6 DEF Owned, BusyIsExact, BuffersOf
  <2> QED  BY <2>5, <2>7 DEF Owned
<1> QED  BY SMTT(60), <1>6, <1>7, <1>9, <1>10, <1>11, <1>12 DEF DrainEndpoint

\* A frame leaves the presenter for the wire once: when its grant is lost, when
\* a configure or a close drops it, or when the compositor is done with it.
LEMMA OwnedCompositor ==
    ASSUME Typed, Owned, Compositor
    PROVE  Owned'
<1>0. /\ toAndroid \in Seq(AndroidBound) /\ pending \subseteq Frame
      /\ queued \in Seq(Frame) /\ Len(queued) <= 1
  BY DEF Typed, TypeOK, SocketTypeOK, HostTypeOK
<1>1. UNCHANGED <<flying, busy, reserved, toHost>>
  BY Zenon DEF Compositor, ConfigureTask, RefreshConfigure, FlushQueued, AbortTimeline, CloseWindow,
         ReleaseReady, androidVars, targetVars, frameVars
<1>2. reserved' \cap busy = {} /\ Presented' = Presented /\ Once(toHost, "present")'
  BY ZenonT(60), <1>1 DEF Presented, Owned, FrameConservation, BusyIsExact
<1>3. Range(queued) \subseteq inFlight /\ Range(queued) \cap Returned = {}
  BY DEF Owned, FrameConservation
<1>4. LET given == toAndroid \o QueuedReleases IN
      /\ given \in Seq(AndroidBound)
      /\ FramesIn(given, "released") = Returned \cup Range(queued) /\ Once(given, "released")
  <2>1. /\ QueuedReleases \in Seq(AndroidBound) /\ Once(QueuedReleases, "released")
        /\ FramesIn(QueuedReleases, "released") = Range(queued)
    BY SMTT(60), <1>0, QueuedReleasesSend
  <2>2. Once(toAndroid, "released") /\ FramesIn(toAndroid, "released") \cap Range(queued) = {}
    BY <1>3 DEF Returned, Owned, FrameConservation
  <2>3. toAndroid \o QueuedReleases \in Seq(AndroidBound)
    BY SMTT(60), <1>0, <2>1
  <2> QED  BY SMTT(60), <1>0, <2>1, <2>2, <2>3, Concatenation DEF Returned
\* Dropping the queued frame.
<1>5. ASSUME inFlight' = inFlight \ Range(queued), queued' = <<>>, UNCHANGED pending,
             Returned' = Returned \cup Range(queued), Once(toAndroid, "released")'
      PROVE  Owned'
  <2>1. Range(queued') = {}
    BY <1>5 DEF Range
  <2>2. inFlight' = pending' \cup Range(queued')
    BY SMTT(60), <1>5, <2>1 DEF Owned, FrameConservation, BusyIsExact
  <2>3. FrameConservation'
    BY SMTT(60), <1>1, <1>2, <1>3, <1>5, <2>2 DEF Owned, FrameConservation
  <2>4. BusyIsExact'
    BY SMTT(60), <1>1, <1>5, <2>1 DEF Owned, BusyIsExact, BuffersOf
  <2> QED  BY <2>3, <2>4 DEF Owned
<1>6. CASE ConfigureTask
  <2> DEFINE idle == targets \ BuffersOf(pending)
             registrations == IF Lazy THEN <<>> ELSE Registrations
             given == toAndroid \o QueuedReleases
             configure == <<Configure(Latest + 1)>>
  <2>1. PICK order \in Ascending(idle) :
        /\ Latest < MaxSerial
        /\ inFlight' = inFlight \ Range(queued)
        /\ queued' = <<>>
        /\ toAndroid' = toAndroid \o QueuedReleases
                            \o [i \in DOMAIN order |-> Unregister(order[i])]
                            \o configure
                            \o registrations
        /\ UNCHANGED pending
    BY Zenon, <1>6 DEF ConfigureTask
  <2> DEFINE revocations == [i \in DOMAIN order |-> Unregister(order[i])]
  <2>2. /\ revocations \in Seq(AndroidBound) /\ registrations \in Seq(AndroidBound)
        /\ configure \in Seq(AndroidBound)
        /\ FramesIn(revocations, "released") = {} /\ Once(revocations, "released")
        /\ FramesIn(registrations, "released") = {} /\ Once(registrations, "released")
        /\ FramesIn(configure, "released") = {} /\ Once(configure, "released")
    BY ZenonT(60), <2>1, ConfigureMessages
  <2>3. given \in Seq(AndroidBound) /\ Once(given, "released")
        /\ FramesIn(given, "released") = Returned \cup Range(queued)
    BY <1>4
  <2>4. toAndroid' = given \o revocations \o configure \o registrations
    BY SMTT(60), <2>1
  <2> HIDE DEF idle, registrations, given, configure, revocations
  <2> DEFINE first == given \o revocations
             second == first \o configure
  <2>5. /\ first \in Seq(AndroidBound) /\ Once(first, "released")
        /\ FramesIn(first, "released") = FramesIn(given, "released")
    BY <2>2, <2>3, BatchOfOthers
  <2>6. toAndroid' = first \o configure \o registrations
    BY <2>4
  <2> HIDE DEF first
  <2>7. /\ second \in Seq(AndroidBound) /\ Once(second, "released")
        /\ FramesIn(second, "released") = FramesIn(given, "released")
    BY <2>2, <2>5, BatchOfOthers
  <2>8. toAndroid' = second \o registrations
    BY <2>6
  <2> HIDE DEF second
  <2>9. /\ Once(toAndroid, "released")'
        /\ FramesIn(toAndroid', "released") = FramesIn(given, "released")
    BY SMTT(60), <2>2, <2>7, <2>8, BatchOfOthers
  <2> QED  BY SMTT(60), <1>5, <2>1, <2>3, <2>9 DEF Returned
<1>7. CASE RefreshConfigure
  <2>1. Configure(Latest) \in AndroidBound /\ Configure(Latest).type # "released"
    BY SMTT(60), Constructors, PoolAssumption DEF Typed, TypeOK, HostTypeOK, Latest, Serials
  <2>2. Returned' = Returned /\ Once(toAndroid, "released")'
    BY SMTT(60), <1>0, <1>7, <2>1, AppendOther DEF RefreshConfigure, Returned, Owned, FrameConservation
  <2> QED  BY SMTT(60), <1>1, <1>2, <1>7, <2>2, Unmoved DEF RefreshConfigure, endpointVars, windowVars
<1>8. CASE FlushQueued
  <2>1. /\ queued # <<>> /\ pending' = pending \cup {queued[1]} /\ queued' = <<>>
        /\ UNCHANGED <<toAndroid, inFlight>>
    BY <1>8 DEF FlushQueued, endpointVars
  <2>2. Range(queued) = {queued[1]}
    <3>1. Len(queued) \in Nat /\ DOMAIN queued = 1 .. Len(queued)
      BY <1>0
    <3>2. Len(queued) # 0
      BY <1>0, <2>1, EmptySeq
    <3>3. Len(queued) = 1
      BY SMTT(60), <1>0, <3>1, <3>2
    <3>4. DOMAIN queued = {1}
      BY <3>1, <3>3
    <3> QED  BY <3>4 DEF Range
  <2>3. Range(queued') = {}
    BY SMTT(60), <2>1 DEF Range
  <2>4. Returned' = Returned /\ Once(toAndroid, "released")'
    BY <2>1 DEF Returned, Owned, FrameConservation
  <2>5. FrameConservation'
    BY SMTT(60), <1>1, <1>2, <2>1, <2>2, <2>3, <2>4 DEF Owned, FrameConservation
  <2>6. BusyIsExact'
    BY SMTT(60), <1>1, <2>3 DEF Owned, BusyIsExact, BuffersOf
  <2> QED  BY <2>5, <2>6 DEF Owned
<1>9. CASE AbortTimeline
  <2>1. toAndroid' = toAndroid \o QueuedReleases
    BY <1>9 DEF AbortTimeline, DropQueued
  <2>2. Returned' = Returned \cup Range(queued) /\ Once(toAndroid, "released")'
    BY <1>4, <2>1 DEF Returned
  <2> QED  BY SMTT(60), <1>5, <1>9, <2>2 DEF AbortTimeline, DropQueued
<1>10. CASE CloseWindow
  <2>1. toAndroid' = toAndroid \o QueuedReleases
    BY <1>10 DEF CloseWindow, DropQueued
  <2>2. Returned' = Returned \cup Range(queued) /\ Once(toAndroid, "released")'
    BY <1>4, <2>1 DEF Returned
  <2> QED  BY <1>5, <1>10, <2>2 DEF CloseWindow, DropQueued
<1>11. CASE \E f \in pending : ReleaseReady(f)
  <2> PICK f \in pending : ReleaseReady(f)
    BY <1>11
  <2> DEFINE gone == Revocable(f)
             revocation == IF gone = {} THEN <<>> ELSE <<Unregister(f.buffer)>>
             given == Append(toAndroid, Released(f))
  <2>1. f \in Frame /\ f.buffer \in Nat /\ f \in inFlight /\ f \notin Returned /\ f \notin Presented
    BY SMTT(60), <1>0 DEF Frame, Owned, FrameConservation
  <2>2. /\ Released(f) \in AndroidBound /\ Released(f).type = "released" /\ Released(f).frame = f
        /\ Unregister(f.buffer) \in AndroidBound /\ Unregister(f.buffer).type # "released"
    BY SMTT(60), <2>1, Constructors
  <2>3. /\ given \in Seq(AndroidBound) /\ Once(given, "released")
        /\ FramesIn(given, "released") = Returned \cup {f}
    BY SMTT(60), <1>0, <2>1, <2>2, AppendFrame DEF Returned, Owned, FrameConservation
  <2>4. /\ revocation \in Seq(AndroidBound)
        /\ FramesIn(revocation, "released") = {} /\ Once(revocation, "released")
    <3>1. \A i \in DOMAIN revocation : revocation[i].type # "released"
      BY <2>2
    <3>2. revocation \in Seq(AndroidBound)
      BY <2>2
    <3> QED  BY SMTT(60), <3>1, <3>2, BatchWithoutFrames
  <2>5. toAndroid' = given \o revocation
    <3>1. toAndroid' = toAndroid \o <<Released(f)>> \o revocation
      BY DEF ReleaseReady
    <3>2. toAndroid \o <<Released(f)>> = given
      BY SMTT(60), <1>0, <2>2
    <3> QED  BY SMTT(60), <3>1, <3>2
  <2>6. pending' = pending \ {f} /\ inFlight' = inFlight \ {f} /\ UNCHANGED queued
    BY DEF ReleaseReady
  <2> HIDE DEF given, revocation
  <2>7. Returned' = Returned \cup {f} /\ Once(toAndroid, "released")'
    BY SMTT(60), <2>3, <2>4, <2>5, BatchOfOthers DEF Returned
  <2>8. f \notin Range(queued)
    BY SMTT(60) DEF Owned, BusyIsExact
  <2>9. FrameConservation'
    BY SMTT(60), <1>1, <1>2, <2>1, <2>6, <2>7, <2>8 DEF Owned, FrameConservation
  <2>10. BusyIsExact'
    BY <1>1, <2>6 DEF Owned, BusyIsExact, BuffersOf
  <2> QED  BY <2>9, <2>10 DEF Owned
<1> QED  BY SMTT(60), <1>6, <1>7, <1>8, <1>9, <1>10, <1>11 DEF Compositor

\* Every step keeps each frame in one place and the busy flags exact.
LEMMA OwnedStep == Typed /\ Owned /\ [Next]_vars => Owned'
<1> SUFFICES ASSUME Typed, Owned, [Next]_vars PROVE Owned'
  BY SMTT(60)
<1>1. CASE UNCHANGED vars
  <2>1. UNCHANGED <<busy, flying, inFlight, pending, queued, reserved, toHost, toAndroid>>
    BY <1>1 DEF vars, androidVars, targetVars, frameVars, hostVars, endpointVars, windowVars
  <2> QED  BY SMTT(60), <2>1, Unmoved DEF Presented, Returned, Owned, FrameConservation, BusyIsExact
<1> QED  BY SMTT(60), <1>1, OwnedRenderer, OwnedEventLoop, OwnedDrain, OwnedCompositor DEF Next

-----------------------------------------------------------------------------

\* The two parts of the ownership invariant hold in every reachable state.
LEMMA OwnedAlways == Spec => [](Typed /\ Owned)
  BY TypedInit, TypedStep, OwnedInit, OwnedStep, PTL DEF Spec

\* No frame is ever lost or returned twice, however submissions, resizes,
\* displaced frames, closes and releases interleave.
THEOREM FramesConserved == Spec => []FrameConservation
<1>1. Typed /\ Owned => FrameConservation
  BY DEF Owned
<1> QED  BY <1>1, OwnedAlways, PTL

\* Android's busy flags name exactly the targets with a frame out, one each.
THEOREM BusyFlagsExact == Spec => []BusyIsExact
<1>1. Typed /\ Owned => BusyIsExact
  BY DEF Owned
<1> QED  BY <1>1, OwnedAlways, PTL

\* Both together: no frame is lost, doubled or unaccounted for by the flags.
THEOREM FramesAlwaysOwned == Spec => []FramesOwned
<1>1. FrameConservation /\ BusyIsExact => FramesOwned
  BY SMTT(60) DEF FramesOwned
<1> QED  BY <1>1, FramesConserved, BusyFlagsExact, PTL

\* A renderer never draws into a buffer the host holds or will receive, for
\* any pool length, number of reservations, configures and frames.
THEOREM NoReuseBeforeRelease == Spec => []ReleaseBeforeReuse
<1>1. Typed /\ Owned => ReleaseBeforeReuse
  BY DEF Owned, FrameConservation, BusyIsExact, ReleaseBeforeReuse, HostReads, BuffersOf
<1> QED  BY <1>1, OwnedAlways, PTL

=============================================================================
