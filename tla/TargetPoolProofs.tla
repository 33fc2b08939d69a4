------------------------- MODULE TargetPoolProofs -------------------------
(***************************************************************************)
(* Proofs about TargetPool, for every pool length, every number of         *)
(* configures and frames, and every negotiated mode.                       *)
(***************************************************************************)
EXTENDS TargetPoolProperties, FiniteSetTheorems, SequenceTheorems, TLAPS

-----------------------------------------------------------------------------
(* What sending and receiving do to the frames a channel carries.          *)

\* Sending a message of another type leaves the frames in transit alone.
LEMMA AppendOther ==
    ASSUME NEW S, NEW s \in Seq(S), NEW m \in S, NEW t, m.type # t
    PROVE  /\ FramesIn(Append(s, m), t) = FramesIn(s, t)
           /\ Once(s, t) => Once(Append(s, m), t)
<1>1. Carrying(Append(s, m), t) = Carrying(s, t)
  BY DEF Carrying
<1>2. \A j \in Carrying(s, t) : Append(s, m)[j] = s[j]
  BY DEF Carrying
<1> QED  BY Zenon, <1>1, <1>2 DEF FramesIn, Once

\* Sending a frame adds exactly that frame.
LEMMA AppendFrame ==
    ASSUME NEW S, NEW s \in Seq(S), NEW m \in S, NEW t, m.type = t
    PROVE  /\ FramesIn(Append(s, m), t) = FramesIn(s, t) \cup {m.frame}
           /\ Once(s, t) /\ m.frame \notin FramesIn(s, t) => Once(Append(s, m), t)
<1> DEFINE r == Append(s, m)
           n == Len(s) + 1
<1>1. Carrying(r, t) = Carrying(s, t) \cup {n}
  BY DEF Carrying
<1>2. \A j \in Carrying(s, t) : r[j] = s[j]
  BY DEF Carrying
<1>3. r[n] = m
  OBVIOUS
<1> HIDE DEF r, n
<1>4. FramesIn(r, t) = FramesIn(s, t) \cup {m.frame}
  BY <1>1, <1>2, <1>3 DEF FramesIn
<1>5. \A j \in Carrying(s, t) : s[j].frame \in FramesIn(s, t)
  BY DEF FramesIn
<1>6. ASSUME Once(s, t), m.frame \notin FramesIn(s, t)
      PROVE  Once(r, t)
  BY <1>1, <1>2, <1>3, <1>5, <1>6 DEF Once
<1> QED  BY <1>4, <1>6 DEF r

\* Receiving a message of another type leaves the frames in transit alone.
LEMMA TailOther ==
    ASSUME NEW S, NEW s \in Seq(S), s # <<>>, NEW t, Head(s).type # t
    PROVE  /\ FramesIn(Tail(s), t) = FramesIn(s, t)
           /\ Once(s, t) => Once(Tail(s), t)
<1>1. \A j \in DOMAIN Tail(s) : j + 1 \in DOMAIN s /\ Tail(s)[j] = s[j + 1]
  OBVIOUS
<1>2. \A i \in Carrying(s, t) : i - 1 \in Carrying(Tail(s), t) /\ Tail(s)[i - 1] = s[i]
  <2> SUFFICES ASSUME NEW i \in Carrying(s, t)
               PROVE  i - 1 \in Carrying(Tail(s), t) /\ Tail(s)[i - 1] = s[i]
    BY Zenon
  <2>1. i \in 1 .. Len(s) /\ i # 1
    BY DEF Carrying
  <2>2. i - 1 \in DOMAIN Tail(s)
    BY <2>1
  <2> QED  BY <2>1, <2>2, <1>1 DEF Carrying
<1>3. \A j \in Carrying(Tail(s), t) : j + 1 \in Carrying(s, t)
  BY <1>1 DEF Carrying
<1>4. \A j \in Carrying(Tail(s), t) : j \in Nat
  BY DEF Carrying
<1>5. FramesIn(Tail(s), t) \subseteq FramesIn(s, t)
  BY <1>1, <1>3 DEF FramesIn, Carrying
<1>6. FramesIn(s, t) \subseteq FramesIn(Tail(s), t)
  BY Zenon, <1>2 DEF FramesIn
<1>7. Once(s, t) => Once(Tail(s), t)
  BY <1>1, <1>3, <1>4 DEF Once, Carrying
<1> QED  BY Zenon, <1>5, <1>6, <1>7

\* Receiving a frame removes exactly that frame.
LEMMA TailFrame ==
    ASSUME NEW S, NEW s \in Seq(S), s # <<>>, NEW t, Head(s).type = t, Once(s, t)
    PROVE  /\ Head(s).frame \in FramesIn(s, t)
           /\ FramesIn(Tail(s), t) = FramesIn(s, t) \ {Head(s).frame}
           /\ Once(Tail(s), t)
<1>1. \A j \in DOMAIN Tail(s) : j + 1 \in DOMAIN s /\ Tail(s)[j] = s[j + 1]
  OBVIOUS
<1>2. 1 \in Carrying(s, t) /\ s[1] = Head(s)
  BY DEF Carrying
<1>3. \A i \in Carrying(s, t) \ {1} : i - 1 \in Carrying(Tail(s), t) /\ Tail(s)[i - 1] = s[i]
  <2> SUFFICES ASSUME NEW i \in Carrying(s, t) \ {1}
               PROVE  i - 1 \in Carrying(Tail(s), t) /\ Tail(s)[i - 1] = s[i]
    BY Zenon
  <2>1. i \in 1 .. Len(s) /\ i # 1
    BY DEF Carrying
  <2>2. i - 1 \in DOMAIN Tail(s)
    BY <2>1
  <2> QED  BY <2>1, <2>2, <1>1 DEF Carrying
<1>4. \A j \in Carrying(Tail(s), t) : j \in Nat /\ j + 1 # 1 /\ j + 1 \in Carrying(s, t)
  BY <1>1 DEF Carrying
<1>5. Once(Tail(s), t)
  BY <1>1, <1>4 DEF Once, Carrying
<1>6. \A j \in Carrying(Tail(s), t) : Tail(s)[j].frame # Head(s).frame
  BY <1>1, <1>2, <1>4 DEF Once, Carrying
<1>7. FramesIn(Tail(s), t) \subseteq FramesIn(s, t) \ {Head(s).frame}
  BY <1>1, <1>4, <1>6 DEF FramesIn, Carrying
<1>8. FramesIn(s, t) \ {Head(s).frame} \subseteq FramesIn(Tail(s), t)
  <2> SUFFICES ASSUME NEW i \in Carrying(s, t), s[i].frame # Head(s).frame
               PROVE  s[i].frame \in FramesIn(Tail(s), t)
    BY ZenonT(60) DEF FramesIn
  <2>1. i \in Carrying(s, t) \ {1}
    BY <1>2
  <2> QED  BY Zenon, <2>1, <1>3 DEF FramesIn
<1>9. Head(s).frame \in FramesIn(s, t)
  BY <1>2 DEF FramesIn
<1> QED  BY <1>5, <1>7, <1>8, <1>9

\* Sending a batch adds the frames of the batch.
LEMMA Concatenation ==
    ASSUME NEW S, NEW s \in Seq(S), NEW u \in Seq(S), NEW t
    PROVE  /\ FramesIn(s \o u, t) = FramesIn(s, t) \cup FramesIn(u, t)
           /\ Once(s, t) /\ Once(u, t) /\ FramesIn(s, t) \cap FramesIn(u, t) = {}
                => Once(s \o u, t)
<1> DEFINE n == Len(s)
<1>1. \A j \in DOMAIN s : j \in DOMAIN (s \o u) /\ (s \o u)[j] = s[j]
  OBVIOUS
<1>2. \A j \in DOMAIN u : n + j \in DOMAIN (s \o u) /\ (s \o u)[n + j] = u[j]
  OBVIOUS
<1>3. \A i \in DOMAIN (s \o u) : i \in DOMAIN s \/ (i - n \in DOMAIN u /\ i = n + (i - n))
  OBVIOUS
<1>4. \A j \in Carrying(s, t) : j \in Carrying(s \o u, t)
  BY <1>1 DEF Carrying
<1>5. \A j \in Carrying(u, t) : n + j \in Carrying(s \o u, t)
  BY <1>2 DEF Carrying
<1>6. \A i \in Carrying(s \o u, t) :
        \/ i \in Carrying(s, t) /\ (s \o u)[i] = s[i]
        \/ i - n \in Carrying(u, t) /\ (s \o u)[i] = u[i - n]
  <2> SUFFICES ASSUME NEW i \in Carrying(s \o u, t)
               PROVE  \/ i \in Carrying(s, t) /\ (s \o u)[i] = s[i]
                      \/ i - n \in Carrying(u, t) /\ (s \o u)[i] = u[i - n]
    BY Zenon
  <2>1. i \in DOMAIN (s \o u) /\ (s \o u)[i].type = t
    BY DEF Carrying
  <2>2. CASE i \in DOMAIN s
    BY <2>1, <2>2, <1>1 DEF Carrying
  <2>3. CASE i - n \in DOMAIN u /\ i = n + (i - n)
    BY <2>1, <2>3, <1>2 DEF Carrying
  <2> QED  BY <2>1, <2>2, <2>3, <1>3
<1>7. FramesIn(s \o u, t) \subseteq FramesIn(s, t) \cup FramesIn(u, t)
  BY Zenon, <1>6 DEF FramesIn
<1>8. FramesIn(s, t) \subseteq FramesIn(s \o u, t)
  BY <1>1, <1>4 DEF FramesIn, Carrying
<1>9. FramesIn(u, t) \subseteq FramesIn(s \o u, t)
  BY ZenonT(60), <1>2, <1>5 DEF FramesIn, Carrying
<1>10. ASSUME Once(s, t), Once(u, t), FramesIn(s, t) \cap FramesIn(u, t) = {}
       PROVE  Once(s \o u, t)
  <2> SUFFICES ASSUME NEW i \in Carrying(s \o u, t), NEW j \in Carrying(s \o u, t),
                      (s \o u)[i].frame = (s \o u)[j].frame
               PROVE  i = j
    BY Zenon DEF Once
  <2>1. i \in Int /\ j \in Int /\ n \in Int
    BY DEF Carrying
  <2>2. \A k \in Carrying(s, t) : s[k].frame \in FramesIn(s, t)
    BY DEF FramesIn
  <2>3. \A k \in Carrying(u, t) : u[k].frame \in FramesIn(u, t)
    BY DEF FramesIn
  <2>4. CASE i \in Carrying(s, t) /\ (s \o u)[i] = s[i]
    BY Zenon, <2>2, <2>3, <2>4, <1>6, <1>10 DEF Once
  <2>5. CASE i - n \in Carrying(u, t) /\ (s \o u)[i] = u[i - n]
    <3>1. j - n \in Carrying(u, t) /\ (s \o u)[j] = u[j - n]
      BY Zenon, <2>2, <2>3, <2>5, <1>6, <1>10
    <3>2. i - n = j - n
      BY SMTT(60), <3>1, <2>5, <1>10 DEF Once
    <3> QED  BY <3>2, <2>1
  <2> QED  BY Zenon, <2>4, <2>5, <1>6
<1> QED  BY SMTT(60), <1>7, <1>8, <1>9, <1>10

\* Sending a batch that carries no frame leaves the frames in transit alone.
LEMMA BatchOfOthers ==
    ASSUME NEW S, NEW s \in Seq(S), NEW u \in Seq(S), NEW t,
           FramesIn(u, t) = {}, Once(u, t)
    PROVE  /\ FramesIn(s \o u, t) = FramesIn(s, t)
           /\ Once(s, t) => Once(s \o u, t)
<1> DEFINE r == s \o u
<1>1. /\ FramesIn(r, t) = FramesIn(s, t) \cup FramesIn(u, t)
      /\ Once(s, t) /\ Once(u, t) /\ FramesIn(s, t) \cap FramesIn(u, t) = {} => Once(r, t)
  BY ZenonT(60), Concatenation
<1> HIDE DEF r
<1>2. FramesIn(r, t) = FramesIn(s, t) /\ (Once(s, t) => Once(r, t))
  BY <1>1
<1> QED  BY <1>2 DEF r

-----------------------------------------------------------------------------
(* Types.                                                                  *)

\* Facts a frame or a message gives away by its type.
LEMMA HostMessage ==
    ASSUME NEW m \in HostBound
    PROVE  /\ m.type \in {"ack", "request", "present"}
           /\ m.serial \in Serials
           /\ m.type = "present" => m.frame \in Frame
  BY DEF HostBound

\* The same for messages on their way to Android.
LEMMA AndroidMessage ==
    ASSUME NEW m \in AndroidBound
    PROVE  /\ m.type = "configure" => m.serial \in Serials
           /\ m.type \in {"register", "unregister"} => m.buffer \in Nat
           /\ m.type = "released" => m.frame \in Frame
  BY DEF AndroidBound

\* Each constructor builds a well-formed message of its own type.
LEMMA Constructors ==
    /\ \A s \in Serials : /\ Ack(s) \in HostBound /\ Ack(s).type = "ack"
                          /\ Request(s) \in HostBound /\ Request(s).type = "request"
                          /\ Configure(s) \in AndroidBound /\ Configure(s).type = "configure"
    /\ \A f \in Frame, s \in Serials :
            Present(f, s) \in HostBound /\ Present(f, s).type = "present" /\ Present(f, s).frame = f
    /\ \A b \in Nat : /\ Register(b) \in AndroidBound /\ Register(b).type = "register"
                      /\ Unregister(b) \in AndroidBound /\ Unregister(b).type = "unregister"
    /\ \A f \in Frame :
            Released(f) \in AndroidBound /\ Released(f).type = "released" /\ Released(f).frame = f
  BY DEF Ack, Request, Configure, Present, Register, Unregister, Released, HostBound, AndroidBound

\* Giving the queued frame back sends that frame and no other.
LEMMA QueuedReleasesSend ==
    ASSUME queued \in Seq(Frame), Len(queued) <= 1
    PROVE  /\ QueuedReleases \in Seq(AndroidBound)
           /\ FramesIn(QueuedReleases, "released") = Range(queued)
           /\ Once(QueuedReleases, "released")
<1>1. \A i \in DOMAIN queued : queued[i] \in Frame
  OBVIOUS
<1>2. /\ DOMAIN QueuedReleases = DOMAIN queued
      /\ \A i \in DOMAIN queued : QueuedReleases[i] = Released(queued[i])
  BY DEF QueuedReleases
<1>3. QueuedReleases \in Seq(AndroidBound)
  BY SMTT(60), <1>1, Constructors DEF QueuedReleases
<1>4. \A i \in DOMAIN queued :
        QueuedReleases[i].type = "released" /\ QueuedReleases[i].frame = queued[i]
  BY <1>1, <1>2, Constructors
<1>5. Carrying(QueuedReleases, "released") = DOMAIN queued
  BY Zenon, <1>2, <1>4 DEF Carrying
<1>6. FramesIn(QueuedReleases, "released") = Range(queued)
  BY <1>4, <1>5 DEF FramesIn, Range
<1>7. \A i, j \in DOMAIN queued : i = j
  OBVIOUS
<1>8. Once(QueuedReleases, "released")
  BY <1>5, <1>7 DEF Once
<1> QED  BY <1>3, <1>6, <1>8

\* A batch without release messages sends no frame.
LEMMA BatchWithoutFrames ==
    ASSUME NEW u, \A i \in DOMAIN u : u[i].type # "released"
    PROVE  FramesIn(u, "released") = {} /\ Once(u, "released")
<1>1. Carrying(u, "released") = {}
  BY DEF Carrying
<1> QED  BY <1>1 DEF FramesIn, Once

\* Announcing a new pool sends no frame.
LEMMA RegistrationsSend ==
    ASSUME generation \in Seq(Serials)
    PROVE  /\ Registrations \in Seq(AndroidBound)
           /\ FramesIn(Registrations, "released") = {}
           /\ Once(Registrations, "released")
<1>1. /\ DOMAIN Registrations = 1 .. PoolLength
      /\ \A i \in 1 .. PoolLength : Registrations[i] = Register(Len(generation) + i)
  BY DEF Registrations
<1>2. \A i \in 1 .. PoolLength : Len(generation) + i \in Nat
  BY PoolAssumption
<1>3. \A i \in 1 .. PoolLength : Registrations[i] \in AndroidBound /\ Registrations[i].type = "register"
  BY <1>1, <1>2, Constructors
<1>4. Registrations \in Seq(AndroidBound)
  BY <1>2, Constructors, PoolAssumption DEF Registrations
<1> QED  BY ZenonT(60), <1>1, <1>3, <1>4, BatchWithoutFrames

\* Revoking targets sends no frame.
LEMMA RevocationsSend ==
    ASSUME NEW S \in SUBSET Nat, IsFiniteSet(S), NEW order \in Ascending(S)
    PROVE  LET u == [i \in DOMAIN order |-> Unregister(order[i])] IN
           /\ u \in Seq(AndroidBound)
           /\ FramesIn(u, "released") = {}
           /\ Once(u, "released")
<1> DEFINE u == [i \in DOMAIN order |-> Unregister(order[i])]
<1>1. Cardinality(S) \in Nat
  BY FS_CardinalityType
<1>2. DOMAIN order = 1 .. Cardinality(S) /\ \A i \in DOMAIN order : order[i] \in Nat
  BY ZenonT(60) DEF Ascending
<1>3. \A i \in DOMAIN u : u[i] \in AndroidBound /\ u[i].type = "unregister"
  BY <1>2, Constructors
<1>4. u \in [1 .. Cardinality(S) -> AndroidBound]
  BY <1>2, Constructors
<1> HIDE DEF u
<1>5. u \in Seq(AndroidBound)
  BY <1>1, <1>4
<1>6. FramesIn(u, "released") = {} /\ Once(u, "released")
  BY <1>3, BatchWithoutFrames
<1> QED  BY <1>5, <1>6 DEF u

\* Needed beyond the types: every timeline point belongs to a frame, and the
\* host never holds infinitely many targets.
Counters == nextPoint <= nextFrame /\ IsFiniteSet(targets)

Typed == TypeOK /\ Counters

\* The first state is well typed.
LEMMA TypedInit == Init => Typed
<1> SUFFICES ASSUME Init PROVE Typed
  OBVIOUS
<1>0. ackDue \in BOOLEAN /\ ackSeen \in BOOLEAN /\ mapped \in BOOLEAN
  BY Zenon DEF Init
<1>1. AndroidTypeOK
  BY <1>0, PoolAssumption DEF Init, AndroidTypeOK, Serials
<1>2. SocketTypeOK
  BY DEF Init, SocketTypeOK
<1>3. HostTypeOK
  BY <1>0, PoolAssumption DEF Init, HostTypeOK
<1>4. Counters
  BY FS_EmptySet DEF Init, Counters
<1> QED  BY SMTT(60), <1>1, <1>2, <1>3, <1>4 DEF Typed, TypeOK

\* A step of Android's leaves the host's state alone.
LEMMA HostUntouched ==
    ASSUME HostTypeOK, Counters, UNCHANGED hostVars
    PROVE  HostTypeOK' /\ IsFiniteSet(targets')
  BY DEF HostTypeOK, Counters, hostVars, endpointVars, poolVars, windowVars

\* The renderer's steps keep the types.
LEMMA TypedRenderer ==
    ASSUME Typed, Renderer
    PROVE  Typed'
<1>1. UNCHANGED hostVars /\ UNCHANGED toAndroid
  BY Zenon DEF Renderer, RequestTargets, AcquireTarget, CancelTarget, SubmitTarget, SubmitRejected,
         SubmitFenceFailed
<1>2. HostTypeOK' /\ IsFiniteSet(targets')
  BY <1>1, HostUntouched DEF Typed, TypeOK
<1> SUFFICES AndroidTypeOK' /\ nextPoint' <= nextFrame' /\ toHost' \in Seq(HostBound)
  BY SMTT(60), <1>1, <1>2 DEF Typed, TypeOK, SocketTypeOK, Counters
<1> USE DEF Typed, TypeOK, AndroidTypeOK, SocketTypeOK, Counters, targetVars, frameVars
<1>3. CASE RequestTargets
  BY <1>3, Constructors DEF RequestTargets
<1>4. CASE AcquireTarget
  BY <1>4 DEF AcquireTarget, Idle, Pool
<1>5. CASE CancelTarget
  BY <1>5 DEF CancelTarget, Unreserve
<1>6. CASE SubmitTarget
  <2> PICK b \in reserved :
        LET f == [id |-> nextFrame + 1, buffer |-> b, point |-> nextPoint + 1] IN
        /\ MaySubmit
        /\ nextFrame' = f.id
        /\ nextPoint' = f.point
        /\ flying' = flying \cup {f}
        /\ toHost' = Append(toHost, Present(f, demand))
        /\ reserved' = reserved \ {b}
        /\ busy' = busy \cup {b}
        /\ UNCHANGED <<demand, ackDue, requested, cache, revoked>>
    BY <1>6 DEF SubmitTarget
  <2> DEFINE f == [id |-> nextFrame + 1, buffer |-> b, point |-> nextPoint + 1]
  <2>1. nextFrame + 1 \in 1 .. MaxFrames /\ nextPoint + 1 \in 1 .. MaxFrames
    BY PoolAssumption DEF MaySubmit
  <2>2. f \in Frame
    BY SMTT(60), <2>1 DEF Frame
  <2>3. Present(f, demand) \in HostBound
    BY SMTT(60), <2>2, Constructors
  <2>4. toHost' \in Seq(HostBound)
    BY <2>3
  <2>5. nextFrame' = nextFrame + 1 /\ nextPoint' = nextPoint + 1 /\ flying' \subseteq Frame
    BY <2>2
  <2>6. b \in Nat
    OBVIOUS
  <2> QED  BY SMTT(60), <2>1, <2>4, <2>5, <2>6
<1>7. CASE SubmitRejected
  BY SMTT(60), <1>7, PoolAssumption DEF SubmitRejected, MaySubmit, Unreserve
<1>8. CASE SubmitFenceFailed
  BY SMTT(60), <1>8, PoolAssumption DEF SubmitFenceFailed, MaySubmit, Unreserve
<1> QED  BY SMTT(60), <1>3, <1>4, <1>5, <1>6, <1>7, <1>8 DEF Renderer

\* So do the steps of Android's event loop.
LEMMA TypedEventLoop ==
    ASSUME Typed, EventLoop
    PROVE  Typed'
<1>0. UNCHANGED hostVars
  BY DEF EventLoop, ApplyConfigure, AcknowledgeConfigure, RegisterTarget, UnregisterTarget,
         ReleaseTarget
<1> SUFFICES AndroidTypeOK' /\ SocketTypeOK' /\ nextPoint' <= nextFrame'
  BY <1>0, HostUntouched DEF Typed, TypeOK, Counters
<1> USE DEF Typed, TypeOK, AndroidTypeOK, SocketTypeOK, Counters, targetVars, frameVars
<1>1. ASSUME NEW t, AndroidReceives(t)
      PROVE  /\ toAndroid' \in Seq(AndroidBound)
             /\ Head(toAndroid) \in AndroidBound /\ Head(toAndroid).type = t
  BY <1>1 DEF AndroidReceives
<1>2. CASE ApplyConfigure
  <2>1. Head(toAndroid).serial \in Serials
    BY SMTT(60), <1>1, <1>2, AndroidMessage DEF ApplyConfigure
  <2> QED  BY SMTT(60), <1>1, <1>2, <2>1, PoolAssumption DEF ApplyConfigure, Serials
<1>3. CASE AcknowledgeConfigure
  <2>1. ackDue' \in BOOLEAN
    BY <1>3, Zenon DEF AcknowledgeConfigure
  <2> QED  BY <1>3, <2>1, Constructors DEF AcknowledgeConfigure
<1>4. CASE RegisterTarget
  <2>1. Head(toAndroid).buffer \in Nat
    BY <1>1, <1>4, AndroidMessage DEF RegisterTarget
  <2> QED  BY Zenon, <1>1, <1>4, <2>1 DEF RegisterTarget
<1>5. CASE UnregisterTarget
  <2>1. Head(toAndroid).buffer \in Nat
    BY <1>1, <1>5, AndroidMessage DEF UnregisterTarget
  <2> QED  BY Zenon, <1>1, <1>5, <2>1 DEF UnregisterTarget
<1>6. CASE ReleaseTarget
  BY ZenonT(60), <1>1, <1>6 DEF ReleaseTarget
<1> QED  BY SMTT(60), <1>2, <1>3, <1>4, <1>5, <1>6 DEF EventLoop

\* A step of the host's leaves Android's state alone.
LEMMA AndroidUntouched ==
    ASSUME AndroidTypeOK, Counters, UNCHANGED androidVars
    PROVE  AndroidTypeOK' /\ nextPoint' <= nextFrame'
  BY DEF AndroidTypeOK, Counters, androidVars, targetVars, frameVars

\* A new pool has finitely many identities and a legal generation.
LEMMA AllocateTyped ==
    ASSUME generation \in Seq(Serials), NEW s \in Serials,
           NEW published \in SUBSET Nat, IsFiniteSet(published), Allocate(s, published)
    PROVE  generation' \in Seq(Serials) /\ targets' \subseteq Nat /\ IsFiniteSet(targets')
<1>1. [i \in 1 .. PoolLength |-> s] \in Seq(Serials)
  BY PoolAssumption
<1>2. NewPool \subseteq Nat /\ Len(generation) + 1 \in Int /\ Len(generation) + PoolLength \in Int
  BY PoolAssumption DEF NewPool
<1>3. IsFiniteSet(NewPool)
  BY <1>2, FS_Interval DEF NewPool
<1>4. IsFiniteSet(published \cup NewPool)
  BY Zenon, <1>3, FS_Union
<1> QED  BY <1>1, <1>2, <1>4 DEF Allocate

\* Receiving a message keeps both channels well formed.
LEMMA HostReceivesTyped ==
    ASSUME SocketTypeOK, NEW t, HostReceives(t)
    PROVE  /\ toHost' \in Seq(HostBound)
           /\ Head(toHost) \in HostBound /\ Head(toHost).type = t
           /\ Head(toHost).serial \in Serials
           /\ t = "present" => /\ Head(toHost).frame \in Frame
                              /\ Head(toHost).frame.point \in 0 .. MaxFrames
<1>1. toHost' \in Seq(HostBound) /\ Head(toHost) \in HostBound /\ Head(toHost).type = t
  BY DEF HostReceives, SocketTypeOK
<1>2. Head(toHost).serial \in Serials /\ (t = "present" => Head(toHost).frame \in Frame)
  BY <1>1, HostMessage
<1>3. \A f \in Frame : f.point \in 0 .. MaxFrames
  BY SMTT(60), PoolAssumption DEF Frame
<1> QED  BY <1>1, <1>2, <1>3

\* The endpoint's steps keep the types.
LEMMA TypedDrain ==
    ASSUME Typed, DrainEndpoint
    PROVE  Typed'
<1>0. UNCHANGED androidVars
  BY ZenonT(60) DEF DrainEndpoint, ReceiveAck, ReceiveRequest, DiscardSuperseded, DiscardUnmapped,
         CommitPresent, QueuePresent
<1> SUFFICES SocketTypeOK' /\ HostTypeOK' /\ IsFiniteSet(targets')
  BY <1>0, AndroidUntouched DEF Typed, TypeOK, Counters
<1> USE DEF Typed, TypeOK, SocketTypeOK, HostTypeOK, Counters, endpointVars, poolVars, windowVars
<1>1. CASE ReceiveAck
  <2>1. ackSeen' \in BOOLEAN
    BY <1>1, Zenon DEF ReceiveAck
  <2> QED  BY ZenonT(60), <1>1, <2>1, HostReceivesTyped DEF ReceiveAck
<1>2. CASE ReceiveRequest
  <2>1. HostReceives("request")
    BY SMTT(60), <1>2 DEF ReceiveRequest
  <2>2. CASE PoolWanted(Head(toHost).serial)
    <3>1. generation' \in Seq(Serials) /\ targets' \subseteq Nat /\ IsFiniteSet(targets')
      BY SMTT(60), <1>2, <2>1, <2>2, HostReceivesTyped, AllocateTyped DEF ReceiveRequest
    <3>2. toAndroid' \in Seq(AndroidBound)
      <4>1. toAndroid' = toAndroid \o Registrations
        BY <1>2, <2>2 DEF ReceiveRequest
      <4>2. Registrations \in Seq(AndroidBound)
        BY SMTT(60), RegistrationsSend
      <4> QED  BY SMTT(60), <4>1, <4>2
    <3> QED  BY SMTT(60), <1>2, <2>1, <3>1, <3>2, HostReceivesTyped DEF ReceiveRequest
  <2>3. CASE ~PoolWanted(Head(toHost).serial)
    BY SMTT(60), <1>2, <2>1, <2>3, HostReceivesTyped DEF ReceiveRequest
  <2> QED  BY ZenonT(60), <2>2, <2>3
<1>3. CASE DiscardSuperseded
  <2> DEFINE f == Head(toHost).frame
  <2>1. toHost' \in Seq(HostBound) /\ f \in Frame /\ f.point \in 0 .. MaxFrames
    BY <1>3, HostReceivesTyped DEF DiscardSuperseded
  <2>2. /\ lastPoint' = f.point /\ toAndroid' = Append(toAndroid, Released(f))
        /\ UNCHANGED <<sizes, ackSeen, inFlight, generation, targets, retired,
                       queued, pending, mapped, refreshes>>
    BY SMTT(60), <1>3 DEF DiscardSuperseded
  <2> HIDE DEF f
  <2>3. toAndroid' \in Seq(AndroidBound)
    BY SMTT(60), <2>1, <2>2, Constructors
  <2> QED  BY SMTT(60), <2>1, <2>2, <2>3
<1>4. CASE DiscardUnmapped
  <2> DEFINE f == Head(toHost).frame
  <2>1. toHost' \in Seq(HostBound) /\ f \in Frame /\ f.point \in 0 .. MaxFrames
    BY <1>4, HostReceivesTyped DEF DiscardUnmapped
  <2>2. /\ lastPoint' = f.point /\ toAndroid' = Append(toAndroid, Released(f))
        /\ UNCHANGED <<sizes, ackSeen, inFlight, generation, targets, retired,
                       queued, pending, mapped, refreshes>>
    BY SMTT(60), <1>4 DEF DiscardUnmapped
  <2> HIDE DEF f
  <2>3. toAndroid' \in Seq(AndroidBound)
    BY <2>1, <2>2, Constructors
  <2> QED  BY <2>1, <2>2, <2>3
<1>5. CASE CommitPresent
  BY SMTT(60), <1>5, HostReceivesTyped DEF CommitPresent
<1>6. CASE QueuePresent
  <2>1. toAndroid' \in Seq(AndroidBound)
    BY <1>6, QueuedReleasesSend DEF QueuePresent
  <2> QED  BY SMTT(60), <1>6, <2>1, HostReceivesTyped DEF QueuePresent
<1> QED  BY SMTT(60), <1>1, <1>2, <1>3, <1>4, <1>5, <1>6 DEF DrainEndpoint

\* The messages of a geometry change are well formed.
LEMMA ConfigureMessages ==
    ASSUME Typed, NEW order \in Ascending(targets \ BuffersOf(pending)), Latest < MaxSerial
    PROVE  LET revocations == [i \in DOMAIN order |-> Unregister(order[i])]
               registrations == IF Lazy THEN <<>> ELSE Registrations IN
           /\ revocations \in Seq(AndroidBound) /\ registrations \in Seq(AndroidBound)
           /\ QueuedReleases \in Seq(AndroidBound)
           /\ <<Configure(Latest + 1)>> \in Seq(AndroidBound)
           /\ FramesIn(revocations, "released") = {} /\ Once(revocations, "released")
           /\ FramesIn(registrations, "released") = {} /\ Once(registrations, "released")
           /\ FramesIn(<<Configure(Latest + 1)>>, "released") = {}
           /\ Once(<<Configure(Latest + 1)>>, "released")
<1> USE DEF Typed, TypeOK, HostTypeOK, Counters
<1> DEFINE idle == targets \ BuffersOf(pending)
<1>1. idle \in SUBSET Nat /\ IsFiniteSet(idle)
  BY Zenon, FS_Subset
<1>2. Latest + 1 \in Serials
  BY PoolAssumption DEF Latest, Serials
<1>3. Configure(Latest + 1) \in AndroidBound /\ Configure(Latest + 1).type # "released"
  BY <1>2, Constructors
<1>4. <<Configure(Latest + 1)>> \in Seq(AndroidBound)
  BY <1>3
<1>5. FramesIn(<<Configure(Latest + 1)>>, "released") = {} /\ Once(<<Configure(Latest + 1)>>, "released")
  BY <1>3, BatchWithoutFrames
<1>6. FramesIn(<<>>, "released") = {} /\ Once(<<>>, "released") /\ <<>> \in Seq(AndroidBound)
  BY BatchWithoutFrames
<1>7. QueuedReleases \in Seq(AndroidBound)
  BY QueuedReleasesSend
<1>8. /\ Registrations \in Seq(AndroidBound)
      /\ FramesIn(Registrations, "released") = {} /\ Once(Registrations, "released")
  BY RegistrationsSend
<1>9. LET revocations == [i \in DOMAIN order |-> Unregister(order[i])] IN
      /\ revocations \in Seq(AndroidBound)
      /\ FramesIn(revocations, "released") = {} /\ Once(revocations, "released")
  BY <1>1, RevocationsSend
<1> QED  BY <1>4, <1>5, <1>6, <1>7, <1>8, <1>9, Zenon

\* The presenter's steps keep the types.
LEMMA TypedCompositor ==
    ASSUME Typed, Compositor
    PROVE  Typed'
<1>0. UNCHANGED androidVars
  BY Zenon DEF Compositor, ConfigureTask, RefreshConfigure, FlushQueued, AbortTimeline, CloseWindow,
         ReleaseReady
<1> SUFFICES SocketTypeOK' /\ HostTypeOK' /\ IsFiniteSet(targets')
  BY <1>0, AndroidUntouched DEF Typed, TypeOK, Counters
<1> USE DEF Typed, TypeOK, SocketTypeOK, HostTypeOK, Counters, endpointVars, poolVars, windowVars
<1>1. CASE ConfigureTask
  <2> DEFINE idle == targets \ BuffersOf(pending)
             registrations == IF Lazy THEN <<>> ELSE Registrations
  <2>1. PICK size \in Sizes, order \in Ascending(idle) :
        /\ mapped /\ Latest < MaxSerial
        /\ sizes' = Append(sizes, size)
        /\ ackSeen' = FALSE
        /\ inFlight' = inFlight \ Range(queued)
        /\ queued' = <<>>
        /\ retired' = targets \ idle
        /\ IF Lazy
           THEN targets' = targets \ idle /\ UNCHANGED generation
           ELSE Allocate(Latest + 1, targets \ idle)
        /\ toAndroid' = toAndroid \o QueuedReleases
                            \o [i \in DOMAIN order |-> Unregister(order[i])]
                            \o <<Configure(Latest + 1)>>
                            \o registrations
        /\ UNCHANGED <<androidVars, toHost, lastPoint, pending, mapped, refreshes>>
    BY Zenon, <1>1 DEF ConfigureTask
  <2> HIDE DEF registrations
  <2>2. toAndroid' \in Seq(AndroidBound)
    <3> DEFINE revocations == [i \in DOMAIN order |-> Unregister(order[i])]
    <3>1. /\ revocations \in Seq(AndroidBound) /\ registrations \in Seq(AndroidBound)
          /\ QueuedReleases \in Seq(AndroidBound)
          /\ <<Configure(Latest + 1)>> \in Seq(AndroidBound)
      BY Zenon, <2>1, ConfigureMessages DEF registrations
    <3> HIDE DEF revocations
    <3>2. toAndroid' = toAndroid \o QueuedReleases \o revocations \o <<Configure(Latest + 1)>>
                          \o registrations
      BY <2>1 DEF revocations
    <3> QED  BY <3>1, <3>2
  <2>3. Latest + 1 \in Serials
    BY <2>1, PoolAssumption DEF Latest, Serials
  <2>4. IsFiniteSet(targets \ idle) /\ targets \ idle \in SUBSET Nat
    BY Zenon, FS_Subset
  <2>5. generation' \in Seq(Serials) /\ targets' \subseteq Nat /\ IsFiniteSet(targets')
    BY ZenonT(60), <2>1, <2>3, <2>4, AllocateTyped
  <2>6. sizes' \in Seq(Sizes) /\ Len(sizes') <= MaxSerial
    BY <2>1, PoolAssumption DEF Latest
  <2>7. ackSeen' \in BOOLEAN
    BY <2>1, Zenon
  <2>8. queued' \in Seq(Frame) /\ Len(queued') <= 1
    BY <2>1
  <2> QED  BY Zenon, <2>1, <2>2, <2>5, <2>6, <2>7, <2>8
<1>2. CASE RefreshConfigure
  <2>1. Latest \in Serials
    BY SMTT(60), PoolAssumption DEF Latest, Serials
  <2>2. toAndroid' \in Seq(AndroidBound)
    BY SMTT(60), <1>2, <2>1, Constructors DEF RefreshConfigure
  <2> QED  BY <1>2, <2>2, PoolAssumption DEF RefreshConfigure
<1>3. CASE FlushQueued
  <2>1. queued[1] \in Frame /\ queued' = <<>>
    BY <1>3 DEF FlushQueued
  <2> QED  BY <1>3, <2>1 DEF FlushQueued
<1>4. CASE AbortTimeline
  <2>1. toAndroid' \in Seq(AndroidBound)
    BY SMTT(60), <1>4, QueuedReleasesSend DEF AbortTimeline, DropQueued
  <2> QED  BY SMTT(60), <1>4, <2>1 DEF AbortTimeline, DropQueued
<1>5. CASE CloseWindow
  <2>1. toAndroid' \in Seq(AndroidBound)
    BY <1>5, QueuedReleasesSend DEF CloseWindow, DropQueued
  <2>2. mapped' \in BOOLEAN
    BY <1>5, Zenon DEF CloseWindow
  <2> QED  BY SMTT(60), <1>5, <2>1, <2>2 DEF CloseWindow, DropQueued
<1>6. CASE \E f \in pending : ReleaseReady(f)
  <2> PICK f \in pending : ReleaseReady(f)
    BY <1>6
  <2>1. f \in Frame /\ f.buffer \in Nat
    BY SMTT(60) DEF Frame
  <2>2. Released(f) \in AndroidBound /\ Unregister(f.buffer) \in AndroidBound
    BY SMTT(60), <2>1, Constructors
  <2>3. toAndroid' \in Seq(AndroidBound)
    BY <2>2 DEF ReleaseReady
  <2>4. IsFiniteSet(targets')
    BY FS_Subset DEF ReleaseReady
  <2> QED  BY Zenon, <2>3, <2>4 DEF ReleaseReady
<1> QED  BY Zenon, <1>1, <1>2, <1>3, <1>4, <1>5, <1>6 DEF Compositor

\* Every step keeps the types.
LEMMA TypedStep == Typed /\ [Next]_vars => Typed'
<1> SUFFICES ASSUME Typed, [Next]_vars PROVE Typed'
  OBVIOUS
<1>1. CASE UNCHANGED vars
  BY SMTT(60), <1>1 DEF Typed, TypeOK, AndroidTypeOK, SocketTypeOK, HostTypeOK, Counters, vars, androidVars,
              targetVars, frameVars, hostVars, endpointVars, poolVars, windowVars
<1> QED  BY <1>1, TypedRenderer, TypedEventLoop, TypedDrain, TypedCompositor DEF Next

\* Type correctness for every value of the constants.
THEOREM TypeCorrect == Spec => []TypeOK
<1>1. Typed => TypeOK
  BY DEF Typed
<1> QED  BY <1>1, TypedInit, TypedStep, PTL DEF Spec

=============================================================================
