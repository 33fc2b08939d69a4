------------------------------ MODULE AudioStream ------------------------------
(***************************************************************************)
(* One audio stream: the Android client (android/audio/droidloom-audio-    *)
(* client), the host broker's connection thread (runtime/droidloom-audio/  *)
(* src/lib.rs) and its PipeWire stream (src/pipewire.c), whose callbacks   *)
(* run on the loop thread whenever the broker does not hold the loop lock. *)
(* Samples live in a pool of shared buffers; one credit at a time lets the *)
(* client write (playback) or read (capture) a region of one of them.      *)
(***************************************************************************)
EXTENDS Integers, Sequences, FiniteSets, SequencesExt

CONSTANTS Slots,      \* the shared sample buffers (POOL)
          Capacity,   \* frames that one of them holds
          Periods,    \* graph periods that session policy may choose
          MaxFrames,  \* bound: frames submitted, or captured
          MaxChanges  \* bound: renegotiations of the graph

VARIABLES p,       \* struct dl_pw
          graph,   \* PipeWire: its queues, its clock, what was really played
          server,  \* serve_connection: the credit it granted and its state
          client,  \* Client: the region it holds and the positions it saw
          wire,    \* the request or the reply in flight
          changes

vars == <<p, graph, server, client, wire, changes>>

Playback == 1
Capture == 2
NoRegion == [slot |-> 0, frames |-> 0]
Quiet == [op |-> "none"]

Init ==
  /\ \E d \in {Playback, Capture} :
       p = [direction |-> d, attached |-> Slots, buffer |-> 0, filled |-> 0, target |-> 0,
            left |-> 0, borrowed |-> FALSE, invalidated |-> FALSE, slot |-> 0,
            renegotiating |-> FALSE, submitted |-> 0, captured |-> 0, presented |-> 0,
            dropped |-> 0, error |-> FALSE]
  /\ \E n \in Periods : graph = [free |-> Slots, queue |-> <<>>, delay |-> 0, size |-> n,
                                 active |-> FALSE, heard |-> 0]
  /\ server = [open |-> TRUE, held |-> NoRegion, active |-> FALSE]
  /\ client = [open |-> TRUE, region |-> NoRegion, seen |-> 0]
  /\ wire = Quiet
  /\ changes = 0

Greatest(a, b) == IF a > b THEN a ELSE b
Least(a, b) == IF a < b THEN a ELSE b

Frames(q) == FoldLeft(LAMBDA n, b : n + b.frames, 0, q)
Queued == Frames(graph.queue)

(* ---- the client: one exchange at a time --------------------------------*)

Asks(request) ==
  /\ client.open /\ wire = Quiet
  /\ wire' = request
  /\ UNCHANGED <<p, graph, server, client, changes>>

AskAcquire(n) == client.region.slot = 0 /\ Asks([op |-> "acquire", frames |-> n])
AskSubmit(n) ==
  /\ client.region.slot # 0 /\ n <= client.region.frames
  /\ Asks([op |-> "submit", slot |-> client.region.slot, frames |-> n])
AskControl(c) == client.region.slot = 0 /\ Asks([op |-> "control", command |-> c])
AskPosition == Asks([op |-> "status"])

(* Replies echo the request; a reply to a buffer operation also carries a  *)
(* position, which position() may hand out again for a short while.        *)
TakesReply ==
  /\ client.open /\ wire.op = "reply"
  /\ client' = [client EXCEPT !.region = wire.region, !.seen = wire.position]
  /\ wire' = Quiet
  /\ UNCHANGED <<p, graph, server, changes>>

TakesError ==
  /\ client.open /\ wire.op = "error"
  /\ client' = [client EXCEPT !.open = FALSE, !.region = NoRegion]
  /\ wire' = Quiet
  /\ UNCHANGED <<p, graph, server, changes>>

(* The client closes, or dies with a credit in its hands.                  *)
ClientCloses ==
  /\ client.open
  /\ client' = [client EXCEPT !.open = FALSE, !.region = NoRegion]
  /\ wire' = Quiet
  /\ UNCHANGED <<p, graph, server, changes>>

(* ---- positions ---------------------------------------------------------*)

(* dl_pw_position: what was submitted and not dropped, less what waits in  *)
(* the queue, in the device or in the buffer being filled.                 *)
Eligible(q) == q.submitted - q.dropped
Pending(q, g) == Frames(g.queue) + q.filled + g.delay
Position(q, g) ==
  IF q.direction = Capture THEN q.captured
  ELSE IF ~g.active THEN q.presented
  ELSE Greatest(q.presented, IF Eligible(q) > Pending(q, g) THEN Eligible(q) - Pending(q, g) ELSE 0)

Replies(q, g, region) ==
  /\ p' = [q EXCEPT !.presented = Position(q, g)]
  /\ graph' = g
  /\ wire' = [op |-> "reply", region |-> region, position |-> Position(q, g)]

(* error_reply, and the connection ends: the stream is destroyed.          *)
Refuses ==
  /\ server' = [server EXCEPT !.open = FALSE, !.held = NoRegion]
  /\ wire' = [op |-> "error"]
  /\ UNCHANGED <<p, graph>>

(* ---- the broker --------------------------------------------------------*)

(* dl_pw_acquire, playback: the buffer being filled goes on; otherwise a   *)
(* free one is taken, unless a whole period already waits.                 *)
Room(n) == Queued <= Greatest(graph.size, n)

AcquirePlayback(n) ==
  /\ p.direction = Playback
  /\ \E s \in IF p.buffer # 0 THEN {p.buffer} ELSE IF Room(n) THEN graph.free ELSE {} :
       LET target == IF p.buffer # 0 THEN p.target
                     ELSE Least(Capacity, Greatest(n, graph.size))
           q == [p EXCEPT !.buffer = s, !.target = target, !.borrowed = TRUE,
                          !.invalidated = FALSE, !.slot = s]
           region == [slot |-> s, frames |-> Least(n, target - p.filled)]
       IN /\ Replies(q, [graph EXCEPT !.free = @ \ {s}], region)
          /\ server' = [server EXCEPT !.held = region]

(* Capture: the buffer being read goes on; otherwise the next one that the *)
(* graph filled.                                                           *)
AcquireCapture(n) ==
  /\ p.direction = Capture
  /\ p.buffer # 0 \/ graph.queue # <<>>
  /\ LET next == p.buffer = 0
         s == IF next THEN Head(graph.queue).slot ELSE p.buffer
         left == IF next THEN Head(graph.queue).frames ELSE p.left
         region == [slot |-> s, frames |-> Least(n, left)]
     IN /\ Replies([p EXCEPT !.buffer = s, !.left = left],
                   IF next THEN [graph EXCEPT !.queue = Tail(@)] ELSE graph, region)
        /\ server' = [server EXCEPT !.held = region]

Acquire ==
  /\ server.open /\ wire.op = "acquire"
  /\ IF ~server.active \/ server.held.slot # 0 \/ p.error THEN Refuses
     ELSE AcquirePlayback(wire.frames) \/ AcquireCapture(wire.frames)
  /\ UNCHANGED <<client, changes>>

(* No buffer for half a second.                                            *)
AcquireTimesOut ==
  /\ server.open /\ wire.op = "acquire"
  /\ Refuses
  /\ UNCHANGED <<client, changes>>

(* queue_playback: the filled buffer is handed to the graph; an empty one  *)
(* is given back.                                                          *)
QueuePlayback(q, g) ==
  IF q.buffer = 0 THEN g
  ELSE IF q.filled > 0 THEN [g EXCEPT !.queue = Append(@, [slot |-> q.buffer, frames |-> q.filled])]
  ELSE [g EXCEPT !.free = @ \cup {q.buffer}]
Emptied(q) == [q EXCEPT !.buffer = 0, !.filled = 0, !.target = 0]

(* dl_pw_submit.  A credit that a renegotiation invalidated is discarded.  *)
\* Mutant: an invalidated credit is queued like any other.
SubmitAnyCredit(n) ==
  LET q == [p EXCEPT !.borrowed = FALSE, !.submitted = @ + n, !.filled = @ + n]
  IN IF q.filled >= q.target THEN Replies(Emptied(q), QueuePlayback(q, graph), NoRegion)
                            ELSE Replies(q, graph, NoRegion)

SubmitPlayback(n) ==
  IF p.invalidated
  THEN Replies([p EXCEPT !.submitted = @ + n, !.dropped = @ + n, !.borrowed = FALSE,
                         !.invalidated = FALSE], graph, NoRegion)
  ELSE LET q == [p EXCEPT !.borrowed = FALSE, !.submitted = @ + n, !.filled = @ + n]
       IN IF q.filled = q.target THEN Replies(Emptied(q), QueuePlayback(q, graph), NoRegion)
                                 ELSE Replies(q, graph, NoRegion)

SubmitCapture(n) ==
  LET q == [p EXCEPT !.captured = @ + n, !.left = @ - n]
  IN IF q.left = 0
     THEN Replies([q EXCEPT !.buffer = 0], [graph EXCEPT !.free = @ \cup {p.buffer}], NoRegion)
     ELSE Replies(q, graph, NoRegion)

Submit ==
  /\ server.open /\ wire.op = "submit"
  /\ IF \/ wire.slot # server.held.slot \/ wire.frames > server.held.frames \/ p.error
        \/ p.direction = Playback /\ (~p.borrowed \/ wire.slot # p.slot)
        \/ p.direction = Playback /\ ~p.invalidated /\ wire.slot # p.buffer
     THEN Refuses
     ELSE /\ IF p.direction = Playback THEN SubmitPlayback(wire.frames)
                                       ELSE SubmitCapture(wire.frames)
          /\ server' = [server EXCEPT !.held = NoRegion]
  /\ UNCHANGED <<client, changes>>

(* dl_pw_control, flush and standby: the queue and the buffer being filled *)
(* are discarded and counted, at most what was not presented yet.          *)
Discard(q, g) ==
  LET remaining == q.submitted - q.dropped - q.presented
      waiting == Frames(g.queue) + q.filled
  IN IF q.direction = Playback THEN [Emptied(q) EXCEPT !.dropped = @ + Least(waiting, remaining)]
                               ELSE [q EXCEPT !.buffer = 0, !.left = 0]

Flushed(q, g) ==
  [g EXCEPT !.queue = <<>>, !.free = @ \cup ({q.buffer} \ {0}) \cup {b.slot : b \in ToSet(g.queue)}]

(* START, PAUSE, FLUSH, STANDBY.                                           *)
Control ==
  /\ server.open /\ wire.op = "control" /\ wire.command # "drain"
  /\ LET c == wire.command
         drop == c \in {"flush", "standby"}
         runs == IF c = "start" THEN TRUE ELSE IF c \in {"pause", "standby"} THEN FALSE
                 ELSE server.active
     IN IF server.held.slot # 0 \/ p.error THEN Refuses
        ELSE /\ p' = IF drop THEN Discard(p, graph) ELSE p
             /\ graph' = [IF drop THEN Flushed(p, graph) ELSE graph EXCEPT !.active = runs]
             /\ server' = [server EXCEPT !.active = runs]
             /\ wire' = [op |-> "reply", region |-> NoRegion, position |-> client.seen]
  /\ UNCHANGED <<client, changes>>

(* DRAIN: a partial buffer is queued, then the broker waits for the graph  *)
(* to play everything; capture does not drain.                             *)
DrainBegins ==
  /\ server.open /\ wire.op = "control" /\ wire.command = "drain"
  /\ IF server.held.slot # 0 \/ p.error \/ p.direction = Capture THEN Refuses
     ELSE /\ p' = Emptied(p) /\ graph' = QueuePlayback(p, graph)
          /\ wire' = [op |-> "draining"]
          /\ UNCHANGED server
  /\ UNCHANGED <<client, changes>>

Drained ==
  /\ server.open /\ wire.op = "draining"
  /\ IF p.error THEN Refuses
     ELSE /\ graph.queue = <<>>
          /\ wire' = [op |-> "reply", region |-> NoRegion, position |-> client.seen]
          /\ UNCHANGED <<p, graph, server>>
  /\ UNCHANGED <<client, changes>>

DrainTimesOut ==
  /\ server.open /\ wire.op = "draining"
  /\ Refuses
  /\ UNCHANGED <<client, changes>>

Status ==
  /\ server.open /\ wire.op = "status"
  /\ IF p.error THEN Refuses
     ELSE /\ Replies(p, graph, client.region)
          /\ UNCHANGED server
  /\ UNCHANGED <<client, changes>>

(* The peer is gone: the stream is destroyed before its buffers.           *)
ServerEnds ==
  /\ server.open /\ ~client.open
  /\ server' = [server EXCEPT !.open = FALSE, !.held = NoRegion]
  /\ UNCHANGED <<p, graph, client, wire, changes>>

(* ---- PipeWire's loop and graph ----------------------------------------*)

(* The graph plays a queued buffer into the device, which plays it later.  *)
Consumes ==
  /\ server.open /\ p.direction = Playback /\ graph.active /\ graph.queue # <<>>
  /\ graph' = [graph EXCEPT !.queue = Tail(@), !.free = @ \cup {Head(graph.queue).slot},
                            !.delay = @ + Head(graph.queue).frames]
  /\ UNCHANGED <<p, server, client, wire, changes>>

Plays ==
  /\ server.open /\ graph.delay > 0
  /\ graph' = [graph EXCEPT !.delay = @ - 1, !.heard = @ + 1]
  /\ UNCHANGED <<p, server, client, wire, changes>>

(* The graph fills a free buffer from the microphone.                      *)
Records ==
  /\ server.open /\ p.direction = Capture /\ graph.active /\ ~p.error
  /\ graph.heard + graph.size <= MaxFrames
  /\ \E s \in graph.free :
       graph' = [graph EXCEPT !.free = @ \ {s}, !.heard = @ + graph.size,
                              !.queue = Append(@, [slot |-> s, frames |-> graph.size])]
  /\ UNCHANGED <<p, server, client, wire, changes>>

(* remove_buffer, for every buffer at once: session policy changed ports.  *)
(* Playback counts everything not yet presented as dropped; capture ends.  *)
\* Mutant: the outstanding credit survives the renegotiation.
RemoveBuffersKeepsCredit(q) ==
  [Emptied(q) EXCEPT !.attached = {}, !.renegotiating = TRUE,
                     !.dropped = IF q.renegotiating THEN @ ELSE q.submitted - q.presented]

RemoveBuffers(q) ==
  IF q.direction = Capture THEN [q EXCEPT !.attached = {}, !.error = TRUE]
  ELSE [Emptied(q) EXCEPT !.attached = {}, !.renegotiating = TRUE,
          !.dropped = IF q.renegotiating THEN @ ELSE q.submitted - q.presented,
          !.invalidated = IF q.buffer # 0 THEN q.borrowed ELSE @]

Renegotiates ==
  /\ server.open /\ p.attached = Slots /\ changes < MaxChanges
  /\ p' = RemoveBuffers(p)
  /\ graph' = [graph EXCEPT !.free = {}, !.queue = <<>>]
  /\ changes' = changes + 1
  /\ UNCHANGED <<server, client, wire>>

(* param_changed, add_buffer: the same memory in new wrappers.             *)
Attaches ==
  /\ server.open /\ p.attached = {} /\ ~p.error
  /\ p' = [p EXCEPT !.attached = Slots, !.renegotiating = FALSE]
  /\ \E n \in Periods : graph' = [graph EXCEPT !.free = Slots, !.size = n]
  /\ UNCHANGED <<server, client, wire, changes>>

(* state_changed: the PipeWire server went away.                           *)
StreamFails ==
  /\ server.open /\ ~p.error /\ changes < MaxChanges
  /\ p' = [p EXCEPT !.error = TRUE]
  /\ changes' = changes + 1
  /\ UNCHANGED <<graph, server, client, wire>>

Next ==
  \/ \E n \in 1..Capacity : AskAcquire(n)
  \/ \E n \in 0..Capacity : p.submitted + n <= MaxFrames /\ AskSubmit(n)
  \/ \E c \in {"start", "pause", "flush", "drain", "standby"} : AskControl(c)
  \/ AskPosition \/ TakesReply \/ TakesError \/ ClientCloses
  \/ Acquire \/ AcquireTimesOut \/ Submit \/ Control \/ DrainBegins \/ Drained
  \/ DrainTimesOut \/ Status \/ ServerEnds
  \/ Consumes \/ Plays \/ Records \/ Renegotiates \/ Attaches \/ StreamFails

Spec == Init /\ [][Next]_vars
----------------------------------------------------------------------------
TypeOK ==
  /\ p.attached \subseteq Slots /\ p.buffer \in Slots \cup {0}
  /\ graph.free \subseteq Slots /\ client.region.slot \in Slots \cup {0}

(* The slots that the graph may read from (playback) or write to (capture).*)
InGraph ==
  IF p.direction = Playback THEN {b.slot : b \in ToSet(graph.queue)}
  ELSE graph.free \cup {b.slot : b \in ToSet(graph.queue)}

(* The client touches samples from the reply to acquire until it submits.  *)
Accessing ==
  /\ server.open /\ client.region.slot # 0 /\ wire.op \notin {"submit", "error"}
  /\ wire.op = "reply" => wire.region = client.region

(* Credits (dl_pw_acquire, dl_pw_submit, remove_buffer; held, region):     *)
(* the memory that the client accesses is never in the graph's hands, also *)
(* when PipeWire recreates its buffers under an outstanding credit; and    *)
(* the progress reported to Android is real: the position never exceeds    *)
(* the frames that were played, never goes back, and the unsigned counts   *)
(* it is computed from never wrap.                                         *)
AudioHonest ==
  /\ TypeOK
  /\ Accessing => client.region.slot \notin InGraph
  /\ p.direction = Playback => p.presented + p.dropped <= p.submitted
  /\ p.direction = Playback => p.presented <= graph.heard
  /\ p.direction = Capture => p.captured <= graph.heard
  /\ client.seen <= Greatest(p.presented, p.captured)
  /\ p.filled <= p.target /\ p.target <= Capacity
=============================================================================
