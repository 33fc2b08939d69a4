---------------------------- MODULE DirectLayers ----------------------------
(***************************************************************************)
(* Direct Android layers on synchronized Wayland subsurfaces, for one task.*)
(* SurfaceFlinger (patched under android/surfaceflinger) names every read  *)
(* of a producer buffer by a ticket and lets the producer write the buffer *)
(* again only once the host resolved every ticket it tracks on it.         *)
(* The host stream (layers.rs) stages a scene, attaches each read on a     *)
(* timeline of the allocation (a lane), and answers releases from the      *)
(* compositor's real reads.  The compositor (external) may keep a detached *)
(* read until the next frame it draws, and draws only what was committed.  *)
(* Pixels, geometry and planes are left out; a scene is its set of layers  *)
(* [id, buf, ticket, frame], frame being the write the buffer then held.   *)
(***************************************************************************)
EXTENDS Naturals, Sequences, FiniteSets, SequencesExt, FiniteSetsExt, Functions

CONSTANTS
    Layers,         \* layer identities
    Buffers,        \* producer allocations, numbered from 1
    MaxLanes,       \* timelines of one allocation (MAX_LANES)
    MaxTickets,     \* bound: tickets SurfaceFlinger may issue
    MaxWrites,      \* bound: producer writes of one buffer
    MaxSerial       \* bound: configures of the window

VARIABLES
    app,            \* layer -> buffer it shows (0: none)
    content,        \* buffer -> writes it received
    sf,             \* SurfaceFlinger's DroidloomLayers
    req,            \* request socket, SurfaceFlinger to host
    ev,             \* event socket, host to SurfaceFlinger
    host,           \* the host's layer stream
    comp            \* the Wayland compositor

vars == <<app, content, sf, req, ev, host, comp>>

NoRead == [buf |-> 0, ticket |-> 0]
NoScene == [scene |-> 0, serial |-> 0, layers |-> {}]

\* A new stream: bind_layers on the host, the constructor in SurfaceFlinger.
Init ==
    /\ app = [l \in Layers |-> 0]
    /\ content = [b \in Buffers |-> 0]
    /\ sf = [pending |-> <<>>, last |-> <<>>, shown |-> {}, commit |-> 0, added |-> {},
             deferred |-> FALSE, fallback |-> FALSE, imports |-> [b \in Buffers |-> "missing"],
             call |-> 0, ticket |-> 0, scene |-> 0, serial |-> 1, open |-> TRUE, broken |-> FALSE]
    /\ req = <<>> /\ ev = <<>>
    /\ host = [sources |-> <<>>, importing |-> {}, waiting |-> NoScene,
               views |-> [l \in Layers |-> NoRead], reads |-> {}, active |-> FALSE,
               connected |-> TRUE, lastTicket |-> 0, lastScene |-> 0, serial |-> 1,
               grant |-> TRUE, marked |-> FALSE, composed |-> FALSE, ack |-> "none",
               mode |-> "open", fatal |-> FALSE]
    /\ comp = [tree |-> [l \in Layers |-> <<0, 0>>], held |-> {}, screen |-> {}, dirty |-> FALSE]

-----------------------------------------------------------------------------
(* The compositor.                                                         *)

Unmapped == host.mode # "open"

\* The compositor draws a frame when something was committed.  A read neither
\* in the new tree nor in the previous frame has ended; one of the previous
\* frame may end now or with the next frame.
Latch ==
    /\ comp.dirty
    /\ LET tree == Range(comp.tree)
           gone == {h \in comp.held : <<h.buf, h.lane>> \notin tree}
           must == {h \in gone : Unmapped \/ <<h.buf, h.lane>> \notin comp.screen}
       IN \E over \in SUBSET gone :
            /\ must \subseteq over
            /\ comp' = [comp EXCEPT !.held = @ \ over, !.screen = tree, !.dirty = FALSE]
    /\ UNCHANGED <<app, content, sf, req, ev, host>>

\* layer_imported: the compositor confirms or refuses an import; a refused
\* allocation is forgotten.  A stream that is gone only drops the buffer.
LayerImported(b, ok) ==
    /\ b \in host.importing
    /\ host' = [host EXCEPT
         !.importing = @ \ {b},
         !.sources = IF ok THEN [@ EXCEPT ![b].imported = TRUE] ELSE Restrict(@, DOMAIN @ \ {b})]
    /\ ev' = IF host.connected THEN Append(ev, [op |-> "import", buf |-> b, ok |-> ok]) ELSE ev
    /\ UNCHANGED <<app, content, sf, req, comp>>

-----------------------------------------------------------------------------
(* The host stream.                                                        *)

\* Source::free_lane: a lane with no read in flight, or room for another.
BusyLanes(h, b) == {r.lane : r \in {x \in h.reads : x.buf = b}}
\* Mutant: an allocation has a single timeline.
FreeLanesOne(h, b) == {1} \ BusyLanes(h, b)
FreeLanes(h, b) == (1..MaxLanes) \ BusyLanes(h, b)

\* assess_scene: what each layer of a scene means for its allocation.
Reused(h, l) == h.sources[l.buf].ticket = l.ticket
Shows(h, l, ticket) == h.views[l.id] = [buf |-> l.buf, ticket |-> ticket]
Relabels(h, l) ==
    LET held == h.sources[l.buf].ticket IN held \notin {0, l.ticket} /\ Shows(h, l, held)

SceneValid(h, s) ==
    /\ h.mode = "open" /\ s.serial = h.serial
    /\ \A l \in s.layers :
         /\ l.buf \in DOMAIN h.sources
         /\ h.sources[l.buf].imported
         /\ IF Reused(h, l) THEN ~l.acquire /\ Shows(h, l, l.ticket) ELSE l.ticket > h.lastTicket

SceneBusy(h, s) ==
    \E l \in s.layers :
        /\ ~Reused(h, l) /\ h.sources[l.buf].ticket # 0
        /\ FreeLanes(h, l.buf) = {} /\ ~Shows(h, l, h.sources[l.buf].ticket)

\* The read a layer has after the commit: the one it reuses or relabels, or
\* a new one on a free lane.
ReadOf(h, l) ==
    IF Relabels(h, l) \/ Reused(h, l)
    THEN LET r == CHOOSE x \in h.reads : x.buf = l.buf /\ x.ticket = h.sources[l.buf].ticket
         IN [r EXCEPT !.ticket = l.ticket]
    ELSE [buf |-> l.buf, lane |-> Min(FreeLanes(h, l.buf)), ticket |-> l.ticket, sent |-> FALSE]

\* commit_layers: recycle the views of absent layers, attach, commit the root.
CommitLayers(h, s) ==
    LET at(id) == CHOOSE l \in s.layers : l.id = id
        ids == {l.id : l \in s.layers}
    IN [h EXCEPT
         !.views = [i \in Layers |-> IF i \in ids THEN [buf |-> at(i).buf, ticket |-> at(i).ticket]
                                     ELSE NoRead],
         !.reads = @ \cup {ReadOf(h, l) : l \in s.layers},
         !.sources = [b \in DOMAIN @ |->
                        IF \E l \in s.layers : l.buf = b
                        THEN [@[b] EXCEPT !.ticket = (CHOOSE l \in s.layers : l.buf = b).ticket]
                        ELSE @[b]],
         !.lastTicket = Max({@} \cup {l.ticket : l \in s.layers}),
         !.active = TRUE, !.grant = FALSE, !.waiting = NoScene]

CommitTree(c, h, s) ==
    [c EXCEPT
       !.tree = [i \in Layers |->
                   IF \E l \in s.layers : l.id = i
                   THEN LET r == ReadOf(h, CHOOSE l \in s.layers : l.id = i) IN <<r.buf, r.lane>>
                   ELSE <<0, 0>>],
       !.held = @ \cup {[buf |-> l.buf, lane |-> ReadOf(h, l).lane, frame |-> l.frame] :
                          l \in {x \in s.layers : ~Reused(h, x) /\ ~Relabels(h, x)}},
       !.dirty = TRUE]

Answer(s, code) == [op |-> "result", scene |-> s.scene, code |-> code]

\* submit_layer_scene: reject, park (busy, or no frame grant) or commit.
\* A direct scene supersedes a composed frame that has no grant yet.
Submit(h, s, sent) ==
    \/ /\ ~SceneValid(h, s)
       /\ host' = [h EXCEPT !.waiting = NoScene]
       /\ ev' = sent \o <<Answer(s, 95)>>
       /\ UNCHANGED comp
    \/ /\ SceneValid(h, s)
       /\ SceneBusy(h, s) \/ ~h.grant
       /\ host' = [h EXCEPT !.waiting = s, !.composed = @ /\ SceneBusy(h, s)]
       /\ ev' = sent
       /\ UNCHANGED comp
    \/ /\ SceneValid(h, s) /\ ~SceneBusy(h, s) /\ h.grant
       /\ host' = [CommitLayers(h, s) EXCEPT !.composed = FALSE]
       /\ comp' = CommitTree(comp, h, s)
       /\ ev' = sent \o <<Answer(s, 0)>>

\* Stream::release: a fence once the compositor made one for the point (all
\* tickets of the point get it), completion once the point signalled.
Lane(r) == <<r.buf, r.lane>>
Ended(r) == ~\E x \in comp.held : <<x.buf, x.lane>> = Lane(r)
Released(h, fenced) ==
    LET over == {r \in h.reads : Ended(r)}
    IN [h EXCEPT
         !.reads = {IF Lane(r) \in fenced THEN [r EXCEPT !.sent = TRUE] ELSE r : r \in @ \ over},
         !.sources = [b \in DOMAIN @ |-> IF \E r \in over : r.buf = b /\ r.ticket = @[b].ticket
                                         THEN [@[b] EXCEPT !.ticket = 0] ELSE @[b]],
         !.marked = FALSE]
\* Mutant: a disconnected stream reports no release.
ReleaseEventsConnected(h, fenced) ==
    IF ~h.connected THEN <<>>
    ELSE SetToSeq({[op |-> "fence", ticket |-> r.ticket, lane |-> Lane(r)] :
                r \in {x \in h.reads : Lane(x) \in fenced /\ ~x.sent}})
    \o SetToSeq({[op |-> "release", ticket |-> r.ticket] : r \in {x \in h.reads : Ended(x)}})
ReleaseEvents(h, fenced) ==
    SetToSeq({[op |-> "fence", ticket |-> r.ticket, lane |-> Lane(r)] :
                r \in {x \in h.reads : Lane(x) \in fenced /\ ~x.sent}})
    \o SetToSeq({[op |-> "release", ticket |-> r.ticket] : r \in {x \in h.reads : Ended(x)}})

\* One RELEASES wakeup of drain_layers: an eventfd of a read, a grant, or a
\* configuration change under a parked scene; the parked scene is retried.
DrainReleases ==
    /\ host.mode # "gone"
    /\ \E fenced \in SUBSET (IF host.connected THEN {Lane(r) : r \in {x \in host.reads : ~x.sent}} ELSE {}) :
         /\ host.marked \/ fenced # {} \/ \E r \in host.reads : Ended(r)
         /\ LET h == Released(host, fenced)
                sent == ev \o ReleaseEvents(host, fenced)
            IN IF h.waiting.scene # 0
               THEN Submit(h, h.waiting, sent)
               ELSE host' = h /\ ev' = sent /\ UNCHANGED comp
    /\ UNCHANGED <<app, content, sf, req>>

\* Stream::hide: detach every child in the parent's pending transaction.
Hidden(h) == [h EXCEPT !.views = [l \in Layers |-> NoRead], !.active = FALSE]
EmptyTree(c) == [c EXCEPT !.tree = [l \in Layers |-> <<0, 0>>], !.dirty = TRUE]

\* present: the composed frame of the other socket is shown once it has its
\* grant, which hides the direct children.
PresentComposed ==
    /\ host.mode = "open" /\ host.composed /\ host.grant
    /\ host' = [Hidden(host) EXCEPT !.composed = FALSE, !.grant = FALSE]
    /\ comp' = EmptyTree(comp)
    /\ UNCHANGED <<app, content, sf, req, ev>>

\* PeerClosed on the request socket: SurfaceFlinger dropped the stream.
Disconnected(h) == [Hidden(h) EXCEPT !.connected = FALSE, !.waiting = NoScene]

\* layer_request, by the kind of the record.  An allocation is imported once
\* and kept while the compositor may read it; scenes are numbered upwards.
Registers(b) ==
    IF b \in DOMAIN host.sources
    THEN ev' = Append(ev, [op |-> "import", buf |-> b, ok |-> FALSE]) /\ UNCHANGED <<host, comp>>
    ELSE /\ host' = [host EXCEPT
                !.sources = [c \in DOMAIN @ \cup {b} |->
                               IF c = b THEN [imported |-> FALSE, ticket |-> 0] ELSE @[c]],
                !.importing = @ \cup {b}]
         /\ UNCHANGED <<ev, comp>>
Unregisters(b) ==
    /\ host' = IF b \in host.importing \/ b \notin DOMAIN host.sources \/ \E x \in host.reads : x.buf = b
               THEN [host EXCEPT !.ack = "busy"]
               ELSE [host EXCEPT !.ack = "ok", !.sources = Restrict(@, DOMAIN @ \ {b})]
    /\ UNCHANGED <<ev, comp>>
Commits(s) ==
    IF s.scene <= host.lastScene
    THEN host' = [host EXCEPT !.fatal = TRUE] /\ UNCHANGED <<ev, comp>>
    ELSE Submit([host EXCEPT !.lastScene = s.scene], s, ev)

\* One record of the request socket.  A parked scene owns the staging area;
\* anything but configuration and abort is then refused.
LayerRequest ==
    /\ host.mode # "gone" /\ host.connected /\ req # <<>>
    /\ LET r == Head(req) IN
       IF r.op = "closed" THEN host' = Disconnected(host) /\ comp' = EmptyTree(comp) /\ UNCHANGED ev
       ELSE IF host.waiting.scene # 0
       THEN host' = [host EXCEPT !.fatal = TRUE] /\ UNCHANGED <<ev, comp>>
       ELSE CASE r.op = "register" -> Registers(r.buf)
              [] r.op = "unregister" -> Unregisters(r.buf)
              [] r.op = "commit" -> Commits(r.scene)
    /\ req' = Tail(req)
    /\ UNCHANGED <<app, content, sf>>

\* A configure of the window is published to the subscriber and revalidates a
\* parked scene.
Configure ==
    /\ host.mode = "open" /\ host.serial < MaxSerial
    /\ host' = [host EXCEPT !.serial = @ + 1, !.marked = @ \/ host.waiting.scene # 0]
    /\ ev' = IF host.connected THEN Append(ev, [op |-> "config", serial |-> host.serial + 1]) ELSE ev
    /\ UNCHANGED <<app, content, sf, req, comp>>

\* The compositor grants a frame; parked work is woken (FrameTimeline models
\* the grants themselves).
Grant ==
    /\ host.mode = "open" /\ ~host.grant
    /\ host' = [host EXCEPT !.grant = TRUE, !.marked = @ \/ host.waiting.scene # 0]
    /\ UNCHANGED <<app, content, sf, req, ev, comp>>

\* destroy_task and unmap_task_window: the toplevel goes, a parked scene is
\* answered, and the stream stays for the reads in flight.
DestroyTask ==
    /\ host.mode = "open"
    /\ host' = [Hidden(host) EXCEPT !.mode = "closing", !.composed = FALSE, !.waiting = NoScene]
    /\ ev' = IF host.waiting.scene = 0 THEN ev ELSE Append(ev, Answer(host.waiting, 11))
    /\ comp' = EmptyTree(comp)
    /\ UNCHANGED <<app, content, sf, req>>

\* remove_task drops the stream once no read is in flight.
RemoveTask ==
    /\ host.mode = "closing" /\ host.reads = {}
    /\ host' = [host EXCEPT !.mode = "gone", !.connected = FALSE, !.importing = {}, !.waiting = NoScene]
    /\ UNCHANGED <<app, content, sf, req, ev, comp>>

-----------------------------------------------------------------------------
(* SurfaceFlinger, as patched, and the producers (external).               *)

Tracked(b) == {t \in DOMAIN sf.pending : sf.pending[t].buf = b}

\* A producer may write a buffer no layer shows once every tracked read has a
\* fence and the fence signalled; it then shows it on a layer.
Write(l, b) ==
    /\ b \notin Range(app) /\ content[b] < MaxWrites
    /\ \A t \in Tracked(b) :
         /\ sf.pending[t].fence # <<0, 0>>
         /\ ~\E h \in comp.held : <<h.buf, h.lane>> = sf.pending[t].fence
    /\ content' = [content EXCEPT ![b] = @ + 1]
    /\ app' = [app EXCEPT ![l] = b]
    /\ UNCHANGED <<sf, req, ev, host, comp>>

\* A surface is recreated: another layer shows the same buffer, or none does.
Rename(l, m) ==
    /\ app[l] # 0 /\ (m = l \/ app[m] = 0)
    /\ app' = IF m = l THEN [app EXCEPT ![l] = 0] ELSE [app EXCEPT ![m] = app[l], ![l] = 0]
    /\ UNCHANGED <<content, sf, req, ev, host, comp>>

Exports == {[id |-> l, buf |-> app[l], frame |-> content[app[l]]] : l \in {x \in Layers : app[x] # 0}}

\* presentFrame refused: composition on the other socket, attachments forgotten.
Composed(s) == [s EXCEPT !.last = <<>>, !.shown = {}, !.fallback = FALSE]
Compose(s) ==
    /\ sf' = Composed(s)
    /\ host' = IF host.mode = "open" THEN [host EXCEPT !.composed = TRUE] ELSE host
    /\ UNCHANGED <<app, content, ev, comp>>

Ready == sf.open /\ sf.call = 0 /\ ~sf.broken /\ Exports # {}

\* One scene in flight: a frame meanwhile is only remembered.
Defer ==
    /\ Ready /\ sf.commit # 0 /\ ~sf.deferred
    /\ sf' = [sf EXCEPT !.deferred = TRUE]
    /\ UNCHANGED <<app, content, req, ev, host, comp>>

\* A rejected scene, or one a layer of which cannot be exported, is composed.
Fallback ==
    /\ Ready /\ sf.commit = 0
    /\ sf.fallback \/ sf.shown # {}
    /\ Compose(sf) /\ UNCHANGED req

\* Imports not yet asked for are requested; the scene is composed meanwhile.
Register ==
    /\ Ready /\ sf.commit = 0 /\ ~sf.fallback
    /\ LET missing == {e.buf : e \in Exports} \cap {b \in Buffers : sf.imports[b] = "missing"}
       IN /\ missing # {}
          /\ Compose([sf EXCEPT !.imports = [b \in Buffers |-> IF b \in missing THEN "pending" ELSE @[b]]])
          /\ req' = req \o SetToSeq({[op |-> "register", buf |-> b] : b \in missing})

\* An import that no scene uses is retired, waiting for the host's answer.
Retire(b) ==
    /\ sf.open /\ sf.call = 0 /\ sf.commit = 0 /\ b \notin Range(app)
    /\ sf.imports[b] = "ready"
    /\ sf' = [sf EXCEPT !.call = b]
    /\ req' = Append(req, [op |-> "unregister", buf |-> b])
    /\ UNCHANGED <<app, content, ev, host, comp>>

RetireAnswer ==
    /\ sf.call # 0 /\ host.ack # "none"
    /\ sf' = [sf EXCEPT !.call = 0, !.imports[sf.call] = IF host.ack = "ok" THEN "missing" ELSE @]
    /\ host' = [host EXCEPT !.ack = "none"]
    /\ UNCHANGED <<app, content, req, ev, comp>>

\* A direct scene: an unchanged attachment keeps its ticket while its read is
\* pending, everything else is a new tracked read.
Direct ==
    /\ Ready /\ sf.commit = 0 /\ ~sf.fallback /\ Exports # sf.shown
    /\ \A e \in Exports : sf.imports[e.buf] = "ready"
    /\ LET kept(e) == /\ e.id \in DOMAIN sf.last
                      /\ sf.last[e.id].buf = e.buf /\ sf.last[e.id].frame = e.frame
                      /\ sf.last[e.id].ticket \in DOMAIN sf.pending
           new == {e \in Exports : ~kept(e)}
           rank(e) == Cardinality({x \in new : x.id <= e.id})
           ticket(e) == IF kept(e) THEN sf.last[e.id].ticket ELSE sf.ticket + rank(e)
           layers == {[id |-> e.id, buf |-> e.buf, frame |-> e.frame, ticket |-> ticket(e),
                       acquire |-> ~kept(e)] : e \in Exports}
           fresh == {ticket(e) : e \in new}
       IN /\ sf.ticket + Cardinality(new) <= MaxTickets
          /\ sf' = [sf EXCEPT
               !.pending = [t \in DOMAIN @ \cup fresh |->
                              IF t \in DOMAIN @ THEN @[t]
                              ELSE [buf |-> (CHOOSE e \in new : ticket(e) = t).buf, fence |-> <<0, 0>>]],
               !.last = [i \in {e.id : e \in Exports} |->
                           LET l == CHOOSE x \in layers : x.id = i
                           IN [buf |-> l.buf, frame |-> l.frame, ticket |-> l.ticket]],
               !.shown = Exports, !.ticket = @ + Cardinality(new),
               !.scene = @ + 1, !.commit = sf.scene + 1, !.added = fresh]
          /\ req' = Append(req, [op |-> "commit", scene |->
                     [scene |-> sf.scene + 1, serial |-> sf.serial, layers |-> layers]])
    /\ UNCHANGED <<app, content, ev, host, comp>>

\* The event thread.  An event it cannot place ends the stream.
Drop(s, tickets) == [s EXCEPT !.pending = Restrict(@, DOMAIN @ \ tickets)]
Event ==
    /\ ev # <<>> /\ ~sf.broken
    /\ LET e == Head(ev) IN
       sf' = CASE e.op = "config" -> [sf EXCEPT !.serial = e.serial]
               [] e.op = "import" ->
                    IF sf.imports[e.buf] # "pending" THEN [sf EXCEPT !.broken = TRUE]
                    ELSE [sf EXCEPT !.imports[e.buf] = IF e.ok THEN "ready" ELSE "failed"]
               [] e.op = "result" ->
                    IF e.scene # sf.commit \/ (e.code # 0 /\ ~(sf.added \subseteq DOMAIN sf.pending))
                    THEN [sf EXCEPT !.broken = TRUE]
                    ELSE [(IF e.code = 0 THEN sf ELSE Drop(sf, sf.added)) EXCEPT
                            !.commit = 0, !.added = {}, !.deferred = FALSE, !.fallback = e.code # 0]
               [] e.op = "fence" ->
                    IF e.ticket \notin DOMAIN sf.pending \/ sf.pending[e.ticket].fence # <<0, 0>>
                    THEN [sf EXCEPT !.broken = TRUE]
                    ELSE [sf EXCEPT !.pending[e.ticket].fence = e.lane]
               [] e.op = "release" ->
                    IF e.ticket \notin DOMAIN sf.pending THEN [sf EXCEPT !.broken = TRUE]
                    ELSE Drop(sf, {e.ticket})
    /\ ev' = Tail(ev)
    /\ UNCHANGED <<app, content, req, host, comp>>

\* The task is destroyed: its window and with it the request socket go.
Close ==
    /\ sf.open /\ sf.call = 0
    /\ sf' = [sf EXCEPT !.open = FALSE]
    /\ req' = Append(req, [op |-> "closed"])
    /\ app' = [l \in Layers |-> 0]
    /\ UNCHANGED <<content, ev, host, comp>>

Next ==
    \/ Latch \/ DrainReleases \/ PresentComposed \/ LayerRequest \/ Configure \/ Grant
    \/ DestroyTask \/ RemoveTask \/ Defer \/ Fallback \/ Register \/ RetireAnswer \/ Direct
    \/ Event \/ Close
    \/ \E b \in Buffers : Retire(b) \/ \E ok \in BOOLEAN : LayerImported(b, ok)
    \/ \E l \in Layers : (\E b \in Buffers : Write(l, b)) \/ (\E m \in Layers : Rename(l, m))

Fairness ==
    /\ WF_vars(Latch) /\ WF_vars(DrainReleases) /\ WF_vars(LayerRequest)
    /\ WF_vars(Grant) /\ WF_vars(Event)

Spec == Init /\ [][Next]_vars /\ Fairness

-----------------------------------------------------------------------------
\* No buffer the compositor still reads, or that a scene in flight or parked
\* names, was written since; what a layer shows is the write the scene named;
\* and neither side meets a record it must treat as a broken stream.
PixelsIntact ==
    /\ ~sf.broken /\ ~host.fatal
    /\ \A h \in comp.held : content[h.buf] = h.frame
    /\ \A l \in host.waiting.layers : content[l.buf] = l.frame

\* Once the host dropped the stream and its last event was read, no ticket is
\* left without a fence or completion, except those of a scene that was never
\* answered.
ReadsResolve ==
    host.mode = "gone" /\ ev = <<>> => DOMAIN sf.pending \subseteq sf.added

\* The same without the exception.
EveryReadResolves ==
    host.mode = "gone" /\ ev = <<>> => sf.pending = <<>>

\* A submitted scene is answered or its stream ends: SurfaceFlinger's one scene
\* in flight never parks for good.
SceneAnswered == sf.commit # 0 ~> (sf.commit = 0 \/ ~sf.open \/ Unmapped)
=============================================================================
