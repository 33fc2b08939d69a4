------------------------------ MODULE HostInput ------------------------------
(***************************************************************************)
(* The input path from the host's seat to Android's windows: the contacts  *)
(* the presenter tracks, the events it holds back while a clipboard change *)
(* settles, its direct writer (DirectInput) and the connection that        *)
(* carries the records, joined to the receiver of InputEngine.  `h` is the *)
(* presenter's state, changed by the operators below in one thread.        *)
(***************************************************************************)
EXTENDS Integers, Sequences, SequencesExt, FiniteSetsExt

CONSTANTS Tasks, Contacts,        \* one display; a contact is a touch identity or the mouse
          Keys,
          MaxPointerId,           \* Android's pointer identities are 0..MaxPointerId
          DeferLimit, QueueLimit, \* 512 in the code, both
          SocketRoom,             \* what the kernel takes before a writer would block
          ClipboardExpires,       \* the clipboard's ten-second deadline may pass
          MaxIncarnation, MaxEvents, MaxBreaks

VARIABLES h, engine, worker, events, breaks
vars == <<h, engine, worker, events, breaks>>

Android == INSTANCE InputEngine WITH
    s <- engine, Pointers <- 0..MaxPointerId, Windows <- Tasks,
    DisplayOf <- [t \in Tasks |-> 1], MaxRefusals <- 0

(* `wire` is what the kernel holds; "conn" and "eof" stand for a connection *)
(* and its end, as the receiver meets them.                                 *)
(* A behaviour starts with both windows published and the connection up.    *)
Init ==
    /\ h = [window |-> [t \in Tasks |-> "live"], route |-> [t \in Tasks |-> 1],
            contacts |-> [c \in Contacts |-> 0], focus |-> 0,
            blocked |-> FALSE, deferred |-> <<>>,
            socket |-> TRUE, cut |-> FALSE, requested |-> FALSE,
            pointers |-> {}, queue |-> <<>>, wire |-> <<>>, powered |-> TRUE]
    /\ LET published == [t \in Tasks |-> [incarnation |-> 1, window |-> t]]
       IN engine = [Android!Empty EXCEPT !.target = published, !.token = published, !.sink = TRUE]
    /\ worker = "client" /\ events = 0 /\ breaks = 0

-----------------------------------------------------------------------------
(* DirectInput.                                                             *)
Mark(what) == [task |-> 0, display |-> 0, incarnation |-> 0, action |-> what, code |-> 0]
Disconnect(g) ==
    [g EXCEPT !.socket = FALSE, !.cut = FALSE, !.queue = <<>>, !.pointers = {},
              !.requested = FALSE,
              !.wire = IF g.socket /\ ~g.cut THEN Append(@, Mark("eof")) ELSE @]
Flush(g) ==
    IF ~g.socket \/ g.queue = <<>> THEN g
    ELSE IF g.cut THEN Disconnect(g)
    ELSE LET n == Min({Len(g.queue), Max({0, SocketRoom - Len(g.wire)})}) IN
         [g EXCEPT !.wire = @ \o SubSeq(g.queue, 1, n),
                   !.queue = SubSeq(@, n + 1, Len(@))]
Enqueue(g, record) ==
    LET f == Flush(g) IN
    IF ~f.socket THEN f
    ELSE IF Len(f.queue) = QueueLimit THEN Disconnect(f)
    ELSE Flush([f EXCEPT !.queue = Append(@, record)])

Record(p, action) ==
    [task |-> p.task, display |-> 1, incarnation |-> p.incarnation, action |-> action,
     code |-> p.id]
(* cancel_display: one cancellation for each route with a contact.          *)
\* Mutant: only one route is told of the cancellation.
CancelFirstOnly(g) ==
    IF g.pointers = {} THEN g
    ELSE [Enqueue(g, Record(CHOOSE p \in g.pointers : TRUE, "cancel")) EXCEPT !.pointers = {}]
CancelDisplay(g) ==
    LET routes == {[task |-> p.task, incarnation |-> p.incarnation] : p \in g.pointers}
        first(r) == CHOOSE p \in g.pointers :
                       /\ p.task = r.task /\ p.incarnation = r.incarnation
                       /\ \A q \in g.pointers :
                            q.task = r.task /\ q.incarnation = r.incarnation => p.contact <= q.contact
        order == SetToSortSeq({first(r) : r \in routes}, LAMBDA p, q : p.contact <= q.contact)
    IN [FoldLeft(LAMBDA f, p : Enqueue(f, Record(p, "cancel")), g, order) EXCEPT !.pointers = {}]
RetireRoute(g, t) ==
    IF \E p \in g.pointers : p.task = t /\ p.incarnation = g.route[t] THEN CancelDisplay(g) ELSE g

(* App::clear_contacts, and retire_contacts for a task or for all.          *)
ClearContacts(g) ==
    [g EXCEPT !.contacts = [c \in Contacts |-> 0],
              !.deferred = SelectSeq(@, LAMBDA d : d.contact = 0)]
RetireAll(g) == ClearContacts(CancelDisplay(g))
RetireContacts(g, t) ==
    LET f == IF g.route[t] # 0 THEN RetireRoute(g, t) ELSE g IN
    IF \/ \E c \in Contacts : f.contacts[c] = t
       \/ \E i \in DOMAIN f.deferred : f.deferred[i].task = t /\ f.deferred[i].contact # 0
      THEN RetireAll(f) ELSE f

(* DirectInput::send for an event d of a contact (or of a key, contact 0).  *)
FreeIds(g) == (0..MaxPointerId) \ {p.id : p \in g.pointers}
SendTouch(g, d) ==
    LET known == {p \in g.pointers : p.contact = d.contact} IN
    IF d.action = "down"
    THEN IF known # {} \/ FreeIds(g) = {} THEN Disconnect(g)
         ELSE LET p == [contact |-> d.contact, id |-> Min(FreeIds(g)), task |-> d.task,
                        incarnation |-> g.route[d.task]]
              IN Enqueue([g EXCEPT !.pointers = @ \cup {p}], Record(p, "down"))
    ELSE IF known = {} THEN g
    ELSE LET p == CHOOSE p \in known : TRUE
         IN Enqueue([g EXCEPT !.pointers = IF d.action = "up" THEN @ \ {p} ELSE @],
                    Record(p, d.action))
SendKey(g, d) ==
    Enqueue(g, [task |-> d.task, display |-> 1, incarnation |-> g.route[d.task],
                action |-> d.action, code |-> d.key])
(* App::send_input past the clipboard: [state, sent].                       *)
SendDirect(g, d) ==
    IF g.window[d.task] = "closing" \/ g.route[d.task] = 0 THEN [state |-> g, sent |-> FALSE]
    ELSE LET f == IF ~g.socket THEN g
                  ELSE IF d.contact = 0 THEN SendKey(g, d) ELSE SendTouch(g, d)
         IN [state |-> IF f.socket THEN f ELSE ClearContacts(f), sent |-> f.socket]
SendInput(g, d) ==
    IF g.blocked /\ Len(g.deferred) < DeferLimit
    THEN [state |-> [g EXCEPT !.deferred = Append(@, d)], sent |-> TRUE]
    ELSE SendDirect(g, d)
(* run_presenter_loop: what was held back goes out in order.                *)
DrainDeferred(g) ==
    FoldLeft(LAMBDA f, d : IF f.window[d.task] = "none" THEN f ELSE SendDirect(f, d).state,
             [g EXCEPT !.deferred = <<>>], g.deferred)

-----------------------------------------------------------------------------
(* The seat's events.                                                       *)
Event == events < MaxEvents /\ events' = events + 1
Touch(t, c, action) == [task |-> t, contact |-> c, action |-> action, key |-> 0]
Host(g) == h' = g /\ UNCHANGED <<engine, worker, breaks>>

Down(c, t) ==
    /\ Event /\ h.window[t] # "none"
    /\ LET g == IF h.contacts[c] # 0 THEN RetireAll(h) ELSE h
           r == SendInput(g, Touch(t, c, "down"))
       IN Host(IF r.sent THEN [r.state EXCEPT !.contacts[c] = t] ELSE r.state)
Motion(c) ==
    /\ Event /\ h.contacts[c] # 0
    /\ Host(SendInput(h, Touch(h.contacts[c], c, "motion")).state)
Up(c) ==
    /\ Event /\ h.contacts[c] # 0
    /\ Host(SendInput([h EXCEPT !.contacts[c] = 0], Touch(h.contacts[c], c, "up")).state)
(* wl_touch.cancel, and a pointer or touch capability that is withdrawn.    *)
CancelTouches == Event /\ Host(RetireAll(h))
(* Keys go to the focused task; repeats are "motion".                       *)
Key(k, action) ==
    /\ Event /\ h.focus # 0
    /\ Host(SendInput(h, [task |-> h.focus, contact |-> 0, action |-> action, key |-> k]).state)
Focus(t) ==
    /\ t # 0 => h.window[t] = "live"
    /\ t # h.focus /\ Host([h EXCEPT !.focus = t]) /\ UNCHANGED events

(* A clipboard change holds input back; its answer lets it go, in the pass  *)
(* that drains it.  The deadline passes between two passes.                 *)
Block == ~h.blocked /\ h.deferred = <<>> /\ Event /\ Host([h EXCEPT !.blocked = TRUE])
Answer == h.blocked /\ Host(DrainDeferred([h EXCEPT !.blocked = FALSE])) /\ UNCHANGED events
Expire == ClipboardExpires /\ h.blocked /\ Host([h EXCEPT !.blocked = FALSE]) /\ UNCHANGED events
Drain == ~h.blocked /\ h.deferred # <<>> /\ Host(DrainDeferred(h)) /\ UNCHANGED events

-----------------------------------------------------------------------------
(* The presenter's loop and the endpoint's records.                         *)
Step(g) == g # h /\ Host(g) /\ UNCHANGED events

(* pump_direct_input, and notify_ready at the end of the pass.              *)
Pump ==
    LET f == Flush(IF h.cut THEN Disconnect(h) ELSE h) IN
    Step(IF f.socket THEN f ELSE [ClearContacts(f) EXCEPT !.requested = TRUE])
Attach ==
    /\ h.requested
    /\ LET g == [Disconnect(h) EXCEPT !.socket = TRUE, !.wire = Append(@, Mark("conn"))]
       IN Step(ClearContacts(IF g.powered THEN g ELSE Enqueue(g, Mark("off"))))
(* publish_display_power: off ends every contact on both sides.             *)
Power(p) ==
    /\ p # h.powered /\ Event
    /\ LET g == [h EXCEPT !.powered = p]
           f == IF p \/ ~g.socket THEN g ELSE Enqueue(g, Mark("off"))
       IN Host(IF p /\ f.socket THEN f
               ELSE ClearContacts([f EXCEPT !.pointers = IF p THEN @ ELSE {}]))
BindInputRoute(t, i) ==
    /\ h.window[t] # "none" /\ engine.target[t].incarnation = i /\ i # 0
    /\ Step([(IF h.route[t] \notin {0, i} THEN RetireContacts(h, t) ELSE h)
               EXCEPT !.route[t] = i])
(* destroy_task marks the window; unmap_requested_tasks retires it later.   *)
DestroyTask(t) == h.window[t] = "live" /\ Step([h EXCEPT !.window[t] = "closing"])
\* Mutant: a removed window keeps its contacts.
RemoveTaskOnly(t) ==
    /\ h.window[t] = "closing"
    /\ Step([h EXCEPT !.window[t] = "none", !.focus = IF @ = t THEN 0 ELSE @])
RemoveTask(t) ==
    /\ h.window[t] = "closing"
    /\ Step([RetireContacts(h, t) EXCEPT !.window[t] = "none", !.focus = IF @ = t THEN 0 ELSE @])

-----------------------------------------------------------------------------
(* Android reads the records in order; its policy publishes and retires.    *)
Receive ==
    /\ h.wire # <<>> /\ h' = [h EXCEPT !.wire = Tail(@)]
    /\ LET r == Head(h.wire) IN
       CASE r.action = "conn" -> Android!Accept
         [] r.action = "eof" -> Android!Disconnect
         [] r.action = "off" -> Android!PowerOff
         [] OTHER -> Android!Input(r)
    /\ UNCHANGED <<events, breaks>>
Publish(t, i) ==
    /\ i = engine.target[t].incarnation + 1 /\ h.window[t] = "live"
    /\ Android!Publish(t, i, t) /\ UNCHANGED <<h, events, breaks>>
Retire(t) ==
    /\ engine.target[t].incarnation # 0 /\ Android!Retire(t, engine.target[t].incarnation)
    /\ UNCHANGED <<h, events, breaks>>
(* The receiver gives the connection up; the presenter finds out later.     *)
Break ==
    /\ breaks < MaxBreaks /\ breaks' = breaks + 1
    /\ worker = "client" /\ h.socket /\ Mark("eof") \notin Range(h.wire)
    /\ Android!Disconnect /\ h' = [h EXCEPT !.wire = <<>>, !.cut = TRUE]
    /\ UNCHANGED events

Next ==
    \/ \E c \in Contacts : (\E t \in Tasks : Down(c, t)) \/ Motion(c) \/ Up(c)
    \/ CancelTouches \/ Block \/ Answer \/ Expire \/ Drain \/ Pump \/ Attach
    \/ \E k \in Keys, action \in {"down", "motion", "up"} : Key(k, action)
    \/ \E t \in Tasks \cup {0} : Focus(t)
    \/ \E p \in BOOLEAN : Power(p)
    \/ \E t \in Tasks : DestroyTask(t) \/ RemoveTask(t) \/ Retire(t)
                          \/ \E i \in 1..MaxIncarnation : BindInputRoute(t, i) \/ Publish(t, i)
    \/ Receive \/ Break
Spec == Init /\ [][Next]_vars

-----------------------------------------------------------------------------
Settled ==
    /\ h.wire = <<>> /\ h.queue = <<>> /\ h.deferred = <<>> /\ ~h.cut
    /\ \A t \in Tasks : h.window[t] # "closing"

(* No touch is left behind: once every record has arrived, each touch an    *)
(* Android window has down is one of a finger or button the presenter is    *)
(* still tracking, for that window.  Lost connections, overflowing queues,  *)
(* removed windows, power and held-back events do not change that           *)
(* (retire_contacts, cancel_display, Engine::reset).                        *)
NoTouchLeftBehind ==
    Settled => \A x \in engine.held : x.code \notin Keys =>
        \E p \in h.pointers : /\ p.task = x.task /\ p.id = x.code
                              /\ h.contacts[p.contact] = x.task
=============================================================================
