---- MODULE FrameTimeline ----
(***************************************************************************)
(* When the presenter shows a frame.  On a compositor with exact frame     *)
(* timelines a task's composed frame waits in one slot and its direct      *)
(* scene in another until the compositor grants a presentation opportunity.*)
(* Grants flow only while Android draws: the clock disarms every           *)
(* subscription after a quarter of a second without a frame, and the first *)
(* frame afterwards is shown untargeted and arms them again.  The presenter*)
(* is one thread that runs its loop in a fixed order (variable phase).     *)
(*                                                                         *)
(* A submission is the number Android gave it, so that order can be seen.  *)
(* Optional values are sets of at most one element.  Requests reach the    *)
(* compositor at once; its events wait in `events' until dispatched, which *)
(* covers every crossing of a request and an event.                        *)
(***************************************************************************)
EXTENDS Integers, FiniteSets, Sequences, SequencesExt

CONSTANTS Tasks,          \* windows in exact mode
          Outputs,        \* outputs of the compositor
          NoOutput,       \* the absent output
          Places,         \* where a window may be: outputs, and NoOutput if all may vanish
          Rate,           \* refresh of each output
          HostClock,      \* Composer takes its vsync from the host
          CanIdle,        \* Android may stop drawing for IDLE_NANOS
          CanBlock,       \* a scene may reuse a buffer still being read
          CanLoseManager, \* the compositor may withdraw the global
          FrameLimit,     \* callbacks per task for composed frames (64)
          SceneLimit,     \* callbacks per task for scenes (MAX_SCENE_FEEDBACK)
          MaxSubmissions, MaxGrants, MaxEra, MaxProxies, MaxEvents \* bounds

VARIABLES
    phase,        \* the part of run_presenter_loop being executed
    ready,        \* task_work: marks of each task
    place,        \* output each window is on
    subscription, \* output and proxy number of each task's timeline
    schedule,     \* Schedule: epoch, last sequence, offered and consumed grants
    late,         \* tasks whose offered grant has passed its latch
    window,       \* queued frame, waiting scene, callbacks, tracked frames
    armed, idle,  \* Clock: grants requested; IDLE_NANOS passed since a frame
    clockOn,      \* output of the clock subscription
    manager,      \* the frame timeline global is bound
    era, issued,  \* compositor: current epoch, last sequence sent to each task
    events, owed, \* compositor: events in flight, callbacks not yet answered
    sent, shown,  \* last submission Android made and last one committed
    target        \* last targeted commit and the grant set_target named

presenter == <<phase, ready, subscription, schedule, window, armed, clockOn, manager>>
compositor == <<place, late, idle, era, issued, events, owed>>
history == <<sent, shown, target>>
vars == <<presenter, compositor, history>>

Phases == {"events", "endpoint", "flush", "layers", "requests"}
Marks == {"timeline", "releases"}

Subscribed(t) == subscription[t].output # NoOutput
Grant(e) == [epoch |-> e.epoch, sequence |-> e.sequence]
EpochEvent(t, proxy) == [type |-> "epoch", task |-> t, proxy |-> proxy, epoch |-> era]
Submissions(fs) == {f.n : f \in fs}
GrantsOf(fs) == UNION {f.grant : f \in fs}

Init ==
    /\ phase = "events"
    /\ ready = [t \in Tasks |-> {}]
    /\ place \in [Tasks -> Places]
    /\ subscription = [t \in Tasks |-> [output |-> NoOutput, proxy |-> 0]]
    /\ schedule = [t \in Tasks |-> [epoch |-> 0, last |-> 0, offered |-> {}, consumed |-> {}]]
    /\ window = [t \in Tasks |-> [queued |-> 0, waiting |-> 0, busy |-> FALSE,
                                  frames |-> {}, scenes |-> {}, tracked |-> {}]]
    /\ late = {} /\ armed = FALSE /\ idle = TRUE /\ clockOn = NoOutput /\ manager = TRUE
    /\ era = 1 /\ issued = [t \in Tasks |-> 0]
    /\ events = <<>> /\ owed = {}
    /\ sent = [t \in Tasks |-> 0] /\ shown = [t \in Tasks |-> 0]
    /\ target = [t \in Tasks |-> {}]

-----------------------------------------------------------------------------
(* Schedule and the callbacks *)

ClearedConsumed(s) == [s EXCEPT !.consumed = {}] \* Mutant: the offer survives
Cleared(s) == [s EXCEPT !.offered = {}, !.consumed = {}]

InEpoch(s, e) ==
    IF s.epoch = e THEN s ELSE [Cleared(s) EXCEPT !.epoch = e, !.last = 0]

Newer(s, g) == g.epoch = s.epoch /\ g.sequence > s.last

OfferAnother(s, g) == \* Mutant: the previous offer is not taken back
    IF Newer(s, g) THEN [s EXCEPT !.last = g.sequence, !.offered = @ \cup {g}] ELSE s
Offer(s, g) ==
    IF Newer(s, g) THEN [s EXCEPT !.last = g.sequence, !.offered = {g}] ELSE s

Withdrawn(s) == [s EXCEPT !.offered = {}]
Finish(s, gs) == [s EXCEPT !.consumed = @ \ gs]

RetireUntold(w) == \* Mutant: the endpoint is not told to forget the frames
    [w EXCEPT !.frames = {}, !.scenes = {}]
Retire(w) ==
    [w EXCEPT !.frames = {}, !.scenes = {}, !.tracked = @ \ Submissions(w.frames)]

EndWaitLater(w) == w \* Mutant: the parked scene is left waiting
EndWait(w) == [w EXCEPT !.waiting = 0, !.busy = FALSE]
Abort(w) == [EndWait(Retire(w)) EXCEPT !.queued = 0]
AbortSchedule(t) ==
    Cleared(Finish(schedule[t], GrantsOf(window[t].frames \cup window[t].scenes)))

(* reserve(): untargeted while disarmed, else the offered grant before its latch *)
ReservablePaused(t) == \* Mutant: a task without a subscription commits untargeted
    Subscribed(t) => (armed => schedule[t].offered # {} /\ t \notin late)
Reservable(t) ==
    Subscribed(t) /\ (armed => schedule[t].offered # {} /\ t \notin late)

Reserved(t) == IF armed /\ Subscribed(t) THEN schedule[t].offered ELSE {}

ConsumeAgain(s, gs) == [s EXCEPT !.consumed = @ \cup gs] \* Mutant: the offer stays
Consume(s, gs) == [s EXCEPT !.offered = @ \ gs, !.consumed = @ \cup gs]

Refused(t) == \* a failed reserve() takes an offer that is too late
    IF armed /\ Subscribed(t) THEN Withdrawn(schedule[t]) ELSE schedule[t]

AndroidFrame(n, t, gs) ==
    /\ idle' = FALSE
    /\ armed' = TRUE
    /\ events' = IF armed THEN events
                 ELSE events \o SetToSeq({EpochEvent(u, subscription[u].proxy) :
                                          u \in {v \in Tasks : Subscribed(v)}})
    /\ shown' = [shown EXCEPT ![t] = n]
    /\ target' = IF gs = {} THEN target
                 ELSE [target EXCEPT ![t] = {[n |-> n, grant |-> g] : g \in gs}]

IdleCheck(sched) ==
    IF armed /\ idle
    THEN /\ armed' = FALSE
         /\ schedule' = [t \in Tasks |-> Withdrawn(sched[t])]
         /\ era' \in {era, era + 1} \cap 1..MaxEra
    ELSE schedule' = sched /\ UNCHANGED <<armed, era>>

-----------------------------------------------------------------------------
(* dispatch_pending: compositor events *)

Dispatches(type) ==
    /\ phase = "events"
    /\ events # <<>>
    /\ Head(events).type = type
    /\ events' = Tail(events)
    /\ UNCHANGED <<phase, place, subscription, clockOn, manager, idle, issued, owed, history>>

Mine(e) == Subscribed(e.task) /\ subscription[e.task].proxy = e.proxy

MarkGranted(t) == [ready EXCEPT ![t] = Marks]

DispatchGrant ==
    /\ Dispatches("grant")
    /\ LET e == Head(events) IN
       IF Mine(e)
       THEN /\ ready' = MarkGranted(e.task)
            /\ late' = IF Newer(schedule[e.task], Grant(e)) THEN late \ {e.task} ELSE late
            /\ IdleCheck([schedule EXCEPT ![e.task] = Offer(@, Grant(e))])
       ELSE UNCHANGED <<ready, late, schedule, armed, era>>
    /\ UNCHANGED window

DispatchClock ==
    /\ Dispatches("clock")
    /\ IF clockOn = Head(events).output THEN IdleCheck(schedule)
       ELSE UNCHANGED <<schedule, armed, era>>
    /\ UNCHANGED <<ready, late, window>>

DispatchEpoch ==
    /\ Dispatches("epoch")
    /\ LET e == Head(events)
           aborts == schedule[e.task].epoch \notin {0, e.epoch} IN
       IF Mine(e)
       THEN /\ schedule' = [schedule EXCEPT ![e.task] =
                   InEpoch(IF aborts THEN AbortSchedule(e.task) ELSE @, e.epoch)]
            /\ window' = [window EXCEPT ![e.task] = IF aborts THEN Abort(@) ELSE @]
       ELSE UNCHANGED <<schedule, window>>
    /\ UNCHANGED <<ready, late, armed, era>>

DispatchFeedback ==
    /\ Dispatches("feedback")
    /\ LET e == Head(events)
           w == window[e.task]
           done == {f \in w.frames \cup w.scenes : f.n = e.n} IN
       IF done # {}
       THEN /\ ready' = [ready EXCEPT ![e.task] = Marks]
            /\ schedule' = [schedule EXCEPT ![e.task] = Finish(@, GrantsOf(done))]
            /\ window' = [window EXCEPT ![e.task] =
                   [@ EXCEPT !.frames = @ \ done, !.scenes = @ \ done, !.tracked = @ \ {e.n}]]
       ELSE UNCHANGED <<ready, schedule, window>>
    /\ UNCHANGED <<late, armed, era>>

RemoveManager ==
    /\ phase = "events"
    /\ CanLoseManager /\ manager
    /\ manager' = FALSE
    /\ window' = [t \in Tasks |-> Abort(window[t])]
    /\ schedule' = [t \in Tasks |-> AbortSchedule(t)]
    /\ subscription' = [t \in Tasks |-> [subscription[t] EXCEPT !.output = NoOutput]]
    /\ UNCHANGED <<phase, ready, armed, clockOn, compositor, history>>

EndEvents ==
    /\ phase = "events"
    /\ phase' = "endpoint"
    /\ UNCHANGED <<ready, subscription, schedule, window, armed, clockOn, manager,
                   compositor, history>>

-----------------------------------------------------------------------------
(* drain_endpoint and refresh_frame_timelines *)

QueuePresent(t) ==
    /\ phase \in {"endpoint", "requests"}
    /\ sent[t] < MaxSubmissions
    /\ sent' = [sent EXCEPT ![t] = @ + 1]
    /\ window' = [window EXCEPT ![t] = [EndWait(@) EXCEPT !.queued = sent[t] + 1]]
    /\ ready' = [ready EXCEPT ![t] = @ \cup {"timeline"}]
    /\ UNCHANGED <<phase, subscription, schedule, armed, clockOn, manager, compositor,
                   shown, target>>

Pacesetter ==
    LET entered == {place[t] : t \in Tasks} \ {NoOutput} IN
    IF HostClock /\ entered # {}
    THEN CHOOSE o \in entered : \A p \in entered : Rate[p] <= Rate[o]
    ELSE NoOutput

Moved == {t \in Tasks : subscription[t].output # place[t]}

RefreshFrameTimelines ==
    LET aborts(t) == t \in Moved /\ (Subscribed(t) \/ schedule[t].epoch # 0)
        opens(t) == t \in Moved /\ manager /\ place[t] # NoOutput
        proxy(t) == subscription[t].proxy + (IF opens(t) THEN 1 ELSE 0) IN
    /\ phase = "endpoint"
    /\ phase' = "flush"
    /\ window' = [t \in Tasks |-> IF aborts(t) THEN Abort(window[t]) ELSE window[t]]
    /\ schedule' = [t \in Tasks |->
           IF aborts(t) THEN [AbortSchedule(t) EXCEPT !.epoch = 0, !.last = 0]
           ELSE schedule[t]]
    /\ subscription' = [t \in Tasks |->
           [output |-> IF t \notin Moved \/ opens(t) THEN place[t] ELSE NoOutput,
            proxy |-> proxy(t)]]
    /\ events' = IF armed THEN events \o SetToSeq({EpochEvent(t, proxy(t)) :
                                                  t \in {u \in Tasks : opens(u)}})
                 ELSE events
    /\ clockOn' = IF manager \/ clockOn = Pacesetter THEN Pacesetter ELSE NoOutput
    /\ UNCHANGED <<ready, armed, manager, place, late, idle, era, issued, owed, history>>

-----------------------------------------------------------------------------
(* flush_timeline_frames *)

Pops(t, mark) ==
    /\ mark \in ready[t]
    /\ ready' = [ready EXCEPT ![t] = @ \ {mark}]

Flushable(t) == window[t].queued # 0 /\ Cardinality(window[t].frames) < FrameLimit

FlushShows(t) ==
    LET n == window[t].queued
        gs == Reserved(t)
        tracks == Cardinality(window[t].tracked) < FrameLimit IN
    /\ phase = "flush"
    /\ Pops(t, "timeline")
    /\ Flushable(t) /\ Reservable(t)
    /\ AndroidFrame(n, t, gs)
    /\ schedule' = [schedule EXCEPT ![t] = Consume(@, gs)]
    /\ window' = [window EXCEPT ![t] = [@ EXCEPT
           !.queued = 0,
           !.frames = IF tracks THEN @ \cup {[n |-> n, grant |-> gs]} ELSE @,
           !.tracked = IF tracks THEN @ \cup {n} ELSE @]]
    /\ owed' = owed \cup (IF tracks THEN {[task |-> t, n |-> n]} ELSE {})
    /\ UNCHANGED <<phase, place, subscription, late, clockOn, manager, era, issued, sent>>

FlushWaits(t) ==
    /\ phase = "flush"
    /\ Pops(t, "timeline")
    /\ ~(Flushable(t) /\ Reservable(t))
    /\ schedule' = IF Flushable(t) THEN [schedule EXCEPT ![t] = Refused(t)] ELSE schedule
    /\ UNCHANGED <<phase, subscription, window, armed, clockOn, manager, compositor, history>>

EndFlush ==
    /\ phase = "flush"
    /\ \A t \in Tasks : "timeline" \notin ready[t]
    /\ phase' = "layers"
    /\ UNCHANGED <<ready, subscription, schedule, window, armed, clockOn, manager,
                   compositor, history>>

-----------------------------------------------------------------------------
(* drain_layers: submit_layer_scene for a scene n of task t *)

SceneBusy(t, n) ==
    /\ CanBlock
    /\ window' = [window EXCEPT ![t].waiting = n, ![t].busy = TRUE]
    /\ UNCHANGED <<schedule, armed, idle, events, owed, shown, target>>

SceneInvalid(t, n) ==
    /\ window' = [window EXCEPT ![t] = EndWait(@)]
    /\ UNCHANGED <<schedule, armed, idle, events, owed, shown, target>>

SceneWaits(t, n) ==
    LET full == Cardinality(window[t].scenes) >= SceneLimit IN
    /\ full \/ ~Reservable(t)
    /\ window' = [window EXCEPT ![t].queued = 0, ![t].waiting = n, ![t].busy = FALSE]
    /\ schedule' = IF full THEN schedule ELSE [schedule EXCEPT ![t] = Refused(t)]
    /\ UNCHANGED <<armed, idle, events, owed, shown, target>>

(* commit_layers: observed is whether a changed child or the backing asks for feedback *)
SceneShows(t, n) ==
    LET gs == Reserved(t) IN
    /\ Cardinality(window[t].scenes) < SceneLimit /\ Reservable(t)
    /\ AndroidFrame(n, t, gs)
    /\ \E observed \in BOOLEAN :
        /\ schedule' = [schedule EXCEPT ![t] =
               IF observed THEN Consume(@, gs) ELSE Finish(Consume(@, gs), gs)]
        /\ window' = [window EXCEPT ![t] = [EndWait(@) EXCEPT
               !.queued = 0,
               !.scenes = IF observed THEN @ \cup {[n |-> n, grant |-> gs]} ELSE @]]
        /\ owed' = owed \cup (IF observed THEN {[task |-> t, n |-> n]} ELSE {})

SubmitLayerScene(t, n) ==
    /\ \/ SceneBusy(t, n)
       \/ SceneInvalid(t, n)
       \/ SceneWaits(t, n)
       \/ SceneShows(t, n)
    /\ UNCHANGED <<phase, place, subscription, late, clockOn, manager, era, issued>>

RetryScene(t) ==
    /\ phase = "layers"
    /\ window[t].waiting # 0
    /\ Pops(t, "releases")
    /\ SubmitLayerScene(t, window[t].waiting)
    /\ UNCHANGED sent

NoScene(t) ==
    /\ phase = "layers"
    /\ window[t].waiting = 0
    /\ Pops(t, "releases")
    /\ UNCHANGED <<phase, subscription, schedule, window, armed, clockOn, manager,
                   compositor, history>>

EndReleases ==
    /\ phase = "layers"
    /\ \A t \in Tasks : "releases" \notin ready[t]
    /\ phase' = "requests"
    /\ UNCHANGED <<ready, subscription, schedule, window, armed, clockOn, manager,
                   compositor, history>>

CommitScene(t) ==
    /\ phase = "requests"
    /\ window[t].waiting = 0
    /\ sent[t] < MaxSubmissions
    /\ sent' = [sent EXCEPT ![t] = @ + 1]
    /\ SubmitLayerScene(t, sent[t] + 1)
    /\ UNCHANGED ready

EndRequests ==
    /\ phase = "requests"
    /\ phase' = "events"
    /\ UNCHANGED <<ready, subscription, schedule, window, armed, clockOn, manager,
                   compositor, history>>

-----------------------------------------------------------------------------
(* The compositor, and time *)

Sends(e) ==
    /\ Len(events) < MaxEvents
    /\ events' = Append(events, e)

SendGrant(t) ==
    /\ armed /\ Subscribed(t)
    /\ issued[t] < MaxGrants
    /\ issued' = [issued EXCEPT ![t] = @ + 1]
    /\ Sends([type |-> "grant", task |-> t, proxy |-> subscription[t].proxy,
              epoch |-> era, sequence |-> issued[t] + 1])
    /\ UNCHANGED <<presenter, place, late, idle, era, owed, history>>

SendClockGrant ==
    /\ armed /\ clockOn # NoOutput
    /\ Sends([type |-> "clock", output |-> clockOn])
    /\ UNCHANGED <<presenter, place, late, idle, era, issued, owed, history>>

SendFeedback(t, n) ==
    /\ [task |-> t, n |-> n] \in owed
    /\ owed' = owed \ {[task |-> t, n |-> n]}
    /\ Sends([type |-> "feedback", task |-> t, n |-> n])
    /\ UNCHANGED <<presenter, place, late, idle, era, issued, history>>

StartEpoch ==
    /\ era < MaxEra
    /\ era' = era + 1
    /\ events' = IF armed THEN events \o SetToSeq({
           [EpochEvent(t, subscription[t].proxy) EXCEPT !.epoch = era + 1] :
               t \in {u \in Tasks : Subscribed(u)}}) ELSE events
    /\ UNCHANGED <<presenter, place, late, idle, issued, owed, history>>

MoveWindow(t, p) ==
    /\ place[t] # p
    /\ p # NoOutput => subscription[t].proxy < MaxProxies
    /\ place' = [place EXCEPT ![t] = p]
    /\ UNCHANGED <<presenter, late, idle, era, issued, events, owed, history>>

PassLatch(t) ==
    /\ schedule[t].offered # {} /\ t \notin late
    /\ late' = late \cup {t}
    /\ UNCHANGED <<presenter, place, idle, era, issued, events, owed, history>>

PassIdle ==
    /\ CanIdle /\ ~idle
    /\ idle' = TRUE
    /\ UNCHANGED <<presenter, place, late, era, issued, events, owed, history>>

ReadReleased(t) ==
    /\ window[t].busy /\ phase = "events"
    /\ ready' = [ready EXCEPT ![t] = @ \cup {"releases"}]
    /\ UNCHANGED <<phase, subscription, schedule, window, armed, clockOn, manager,
                   compositor, history>>

-----------------------------------------------------------------------------
Loop == EndEvents \/ RefreshFrameTimelines \/ EndFlush \/ EndReleases \/ EndRequests
Dispatch == DispatchGrant \/ DispatchClock \/ DispatchEpoch \/ DispatchFeedback \/ RemoveManager
Work(t) ==
    \/ QueuePresent(t) \/ FlushShows(t) \/ FlushWaits(t)
    \/ RetryScene(t) \/ NoScene(t) \/ CommitScene(t)
Environment ==
    \/ SendClockGrant \/ StartEpoch \/ PassIdle
    \/ \E t \in Tasks : SendGrant(t) \/ PassLatch(t) \/ ReadReleased(t)
    \/ \E t \in Tasks, n \in 1..MaxSubmissions : SendFeedback(t, n)
    \/ \E t \in Tasks, p \in Places : MoveWindow(t, p)

Next == Loop \/ Dispatch \/ (\E t \in Tasks : Work(t)) \/ Environment
Spec == Init /\ [][Next]_vars
====
