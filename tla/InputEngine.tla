----------------------------- MODULE InputEngine -----------------------------
(***************************************************************************)
(* The native input receiver inside Android's input service: the engine    *)
(* that turns samples into events of a task's window, and the state around *)
(* it that survives injections Android refuses.  `s` is the state behind   *)
(* the receiver's lock.  Each operator on it returns the set of outcomes,  *)
(* one for each choice of the injections Android accepts.                  *)
(***************************************************************************)
EXTENDS Integers, FiniteSets

CONSTANTS Tasks, Pointers, Keys,  \* Android tasks, touch identities, key codes
          Windows, DisplayOf,     \* input tokens, and the display of each
          MaxIncarnation, MaxRefusals

VARIABLES s, worker
vars == <<s, worker>>

NoTarget == [incarnation |-> 0, window |-> 0]
Actions == {"down", "motion", "up", "cancel"}

Empty ==
    [target |-> [t \in Tasks |-> NoTarget],                     \* Engine
     gestures |-> [t \in Tasks |-> {}], keys |-> [t \in Tasks |-> {}], suppressed |-> {},
     token |-> [t \in Tasks |-> NoTarget],                      \* State
     pendingRetire |-> [t \in Tasks |-> 0], recovering |-> FALSE, sink |-> FALSE,
     held |-> {},                             \* what Android's windows have down
     refusals |-> 0]
Init == s = Empty /\ worker = "none"

Ok(e) == [state |-> e, ok |-> TRUE]
Refused(e) == [state |-> e, ok |-> FALSE]

(* cancel_task over ts: the events that end what the tasks hold (code 0 is  *)
(* the whole gesture), and the engine after it.                             *)
Cancels(e, ts) ==
    {c \in [task : ts, code : {0} \cup Keys] :
        /\ e.target[c.task] # NoTarget
        /\ IF c.code = 0 THEN e.gestures[c.task] # {} ELSE c.code \in e.keys[c.task]}
CancelTasks(e, ts) ==
    LET gone == {t \in ts : e.target[t] # NoTarget} IN
    [e EXCEPT !.gestures = [t \in Tasks |-> IF t \in gone THEN {} ELSE @[t]],
              !.keys = [t \in Tasks |-> IF t \in gone THEN {} ELSE @[t]],
              !.suppressed = {i \in @ : i.task \notin ts}]

(* A cancellation of a task that has no token, or without a sink, is always *)
(* refused; any other may be.                                               *)
Refusals(e, cs) ==
    LET lost == {c \in cs : ~e.sink \/ e.token[c.task] = NoTarget} IN
    {r \in SUBSET cs : lost \subseteq r /\ e.refusals + Cardinality(r \ lost) <= MaxRefusals}

(* State::cancel: accepted cancellations are taken out of the committed     *)
(* engine, refused ones stay and make the state recovering.                 *)
AcknowledgeCancel(e, cs) ==
    [e EXCEPT !.gestures = [t \in Tasks |-> IF [task |-> t, code |-> 0] \in cs THEN {} ELSE @[t]],
              !.keys = [t \in Tasks |-> {k \in @[t] : [task |-> t, code |-> k] \notin cs}],
              !.held = {h \in @ : \A c \in cs :
                           \/ h.task # c.task \/ h.window # e.token[c.task].window
                           \/ IF c.code = 0 THEN h.code \in Keys ELSE h.code # c.code}]
Cancel(e, ts) ==
    LET cs == Cancels(e, ts) IN
    {[state |-> [AcknowledgeCancel(e, cs \ r) EXCEPT
                    !.recovering = @ \/ r # {},
                    !.refusals = IF e.sink THEN @ + Cardinality(r) ELSE @],
      ok |-> r = {}] : r \in Refusals(e, cs)}

(* State::reset: with every cancellation accepted the engine is replaced by *)
(* the empty one, and the retirements that had failed are finished.         *)
Drained(e) ==
    LET due == {t \in Tasks : e.pendingRetire[t] # 0} IN
    [e EXCEPT !.target = [t \in Tasks |->
                   IF t \in due /\ @[t].incarnation = e.pendingRetire[t] THEN NoTarget ELSE @[t]],
              !.token = [t \in Tasks |-> IF t \in due THEN NoTarget ELSE @[t]],
              !.pendingRetire = [t \in Tasks |-> 0],
              !.recovering = FALSE]
\* Mutant: the engine is emptied whatever Android refused.
ResetUnchecked(e) == {Ok(Drained(CancelTasks(r.state, Tasks))) : r \in Cancel(e, Tasks)}
Reset(e) ==
    {IF r.ok THEN Ok(Drained(CancelTasks(r.state, Tasks))) ELSE r : r \in Cancel(e, Tasks)}
Recovered(e) == IF e.recovering THEN Reset(e) ELSE {Ok(e)}

(* Engine::suppress_touch: a contact that began while another task of the   *)
(* display held a gesture stays out until it ends.                          *)
Identity(x) == [task |-> x.task, code |-> x.code]
\* Mutant: gestures of other tasks do not keep a contact out.
OtherGestureAny(e, x) == FALSE
OtherGesture(e, x) ==
    \E t \in Tasks \ {x.task} :
        /\ e.gestures[t] # {} /\ e.target[t] # NoTarget
        /\ DisplayOf[e.target[t].window] = x.display
Suppresses(e, x) == Identity(x) \in e.suppressed \/ OtherGesture(e, x)
Suppress(e, x) ==
    [e EXCEPT !.suppressed =
        CASE x.action = "down" -> @ \cup {Identity(x)}
          [] Identity(x) \in @ /\ x.action = "up" -> @ \ {Identity(x)}
          [] Identity(x) \in @ /\ x.action = "cancel" -> {i \in @ : i.task # x.task}
          [] OTHER -> @]

(* Engine::touch and Engine::key: the samples they refuse, and their effect *)
(* on the engine.  A repeated key has the action "motion".                  *)
Malformed(e, x) ==
    LET down == x.code \in e.gestures[x.task] \cup e.keys[x.task] IN
    IF x.action = "down" THEN down ELSE ~down
Apply(set, x) ==
    CASE x.action = "down" -> set \cup {x.code}
      [] x.action = "up" -> set \ {x.code}
      [] x.action = "cancel" -> {}
      [] OTHER -> set
Perform(e, x) ==
    LET after == IF x.code \in Keys
                   THEN [e EXCEPT !.keys[x.task] = Apply(@, x)]
                   ELSE [e EXCEPT !.gestures[x.task] = Apply(@, x)]
        here == [task |-> x.task, window |-> e.token[x.task].window, code |-> x.code]
    IN [after EXCEPT !.held =
          CASE x.action = "down" -> @ \cup {here}
            [] x.action = "up" -> @ \ {here}
            [] x.action = "cancel" -> {h \in @ : h.task # x.task \/ h.window # here.window
                                                   \/ h.code \in Keys}
            [] OTHER -> @]

(* State::process on a copy of the engine that is committed with the        *)
(* injection Android accepted.                                              *)
Current(e, x) ==
    /\ e.target[x.task].incarnation = x.incarnation
    /\ e.target[x.task] # NoTarget /\ DisplayOf[e.target[x.task].window] = x.display
Sampled(e, x) ==
    IF ~Current(e, x) THEN {Ok(e)}
    ELSE IF x.code \in Pointers /\ Suppresses(e, x) THEN {Ok(Suppress(e, x))}
    ELSE IF Malformed(e, x) THEN {Refused(e)}
    ELSE {r \in {Ok(Perform(e, x)),
                 Refused([e EXCEPT !.recovering = TRUE, !.refusals = @ + 1])} :
             (r.ok \/ e.refusals < MaxRefusals) /\ (r.ok => e.sink /\ e.token[x.task] # NoTarget)}
Process(e, x) ==
    UNION {IF r.ok THEN Sampled(r.state, x) ELSE {r} : r \in Recovered(e)}

-----------------------------------------------------------------------------
(* receive: one record of the connected client; a sample that fails resets  *)
(* all input.                                                               *)
Input(x) ==
    /\ worker = "client"
    /\ \E r \in Process(s, x) : \E q \in (IF r.ok THEN {r} ELSE Reset(r.state)) :
          s' = q.state
    /\ UNCHANGED worker
Samples ==
    {x \in [task : Tasks, display : {DisplayOf[w] : w \in Windows},
            incarnation : 1..MaxIncarnation, action : Actions, code : Pointers \cup Keys] :
        x.action = "cancel" => x.code \in Pointers}
PowerOff ==
    /\ worker = "client"
    /\ \E r \in Reset(s) : s' = r.state
    /\ UNCHANGED worker

(* receive: a connection is admitted only over a state that could be reset. *)
Accept ==
    /\ worker = "listening"
    /\ \E r \in Reset(s) : s' = r.state /\ worker' = IF r.ok THEN "client" ELSE worker
Disconnect ==
    /\ worker = "client"
    /\ \E r \in Reset(s) : s' = r.state
    /\ worker' = "listening"

(* The worker stops, or its socket fails: the client's reset, then the      *)
(* thread's own.                                                            *)
Stopped(e) ==
    CASE worker = "none" -> {Ok(e)}
      [] worker = "listening" -> Reset(e)
      [] worker = "client" -> UNION {Reset(r.state) : r \in Reset(e)}
WorkerEnds ==
    /\ worker # "none" /\ worker' = "none"
    /\ \E r \in Stopped(s) : s' = r.state
(* droidloom_input_create, then droidloom_input_listen or _start.           *)
Listen ==
    /\ worker' = "listening"
    /\ \E r \in Stopped(s) : s' = [r.state EXCEPT !.sink = TRUE]
Destroy ==
    /\ s.sink /\ worker' = "none"
    /\ \E r \in Stopped(s) : \E q \in Reset(r.state) :
          s' = [q.state EXCEPT
                  !.sink = FALSE,
                  !.target = IF q.ok THEN [t \in Tasks |-> NoTarget] ELSE @,
                  !.token = IF q.ok THEN [t \in Tasks |-> NoTarget] ELSE @]

(* State::publish: a new window or incarnation of the task first ends what  *)
(* the old one holds.                                                       *)
Publish(t, i, w) ==
    LET new == [incarnation |-> i, window |-> w] IN
    /\ \E r \in Recovered(s) :
        IF ~r.ok THEN s' = r.state
        ELSE LET replaced == r.state.target[t] \notin {NoTarget, new}
             IN \E q \in Cancel(r.state, IF replaced THEN {t} ELSE {}) :
                  s' = IF q.ok
                         THEN [(IF replaced THEN CancelTasks(q.state, {t}) ELSE q.state)
                                 EXCEPT !.target[t] = new, !.token[t] = new]
                         ELSE q.state
    /\ UNCHANGED worker
(* State::retire: a retirement Android refuses is kept for the next reset.  *)
Retire(t, i) ==
    /\ s.token[t] # NoTarget /\ s.token[t].incarnation = i
    /\ \E q \in Cancel(s, IF s.target[t].incarnation = i THEN {t} ELSE {}) :
        s' = IF q.ok
               THEN [CancelTasks(q.state, {t}) EXCEPT !.target[t] = NoTarget, !.token[t] = NoTarget]
               ELSE [q.state EXCEPT !.pendingRetire[t] = i]
    /\ UNCHANGED worker

Next ==
    \/ \E x \in Samples : Input(x)
    \/ PowerOff \/ Accept \/ Disconnect \/ WorkerEnds \/ Listen \/ Destroy
    \/ \E t \in Tasks, i \in 1..MaxIncarnation :
          Retire(t, i) \/ \E w \in Windows : Publish(t, i, w)
Spec == Init /\ [][Next]_vars

-----------------------------------------------------------------------------
(* The engine never loses track of what a window has down: whatever Android *)
(* refuses, every touch and key held is one the committed engine knows,     *)
(* under the window it was delivered to, so that a later reset can end it.  *)
HeldIsKnown ==
    /\ s.token = s.target
    /\ s.held = {h \in [task : Tasks, window : Windows, code : Pointers \cup Keys] :
                    /\ h.window = s.token[h.task].window
                    /\ h.code \in s.gestures[h.task] \cup s.keys[h.task]}
    /\ (\E t \in Tasks : s.pendingRetire[t] # 0) => s.recovering

(* Android has one injected touch device per display: the touches held on a *)
(* display always belong to one task (suppress_touch), and none of them is  *)
(* a contact that was being kept out.                                       *)
OneGesturePerDisplay ==
    /\ \A g, h \in {h \in s.held : h.code \in Pointers} :
          DisplayOf[g.window] = DisplayOf[h.window] => g.task = h.task
    /\ \A i \in s.suppressed : i.code \notin s.gestures[i.task]

(* A connection is admitted only when no earlier touch or key is down       *)
(* ("never admit a fresh DOWN over it"), and no window leaves with one.     *)
AdmitsClean ==
    /\ worker = "listening" /\ worker' = "client" => s'.held = {}
    /\ \A t \in Tasks : s.target[t] # NoTarget /\ s'.target[t] # s.target[t] =>
          \A h \in s'.held : h.task # t
=============================================================================
