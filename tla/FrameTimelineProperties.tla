---- MODULE FrameTimelineProperties ----
(* What the presenter promises about grants, frames and callbacks. *)
EXTENDS FrameTimeline

(* Every consumed grant has exactly one callback that will end it, and the  *)
(* endpoint tracks exactly the composed frames with a callback: nothing     *)
(* that retires, aborts, supersedes or skips leaks a grant or a tracked     *)
(* frame (the contract's "ends in exactly one state").                      *)
GrantsHaveCallbacks ==
    \A t \in Tasks :
        LET w == window[t]
            fs == w.frames \cup w.scenes IN
        /\ schedule[t].consumed = GrantsOf(fs)
        /\ \A f, g \in fs : f # g => f.n # g.n /\ f.grant \cap g.grant = {}
        /\ w.tracked = Submissions(w.frames)
        /\ {[task |-> t, n |-> n] : n \in Submissions(fs)} \subseteq
               owed \cup {[task |-> e.task, n |-> e.n] :
                          e \in {events[i] : i \in {j \in DOMAIN events :
                                                    events[j].type = "feedback"}}}

(* A grant of an earlier epoch is never held, and a task without a          *)
(* subscription holds none (the epoch event "invalidates all identities").  *)
GrantsOfThisEpoch ==
    \A t \in Tasks :
        LET held == schedule[t].offered \cup schedule[t].consumed IN
        /\ \A g \in held : g.epoch = schedule[t].epoch /\ g.sequence <= schedule[t].last
        /\ ~Subscribed(t) => held = {}

(* Grants and frames are accounted for: one callback ends each grant, and   *)
(* an epoch or a lost subscription leaves none behind.                      *)
GrantsAccounted == GrantsHaveCallbacks /\ GrantsOfThisEpoch

(* A commit never names the grant of an earlier commit, nor an older one in *)
(* the same epoch: a late frame is not relabelled and frames do not burst.  *)
TargetsAdvance ==
    [][\A t \in Tasks : target'[t] # target[t] =>
        \A new \in target'[t], old \in target[t] :
            \/ new.grant.epoch > old.grant.epoch
            \/ /\ new.grant.epoch = old.grant.epoch
               /\ new.grant.sequence > old.grant.sequence]_vars

(* Composed frames and direct scenes come over two sockets and wait in two  *)
(* slots; a window never goes back to something Android submitted earlier.  *)
ShownInOrder ==
    [][\A t \in Tasks : shown'[t] # shown[t] => shown'[t] > shown[t]]_vars

(* After the compositor withdraws its global an exact producer is paused:   *)
(* nothing is shown untargeted in its place.                                *)
PausedWithoutManager == [][~manager => shown' = shown]_vars

(* What the screen shows only ever advances: in submission order, on newer  *)
(* grants, and never without the protocol the producer was promised.        *)
ScreenAdvances == TargetsAdvance /\ ShownInOrder /\ PausedWithoutManager

(* A frame or scene that waits has something that will wake it: a mark, a   *)
(* grant to come (subscribed and armed), a callback, an event in flight, or *)
(* a buffer release.  A task without a subscription is paused.              *)
Wakes(t, mark) ==
    \/ mark \in ready[t]
    \/ ~Subscribed(t) \/ armed
    \/ window[t].frames \cup window[t].scenes # {}
    \/ \E i \in DOMAIN events :
        events[i].type \in {"grant", "epoch"} /\ events[i].task = t /\ Mine(events[i])
NothingForgotten ==
    \A t \in Tasks :
        /\ window[t].queued # 0 => Wakes(t, "timeline")
        /\ window[t].waiting # 0 /\ ~window[t].busy => Wakes(t, "releases")
====
