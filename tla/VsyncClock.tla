----------------------------- MODULE VsyncClock -----------------------------
(***************************************************************************)
(* The free-running vsync timer that stands in when the host gives no      *)
(* frame grants: its displays, the phase it takes from presentation        *)
(* feedback, and the thread that wakes for the next tick.  Time is counted *)
(* in small units, and the thread may wake late.                           *)
(***************************************************************************)
EXTENDS Integers, FiniteSetsExt

CONSTANTS Displays, Periods, MaxTime

VARIABLES now, displays, phase, last
vars == <<now, displays, phase, last>>

Off == [period |-> 0, next |-> 0, phased |-> FALSE, anchor |-> 0]
NoPhase == [at |-> 0, period |-> 0]
Init == /\ now = 1 /\ phase = NoPhase
        /\ displays = [d \in Displays |-> Off] /\ last = [d \in Displays |-> 0]
Scheduled == {d \in Displays : displays[d] # Off}

PeriodsCompatible(a, b) == a - b \in -Max({a \div 100, 1})..Max({a \div 100, 1})
\* Mutant: a tick that is due this instant counts as the next one.
NextVsyncNow(t, at, period) ==
    IF at > t THEN at ELSE at + ((t - at) \div period) * period
NextVsyncAfter(t, at, period) ==
    IF at > t THEN at ELSE at + ((t - at) \div period + 1) * period

(* ScheduledVsync::start and ::observe.  `anchor` is the sample that set    *)
(* the phase.                                                               *)
Start(period) ==
    IF phase # NoPhase /\ PeriodsCompatible(period, phase.period)
      THEN [period |-> period, next |-> NextVsyncAfter(now, phase.at, period), phased |-> TRUE,
            anchor |-> phase.at]
      ELSE [period |-> period, next |-> now + period, phased |-> FALSE, anchor |-> now]
Observe(s, at, period) ==
    IF s # Off /\ ~s.phased /\ PeriodsCompatible(s.period, period)
      THEN [s EXCEPT !.next = NextVsyncAfter(now, at, s.period), !.phased = TRUE, !.anchor = at]
      ELSE s

SetEnabled(d, period) ==
    /\ displays' = [displays EXCEPT ![d] = Start(period)]
    /\ UNCHANGED <<now, phase, last>>
UpdatePeriod(d, period) ==
    /\ d \in Scheduled /\ displays[d].period # period
    /\ displays' = [displays EXCEPT ![d] = Start(period)]
    /\ UNCHANGED <<now, phase, last>>
Disable(ds) ==
    /\ displays' = [d \in Displays |-> IF d \in ds THEN Off ELSE displays[d]]
    /\ UNCHANGED <<now, phase, last>>
ObservePresentation(at, period) ==
    /\ at <= now
    /\ phase' = [at |-> at, period |-> period]
    /\ displays' = [d \in Displays |-> Observe(displays[d], at, period)]
    /\ UNCHANGED <<now, last>>
(* run_vsync_scheduler: one pass over the displays that are due.            *)
Due == {d \in Scheduled : displays[d].next <= now}
Wake ==
    /\ Due # {}
    /\ last' = [d \in Displays |-> IF d \in Due THEN displays[d].next ELSE last[d]]
    /\ displays' = [d \in Displays |->
         IF d \in Due
           THEN [displays[d] EXCEPT !.next = NextVsyncAfter(now, @, displays[d].period)]
           ELSE displays[d]]
    /\ UNCHANGED <<now, phase>>
Pass == now < MaxTime /\ now' = now + 1 /\ UNCHANGED <<displays, phase, last>>

Next ==
    \/ \E d \in Displays, p \in Periods : SetEnabled(d, p) \/ UpdatePeriod(d, p)
    \/ \E ds \in {{d} : d \in Displays} \cup {Displays} : Disable(ds)
    \/ \E at \in 1..MaxTime, p \in Periods : ObservePresentation(at, p)
    \/ Wake \/ Pass
Spec == Init /\ [][Next]_vars

-----------------------------------------------------------------------------
(* Ticks of a display never repeat or go back, whatever is observed and     *)
(* however late the thread wakes; the next one is at most a period away, on *)
(* the host's phase once a sample has set it.                               *)
TicksSteady ==
    /\ \A d \in Scheduled :
        /\ displays[d].next <= now + displays[d].period
        /\ (displays[d].next - displays[d].anchor) % displays[d].period = 0
        /\ last[d] < displays[d].next
    /\ \A d \in Displays : last[d] <= now
=============================================================================
