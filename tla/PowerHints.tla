----------------------------- MODULE PowerHints -----------------------------
(***************************************************************************)
(* Android's performance hint sessions as utilization floors of threads:   *)
(* the power HAL (droidloom-power-service), its controller (droidloom-     *)
(* power) and the thread that expires sessions which stopped reporting.    *)
(* Binder threads call the controller under one mutex, so an operation is  *)
(* one step.  Instants are modelled by the ticks that remain until them,   *)
(* capacities and steps by small numbers in the same proportions.          *)
(***************************************************************************)
EXTENDS Integers, FiniteSets, Sequences, FiniteSetsExt

CONSTANTS Sessions,       \* identities that create hands out, in order: 1..n
          Threads,        \* thread identities
          Drivers,        \* the threads named like a Mesa driver queue
          Capacities,     \* the CPUs' capacities
          UTIL_MAX, MIN_RAISE, MAX_RAISE, DECAY, HINT_STEP, QUANTUM,
          Targets,        \* target work durations
          Works,          \* measured work durations
          STALE_PERIODS, MIN_STALE, MAX_STALE,   \* in ticks of TICK time units
          TICK,
          INTERACTION_HOLD, RESCAN,
          RtDefault,      \* the floor of a real-time thread without a clamp
          MaxCalls        \* bound: calls and events

VARIABLES c,        \* Controller: policy, sessions, applied, low_power, hold, next_id
          kernel,   \* thread -> the utilization floor it runs with
          alive,    \* the threads that exist
          class,    \* thread -> its scheduling class, or "denied"
          reborn,   \* threads whose identity was taken over by a new thread
          expiry,   \* the expiry thread: wake_at and whether it was notified
          calls

vars == <<c, kernel, alive, class, reborn, expiry, calls>>

Never == -1      \* no instant

(* ---- the policy ---------------------------------------------------------*)

Greatest(a, b) == IF a > b THEN a ELSE b
Least(a, b) == IF a < b THEN a ELSE b

(* Policy::from_capacities: the ceiling is reached on the largest tier of  *)
(* at least two CPUs, the baseline lies just above the smallest tier.      *)
Capacity(i) == Least(Capacities[i], UTIL_MAX)
Cpus(t) == Cardinality({i \in DOMAIN Capacities : Capacity(i) = t})
Tiers == {Capacity(i) : i \in DOMAIN Capacities} \ {0}
Policy ==
  LET shared == {t \in Tiers : Cpus(t) >= 2}
      wide == IF Tiers = {} THEN UTIL_MAX ELSE Max(IF shared = {} THEN Tiers ELSE shared)
      ceiling == (wide * 4) \div 5
  IN [ceiling |-> ceiling,
      baseline |-> IF Cardinality(Tiers) > 1 /\ Min(Tiers) < ceiling
                   THEN Least(Min(Tiers) + UTIL_MAX \div 16, ceiling) ELSE ceiling \div 2]
Ceiling == c.policy.ceiling
Baseline == c.policy.baseline
InteractionFloor == (Baseline + Ceiling) \div 2

(* adjust: half of the overrun's fraction of the target, within bounds.    *)
Adjust(floor, spent, target) ==
  IF spent <= 0 THEN floor
  ELSE IF spent > target
  THEN LET raise == ((spent - target) * UTIL_MAX) \div (2 * target)
       IN Least(floor + Greatest(MIN_RAISE, Least(raise, MAX_RAISE)), Ceiling)
  ELSE IF spent * 10 < target * 7 THEN Greatest(floor - DECAY, 0) ELSE floor

(* ---- sessions and their demand ------------------------------------------*)

Init ==
  /\ c = [policy |-> Policy, sessions |-> <<>>, applied |-> [t \in Threads |-> 0], low |-> FALSE,
          hold |-> 0, next |-> 1]
  /\ alive = Threads \ Drivers
  /\ class \in {f \in [Threads -> {"fair", "rt", "deadline", "denied"}] :
                  \A t \in Threads : f[t] # "fair" => t = Max(Threads \ Drivers)}
  /\ kernel = [t \in Threads |-> IF class[t] = "rt" THEN RtDefault ELSE 0]
  /\ reborn = {}
  /\ expiry = [wake |-> Never, notified |-> FALSE]
  /\ calls = 0

CeilingOf(d) == IF d.low THEN Baseline ELSE Ceiling
Held(d) == IF d.hold > 0 THEN InteractionFloor ELSE 0

Demand(s, ceiling) ==
  IF s.paused \/ s.efficient \/ s.until = Never THEN 0
  ELSE IF s.spike THEN ceiling ELSE Least(s.floor, ceiling)

Known(d) == {i \in DOMAIN d.sessions : d.sessions[i].open}
ThreadsOf(s) == s.tids \cup s.drivers
Stale(target) == Greatest(MIN_STALE, Least((target * STALE_PERIODS) \div TICK, MAX_STALE))
Activated(s) == [s EXCEPT !.until = Stale(s.target)]
Closed == [open |-> FALSE, tids |-> {}, drivers |-> {}, target |-> Min(Targets), floor |-> 0,
           until |-> Never, age |-> RESCAN, spike |-> FALSE, paused |-> FALSE, efficient |-> FALSE]

(* The floor of a thread: the highest demand of its sessions, rounded up.  *)
Want(d, t) ==
  LET ceiling == CeilingOf(d)
      demand == Max({0} \cup {Demand(d.sessions[i], ceiling) :
                              i \in {j \in Known(d) : t \in ThreadsOf(d.sessions[j])}})
  IN Least(((demand + QUANTUM - 1) \div QUANTUM) * QUANTUM, ceiling)

(* Scheduler::apply: what sched_setattr leaves a thread with.              *)
Effective(t, floor) ==
  CASE class[t] = "deadline" -> 0
    [] class[t] = "rt" -> Greatest(floor, RtDefault)
    [] OTHER -> floor

(* sync: the threads whose floor changed are told; one that has exited is  *)
(* forgotten by every session; one that refuses keeps what it had.         *)
Forget(d, gone) ==
  [d EXCEPT !.sessions = [i \in DOMAIN @ |->
     [@[i] EXCEPT !.tids = @ \ gone, !.drivers = @ \ gone]],
            !.applied = [t \in Threads |-> IF t \in gone THEN 0 ELSE @[t]]]
Changed(d, ts) == {t \in ts : Want(d, t) # d.applied[t]}
Told(d, ts) == {t \in Changed(d, ts) \cap alive : class[t] # "denied"}
Sync(d, ts) ==
  Forget([d EXCEPT !.applied = [t \in Threads |-> IF t \in Told(d, ts) THEN Want(d, t) ELSE @[t]]],
         Changed(d, ts) \ alive)
SyncSession(d, i) == Sync(d, ThreadsOf(d.sessions[i]))
SyncAll(d) ==
  Sync(d, UNION {ThreadsOf(d.sessions[i]) : i \in Known(d)} \cup {t \in Threads : d.applied[t] # 0})

(* rescan: the driver queues of the session's process.                     *)
DriverThreads == alive \cap Drivers
Rescan(d, i) ==
  LET found == DriverThreads \ d.sessions[i].tids
  IN Sync([d EXCEPT !.sessions[i].drivers = found, !.sessions[i].age = 0],
          d.sessions[i].drivers \ found)

(* ---- the expiry thread --------------------------------------------------*)

(* next_deadline: the first instant at which a floor ends.                 *)
NextDeadline(d) ==
  LET ends == {d.sessions[i].until : i \in {j \in Known(d) :
                  Demand(d.sessions[j], CeilingOf(d)) > 0}}
  IN IF ends = {} THEN Never ELSE Min(ends)

(* Shared::with: one operation, then the expiry thread is notified if a    *)
(* floor now ends before it plans to wake.                                 *)
\* Mutant: only a thread that waits without a deadline is notified.
WithIdle(d) ==
  /\ calls < MaxCalls /\ calls' = calls + 1
  /\ c' = d
  /\ kernel' = [t \in Threads |-> IF d.applied[t] = c.applied[t] THEN kernel[t]
                                  ELSE IF t \in alive THEN Effective(t, d.applied[t]) ELSE 0]
  /\ expiry' = [expiry EXCEPT !.notified = @ \/ (NextDeadline(d) # Never /\ expiry.wake = Never)]
  /\ UNCHANGED <<alive, class, reborn>>

With(d) ==
  /\ calls < MaxCalls /\ calls' = calls + 1
  /\ c' = d
  /\ kernel' = [t \in Threads |-> IF d.applied[t] = c.applied[t] THEN kernel[t]
                                  ELSE IF t \in alive THEN Effective(t, d.applied[t]) ELSE 0]
  /\ expiry' = [expiry EXCEPT !.notified = @ \/
                  LET end == NextDeadline(d)
                  IN end # Never /\ (expiry.wake = Never \/ end < expiry.wake)]
  /\ UNCHANGED <<alive, class, reborn>>

(* expire_forever, one round: expire, then sleep until the next deadline.  *)
Expired ==
  LET over == {i \in Known(c) : c.sessions[i].until = 0}
      e == [c EXCEPT !.sessions = [i \in DOMAIN @ |->
              IF i \in over THEN [@[i] EXCEPT !.until = Never, !.spike = FALSE] ELSE @[i]]]
  IN Sync(e, UNION {ThreadsOf(c.sessions[i]) : i \in over})
Expire ==
  /\ expiry.notified \/ expiry.wake = 0
  /\ LET d == Expired
     IN /\ c' = d
        /\ kernel' = [t \in Threads |-> IF d.applied[t] = c.applied[t] THEN kernel[t]
                                        ELSE IF t \in alive THEN Effective(t, d.applied[t]) ELSE 0]
        /\ expiry' = [wake |-> NextDeadline(d), notified |-> FALSE]
  /\ UNCHANGED <<alive, class, reborn, calls>>

(* ---- IPower and IPowerHintSession ---------------------------------------*)

Create(tids, target) ==
  /\ c.next \in Sessions
  /\ LET s == Activated([Closed EXCEPT !.open = TRUE, !.tids = tids, !.target = target,
                                       !.floor = Greatest(Baseline, Held(c))])
         d == [c EXCEPT !.sessions = Append(@, s), !.next = @ + 1]
     IN With(SyncSession(Rescan(d, c.next), c.next))

(* close, and the drop of a session whose client died.                     *)
Close(i) == With(Sync([c EXCEPT !.sessions[i] = Closed], ThreadsOf(c.sessions[i])))

SetTarget(i, target) == With([c EXCEPT !.sessions[i].target = target])

Report(i, spent) ==
  LET s == c.sessions[i]
      learned == IF s.spike THEN [s EXCEPT !.spike = FALSE]
                 ELSE [s EXCEPT !.floor = Greatest(Adjust(@, spent, s.target), Held(c))]
      d == [c EXCEPT !.sessions[i] = Activated(learned)]
      again == Demand(d.sessions[i], Ceiling) > 0 /\ s.age >= RESCAN
  IN With(SyncSession(IF again THEN Rescan(d, i) ELSE d, i))

Hints == {"LoadUp", "LoadDown", "LoadReset", "LoadResume", "LoadSpike"}
Hint(i, hint) ==
  LET s == c.sessions[i]
      hinted == CASE hint = "LoadUp" ->
                       [s EXCEPT !.floor = Least(Greatest(@, Baseline) + HINT_STEP, Ceiling)]
                  [] hint = "LoadDown" ->
                       [s EXCEPT !.floor = Greatest(Greatest(@ - HINT_STEP, 0), Held(c))]
                  [] hint = "LoadReset" -> [s EXCEPT !.floor = Greatest(@, Baseline)]
                  [] hint = "LoadResume" -> s
                  [] hint = "LoadSpike" -> [s EXCEPT !.spike = TRUE]
      d == [c EXCEPT !.sessions[i] = IF hint = "LoadDown" THEN hinted ELSE Activated(hinted)]
  IN With(SyncSession(IF hint \in {"LoadReset", "LoadResume"} THEN Rescan(d, i) ELSE d, i))

Pause(i) == With(SyncSession([c EXCEPT !.sessions[i].paused = TRUE], i))
Resume(i) ==
  With(SyncSession([c EXCEPT !.sessions[i] = Activated([@ EXCEPT !.paused = FALSE])], i))

SetThreads(i, tids) ==
  LET d == Rescan([c EXCEPT !.sessions[i].tids = tids], i)
  IN With(Sync(d, ThreadsOf(c.sessions[i]) \cup ThreadsOf(d.sessions[i])))

SetEfficient(i, e) == With(SyncSession([c EXCEPT !.sessions[i].efficient = e], i))

(* setBoost(INTERACTION), setMode(LOW_POWER).                              *)
Interaction ==
  With(SyncAll([c EXCEPT !.hold = INTERACTION_HOLD, !.sessions = [i \in DOMAIN @ |->
         IF @[i].paused \/ @[i].efficient \/ ~@[i].open THEN @[i]
         ELSE Activated([@[i] EXCEPT !.floor = Greatest(@, InteractionFloor)])]]))
SetLowPower(enabled) == c.low # enabled /\ With(SyncAll([c EXCEPT !.low = enabled]))

(* ---- the environment ----------------------------------------------------*)

Earlier(instant) == IF instant > 0 THEN instant - 1 ELSE instant
Tick ==
  /\ calls < MaxCalls /\ calls' = calls + 1
  /\ c' = [c EXCEPT !.hold = Earlier(@), !.sessions = [i \in DOMAIN @ |->
             [@[i] EXCEPT !.until = Earlier(@), !.age = Least(@ + 1, RESCAN)]]]
  /\ expiry' = [expiry EXCEPT !.wake = Earlier(@)]
  /\ UNCHANGED <<kernel, alive, class, reborn>>

ThreadExits(t) ==
  /\ calls < MaxCalls /\ calls' = calls + 1
  /\ t \in alive /\ alive' = alive \ {t}
  /\ UNCHANGED <<c, kernel, class, reborn, expiry>>

ThreadStarts(t) ==
  /\ calls < MaxCalls /\ calls' = calls + 1
  /\ t \notin alive /\ alive' = alive \cup {t}
  /\ kernel' = [kernel EXCEPT ![t] = Effective(t, 0)]
  /\ reborn' = IF c.applied[t] # 0 THEN reborn \cup {t} ELSE reborn
  /\ UNCHANGED <<c, class, expiry>>

(* The binder interfaces: IPowerHintSession of one session, and IPower,    *)
(* which refuses a session without threads.                                *)
HintSession(i) ==
  \/ Close(i) \/ Pause(i) \/ Resume(i)
  \/ \E target \in Targets : SetTarget(i, target)
  \/ \E spent \in Works : Report(i, spent)
  \/ \E hint \in Hints : Hint(i, hint)
  \/ \E tids \in SUBSET Threads \ {{}} : SetThreads(i, tids)
  \/ \E e \in BOOLEAN : SetEfficient(i, e)
PowerService ==
  \/ \E tids \in SUBSET Threads \ {{}}, target \in Targets : Create(tids, target)
  \/ Interaction \/ \E e \in BOOLEAN : SetLowPower(e)

Next ==
  \/ PowerService \/ \E i \in Known(c) : HintSession(i)
  \/ Expire \/ Tick
  \/ \E t \in Threads : ThreadExits(t) \/ ThreadStarts(t)

Spec == Init /\ [][Next]_vars
-----------------------------------------------------------------------------
TypeOK ==
  /\ \A t \in Threads : c.applied[t] \in 0..Ceiling
  /\ \A i \in Known(c) : c.sessions[i].floor \in 0..Ceiling

(* Floors (sync, rescan, forget; Shared::with, expire_forever): the floors *)
(* kept up to date call by call are always the ones that the open sessions *)
(* ask for at this moment, no thread keeps the floor of a closed, paused,  *)
(* inactive or replaced session, a real-time thread is never lowered; and  *)
(* no floor outlives its session's deadline, for the expiry thread never   *)
(* sleeps past the first one.  Threads that refuse a clamp, and new        *)
(* threads under the identity of one that had a floor, are excepted.       *)
FloorsHonest ==
  /\ TypeOK
  /\ \A t \in {u \in alive \ reborn : class[u] # "denied"} :
       c.applied[t] = Want(c, t) /\ kernel[t] = Effective(t, Want(c, t))
  /\ \A t \in alive : class[t] = "rt" => kernel[t] >= RtDefault
  /\ NextDeadline(c) # Never =>
       expiry.notified \/ (expiry.wake # Never /\ expiry.wake <= NextDeadline(c))
=============================================================================
