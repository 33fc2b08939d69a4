---- MODULE TaskCommandsProofs ----
(***************************************************************************)
(* The backlog stays coalesced and never fills up, for any number of       *)
(* windows below its bound.  Coalesced alone is not inductive: it also     *)
(* needs that serials are never re-used and that a queued close keeps its  *)
(* window shut for later commands.                                         *)
(***************************************************************************)
EXTENDS TaskCommandsProperties, FiniteSetTheorems, TLAPS

EntryType == [serial : Nat, window : Windows, kind : Kinds, size : Nat, ready : BOOLEAN]

(* Queued commands carry serials already given out, and a queued close      *)
(* keeps its window in the closed set.                                      *)
Numbered ==
    /\ next \in Nat
    /\ pending \subseteq EntryType
    /\ \A e \in pending : e.serial <= next /\ (e.kind = "close" => e.window \in closed)

Backlog == Numbered /\ Coalesced /\ NeverRejected

(* What push() keeps never outnumbers the windows: every entry it keeps can *)
(* be charged to a window of its own, the one focus to the pushed window.   *)
LEMMA KeptFits ==
    ASSUME NEW w \in Windows, NEW kind \in Kinds, w \notin closed, Numbered, Coalesced
    PROVE  ~(Cardinality(Retain(w, kind)) >= MaxPending)
<1> DEFINE kept == Retain(w, kind)
           charge == [e \in kept |-> IF e.kind = "focus" THEN w ELSE e.window]
<1>1. kept \subseteq pending /\ kept \subseteq EntryType
  BY DEF Retain, Numbered
<1>2. \A e \in kept : e.kind # "focus" /\ kind # "focus" => e.window # w
  BY <1>1 DEF Retain, Numbered, Kinds, EntryType
<1>3. \A e \in kept : e.kind = "focus" => kind # "focus"
  BY DEF Retain
<1>4. charge \in [kept -> Windows]
  BY <1>1 DEF EntryType
<1>5. ASSUME NEW e \in kept, NEW f \in kept, charge[e] = charge[f]
      PROVE  e = f
  <2>1. CASE e.kind = "focus" /\ f.kind = "focus"
    BY <2>1, <1>1 DEF Coalesced
  <2>2. CASE e.kind = "focus" /\ f.kind # "focus"
    BY <2>2, <1>2, <1>3, <1>5
  <2>3. CASE e.kind # "focus" /\ f.kind = "focus"
    BY <2>3, <1>2, <1>3, <1>5
  <2>4. CASE e.kind # "focus" /\ f.kind # "focus"
    BY <2>4, <1>5, <1>1 DEF Coalesced
  <2> QED BY <2>1, <2>2, <2>3, <2>4
<1>6. charge \in Injection(kept, Windows)
  BY <1>4, <1>5 DEF Injection, IsInjective
<1> HIDE DEF kept, charge
<1>7. IsFiniteSet(kept) /\ Cardinality(kept) <= Cardinality(Windows)
  BY <1>6, FS_Injection, TaskCommandsAssumption
<1>8. Cardinality(kept) \in Nat /\ Cardinality(Windows) \in Nat
  BY <1>7, FS_CardinalityType, TaskCommandsAssumption
<1> QED
  BY <1>7, <1>8, TaskCommandsAssumption DEF kept

(* The empty backlog is coalesced. *)
LEMMA BacklogInit == Init => Backlog
BY DEF Init, Backlog, Numbered, Coalesced, NeverRejected

(* A push replaces what it supersedes and appends under a new serial. *)
LEMMA BacklogPush ==
    ASSUME NEW w \in Windows, NEW kind \in Kinds, Backlog, Push(w, kind)
    PROVE  Backlog'
<1> USE DEF Backlog
<1>1. w \notin closed
  BY DEF Push
<1>2. ~(Cardinality(Retain(w, kind)) >= MaxPending)
  BY <1>1, KeptFits
<1>3. /\ next' = next + 1
      /\ closed' = IF kind = "close" THEN closed \cup {w} ELSE closed
      /\ pending' = Retain(w, kind) \cup {Entry(w, kind)}
      /\ UNCHANGED rejected
  BY <1>2 DEF Push
<1>4. Entry(w, kind) \in EntryType
  BY DEF Entry, EntryType, Numbered
<1>5. Retain(w, kind) \subseteq pending
  BY DEF Retain
<1>6. Numbered'
  <2>1. next' \in Nat /\ pending' \subseteq EntryType
    BY <1>3, <1>4, <1>5 DEF Numbered
  <2>2. ASSUME NEW e \in pending'
        PROVE  e.serial <= next' /\ (e.kind = "close" => e.window \in closed')
    BY <2>2, <1>3, <1>5 DEF Numbered, Entry, EntryType
  <2> QED BY <2>1, <2>2 DEF Numbered
<1>7. \A e \in Retain(w, kind) :
        /\ e \in EntryType
        /\ e.serial <= next
        /\ kind = "focus" => e.kind # "focus"
        /\ e.window = w /\ kind = "close" => FALSE
        /\ e.window = w /\ kind = "resize" => e.kind = "focus"
        /\ e.window = w /\ kind = "focus" => e.kind = "resize"
  BY <1>1 DEF Retain, Numbered, EntryType, Kinds
<1>8. Coalesced'
  <2> SUFFICES ASSUME NEW e \in pending', NEW f \in pending', e # f
               PROVE  /\ e.serial # f.serial
                      /\ e.kind = "focus" => f.kind # "focus"
                      /\ e.window = f.window /\ e.kind # "focus"
                           => f.kind = "focus" /\ e.kind = "resize"
    BY DEF Coalesced
  <2>1. CASE e \in Retain(w, kind) /\ f \in Retain(w, kind)
    BY <2>1, <1>5 DEF Coalesced
  <2>2. CASE e = Entry(w, kind) /\ f \in Retain(w, kind)
    BY <2>2, <1>7 DEF Entry, EntryType, Numbered, Kinds
  <2>3. CASE e \in Retain(w, kind) /\ f = Entry(w, kind)
    BY <2>3, <1>7 DEF Entry, EntryType, Numbered, Kinds
  <2> QED BY <2>1, <2>2, <2>3, <1>3
<1>9. NeverRejected'
  BY <1>3 DEF NeverRejected
<1> QED BY <1>6, <1>8, <1>9

(* Passing the debounce deadline changes nothing but readiness. *)
LEMMA BacklogDebounce ==
    ASSUME Backlog, NEW e \in pending, PassDebounce(e)
    PROVE  Backlog'
<1> DEFINE r == [e EXCEPT !.ready = TRUE]
<1>1. /\ pending' = (pending \ {e}) \cup {r}
      /\ closed' = closed /\ next' = next /\ rejected' = rejected
  BY DEF PassDebounce, host
<1>2. /\ e \in EntryType /\ r \in EntryType
      /\ r.serial = e.serial /\ r.window = e.window /\ r.kind = e.kind
  BY Zenon DEF Backlog, Numbered, EntryType
<1> HIDE DEF r
<1>3. Numbered'
  BY <1>1, <1>2 DEF Backlog, Numbered
<1>4. Coalesced'
  BY <1>1, <1>2 DEF Backlog, Coalesced
<1> QED BY <1>1, <1>3, <1>4 DEF Backlog, NeverRejected

(* Removing entries preserves the backlog's invariant while the closed set  *)
(* loses only windows with nothing queued.                                  *)
LEMMA BacklogShrinks ==
    ASSUME Backlog, pending' \subseteq pending, next' = next, rejected' = rejected,
           \A e \in pending' : e.window \in closed => e.window \in closed'
    PROVE  Backlog'
BY DEF Backlog, Numbered, Coalesced, NeverRejected

(* Every step of every thread preserves the backlog's invariant. *)
LEMMA BacklogStep == Backlog /\ [Next]_vars => Backlog'
<1> SUFFICES ASSUME Backlog, [Next]_vars PROVE Backlog'
  OBVIOUS
<1>1. ASSUME NEW w \in Windows, NEW kind \in Kinds, Push(w, kind) PROVE Backlog'
  BY <1>1, BacklogPush
<1>2. ASSUME NEW e \in pending, PassDebounce(e) PROVE Backlog'
  BY <1>2, BacklogDebounce
<1>3. ASSUME NEW w \in Windows, Retire(w) PROVE Backlog'
  BY <1>3, BacklogShrinks DEF Retire, Discard, host
<1>4. ASSUME NEW c \in Streams, ReceiveAcknowledgement(c) PROVE Backlog'
  BY <1>4, BacklogShrinks DEF ReceiveAcknowledgement, Acknowledge, host
<1>5. CASE UNCHANGED <<queue, host>>
  BY <1>5, BacklogShrinks DEF queue, host
<1>6. ASSUME NEW c \in Streams, ServeCommand(c) \/ ReplacedServer(c) \/ ServerTimeout(c)
      PROVE  Backlog'
  BY <1>6, <1>5 DEF ServeCommand, ReplacedServer, ServerTimeout
<1>7. CASE \/ Subscribe \/ ReceiveCommand \/ ResolveCommand \/ ApplyCommand
           \/ AcknowledgeCommand \/ LoseStream
  BY <1>7, <1>5 DEF Subscribe, ReceiveCommand, ResolveCommand, ApplyCommand,
                    AcknowledgeCommand, LoseStream
<1>8. ASSUME NEW w \in Windows, Publish(w) PROVE Backlog'
  BY <1>8, <1>5 DEF Publish
<1>9. CASE FinishPublish \/ PublishFails \/ CheckConnection \/ LoseBackend
  BY <1>9, <1>5 DEF FinishPublish, PublishFails, CheckConnection, LoseBackend
<1>10. CASE UNCHANGED vars
  BY <1>10, <1>5 DEF vars
<1> QED
  BY <1>1, <1>2, <1>3, <1>4, <1>6, <1>7, <1>8, <1>9, <1>10 DEF Next

(* The backlog's invariant holds in every reachable state. *)
LEMMA BacklogAlways == Spec => []Backlog
BY BacklogInit, BacklogStep, PTL DEF Spec

(* The queue of CommandQueue::push is always coalesced: one focus, and one  *)
(* size or close per window, under distinct serials.                        *)
THEOREM QueueCoalesced == Spec => []Coalesced
<1>1. Backlog => Coalesced BY DEF Backlog
<1> QED BY <1>1, BacklogAlways, PTL

(* With fewer windows than MAX_PENDING, CommandQueue::push never   *)
(* refuses a command.                                                       *)
THEOREM NoCommandRejected == Spec => []NeverRejected
<1>1. Backlog => NeverRejected BY DEF Backlog
<1> QED BY <1>1, BacklogAlways, PTL

(* Both together: the backlog never grows past one focus and one command    *)
(* per window, and so never refuses one.                                    *)
THEOREM BacklogAlwaysHolds == Spec => []BacklogHolds
<1>1. Coalesced /\ NeverRejected => BacklogHolds BY DEF BacklogHolds
<1> QED BY <1>1, QueueCoalesced, NoCommandRejected, PTL
====
