---- MODULE TaskCommands ----
(***************************************************************************)
(* How a host window's focus, size and close reach Android.  Composer's    *)
(* event pump pushes commands into a coalescing queue; one thread per      *)
(* subscription peeks at the queue, sends a command, waits for its         *)
(* acknowledgement and only then removes it; the framework's receiver      *)
(* resolves each command against the registrations of the publication      *)
(* connection and applies it.  Either connection may break at any point.   *)
(*                                                                         *)
(* A size is the number of the request that asked for it.  Each window     *)
(* keeps one native object here; the life of objects is in TaskLifecycle.  *)
(***************************************************************************)
EXTENDS Integers, FiniteSets

CONSTANTS Windows,
          None,          \* no window
          MaxPending,    \* bound of the backlog (256)
          MaxCommands,   \* bound: commands pushed
          MaxStreams,    \* bound: subscriptions opened
          MaxEpoch       \* bound: publication connections opened

ASSUME TaskCommandsAssumption ==
    /\ None \notin Windows
    /\ IsFiniteSet(Windows)
    /\ {MaxPending, MaxCommands, MaxStreams, MaxEpoch} \subseteq Nat
    /\ Cardinality(Windows) < MaxPending
    /\ MaxStreams > 0 /\ MaxEpoch > 0

VARIABLES
    pending, closed, resized, next, \* CommandQueue
    generation, server,             \* Commands::generation, serve_commands threads
    stream, receiver, held,         \* CommandStream and the receiver thread
    connected, epoch, registered,   \* Backend
    publishing,                     \* window whose publication holds the backend lock
    bound,                          \* windows Composer routes commands for
    alive, bounds, focus,           \* Android's tasks
    wanted, wantsClose, wantsFocus, \* what the host last asked for
    rejected                        \* commands refused by a full backlog

queue == <<pending, closed, resized, next>>
delivery == <<generation, server, stream, receiver, held>>
backend == <<connected, epoch, registered, publishing, bound>>
android == <<alive, bounds, focus>>
host == <<wanted, wantsClose, wantsFocus, rejected>>
vars == <<queue, delivery, backend, android, host>>

Kinds == {"focus", "resize", "close"}
Streams == 1..MaxStreams

Init ==
    /\ pending = {} /\ closed = {} /\ resized = {} /\ next = 0
    /\ generation = 0 /\ server = [c \in Streams |-> [state |-> "off", serial |-> 0]]
    /\ stream = 0 /\ receiver = "idle" /\ held = {}
    /\ connected = FALSE /\ epoch = 0 /\ registered = [w \in Windows |-> 0]
    /\ publishing = None /\ bound = {}
    /\ alive = Windows /\ bounds = [w \in Windows |-> 0] /\ focus = None
    /\ wanted = [w \in Windows |-> 0] /\ wantsClose = {} /\ wantsFocus = None
    /\ rejected = FALSE

-----------------------------------------------------------------------------
(* CommandQueue, filled by the event pump *)

(* The backlog a new command leaves behind. *)
RetainOwnFocus(w, kind) == \* Mutant: a focus replaces only its own window's focus
    {e \in pending :
        CASE kind = "close" -> e.window # w
          [] OTHER -> ~(e.kind = kind /\ e.window = w)}
Retain(w, kind) ==
    {e \in pending :
        CASE kind = "close" -> e.window # w
          [] kind = "focus" -> e.kind # "focus"
          [] OTHER -> ~(e.kind = "resize" /\ e.window = w)}

EntryOldSerial(w, kind) == \* Mutant: a replacement keeps the serial of what it replaces
    LET old == {e \in pending : e.window = w /\ e.kind = kind} IN
    [serial |-> IF old = {} THEN next + 1 ELSE (CHOOSE e \in old : TRUE).serial,
     window |-> w, kind |-> kind, size |-> next + 1,
     ready |-> kind # "resize" \/ w \notin resized]
Entry(w, kind) ==
    [serial |-> next + 1, window |-> w, kind |-> kind, size |-> next + 1,
     ready |-> kind # "resize" \/ w \notin resized]

Asked(w, kind) ==
    /\ wanted' = IF kind = "resize" THEN [wanted EXCEPT ![w] = next + 1] ELSE wanted
    /\ wantsClose' = IF kind = "close" THEN wantsClose \cup {w} ELSE wantsClose
    /\ wantsFocus' = IF kind = "focus" THEN w ELSE wantsFocus

Push(w, kind) ==
    LET kept == Retain(w, kind) IN
    /\ w \in bound \ closed
    /\ next < MaxCommands
    /\ IF Cardinality(kept) >= MaxPending
       THEN /\ pending' = kept
            /\ rejected' = TRUE
            /\ UNCHANGED <<closed, resized, next, wanted, wantsClose, wantsFocus>>
       ELSE /\ next' = next + 1
            /\ closed' = IF kind = "close" THEN closed \cup {w} ELSE closed
            /\ resized' = IF kind = "resize" THEN resized \cup {w} ELSE resized
            /\ pending' = kept \cup {Entry(w, kind)}
            /\ Asked(w, kind)
            /\ UNCHANGED rejected
    /\ UNCHANGED <<delivery, backend, android>>

PassDebounce(e) ==
    /\ e \in pending /\ ~e.ready
    /\ pending' = (pending \ {e}) \cup {[e EXCEPT !.ready = TRUE]}
    /\ UNCHANGED <<closed, resized, next, delivery, backend, android, host>>

Ready == {e \in pending : e.ready}
First(es) == CHOOSE e \in es : \A f \in es : e.serial <= f.serial

Acknowledge(serial) == {e \in pending : e.serial # serial}

Discard(w) ==
    /\ pending' = {e \in pending : e.window # w}
    /\ closed' = closed \ {w}
    /\ resized' = resized \ {w}
    /\ UNCHANGED next

-----------------------------------------------------------------------------
(* serve_commands: one thread per subscription *)

Subscribe ==
    /\ stream = 0
    /\ generation < MaxStreams
    /\ generation' = generation + 1
    /\ stream' = generation + 1
    /\ server' = [server EXCEPT ![generation + 1].state = "serving"]
    /\ UNCHANGED <<queue, receiver, held, backend, android, host>>

TakeCommand(c) == \* Mutant: the command leaves the queue when it is sent
    /\ server[c].state = "serving"
    /\ generation = c
    /\ Ready # {}
    /\ server' = [server EXCEPT ![c] =
           IF stream = c THEN [state |-> "sent", serial |-> First(Ready).serial]
           ELSE [@ EXCEPT !.state = "ended"]]
    /\ held' = IF stream = c THEN {First(Ready)} ELSE held
    /\ pending' = Acknowledge(First(Ready).serial)
    /\ UNCHANGED <<closed, resized, next, generation, stream, receiver, backend, android, host>>
ServeCommand(c) ==
    /\ server[c].state = "serving"
    /\ generation = c
    /\ Ready # {}
    /\ server' = [server EXCEPT ![c] =
           IF stream = c THEN [state |-> "sent", serial |-> First(Ready).serial]
           ELSE [@ EXCEPT !.state = "ended"]]
    /\ held' = IF stream = c THEN {First(Ready)} ELSE held
    /\ UNCHANGED <<queue, generation, stream, receiver, backend, android, host>>

ReplacedServer(c) ==
    /\ server[c].state = "serving"
    /\ generation # c
    /\ server' = [server EXCEPT ![c].state = "ended"]
    /\ UNCHANGED <<queue, generation, stream, receiver, held, backend, android, host>>

ServerTimeout(c) ==
    /\ server[c].state = "sent"
    /\ c < MaxStreams
    /\ server' = [server EXCEPT ![c].state = "ended"]
    /\ UNCHANGED <<queue, generation, stream, receiver, held, backend, android, host>>

ReceiveAcknowledgement(c) ==
    /\ server[c].state = "acked"
    /\ pending' = Acknowledge(server[c].serial)
    /\ server' = [server EXCEPT ![c] = [state |-> "serving", serial |-> 0]]
    /\ UNCHANGED <<closed, resized, next, generation, stream, receiver, held,
                   backend, android, host>>

-----------------------------------------------------------------------------
(* The framework's receiver thread; held is the record on the socket or in hand *)

DisconnectOnly == \* Mutant: the record in hand is not forgotten
    stream' = 0 /\ UNCHANGED <<receiver, held>>
Disconnect == \* CommandStream drops its client and forgets the record
    /\ stream' = 0 /\ receiver' = "idle" /\ held' = {}

ReceiveCommand ==
    /\ receiver = "idle" /\ held # {}
    /\ receiver' = "received"
    /\ UNCHANGED <<queue, generation, server, stream, held, backend, android, host>>

BackendIgnored == TRUE \* Mutant: the receiver does not wait for a publication
BackendFree == publishing = None

ResolveCommand ==
    /\ receiver = "received"
    /\ BackendFree
    /\ \E e \in held :
        receiver' = IF registered[e.window] = epoch /\ epoch # 0 THEN "resolved" ELSE "done"
    /\ UNCHANGED <<queue, generation, server, stream, held, backend, android, host>>

ApplyCommand ==
    /\ receiver = "resolved"
    /\ receiver' = "done"
    /\ \E e \in held :
        IF e.window \in alive
        THEN /\ alive' = IF e.kind = "close" THEN alive \ {e.window} ELSE alive
             /\ bounds' = IF e.kind = "resize" THEN [bounds EXCEPT ![e.window] = e.size] ELSE bounds
             /\ focus' = IF e.kind = "focus" THEN e.window ELSE focus
        ELSE UNCHANGED android
    /\ UNCHANGED <<queue, generation, server, stream, held, backend, host>>

AcknowledgeCommand ==
    /\ receiver = "done"
    /\ IF server[stream].state = "sent"
       THEN /\ server' = [server EXCEPT ![stream].state = "acked"]
            /\ receiver' = "idle" /\ held' = {}
            /\ UNCHANGED stream
       ELSE Disconnect /\ UNCHANGED server
    /\ UNCHANGED <<queue, generation, backend, android, host>>

(* The socket fails between two records, or before the one on it is read *)
LoseStream ==
    /\ stream # 0 /\ receiver = "idle"
    /\ stream < MaxStreams
    /\ Disconnect
    /\ server' = [server EXCEPT ![stream].state = IF @ = "sent" THEN "ended" ELSE @]
    /\ UNCHANGED <<queue, generation, backend, android, host>>

-----------------------------------------------------------------------------
(* Backend: the publication connection, under one lock *)

Reconnected == IF connected THEN epoch ELSE epoch + 1

Publish(w) ==
    /\ BackendFree
    /\ w \in alive
    /\ Reconnected <= MaxEpoch
    /\ registered[w] # Reconnected
    /\ connected' = TRUE /\ epoch' = Reconnected
    /\ publishing' = w
    /\ bound' = bound \cup {w}
    /\ UNCHANGED <<queue, delivery, registered, android, host>>

FinishPublish ==
    /\ publishing # None
    /\ registered' = [registered EXCEPT ![publishing] = epoch]
    /\ publishing' = None
    /\ UNCHANGED <<queue, delivery, connected, epoch, bound, android, host>>

PublishFails ==
    /\ publishing # None
    /\ epoch < MaxEpoch
    /\ publishing' = None
    /\ connected' = FALSE
    /\ UNCHANGED <<queue, delivery, epoch, registered, bound, android, host>>

CheckConnection ==
    /\ BackendFree
    /\ ~connected
    /\ epoch < MaxEpoch
    /\ connected' = TRUE /\ epoch' = epoch + 1
    /\ UNCHANGED <<queue, delivery, registered, publishing, bound, android, host>>

LoseBackend ==
    /\ BackendFree
    /\ connected
    /\ epoch < MaxEpoch
    /\ connected' = FALSE
    /\ UNCHANGED <<queue, delivery, epoch, registered, publishing, bound, android, host>>

Retire(w) ==
    /\ BackendFree
    /\ w \in bound \ alive
    /\ registered[w] # 0
    /\ Reconnected <= MaxEpoch
    /\ connected' = TRUE /\ epoch' = Reconnected
    /\ bound' = bound \ {w}
    /\ registered' = [registered EXCEPT ![w] = 0]
    /\ Discard(w)
    /\ UNCHANGED <<delivery, publishing, android, host>>

-----------------------------------------------------------------------------
Next ==
    \/ \E w \in Windows, kind \in Kinds : Push(w, kind)
    \/ \E e \in pending : PassDebounce(e)
    \/ Subscribe \/ ReceiveCommand \/ ResolveCommand \/ ApplyCommand \/ AcknowledgeCommand
    \/ LoseStream
    \/ \E c \in Streams : ServeCommand(c) \/ ReplacedServer(c) \/ ServerTimeout(c)
                          \/ ReceiveAcknowledgement(c)
    \/ \E w \in Windows : Publish(w) \/ Retire(w)
    \/ FinishPublish \/ PublishFails \/ CheckConnection \/ LoseBackend

(* Threads run, timers fire, sockets deliver, and publication is retried;   *)
(* pushes and failures are not owed.                                        *)
Fairness ==
    /\ WF_vars(\E e \in pending : PassDebounce(e))
    /\ WF_vars(Subscribe) /\ WF_vars(ReceiveCommand) /\ WF_vars(ResolveCommand)
    /\ WF_vars(ApplyCommand) /\ WF_vars(AcknowledgeCommand)
    /\ \A c \in Streams : WF_vars(ServeCommand(c) \/ ReplacedServer(c) \/ ReceiveAcknowledgement(c))
    /\ WF_vars(FinishPublish) /\ WF_vars(CheckConnection)
    /\ \A w \in Windows : WF_vars(Publish(w)) /\ WF_vars(Retire(w))

Spec == Init /\ [][Next]_vars
FairSpec == Spec /\ Fairness
====
