------------------------------ MODULE Clipboard ------------------------------
(***************************************************************************)
(* The clipboard exchanged between the desktop and Android: the presenter  *)
(* (clipboard/mod.rs, with its worker, reader and writer threads), the     *)
(* Wayland selection it reads and sets (backend.rs), the stream (wire.rs)  *)
(* and SystemUI's adapter (ClipboardBridge.java).  A clip is its content;  *)
(* 0 is the empty clipboard.  `host` and `android` are the two programs.   *)
(***************************************************************************)
EXTENDS Integers, FiniteSets, Sequences, SequencesExt

CONSTANTS Contents, Unsupported, \* what is copied; contents Android cannot take
          Backgrounds,           \* whether the compositor has a data-control protocol
          WorkerLimit,           \* 8 in the code
          MaxCopies, MaxBreaks, MaxFocus

VARIABLES desk, host, android, copies, breaks, excused
vars == <<desk, host, android, copies, breaks, excused>>

None == [id |-> "none", n |-> 0, base |-> 0, content |-> 0]
Clip(id, n, base, content) == [id |-> id, n |-> n, base |-> base, content |-> content]
SameId(a, b) == a.id = b.id /\ a.n = b.n
Sync(revision) == Clip("sync", 0, revision, 0)
Desktop(content) == Clip("desktop", 0, 0, content)

(* A behaviour starts when the first selection has reached Android.         *)
Init ==
    \E b \in Backgrounds, c \in Contents \ Unsupported : LET first == Clip("host", 1, 1, c) IN
        /\ desk = [background |-> b, focused |-> TRUE, focus |-> 0, selection |-> Desktop(c),
                   events |-> <<>>, requests |-> <<>>]
        /\ host = [revision |-> 1, current |-> first, awaiting |-> None, pending |-> FALSE,
                   publish |-> FALSE, peer |-> 1, connection |-> 1, mailbox |-> None,
                   inbox |-> <<>>, workers |-> {}]
        /\ android = [clip |-> first, imported |-> first, base |-> 1, changes |-> 0,
                      changed |-> FALSE, observed |-> -1, sequence |-> 0, socket |-> 1,
                      dial |-> FALSE, down |-> <<>>, posted |-> <<>>, controls |-> <<>>]
        /\ copies = 0 /\ breaks = 0 /\ excused = FALSE

Seen(c) == IF c \in Unsupported THEN 0 ELSE c   \* what Android gets of it
Connected == host.peer # 0 /\ android.socket = host.peer
Idle ==
    /\ desk.events = <<>> /\ desk.requests = <<>>
    /\ host.inbox = <<>> /\ host.mailbox = None /\ host.workers = {} /\ ~android.dial
    /\ android.down = <<>> /\ android.posted = <<>> /\ android.controls = <<>>
    /\ ~android.changed
Quiet == Idle /\ Connected /\ ~host.publish /\ desk.focused

-----------------------------------------------------------------------------
(* The compositor.  A core data device hears of the selection only with the *)
(* keyboard focus, and again whenever it gains it.                          *)
Announce(d) == [d EXCEPT !.events = IF d.focused THEN Append(@, d.selection) ELSE @]
DesktopCopies(c) ==
    /\ copies < MaxCopies /\ copies' = copies + 1
    /\ excused' = (~Quiet \/ (excused /\ Seen(c) = host.current.content))
    /\ desk' = Announce([desk EXCEPT !.selection = Desktop(c)])
    /\ UNCHANGED <<host, android, breaks>>
SetSelection ==
    /\ desk.requests # <<>>
    /\ desk' = Announce([desk EXCEPT !.selection = Head(desk.requests), !.requests = Tail(@)])
    /\ UNCHANGED <<host, android, copies, breaks, excused>>
Focus ==
    /\ ~desk.background /\ desk.focus < MaxFocus
    /\ desk' = LET d == [desk EXCEPT !.focus = @ + 1, !.focused = ~@]
               IN IF d.focused THEN Announce(d) ELSE d
    /\ excused' = (excused \/ ~Idle)
    /\ UNCHANGED <<host, android, copies, breaks>>

-----------------------------------------------------------------------------
(* The presenter: Mailbox::set keeps only the newest command.               *)
Outbound(h, command) == IF h.peer = 0 THEN h ELSE [h EXCEPT !.mailbox = command]
Import(h, clip) ==
    Outbound([h EXCEPT !.awaiting = clip, !.pending = TRUE, !.current = clip], clip)

(* selection: an offer with the marker of the current clip, and the echo of *)
(* a clear, are ours; anything else is a new revision whose content is read *)
(* by a worker.                                                             *)
Echo(h, offer) ==
    \/ offer.id # "desktop" /\ SameId(offer, h.current)
    \/ offer.content = 0 /\ h.current # None /\ h.current.content = 0
Selection(h, offer) ==
    IF Echo(h, offer) THEN h
    ELSE LET r == h.revision + 1
             new == Outbound([h EXCEPT !.revision = r, !.publish = FALSE, !.awaiting = None,
                                       !.pending = TRUE], Sync(r))
         IN IF offer.content = 0 \/ offer.content \in Unsupported
              THEN Import(new, Clip("host", r, r, 0))
            ELSE IF Cardinality(h.workers) >= WorkerLimit THEN [new EXCEPT !.pending = FALSE]
            ELSE [new EXCEPT !.workers = @ \cup {Clip("host", r, r, offer.content)}]
Dispatch ==
    /\ desk.events # <<>>
    /\ host' = Selection(host, Head(desk.events))
    /\ desk' = [desk EXCEPT !.events = Tail(@)]
    /\ excused' = (excused \/ (host'.revision # host.revision /\ ~host'.pending))
    /\ UNCHANGED <<android, copies, breaks>>

(* read_native: the worker's clip, or its error (a newer revision, thirty   *)
(* seconds, a limit, an unreadable source).                                 *)
Event(type, connection, clip) == [type |-> type, connection |-> connection, clip |-> clip]
WorkerDone(w) ==
    /\ w \in host.workers
    /\ \E ok \in IF w.n = host.revision THEN BOOLEAN ELSE {FALSE} :
        /\ host' = [host EXCEPT !.workers = @ \ {w},
                                !.inbox = Append(@, Event(IF ok THEN "native" ELSE "failed", 0, w))]
        /\ excused' = (excused \/ ~ok)
    /\ UNCHANGED <<desk, android, copies, breaks>>

(* pump: a new connection is told the current clip; then the events; then   *)
(* the publication that is due.                                             *)
\* Mutant: a new connection is told the revision only.
AcceptSyncOnly(h) ==
    LET n == h.connection + 1 IN
    [h EXCEPT !.peer = n, !.connection = n, !.mailbox = Sync(h.revision)]
Accept(h) ==
    LET n == h.connection + 1 IN
    [h EXCEPT !.peer = n, !.connection = n,
              !.mailbox = IF h.current = None THEN Sync(h.revision) ELSE h.current]
AndroidCopied(h, clip) ==
    IF clip.base # h.revision THEN Outbound(h, Sync(h.revision))
    ELSE LET r == h.revision + 1 IN
         Outbound([h EXCEPT !.revision = r, !.awaiting = None, !.pending = FALSE,
                            !.publish = TRUE, !.current = [clip EXCEPT !.base = r]], Sync(r))
Handle(h, e) ==
    CASE e.type = "native" /\ e.clip.n = h.revision -> Import(h, e.clip)
      [] e.type = "failed" /\ e.clip.n = h.revision -> [h EXCEPT !.pending = FALSE]
      [] e.type = "clip" /\ e.connection = h.connection -> AndroidCopied(h, e.clip)
      [] e.type = "ack" /\ e.connection = h.connection /\ h.awaiting # None
           /\ SameId(e.clip, h.awaiting) -> [h EXCEPT !.awaiting = None, !.pending = FALSE]
      [] e.type = "disconnected" /\ e.connection = h.connection ->
           [h EXCEPT !.peer = 0, !.awaiting = None, !.pending = FALSE, !.mailbox = None]
      [] OTHER -> h
Pump ==
    /\ android.dial \/ host.inbox # <<>> \/ (host.publish /\ desk.focused)
    /\ LET accepted == IF android.dial THEN Accept(host) ELSE host
           handled == FoldLeft(Handle, [accepted EXCEPT !.inbox = <<>>], accepted.inbox)
           due == handled.publish /\ desk.focused
       IN /\ host' = [handled EXCEPT !.publish = @ /\ ~due]
          /\ desk' = [desk EXCEPT !.requests = IF due THEN Append(@, handled.current) ELSE @]
    /\ android' = IF android.dial
                    THEN [android EXCEPT !.dial = FALSE, !.down = <<Clip("hello", 0, host'.connection, 0)>>]
                    ELSE android
    /\ UNCHANGED <<copies, breaks, excused>>
WriterSends ==
    /\ host.mailbox # None /\ host.peer # 0
    /\ Connected \/ android.down # <<>>
    /\ android' = [android EXCEPT !.down = Append(@, host.mailbox)]
    /\ host' = [host EXCEPT !.mailbox = None]
    /\ UNCHANGED <<desk, copies, breaks, excused>>

-----------------------------------------------------------------------------
(* SystemUI.  `origin` of Android's clip is the import it came from.        *)
Imported(a) ==
    a.imported # None /\ IF a.clip.content = 0 THEN a.imported.content = 0
                                               ELSE SameId(a.clip, a.imported)
Changed(a) ==
    IF Imported(a) THEN a ELSE [a EXCEPT !.changes = @ + 1, !.changed = TRUE]
AndroidCopies(c) ==
    /\ copies < MaxCopies /\ copies' = copies + 1
    /\ android' = Changed([android EXCEPT !.clip = Clip("app", 0, 0, c)])
    /\ excused' = (excused \/ ~Quiet)
    /\ UNCHANGED <<desk, host, breaks>>
Dial ==
    /\ android.socket = 0 /\ ~android.dial /\ android.down = <<>>
    /\ android' = [android EXCEPT !.dial = TRUE]
    /\ UNCHANGED <<desk, host, copies, breaks, excused>>

(* readLoop, and apply on the main thread.                                  *)
Read ==
    /\ android.down # <<>>
    /\ LET m == Head(android.down)
           a == [android EXCEPT !.down = Tail(@)]
       IN android' =
            CASE m.id = "hello" -> [a EXCEPT !.socket = m.base, !.controls = <<>>, !.changed = FALSE]
              [] m.id = "sync" -> [a EXCEPT !.base = m.base]
              [] OTHER -> [a EXCEPT !.base = m.base,
                             !.posted = Append(@, [clip |-> m, changes |-> a.changes,
                                                   client |-> a.socket])]
    /\ UNCHANGED <<desk, host, copies, breaks, excused>>
Applied(a, m) ==
    IF a.socket # m.client \/ a.changes # m.changes THEN a
    ELSE Changed([a EXCEPT !.imported = m.clip, !.observed = -1, !.clip = m.clip])
Apply ==
    /\ android.posted # <<>>
    /\ LET m == Head(android.posted)
       IN android' = [Applied(android, m) EXCEPT !.posted = Tail(@), !.controls = Append(@, m.clip)]
    /\ UNCHANGED <<desk, host, copies, breaks, excused>>

(* writeLoop: acknowledgements first, then a snapshot of a local change.    *)
Exports(a) == ~Imported(a) /\ a.clip.content # a.observed
Sends(e) == host' = [host EXCEPT !.inbox = Append(@, e)]
WriteAck ==
    /\ Connected /\ android.controls # <<>>
    /\ Sends(Event("ack", android.socket, Head(android.controls)))
    /\ android' = [android EXCEPT !.controls = Tail(@)]
    /\ UNCHANGED <<desk, copies, breaks, excused>>
WriteClip ==
    /\ android.socket # 0 /\ android.controls = <<>> /\ android.changed
    /\ LET a == [android EXCEPT !.changed = FALSE]
           n == a.sequence + 1
       IN IF ~Exports(a) THEN android' = a /\ UNCHANGED <<host, excused>>
          ELSE \/ /\ android' = [a EXCEPT !.observed = a.clip.content, !.imported = None,
                                          !.sequence = n]
                  /\ Sends(Event("clip", a.socket, Clip("android", n, a.base, a.clip.content)))
                  /\ UNCHANGED excused
               \/ /\ android' = [a EXCEPT !.observed = -1, !.imported = None, !.sequence = n]
                  /\ excused' = TRUE /\ UNCHANGED host
    /\ UNCHANGED <<desk, copies, breaks>>

(* The connection ends, with what is under way on it; Android may have      *)
(* written a clip that is lost.                                             *)
Break ==
    /\ android.socket # 0 /\ breaks < MaxBreaks /\ breaks' = breaks + 1
    /\ \E lost \in BOOLEAN :
         android' = [android EXCEPT !.socket = 0, !.down = <<>>,
                       !.observed = IF lost /\ android.changed THEN android.clip.content ELSE @]
    /\ host' = [host EXCEPT !.inbox = Append(@, Event("disconnected", android.socket, None)),
                            !.mailbox = IF host.peer = android.socket THEN None ELSE @]
    /\ UNCHANGED <<desk, copies, excused>>

Next ==
    \/ \E c \in {0} \cup Contents : DesktopCopies(c) \/ (c \notin Unsupported /\ AndroidCopies(c))
    \/ SetSelection \/ Focus \/ Dispatch \/ Pump \/ WriterSends \/ Dial \/ Read \/ Apply
    \/ WriteAck \/ WriteClip \/ Break
    \/ \E w \in host.workers : WorkerDone(w)
Spec == Init /\ [][Next]_vars

-----------------------------------------------------------------------------
(* Both clipboards are the same once nothing is under way, whatever was     *)
(* refused, dropped or overwritten before: a copy made while the exchange   *)
(* was at rest, and read without an error, is on the other side (or, when   *)
(* the connection took it, undone on its own).                              *)
ClipboardsAgree ==
    Quiet /\ ~excused => android.clip.content = Seen(desk.selection.content)
=============================================================================
