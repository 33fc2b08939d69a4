---------------------------- MODULE Notifications ----------------------------
(***************************************************************************)
(* Android's notifications on the desktop: SystemUI's listener             *)
(* (NotificationBridge.java) sends a snapshot and then changes over a      *)
(* socket; the presenter's bridge (notifications/mod.rs) keeps a record    *)
(* per notification, shows it through the desktop's notification daemon,   *)
(* follows the daemon's signals back to Android, and saves its records, so *)
(* that a restarted presenter finds its popups again.  The daemon may be   *)
(* replaced, and the session with it; names and identities then repeat.    *)
(***************************************************************************)
EXTENDS Integers, Sequences, FiniteSets, FiniteSetsExt

CONSTANTS Keys,
          MAX_ACTIVE,
          Resident,         \* the daemon keeps a notification that was clicked
          DaemonReusesIds,  \* a replaced identity that is gone is given again
          MaxPosts,         \* bound: notifications posted, hence versions
          MaxUser,          \* bound: clicks, dismissals and expiries
          MaxBreaks         \* bound: lost connections, restarts, failed calls

VARIABLES active,   \* the listener's entries in order: [key, version]
          android,  \* generation, dirty, the writer (connected, initial, sent)
          link,     \* phase, frames up, commands down
          host,     \* the peer, the state and the saved state
          daemon,   \* bus, name (0: none), what it shows, the next identity
          signals,  \* its signals to the bridge
          owner,    \* the changes of the name's owner not yet taken
          ghost,    \* closed: versions closed on screen; wrong; rejected; loose
          posts, users, breaks

vars == <<active, android, link, host, daemon, signals, owner, ghost, posts, users, breaks>>

NoRecord == [id |-> 0, version |-> 0, hidden |-> FALSE, note |-> FALSE]
NoState == [bus |-> 0, owner |-> 0, records |-> [k \in Keys |-> NoRecord]]
NoPeer == [on |-> FALSE, hello |-> FALSE, open |-> FALSE, snapshot |-> {},
           known |-> [k \in Keys |-> 0], synced |-> FALSE]

Init ==
  /\ active = <<>>
  /\ android = [generation |-> 0, dirty |-> FALSE, connected |-> FALSE, initial |-> TRUE,
                sent |-> {}]
  /\ link = [at |-> "none", up |-> <<>>, down |-> <<>>]
  /\ host = [peer |-> NoPeer, state |-> [NoState EXCEPT !.bus = 1, !.owner = 1], saved |-> NoState]
  /\ daemon = [bus |-> 1, name |-> 1, shown |-> {}, next |-> 1]
  /\ signals = <<>> /\ owner = <<>>
  /\ ghost = [closed |-> {}, wrong |-> FALSE, rejected |-> FALSE, loose |-> FALSE]
  /\ posts = 0 /\ users = 0 /\ breaks = 0

Break == breaks < MaxBreaks /\ breaks' = breaks + 1
User == users < MaxUser /\ users' = users + 1

(* ---- Android: NotificationBridge ----------------------------------------*)

KeysOf(entries) == {entries[i].key : i \in DOMAIN entries}
VersionOf(entries, k) ==
  IF k \in KeysOf(entries) THEN (CHOOSE e \in Range(entries) : e.key = k).version ELSE 0
Without(entries, k) == SelectSeq(entries, LAMBDA e : e.key # k)

(* put: a new version in place, or at the end, where the oldest entry      *)
(* makes room.                                                             *)
Put(entries, k, version) ==
  IF k \in KeysOf(entries)
  THEN [i \in DOMAIN entries |-> IF entries[i].key = k THEN [key |-> k, version |-> version]
                                 ELSE entries[i]]
  ELSE Append(IF Len(entries) >= MAX_ACTIVE THEN Tail(entries) ELSE entries,
              [key |-> k, version |-> version])

Posted(k) ==
  /\ posts < MaxPosts /\ posts' = posts + 1
  /\ active' = Put(active, k, android.generation + 1)
  /\ android' = [android EXCEPT !.generation = @ + 1, !.dirty = TRUE]
  /\ UNCHANGED <<link, host, daemon, signals, owner, ghost, users, breaks>>

Removed(k) ==
  /\ k \in KeysOf(active) /\ active' = Without(active, k)
  /\ android' = [android EXCEPT !.dirty = TRUE]
  /\ UNCHANGED <<link, host, daemon, signals, owner, ghost, posts, users, breaks>>

(* connect: a hello, and the writer once the presenter has answered it.    *)
Connect ==
  /\ link.at = "none"
  /\ link' = [at |-> "new", up |-> <<[kind |-> "hello"]>>, down |-> <<>>]
  /\ UNCHANGED <<active, android, host, daemon, signals, owner, ghost, posts, users, breaks>>

(* writeSnapshots, one round: a snapshot first, later removals and then    *)
(* the entries whose version is not the one last sent.                     *)
Batch ==
  LET post(e) == [kind |-> "post", key |-> e.key, version |-> e.version]
      gone == {s \in android.sent : s.key \notin KeysOf(active)}
      drop(s) == [kind |-> "remove", key |-> s.key, version |-> s.version]
      removals == FoldSet(LAMBDA s, q : Append(q, drop(s)), <<>>, gone)
      fresh == SelectSeq(active, LAMBDA e : android.initial \/ e \notin android.sent)
      all == [i \in DOMAIN fresh |-> post(fresh[i])]
  IN IF android.initial THEN <<[kind |-> "begin"]>> \o all \o <<[kind |-> "end"]>>
     ELSE removals \o all
Write ==
  /\ android.connected /\ android.dirty /\ link.at = "up"
  /\ link' = [link EXCEPT !.up = @ \o Batch]
  /\ android' = [android EXCEPT !.dirty = FALSE, !.initial = FALSE, !.sent = Range(active)]
  /\ UNCHANGED <<active, host, daemon, signals, owner, ghost, posts, users, breaks>>

(* The reader: the presenter's hello, then its commands, each checked      *)
(* against the version it names.                                           *)
Command ==
  /\ link.down # <<>>
  /\ LET m == Head(link.down)
         met == m.kind # "hello" /\ VersionOf(active, m.key) = m.version
     IN /\ link' = [link EXCEPT !.down = Tail(@)]
        /\ android' = IF m.kind = "hello"
                      THEN [android EXCEPT !.connected = TRUE, !.initial = TRUE, !.sent = {},
                                           !.dirty = TRUE]
                      ELSE [android EXCEPT !.dirty = @ \/ (met /\ m.kind = "dismiss")]
        /\ active' = IF met /\ m.kind = "dismiss" THEN Without(active, m.key) ELSE active
        /\ ghost' = [ghost EXCEPT !.wrong = @ \/ (met /\ m.meant # m.version)]
  /\ UNCHANGED <<host, daemon, signals, owner, posts, users, breaks>>

(* The connection is lost: the presenter may still read what was written.  *)
Cut == [at |-> "cut", up |-> link.up, down |-> <<>>]
LinkBreaks ==
  /\ Break /\ link.at \in {"new", "up"}
  /\ \E n \in 0..Len(link.up) : link' = [Cut EXCEPT !.up = SubSeq(@, 1, n)]
  /\ android' = [android EXCEPT !.connected = FALSE]
  /\ UNCHANGED <<active, host, daemon, signals, owner, ghost, posts, users>>

(* The listener is bound again: every entry under a new version.           *)
ListenerRebinds ==
  /\ Break /\ active # <<>> /\ posts < MaxPosts /\ posts' = posts + 1
  /\ active' = [i \in DOMAIN active |-> [active[i] EXCEPT !.version = android.generation + i]]
  /\ android' = [android EXCEPT !.connected = FALSE, !.dirty = TRUE,
                                !.generation = @ + Len(active)]
  /\ link' = IF link.at = "none" THEN link ELSE Cut
  /\ UNCHANGED <<host, daemon, signals, owner, ghost, users>>

(* ---- the daemon (external: org.freedesktop.Notifications) ---------------*)

Shows(d, id) == {s \in d.shown : s.id = id}
Notified(d, k, version, replaces) ==
  LET known == replaces # 0 /\ (Shows(d, replaces) # {} \/ DaemonReusesIds)
      id == IF known THEN replaces ELSE d.next
  IN [id |-> id,
      daemon |-> [d EXCEPT !.shown = (@ \ Shows(d, id)) \cup {[id |-> id, key |-> k, version |-> version]},
                           !.next = IF known THEN @ ELSE @ + 1]]
Closed(d, id) == IF id = 0 THEN d ELSE [d EXCEPT !.shown = @ \ Shows(d, id)]

Signal(kind, reason, s) ==
  [from |-> daemon.name, kind |-> kind, reason |-> reason, id |-> s.id, meant |-> s.version]
(* The user dismisses (2) or lets expire (1), or clicks an action.         *)
CloseOnScreen(s, reason) ==
  /\ User /\ s \in daemon.shown /\ daemon' = Closed(daemon, s.id)
  /\ signals' = Append(signals, Signal("closed", reason, s))
  /\ ghost' = [ghost EXCEPT !.closed = @ \cup {s.version}]
  /\ UNCHANGED <<active, android, link, host, owner, posts, breaks>>
Click(s) ==
  /\ User /\ s \in daemon.shown
  /\ IF Resident
     THEN /\ signals' = Append(signals, Signal("action", 0, s)) /\ UNCHANGED <<daemon, ghost>>
     ELSE /\ signals' = signals \o <<Signal("action", 0, s), Signal("closed", 2, s)>>
          /\ daemon' = Closed(daemon, s.id)
          /\ ghost' = [ghost EXCEPT !.closed = @ \cup {s.version}]
  /\ UNCHANGED <<active, android, link, host, owner, posts, breaks>>

DaemonStops ==
  /\ Break /\ daemon.name # 0
  /\ daemon' = [daemon EXCEPT !.name = 0, !.shown = {}]
  /\ owner' = Append(owner, 0)
  /\ UNCHANGED <<active, android, link, host, signals, ghost, posts, users>>
DaemonStarts ==
  /\ daemon.name = 0
  /\ daemon' = [daemon EXCEPT !.name = breaks + 1, !.next = 1]
  /\ owner' = Append(owner, breaks + 1)
  /\ UNCHANGED <<active, android, link, host, signals, ghost, posts, users, breaks>>

(* ---- the bridge: State and Peer -----------------------------------------*)

(* State::owner: another daemon shows nothing yet.                         *)
Owned(st, name) ==
  IF st.owner = name THEN st
  ELSE [st EXCEPT !.owner = name, !.records = [k \in Keys |->
          [@[k] EXCEPT !.id = 0, !.hidden = FALSE]]]

(* serve: the state on disk, for the bus and the daemon there are now.     *)
Loaded(saved, d) ==
  Owned([(IF saved.bus = d.bus THEN saved ELSE Owned(saved, 0)) EXCEPT !.bus = d.bus], d.name)
NoNotes(st) == [st EXCEPT !.records = [k \in Keys |-> [@[k] EXCEPT !.note = FALSE]]]

(* upsert, close: on a world of state, daemon and whether a call failed.   *)
\* Mutant: the identity the daemon answered with is not recorded.
UpsertForgets(w, k, version) ==
  [w EXCEPT !.state.records[k].version = version, !.state.records[k].note = TRUE,
            !.daemon = IF @.name = 0 THEN @ ELSE Notified(@, k, version, 0).daemon]
Upsert(w, k, version) ==
  LET r == w.state.records[k]
      kept == [r EXCEPT !.version = version, !.note = TRUE,
                        !.hidden = @ /\ r.version = version]
      show == w.state.owner # 0 /\ ~kept.hidden /\ (r.version # version \/ r.id = 0)
      shown == Notified(w.daemon, k, version, r.id)
  IN IF ~show \/ w.failed THEN [w EXCEPT !.state.records[k] = kept]
     ELSE IF w.daemon.name = 0 THEN [w EXCEPT !.failed = TRUE]
     ELSE [w EXCEPT !.state.records[k] = [kept EXCEPT !.id = shown.id],
                    !.daemon = shown.daemon,
                    !.loose = @ \/ w.daemon.name # w.state.owner]
Retire(w, k) ==
  [w EXCEPT !.state.records[k] = NoRecord, !.daemon = Closed(w.daemon, w.state.records[k].id)]
Reconcile(w, snapshot) ==
  LET absent == {k \in Keys : \A n \in snapshot : n.key # k}
  IN FoldSet(LAMBDA n, x : Upsert(x, n.key, n.version),
             FoldSet(LAMBDA k, x : Retire(x, k), w, absent), snapshot)
World == [state |-> host.state, daemon |-> daemon, failed |-> FALSE, loose |-> FALSE]

(* A handler's end: saved, or the whole serve() is started again from disk.*)
Finish(w, peer, save, later) ==
  IF w.failed
  THEN /\ host' = [host EXCEPT !.peer = NoPeer, !.state = NoNotes(Loaded(host.saved, w.daemon))]
       /\ daemon' = w.daemon /\ signals' = <<>> /\ owner' = <<>>
       /\ ghost' = [ghost EXCEPT !.loose = TRUE]
  ELSE /\ host' = [peer |-> peer, state |-> w.state,
                   saved |-> IF save THEN NoNotes(w.state) ELSE host.saved]
       /\ daemon' = w.daemon /\ owner' = later /\ UNCHANGED signals
       /\ ghost' = [ghost EXCEPT !.loose = @ \/ w.loose]

Hangup(failed, otherwise) ==
  /\ link' = IF failed /\ link.at # "none" THEN [Cut EXCEPT !.up = <<>>] ELSE otherwise
  /\ android' = [android EXCEPT !.connected = @ /\ ~failed]

Accept ==
  /\ link.at = "new"
  /\ host' = [host EXCEPT !.peer = [NoPeer EXCEPT !.on = TRUE]]
  /\ link' = [link EXCEPT !.at = "up"]
  /\ UNCHANGED <<active, android, daemon, signals, owner, ghost, posts, users, breaks>>

(* Peer::ingest of one frame: the peer after it, the update it completes.  *)
Ingest(p, f) ==
  CASE f.kind = "hello" /\ ~p.hello -> [peer |-> [p EXCEPT !.hello = TRUE], update |-> "none"]
    [] f.kind = "begin" /\ p.hello /\ ~p.open ->
         [peer |-> [p EXCEPT !.open = TRUE, !.snapshot = {}], update |-> "none"]
    [] f.kind = "post" /\ p.hello /\ p.open /\ Cardinality(p.snapshot) < MAX_ACTIVE
       /\ (\A n \in p.snapshot : n.key # f.key) ->
         [peer |-> [p EXCEPT !.snapshot = @ \cup {[key |-> f.key, version |-> f.version]}],
          update |-> "none"]
    [] f.kind = "post" /\ p.hello /\ ~p.open /\ p.synced
       /\ (p.known[f.key] # 0 \/ Cardinality({k \in Keys : p.known[k] # 0}) < MAX_ACTIVE) ->
         [peer |-> [p EXCEPT !.known[f.key] = f.version], update |-> "post"]
    [] f.kind = "end" /\ p.hello /\ p.open ->
         [peer |-> [p EXCEPT !.open = FALSE, !.snapshot = {}, !.synced = TRUE,
                             !.known = [k \in Keys |-> Max({0} \cup
                               {n.version : n \in {m \in p.snapshot : m.key = k}})]],
          update |-> "snapshot"]
    [] f.kind = "remove" /\ p.hello /\ p.synced /\ ~p.open ->
         IF p.known[f.key] = f.version
         THEN [peer |-> [p EXCEPT !.known[f.key] = 0], update |-> "remove"]
         ELSE [peer |-> p, update |-> "none"]
    [] OTHER -> [peer |-> NoPeer, update |-> "invalid"]

(* A frame is read; lost: the last call's answer comes too late, or the    *)
(* presenter dies before it saves what it has just shown.                  *)
Receive(lost) ==
  /\ host.peer.on /\ link.at \in {"up", "cut"} /\ link.up # <<>>
  /\ LET f == Head(link.up)
         i == Ingest(host.peer, f)
         v == CASE i.update = "snapshot" -> Reconcile(World, host.peer.snapshot)
                [] i.update = "post" -> Upsert(World, f.key, f.version)
                [] i.update = "remove" /\ host.state.records[f.key].version = f.version ->
                     Retire(World, f.key)
                [] OTHER -> World
         w == [v EXCEPT !.failed = @ \/ lost]
         rest == [link EXCEPT !.up = Tail(@)]
         greeted == [rest EXCEPT !.down = Append(@, [kind |-> "hello"])]
     IN /\ IF lost THEN i.update \in {"snapshot", "post"} /\ Break ELSE UNCHANGED breaks
        /\ IF i.update = "invalid"
           THEN /\ host' = [host EXCEPT !.peer = NoPeer] /\ Hangup(TRUE, link)
                /\ ghost' = [ghost EXCEPT !.rejected = TRUE]
                /\ UNCHANGED <<daemon, signals, owner>>
           ELSE /\ Finish(w, i.peer, i.update # "none", owner)
                /\ Hangup(w.failed, IF f.kind = "hello" /\ link.at = "up" THEN greeted ELSE rest)
  /\ UNCHANGED <<active, posts, users>>

(* The end of the stream; Android connects again two seconds later.        *)
PeerEnds ==
  /\ link.at = "cut" /\ (link.up = <<>> \/ ~host.peer.on)
  /\ host' = [host EXCEPT !.peer = NoPeer] /\ link' = [Cut EXCEPT !.at = "none", !.up = <<>>]
  /\ UNCHANGED <<active, android, daemon, signals, owner, ghost, posts, users, breaks>>

(* NameOwnerChanged: every known notification is shown by the new daemon.  *)
OwnerChanged ==
  /\ owner # <<>>
  /\ LET st == Owned(host.state, Head(owner))
         notes == {[key |-> k, version |-> st.records[k].version] :
                   k \in {j \in Keys : st.records[j].note}}
         w == Reconcile([World EXCEPT !.state = st], notes)
     IN IF st.owner = host.state.owner
        THEN owner' = Tail(owner) /\ UNCHANGED <<android, link, host, daemon, signals, ghost>>
        ELSE Finish(w, host.peer, TRUE, Tail(owner)) /\ Hangup(w.failed, link)
  /\ UNCHANGED <<active, posts, users, breaks>>

(* ActionInvoked and NotificationClosed of the daemon that is the owner.   *)
SignalArrives ==
  /\ signals # <<>> /\ signals' = Tail(signals)
  /\ LET s == Head(signals)
         met == {k \in Keys : s.from = host.state.owner /\ host.state.records[k].version # 0
                              /\ host.state.records[k].id = s.id}
         st == [host.state EXCEPT !.records = [k \in Keys |->
                  IF k \in met THEN [@[k] EXCEPT !.id = 0, !.hidden = TRUE] ELSE @[k]]]
         says == s.kind = "action" \/ s.reason = 2
         told == {k \in met : says /\ host.state.records[k].note /\ host.peer.on /\ link.at = "up"}
         command(k) == [kind |-> IF s.kind = "action" THEN "action" ELSE "dismiss", key |-> k,
                        version |-> host.state.records[k].version, meant |-> s.meant]
     IN /\ host' = IF s.kind = "closed" /\ s.from = host.state.owner
                   THEN [host EXCEPT !.state = st, !.saved = NoNotes(st)] ELSE host
        /\ link' = FoldSet(LAMBDA k, l : [l EXCEPT !.down = Append(@, command(k))], link, told)
  /\ UNCHANGED <<active, android, daemon, owner, ghost, posts, users, breaks>>

(* The presenter is restarted, alone or with the whole session, whose new  *)
(* daemon has the old one's name.                                          *)
PresenterRestarts(session) ==
  /\ Break
  /\ LET d == IF session THEN [daemon EXCEPT !.bus = @ + 1, !.shown = {}, !.next = 1] ELSE daemon
     IN /\ daemon' = d
        /\ host' = [host EXCEPT !.peer = NoPeer, !.state = NoNotes(Loaded(host.saved, d))]
  /\ Hangup(TRUE, link) /\ signals' = <<>> /\ owner' = <<>>
  /\ UNCHANGED <<active, ghost, posts, users>>

Next ==
  \/ \E k \in Keys : Posted(k) \/ Removed(k)
  \/ Connect \/ Write \/ Command \/ LinkBreaks \/ ListenerRebinds
  \/ \E s \in daemon.shown : Click(s) \/ \E reason \in {1, 2} : CloseOnScreen(s, reason)
  \/ DaemonStops \/ DaemonStarts
  \/ Accept \/ PeerEnds \/ OwnerChanged \/ SignalArrives
  \/ \E b \in BOOLEAN : Receive(b) \/ PresenterRestarts(b)

Spec == Init /\ [][Next]_vars
-----------------------------------------------------------------------------
TypeOK ==
  /\ Len(active) <= MAX_ACTIVE /\ link.at \in {"none", "new", "up", "cut"}
  /\ \A k \in Keys : host.state.records[k].hidden => host.state.records[k].id = 0
  /\ \A s, t \in daemon.shown : s.id = t.id => s = t

(* Nothing is on its way between Android, the bridge and the daemon.       *)
Quiet ==
  /\ link = [at |-> "up", up |-> <<>>, down |-> <<>>] /\ host.peer.synced
  /\ android.connected /\ ~android.dirty /\ signals = <<>> /\ owner = <<>> /\ daemon.name # 0

(* What the user does to a notification happens to the version they saw,   *)
(* or to nothing (SignalArrives, NotificationBridge.command): a version    *)
(* that replaced it in the meantime is neither cancelled nor opened.       *)
UserMeant == ghost.wrong => ghost.loose

(* The desktop follows Android (ingest, upsert, reconcile, serve, put,     *)
(* writeSnapshots): the bridge never refuses what this Android sends, even *)
(* with a full set; and when nothing is on its way, exactly the active     *)
(* notifications have a record, each shows its current version unless that *)
(* version was closed on screen, and nothing else is on screen.  A popup   *)
(* shown by a call that failed, or by a daemon whose arrival the bridge    *)
(* had not taken in, is excepted.                                          *)
NotificationsAgree ==
  /\ TypeOK /\ ~ghost.rejected /\ UserMeant
  /\ Quiet =>
       /\ \A k \in Keys :
            LET r == host.state.records[k] IN
            /\ r.version = VersionOf(active, k)
            /\ r.version # 0 /\ r.version \notin ghost.closed =>
                 [id |-> r.id, key |-> k, version |-> r.version] \in daemon.shown
       /\ ~ghost.loose => \A s \in daemon.shown : host.state.records[s.key].id = s.id
=============================================================================
