------------------------------ MODULE TextInput ------------------------------
(***************************************************************************)
(* The host's input panel for Android editors: the headless input method   *)
(* in Android (HostInputMethod.java) publishes which editor wants text,    *)
(* the presenter (text_input.rs) enables the compositor's text-input-v3    *)
(* object for it while its task has the focus, and text or a dismissal     *)
(* from the compositor travels back.  Four queues separate the three, so   *)
(* everything they say of an editor may be out of date on arrival.         *)
(***************************************************************************)
EXTENDS Integers, Sequences, SequencesExt

CONSTANTS Tasks,        \* Android tasks, positive numbers
          MaxEvents,    \* bound: editors started, shown, hidden; focus moves; texts
          MaxBreaks     \* bound: connections lost, input methods restarted

VARIABLES ime,      \* HostInputMethod: session, showRequest, editor, visibility, state
          link,     \* the socket: its phase and both directions
          host,     \* TextInput and the presenter's focus
          requests, \* to the compositor: what each commit made current
          wl,       \* from the compositor
          comp,     \* the compositor: commits seen, the editor, the focus
          wrong,    \* ghost: text or a dismissal met another editor
          events, breaks

vars == <<ime, link, host, requests, wl, comp, wrong, events, breaks>>

None == [run |-> 0, session |-> 0, show |-> 0, task |-> 0, active |-> FALSE]
Text == [run |-> 0, session |-> 0, show |-> 0, kind |-> "text", meant |-> None]

Init ==
  /\ ime = [run |-> 1, session |-> 0, show |-> 0, task |-> 0, dismissed |-> FALSE,
            visible |-> FALSE, state |-> None]
  /\ link = [at |-> "none", up |-> <<>>, down |-> <<>>]
  /\ host = [client |-> FALSE, editor |-> None, enabled |-> None, dismissed |-> None,
             serial |-> 0, entered |-> 0, focused |-> 0, outgoing |-> <<>>]
  /\ requests = <<>> /\ wl = <<>>
  /\ comp = [commits |-> 0, editor |-> None, focus |-> 0]
  /\ wrong = FALSE /\ events = 0 /\ breaks = 0

Event == events < MaxEvents /\ events' = events + 1
Break == breaks < MaxBreaks /\ breaks' = breaks + 1

(* ---- HostInputMethod, on its main thread --------------------------------*)

(* publish, sendState: the state of the editor, if there is a socket.      *)
Published(m, active) ==
  [m EXCEPT !.state = [run |-> m.run, session |-> m.session, show |-> m.show,
                       task |-> IF active THEN m.task ELSE 0, active |-> active /\ m.task > 0]]
Sent(m, l) == IF l.at = "none" THEN l ELSE [l EXCEPT !.up = Append(@, m.state)]
Publish(m, active) ==
  /\ ime' = Published(m, active)
  /\ link' = Sent(Published(m, active), link)

Visible(m, editable) == [m EXCEPT !.visible = editable /\ ~m.dismissed]

(* The framework starts an editor (task 0: a view that is not editable),   *)
(* asks for the panel, hides it, or finishes the editor.                   *)
StartInput(task, restarting) ==
  /\ Event
  /\ LET m == [ime EXCEPT !.session = @ + 1, !.task = task,
                          !.dismissed = @ /\ restarting]
     IN Publish(Visible(m, task # 0), Visible(m, task # 0).visible)
  /\ UNCHANGED <<host, requests, wl, comp, wrong, breaks>>
ShowInput ==
  /\ Event
  /\ LET m == [ime EXCEPT !.show = @ + 1, !.dismissed = FALSE, !.visible = ime.task # 0]
     IN Publish(m, m.visible)
  /\ UNCHANGED <<host, requests, wl, comp, wrong, breaks>>
Hidden == [ime EXCEPT !.dismissed = TRUE, !.visible = FALSE]
HideWindow ==
  /\ Event /\ Publish(Hidden, FALSE)
  /\ UNCHANGED <<host, requests, wl, comp, wrong, breaks>>
FinishInput ==
  /\ Event /\ Publish([ime EXCEPT !.visible = FALSE, !.task = 0], FALSE)
  /\ UNCHANGED <<host, requests, wl, comp, wrong, breaks>>

(* apply: text goes to the current editor, a dismissal hides its panel.    *)
Refused(e) == ~ime.state.active \/ e.session # ime.session
Apply ==
  /\ link.down # <<>>
  /\ LET e == Head(link.down)
         rest == [link EXCEPT !.down = Tail(@)]
         stray == e.meant.run # ime.run \/ e.meant.session # ime.session
     IN IF Refused(e) \/ (e.kind = "dismiss" /\ (~ime.visible \/ e.show # ime.show))
        THEN link' = rest /\ UNCHANGED <<ime, wrong>>
        ELSE IF e.kind = "dismiss"
        THEN /\ ime' = Published(Hidden, FALSE) /\ link' = Sent(Published(Hidden, FALSE), rest)
             /\ wrong' = (wrong \/ stray \/ e.meant.show # ime.show)
        ELSE link' = rest /\ wrong' = (wrong \/ stray) /\ UNCHANGED ime
  /\ UNCHANGED <<host, requests, wl, comp, events, breaks>>

(* connect: the socket, then the current state.                            *)
Connect ==
  /\ link.at = "none"
  /\ link' = [at |-> "new", up |-> IF ime.state = None THEN <<>> ELSE <<ime.state>>, down |-> <<>>]
  /\ UNCHANGED <<ime, host, requests, wl, comp, wrong, events, breaks>>

(* The connection breaks, or the input method's process is restarted; the  *)
(* presenter sees the end of the stream later, in its next pump.           *)
LinkBreaks(restart) ==
  /\ Break /\ link.at # "none"
  /\ link' = [at |-> "none", up |-> <<>>, down |-> <<>>]
  /\ ime' = IF restart THEN [run |-> ime.run + 1, session |-> 0, show |-> 0, task |-> 0,
                             dismissed |-> FALSE, visible |-> FALSE, state |-> None]
            ELSE ime
  /\ UNCHANGED <<host, requests, wl, comp, wrong, events>>

(* ---- the presenter ------------------------------------------------------*)

(* update: the wanted editor, committed to the compositor if it changed.   *)
Wanted(h, task) ==
  IF h.editor.active /\ h.editor.task # 0 /\ h.editor.task = task /\ h.entered # 0
  THEN h.editor ELSE None
Updated(h, task) ==
  IF Wanted(h, task) = h.enabled THEN h
  ELSE [h EXCEPT !.enabled = Wanted(h, task), !.serial = @ + 1]
Commits(old, new, rq) ==
  IF new.serial = old.serial THEN rq
  ELSE Append(rq, [editor |-> new.enabled,
                   enable |-> new.enabled.session # old.enabled.session
                              \/ new.enabled.task # old.enabled.task])
FocusedTask(h) == IF h.focused = h.entered THEN h.focused ELSE 0

(* disconnect: the editor is forgotten and disabled.                       *)
Disconnected(h) ==
  Updated([h EXCEPT !.dismissed = None, !.client = FALSE, !.editor = None, !.outgoing = <<>>], 0)

(* pump_text_input: accept, read, write, then update for the focused task. *)
Pump ==
  LET gone == host.client /\ link.at # "up"       \* a new client, or the end of the old
      h1 == IF gone \/ link.at = "new"
            THEN [Disconnected(host) EXCEPT !.client = link.at = "new"] ELSE host
      h2 == IF h1.client /\ link.up # <<>> THEN [h1 EXCEPT !.editor = Last(link.up)] ELSE h1
      h3 == Updated(IF h2.client THEN [h2 EXCEPT !.outgoing = <<>>] ELSE h2, FocusedTask(h2))
  IN /\ gone \/ link.at = "new" \/ (host.client /\ (link.up # <<>> \/ host.outgoing # <<>>))
     /\ host' = h3
     /\ link' = IF h1.client THEN [at |-> "up", up |-> <<>>, down |-> link.down \o h2.outgoing]
                ELSE link
     /\ requests' = Commits(h1, h3, Commits(host, h1, requests))
     /\ UNCHANGED <<ime, wl, comp, wrong, events, breaks>>

(* done, dismiss: what the compositor says of an older commit is dropped.  *)
\* Mutant: text is taken for the enabled editor whatever commit it answers.
QueuedAnySerial(h, e) ==
  IF h.enabled = None \/ h.editor # h.enabled
     \/ (e.kind = "dismiss" /\ h.dismissed = h.enabled)
  THEN h
  ELSE [h EXCEPT !.outgoing = Append(@, [Text EXCEPT !.session = h.enabled.session,
                    !.kind = e.kind, !.show = h.enabled.show, !.meant = e.meant]),
                 !.dismissed = IF e.kind = "dismiss" THEN h.enabled ELSE @]

Queued(h, e) ==
  IF h.enabled = None \/ e.serial # h.serial \/ h.editor # h.enabled
     \/ (e.kind = "dismiss" /\ h.dismissed = h.enabled)
  THEN h
  ELSE [h EXCEPT !.outgoing = Append(@, [Text EXCEPT !.session = h.enabled.session,
                    !.kind = e.kind, !.show = h.enabled.show, !.meant = e.meant]),
                 !.dismissed = IF e.kind = "dismiss" THEN h.enabled ELSE @]

(* The events of the text-input object and of the keyboard focus.          *)
Dispatch ==
  /\ wl # <<>> /\ wl' = Tail(wl)
  /\ LET e == Head(wl)
         moved == CASE e.kind = "focus" -> [host EXCEPT !.focused = e.task]
                    [] e.kind \in {"enter", "leave"} -> [host EXCEPT !.entered = e.task]
                    [] OTHER -> Queued(host, e)
         h == IF e.kind \in {"focus", "enter"} THEN Updated(moved, FocusedTask(moved))
              ELSE IF e.kind = "leave" THEN Updated(moved, 0) ELSE moved
     IN host' = h /\ requests' = Commits(host, h, requests)
  /\ UNCHANGED <<ime, link, comp, wrong, events, breaks>>

(* ---- the compositor (external: text-input-v3) ---------------------------*)

(* A commit counts always; it is applied while a surface has the focus.    *)
CompCommit ==
  /\ requests # <<>> /\ requests' = Tail(requests)
  /\ LET r == Head(requests)
     IN comp' = [comp EXCEPT !.commits = @ + 1,
                   !.editor = IF comp.focus = 0 THEN None
                              ELSE IF r.enable \/ r.editor = None \/ @ # None THEN r.editor ELSE @]
  /\ UNCHANGED <<ime, link, host, wl, wrong, events, breaks>>

Gone(t) == [kind |-> "leave", task |-> 0, serial |-> 0, meant |-> None]
FocusMoves(t) ==
  /\ Event /\ t # comp.focus
  /\ comp' = [comp EXCEPT !.focus = t, !.editor = None]
  /\ wl' = wl \o (IF comp.focus # 0 THEN <<Gone(comp.focus)>> ELSE <<>>)
              \o <<[Gone(t) EXCEPT !.kind = "focus", !.task = t]>>
              \o (IF t # 0 THEN <<[Gone(t) EXCEPT !.kind = "enter", !.task = t]>> ELSE <<>>)
  /\ UNCHANGED <<ime, link, host, requests, wrong, breaks>>

(* The user types into the panel, or puts it away.                         *)
PanelUsed(kind) ==
  /\ Event /\ comp.editor # None
  /\ wl' = Append(wl, [kind |-> kind, task |-> 0, serial |-> comp.commits, meant |-> comp.editor])
  /\ UNCHANGED <<ime, link, host, requests, comp, wrong, breaks>>

Next ==
  \/ \E t \in Tasks \cup {0} :
       \/ FocusMoves(t)
       \/ \E restarting \in BOOLEAN : StartInput(t, restarting)
  \/ ShowInput \/ HideWindow \/ FinishInput \/ Apply \/ Connect
  \/ \E restart \in BOOLEAN : LinkBreaks(restart)
  \/ Pump \/ Dispatch \/ CompCommit
  \/ \E kind \in {"text", "dismiss"} : PanelUsed(kind)

Spec == Init /\ [][Next]_vars
-----------------------------------------------------------------------------
TypeOK ==
  /\ host.entered \in Tasks \cup {0} /\ host.focused \in Tasks \cup {0}
  /\ link.at \in {"none", "new", "up"}
  /\ host.enabled # None => host.enabled.active

(* Nothing is on its way between the three.                                *)
Quiet == /\ link.at = "up" /\ link.up = <<>> /\ link.down = <<>> /\ host.client
         /\ host.outgoing = <<>> /\ requests = <<>> /\ wl = <<>>

(* The panel and its editor (done, dismiss, update; HostInputMethod.apply):*)
(* text and a dismissal reach the editor the user had in front of them, or *)
(* nothing, although editors, shows, the focus and whole input methods     *)
(* change in between; and when nothing is on its way the panel is open for *)
(* exactly the visible editor of the task that has the focus.              *)
TextMeetsEditor ==
  /\ TypeOK /\ ~wrong
  /\ Quiet =>
       /\ host.enabled = (IF ime.state.active /\ ime.state.task = comp.focus THEN ime.state ELSE None)
       /\ comp.editor = host.enabled /\ comp.commits = host.serial
=============================================================================
