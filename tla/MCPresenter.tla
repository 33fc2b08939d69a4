------------------------------ MODULE MCPresenter ------------------------------
(***************************************************************************)
(* Input, text, clipboard and notifications, the services the host's       *)
(* presenter gives to Android beside its frames, checked side by side:     *)
(* `bench` names the model and the bounds a behaviour is about and never   *)
(* changes, and the variables of the others keep their initial values.     *)
(***************************************************************************)
EXTENDS Integers, Sequences

CONSTANTS Benches,
          MaxEvents, MaxBreaks,   \* the bounds of "fingers"
          Resident                \* a clicked notification of "notes" stays

VARIABLES bench
VARIABLES h, engine, worker, events, breaks
VARIABLES desk, host, android, copies, cuts, excused
VARIABLES ime, textLink, editor, requests, wl, comp, wrong, keyed, drops
VARIABLES active, listener, noteLink, bridge, daemon, signals, owner, ghost, posts, users, halts

inputVars == <<h, engine, worker, events, breaks>>
clipVars == <<desk, host, android, copies, cuts, excused>>
textVars == <<ime, textLink, editor, requests, wl, comp, wrong, keyed, drops>>
noteVars == <<active, listener, noteLink, bridge, daemon, signals, owner, ghost, posts, users, halts>>
all == <<bench, inputVars, clipVars, textVars, noteVars>>

(* One window through two incarnations; two windows; a window with a key.   *)
Finger == INSTANCE HostInput WITH Tasks <- {1}, Contacts <- {1, 2}, Keys <- {}, MaxPointerId <- 1,
            DeferLimit <- 5, QueueLimit <- 1, SocketRoom <- 2, ClipboardExpires <- FALSE,
            MaxIncarnation <- 2, MaxEvents <- 4, MaxBreaks <- 1
Fingers == INSTANCE HostInput WITH Tasks <- {1, 2}, Contacts <- {1, 2}, Keys <- {}, MaxPointerId <- 1,
            DeferLimit <- 5, QueueLimit <- 1, SocketRoom <- 2, ClipboardExpires <- FALSE,
            MaxIncarnation <- 1, MaxEvents <- MaxEvents, MaxBreaks <- MaxBreaks
Typing == INSTANCE HostInput WITH Tasks <- {1}, Contacts <- {1}, Keys <- {11}, MaxPointerId <- 1,
            DeferLimit <- 5, QueueLimit <- 1, SocketRoom <- 2, ClipboardExpires <- FALSE,
            MaxIncarnation <- 1, MaxEvents <- 3, MaxBreaks <- 1
(* The receiver alone, two tasks on two displays, with refused injections.  *)
Engine == INSTANCE InputEngine WITH Tasks <- {1, 2}, Pointers <- {1, 2}, Keys <- {11},
             Windows <- {1, 2, 3}, DisplayOf <- <<1, 1, 2>>, MaxIncarnation <- 1,
             MaxRefusals <- 1, s <- engine

(* Broken connections; and a focus that is lost and comes back.             *)
Cut == INSTANCE Clipboard WITH Contents <- {1, 2}, Unsupported <- {2}, Backgrounds <- BOOLEAN,
            WorkerLimit <- 1, MaxCopies <- 2, MaxBreaks <- 1, MaxFocus <- 1, breaks <- cuts
Refocus == INSTANCE Clipboard WITH Contents <- {1, 2}, Unsupported <- {2}, Backgrounds <- {FALSE},
            WorkerLimit <- 1, MaxCopies <- 2, MaxBreaks <- 0, MaxFocus <- 2, breaks <- cuts

(* Two windows with an editor each; two notifications, one shown at a time. *)
Words == INSTANCE TextInput WITH Tasks <- {1, 2}, MaxEvents <- 4, MaxBreaks <- 1,
            link <- textLink, host <- editor, events <- keyed, breaks <- drops
Notes == INSTANCE Notifications WITH Keys <- {"a", "b"}, MAX_ACTIVE <- 1, Resident <- Resident,
            DaemonReusesIds <- FALSE, MaxPosts <- 2, MaxUser <- 1, MaxBreaks <- 1,
            android <- listener, link <- noteLink, host <- bridge, breaks <- halts

Input == {"finger", "fingers", "typing", "engine"}
Clip == {"cut", "refocus"}

Init ==
  /\ bench \in Benches
  /\ CASE bench = "fingers" -> Fingers!Init
       [] bench = "engine" -> Engine!Init /\ h = 0 /\ events = 0 /\ breaks = 0
       [] OTHER -> Finger!Init
  /\ IF bench = "refocus" THEN Refocus!Init ELSE Cut!Init
  /\ bench \notin Clip => desk.background
  /\ Words!Init /\ Notes!Init
Next ==
  /\ UNCHANGED bench
  /\ \/ bench \in Input /\ UNCHANGED <<clipVars, textVars, noteVars>>
        /\ \/ bench = "finger" /\ Finger!Next
           \/ bench = "fingers" /\ Fingers!Next
           \/ bench = "typing" /\ Typing!Next
           \/ bench = "engine" /\ Engine!Next /\ UNCHANGED <<h, events, breaks>>
     \/ bench \in Clip /\ UNCHANGED <<inputVars, textVars, noteVars>>
        /\ (IF bench = "cut" THEN Cut!Next ELSE Refocus!Next)
     \/ bench = "text" /\ Words!Next /\ UNCHANGED <<inputVars, clipVars, noteVars>>
     \/ bench = "notes" /\ Notes!Next /\ UNCHANGED <<inputVars, clipVars, textVars>>
Spec == Init /\ [][Next]_all

(* No touch stays down in a window once its finger is gone (input.rs and    *)
(* main.rs of the presenter, with the receiver in Android),                 *)
NoTouchLeftBehind ==
  CASE bench = "finger" -> Finger!NoTouchLeftBehind
    [] bench = "typing" -> Typing!NoTouchLeftBehind
    [] bench = "fingers" -> Fingers!NoTouchLeftBehind
    [] OTHER -> TRUE
(* the receiver knows what its windows have down, one task's touches own a  *)
(* display at a time, and a new connection or window starts with nothing    *)
(* down (input.rs and input_ffi.rs of droidloom-window-policy),             *)
InputTracked ==
  /\ [](bench = "engine" => Engine!HeldIsKnown /\ Engine!OneGesturePerDisplay)
  /\ [][bench = "engine" => Engine!AdmitsClean]_all
(* both clipboards hold the same once the exchange is at rest (clipboard/,  *)
(* ClipboardBridge),                                                        *)
ClipboardsAgree == bench \in Clip => Cut!ClipboardsAgree
(* text reaches the editor it was typed for (text_input.rs and the input    *)
(* method in Android),                                                      *)
TextMeetsEditor == bench = "text" => Words!TextMeetsEditor
(* and the desktop shows Android's notifications (notifications/,           *)
(* NotificationBridge).                                                     *)
NotificationsAgree == bench = "notes" => Notes!NotificationsAgree

(* threat-model-v2.md: versions of removals and actions are matched "so     *)
(* stale records cannot affect a newer notification".  Of the notifications *)
(* a daemon keeps on screen after a click too.                              *)
UserMeant == Notes!UserMeant
=============================================================================
