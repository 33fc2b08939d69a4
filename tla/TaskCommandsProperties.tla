---- MODULE TaskCommandsProperties ----
(* What the host can rely on when it focuses, resizes or closes a window. *)
EXTENDS TaskCommands

(* Coalescing leaves at most one size or close per window and one focus     *)
(* altogether, under distinct serials.                                      *)
Coalesced ==
    \A e, f \in pending : e # f =>
        /\ e.serial # f.serial
        /\ e.kind = "focus" => f.kind # "focus"
        /\ e.window = f.window /\ e.kind # "focus" => f.kind = "focus" /\ e.kind = "resize"

(* With fewer windows than the backlog has room, push() never refuses a     *)
(* command: a close cannot be lost to other windows' resizes.               *)
NeverRejected == ~rejected

(* The backlog stays as small as coalescing makes it, so it never refuses.  *)
BacklogHolds == Coalesced /\ NeverRejected

(* "Coalescing never loses the final resize or close": every window ends    *)
(* with the size the host asked for last, unless it was closed.             *)
FinalSizeApplied ==
    <>[](\A w \in Windows : w \in alive => bounds[w] = wanted[w])

(* A window the host closed is removed by Android, whatever is retried.     *)
CloseApplied ==
    \A w \in Windows : w \in wantsClose ~> w \notin alive

(* The window the host focused last is the one Android focuses in the end,  *)
(* if it was not closed.                                                    *)
FinalFocusApplied ==
    <>[](wantsFocus \in alive \ closed => focus = wantsFocus)

(* Whatever is retried, timed out or redelivered, Android ends with the     *)
(* last size, the last focus and without the windows the host closed.       *)
CommandsApplied == FinalSizeApplied /\ CloseApplied /\ FinalFocusApplied
====
