---------------------------- MODULE BufferLoan ----------------------------
(***************************************************************************)
(* What release-before-reuse promises for the buffers of one task: a buffer*)
(* is drawn by at most one renderer and read by the host, never both, and  *)
(* it is drawn again only after the host gave it back.                     *)
(***************************************************************************)
EXTENDS Naturals

CONSTANT Buffers

VARIABLES drawing, \* buffers a renderer writes
          reading  \* buffers the host holds or is about to receive

vars == <<drawing, reading>>

Init == drawing = {} /\ reading = {}

Draw(b) ==
    /\ b \notin drawing \cup reading
    /\ drawing' = drawing \cup {b}
    /\ UNCHANGED reading

Abandon(b) ==
    /\ b \in drawing
    /\ drawing' = drawing \ {b}
    /\ UNCHANGED reading

Hand(b) ==
    /\ b \in drawing
    /\ drawing' = drawing \ {b}
    /\ reading' = reading \cup {b}

Return(b) ==
    /\ b \in reading
    /\ reading' = reading \ {b}
    /\ UNCHANGED drawing

Next == \E b \in Buffers : Draw(b) \/ Abandon(b) \/ Hand(b) \/ Return(b)

Spec == Init /\ [][Next]_vars
=============================================================================
