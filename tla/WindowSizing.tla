---------------------------- MODULE WindowSizing ----------------------------
(***************************************************************************)
(* The size of an Android window: the launch policy and the remembered     *)
(* sizes of droidloom-window-policy, `droidloomctl window-mode`, which      *)
(* changes the policy while the presenter runs, and the presenter, which   *)
(* resolves a window's first configure, coalesces later sizes and scales   *)
(* until its dispatch batch is over, and remembers the ones that last.     *)
(*                                                                         *)
(* A size is <<width, height>>; an axis of 0 in a configure is left to the *)
(* client.  A file is the document it holds: a missing one holds the       *)
(* default, one that does not parse a document no validation accepts.  The *)
(* three processes share only the files, which a rename replaces.          *)
(***************************************************************************)
EXTENDS Naturals, FiniteSets, FiniteSetsExt

CONSTANTS
    Packages,
    MaxDimension,      \* MAX_DIMENSION of the policy
    MaxApplications,   \* MAX_APPLICATIONS of a document
    MaxBuffer,         \* MAX_BUFFER_DIMENSION of the presenter
    Denominator,       \* FRACTIONAL_SCALE_DENOMINATOR
    Scales, Requests, Bounds,   \* what the compositor may send
    OutputSets,        \* sets of outputs the host may have
    Edits,             \* policy documents a user may leave in the file
    Preferences,       \* preferences given to droidloomctl
    MaxEvents, MaxEdits, MaxStarts   \* bounds: events of a window, changes of the policy
                                     \* file and starts of the presenter in a behaviour

VARIABLES
    disk,      \* the user's files: policy and sizes
    store,     \* WindowPolicyStore of the presenter, or Down
    outputs,   \* the host's outputs
    canvas,    \* size configured for the bootstrap task, or NoSize
    task,      \* the TaskWindow, or NoTask
    tool,      \* policy that a droidloomctl has loaded and will write, or Down
    want,      \* history: what the compositor asked of the window
    lasting,   \* history: the sizes a desktop window of each package was left at
    counts     \* events, edits and starts so far

sizingVars == <<disk, store, outputs, canvas, task, tool, want, lasting, counts>>

NoSize == <<0, 0>>
Down == [mode |-> "down"]
NoTask == [package |-> "none"]
Portable == <<2, 3>>   \* PORTABLE_WINDOWED_DEFAULT

-----------------------------------------------------------------------------
(* droidloom-window-policy                                                 *)

Valid(s) == \A i \in 1..2 : s[i] \in 1..MaxDimension
Smaller(a, b) == IF a < b THEN a ELSE b
Clamped(s, b) == IF b = NoSize THEN s ELSE <<Smaller(s[1], b[1]), Smaller(s[2], b[2])>>

FitOutput == [mode |-> "fit", size |-> NoSize]
Windowed(s) == [mode |-> "windowed", size |-> s]
NoPreference == [mode |-> "none", size |-> NoSize]
ValidPreference(p) ==
  \/ p = FitOutput
  \/ p.mode = "windowed" /\ Valid(p.size)

DefaultPolicy == [default |-> Windowed(Portable), apps |-> [p \in Packages |-> NoPreference]]
NoSizes == [p \in Packages |-> NoSize]
Entries(m, none) == {p \in Packages : m[p] # none}
ValidPolicy(d) ==
  /\ ValidPreference(d.default)
  /\ Cardinality(Entries(d.apps, NoPreference)) <= MaxApplications
  /\ \A p \in Entries(d.apps, NoPreference) : ValidPreference(d.apps[p])
ValidSizes(m) ==
  /\ Cardinality(Entries(m, NoSize)) <= MaxApplications
  /\ \A p \in Entries(m, NoSize) : Valid(m[p])

Loadable == ValidPolicy(disk.policy) /\ ValidSizes(disk.sizes)
Load == [paths |-> TRUE, policy |-> disk.policy, sizes |-> disk.sizes]
Ephemeral == [paths |-> FALSE, policy |-> DefaultPolicy, sizes |-> NoSizes]
Store(mode) ==
  LET s == IF Loadable THEN Load ELSE Ephemeral
  IN  [paths |-> s.paths, policy |-> s.policy, sizes |-> s.sizes, mode |-> mode]

\* A policy that cannot be read leaves the last one in force.
Reloaded ==
  IF store.paths /\ ValidPolicy(disk.policy)
  THEN [store EXCEPT !.policy = disk.policy] ELSE store

ResolvePreference(p, bounds) ==
  CASE p.mode = "fit" -> IF bounds = NoSize THEN Portable ELSE bounds
    [] p.mode = "windowed" -> Clamped(p.size, bounds)
EffectiveBounds(suggested, output) ==
  IF Valid(suggested) THEN suggested ELSE IF Valid(output) THEN output ELSE NoSize
SessionDefault == IF store.mode = "mobile" THEN FitOutput ELSE store.policy.default
Base(p, bounds) ==
  IF store.policy.apps[p] # NoPreference THEN ResolvePreference(store.policy.apps[p], bounds)
  ELSE IF SessionDefault.mode = "windowed" /\ store.sizes[p] # NoSize
  THEN Clamped(store.sizes[p], bounds) ELSE ResolvePreference(SessionDefault, bounds)
Explicit(request, base) == [i \in 1..2 |-> IF request[i] # 0 THEN request[i] ELSE base[i]]
ResolveInitial(p, request, suggested, output) ==
  LET bounds == EffectiveBounds(suggested, output)
  IN  Clamped(Explicit(request, Base(p, bounds)), bounds)

Remembers(p, s) ==
  /\ Valid(s) /\ store.mode # "mobile" /\ store.sizes[p] # s
  /\ \/ store.sizes[p] # NoSize
     \/ Cardinality(Entries(store.sizes, NoSize)) < MaxApplications
\* The document is replaced first; a failed write leaves memory as it was.
Remember(p, s) ==
  \/ /\ Remembers(p, s)
     /\ store' = [store EXCEPT !.sizes[p] = s]
     /\ disk' = IF store.paths THEN [disk EXCEPT !.sizes = store'.sizes] ELSE disk
  \/ (~Remembers(p, s) \/ store.paths) /\ UNCHANGED <<store, disk>>

-----------------------------------------------------------------------------
(* The presenter's outputs.  An output has the logical size of xdg-output, *)
(* the size of its current or preferred mode (NoSize when it has neither), *)
(* whether it is turned by a quarter, and its integer scale.               *)

OrientedOutputSize(o) ==
  LET s == IF o.turned THEN <<o.mode[2], o.mode[1]>> ELSE o.mode
  IN  IF \A i \in 1..2 : s[i] \in 1..MaxBuffer THEN s ELSE NoSize
CeilDiv(a, b) == (a + b - 1) \div b
LogicalOutputSize(o) ==
  LET physical == OrientedOutputSize(o)
      derived == [i \in 1..2 |-> CeilDiv(physical[i], o.scale)]
  IN  IF Valid(o.logical) THEN o.logical ELSE IF Valid(derived) THEN derived ELSE NoSize
Area(s) == s[1] * s[2]
Largest(sizes) ==
  IF sizes \subseteq {NoSize} THEN {NoSize}
  ELSE {s \in sizes : \A t \in sizes : Area(t) <= Area(s)}
HostCanvasSizes(os) == Largest({OrientedOutputSize(o) : o \in os})
HostLogicalCanvasSizes == Largest({LogicalOutputSize(o) : o \in outputs})

-----------------------------------------------------------------------------
(* resize::Pending and the windows                                         *)

NewPending == [size |-> NoSize, scale |-> Denominator, remember |-> FALSE]
LogicalSize(pending, applied) == IF pending.size # NoSize THEN pending.size ELSE applied
ConfigurePending(pending, s, remember) ==
  [pending EXCEPT !.size = s, !.remember = remember]
\* Mutant: the scale is queued with the size on screen.
PreferredScaleApplied(pending, scale, applied) ==
  [pending EXCEPT !.scale = scale, !.size = applied]
PreferredScale(pending, scale, applied) ==
  [pending EXCEPT !.scale = scale, !.size = LogicalSize(pending, applied)]
Take(pending) == [pending EXCEPT !.size = NoSize, !.remember = FALSE]

ScaleDimension(logical, scale) ==
  Max({1, (logical * scale + Denominator \div 2) \div Denominator})
Scaled(s, scale) == [i \in 1..2 |-> ScaleDimension(s[i], scale)]
TooLarge(s, scale) == \E i \in 1..2 : ScaleDimension(s[i], scale) > MaxBuffer
ChangesGeometry(s, scale) == task.logical # s \/ task.scale # scale

Up == store # Down
Live == Up /\ task # NoTask /\ ~task.closing
\* A fatal error, a signal or a crash: the windows and the store are gone.
Dies ==
  /\ store' = Down /\ task' = NoTask /\ canvas' = NoSize
  /\ want' = [size |-> NoSize, scale |-> Denominator, steady |-> FALSE]

Init ==
  /\ disk = [policy |-> DefaultPolicy, sizes |-> NoSizes]
  /\ store = Down /\ task = NoTask /\ tool = Down /\ canvas = NoSize
  /\ outputs \in OutputSets
  /\ want = [size |-> NoSize, scale |-> Denominator, steady |-> FALSE]
  /\ lasting = [p \in Packages |-> {}]
  /\ counts = [events |-> 0, edits |-> 0, starts |-> 0]

Start(mode) ==
  /\ ~Up /\ counts.starts < MaxStarts
  /\ store' = Store(mode)
  /\ counts' = [counts EXCEPT !.starts = @ + 1]
  /\ UNCHANGED <<disk, outputs, canvas, task, tool, want, lasting>>
Stop == Up /\ Dies /\ UNCHANGED <<disk, outputs, tool, lasting, counts>>

\* The hidden task of the desktop canvas; without an output the presenter fails.
CreateBootstrap ==
  /\ Up /\ canvas = NoSize
  /\ \E s \in HostCanvasSizes(outputs) :
       IF s = NoSize THEN Dies
       ELSE canvas' = s /\ UNCHANGED <<store, task, want>>
  /\ UNCHANGED <<disk, outputs, tool, lasting, counts>>
ReconfigureBootstrap ==
  /\ \E os \in OutputSets \ {outputs} :
       /\ outputs' = os
       /\ \E s \in HostCanvasSizes(os) :
            canvas' = IF canvas = NoSize \/ s = NoSize THEN canvas ELSE s
  /\ counts.events < MaxEvents /\ counts' = [counts EXCEPT !.events = @ + 1]
  /\ UNCHANGED <<disk, store, task, tool, want, lasting>>

CreateTask(p) ==
  /\ Up /\ task = NoTask
  /\ store' = Reloaded
  /\ task' = [package |-> p, logical |-> NoSize, buffer |-> NoSize, scale |-> Denominator,
              pending |-> NewPending, resize |-> FALSE, serial |-> 0, closing |-> FALSE]
  /\ want' = [size |-> NoSize, scale |-> Denominator, steady |-> FALSE]
  /\ UNCHANGED <<disk, outputs, canvas, tool, lasting, counts>>
RemoveTask ==
  /\ Up /\ task # NoTask /\ task' = NoTask
  /\ UNCHANGED <<disk, store, outputs, canvas, tool, want, lasting, counts>>

Event == counts.events < MaxEvents /\ counts' = [counts EXCEPT !.events = @ + 1]

\* WindowHandler::configure.  `interactive`: resizing, maximized or fullscreen.
Configure(request, suggested, interactive) ==
  /\ Live /\ Event
  /\ \E output \in HostLogicalCanvasSizes :
       LET previous == LogicalSize(task.pending, task.logical)
           size == IF previous = NoSize
                   THEN ResolveInitial(task.package, request, suggested, output)
                   ELSE Explicit(request, previous)
       IN  /\ task' = [task EXCEPT !.resize = TRUE,
                         !.pending = ConfigurePending(@, size, previous # NoSize /\ ~interactive)]
           /\ want' = [want EXCEPT
                         !.size = IF @ = NoSize THEN size ELSE Explicit(request, @),
                         !.steady = want.size # NoSize /\ ~interactive]
  /\ UNCHANGED <<disk, store, outputs, canvas, tool, lasting>>

\* The event of wp_fractional_scale_v1; a zero scale is fatal.
PreferScale(scale) ==
  /\ Live /\ Event
  /\ IF scale = 0 THEN Dies ELSE
       /\ want' = [want EXCEPT !.scale = scale]
       /\ IF scale = task.pending.scale THEN UNCHANGED task
          ELSE LET pending == PreferredScale(task.pending, scale, task.logical)
               IN  task' = [task EXCEPT !.pending = pending,
                              !.resize = @ \/ pending.size # NoSize]
       /\ UNCHANGED <<store, canvas>>
  /\ UNCHANGED <<disk, outputs, tool, lasting>>
RequestClose ==
  /\ Live /\ task' = [task EXCEPT !.closing = TRUE]
  /\ UNCHANGED <<disk, store, outputs, canvas, tool, want, lasting, counts>>

\* The turn of the main loop after a dispatch batch: closed windows are unmapped,
\* then the last size and scale are applied, and the size is remembered.
Unmap ==
  /\ Up /\ task # NoTask /\ task.closing /\ task.resize
  /\ task' = [task EXCEPT !.pending = Take(@), !.resize = FALSE]
  /\ UNCHANGED <<disk, store, outputs, canvas, tool, want, lasting, counts>>
Configured(size, scale) ==
  IF task.serial = 0 \/ ChangesGeometry(size, scale) \/ task.buffer # Scaled(size, scale)
  THEN [task EXCEPT !.logical = size, !.scale = scale, !.buffer = Scaled(size, scale),
                    !.serial = Smaller(@ + 1, 2), !.pending = Take(@), !.resize = FALSE]
  ELSE [task EXCEPT !.pending = Take(@), !.resize = FALSE]
ApplyPendingResize ==
  /\ Live /\ task.resize
  /\ LET size == task.pending.size
         scale == task.pending.scale
     IN  IF TooLarge(size, scale) THEN Dies /\ UNCHANGED <<disk, lasting>> ELSE
           /\ task' = Configured(size, scale)
           /\ IF task.pending.remember THEN Remember(task.package, size)
              ELSE UNCHANGED <<disk, store>>
           /\ lasting' = IF want.steady /\ store.mode = "desktop"
                         THEN [lasting EXCEPT ![task.package] = @ \cup {want.size}] ELSE lasting
           /\ UNCHANGED <<canvas, want>>
  /\ UNCHANGED <<outputs, tool, counts>>

-----------------------------------------------------------------------------
(* The user: an editor, and droidloomctl window-mode                       *)

Edited == counts.edits < MaxEdits /\ counts' = [counts EXCEPT !.edits = @ + 1]
Edit ==
  /\ tool = Down   \* a tool that runs meanwhile would write the document it loaded
  /\ Edited /\ \E d \in Edits : disk' = [disk EXCEPT !.policy = d]
  /\ UNCHANGED <<store, outputs, canvas, task, tool, want, lasting>>
Chosen(package, preference) ==
  IF package = "default" THEN [disk.policy EXCEPT !.default = preference]
  ELSE [disk.policy EXCEPT !.apps[package] = preference]
ToolLoads(package, preference) ==
  /\ tool = Down /\ Edited /\ Loadable /\ ValidPreference(preference)
  /\ package \in Packages =>
       \/ disk.policy.apps[package] # NoPreference
       \/ Cardinality(Entries(disk.policy.apps, NoPreference)) < MaxApplications
  /\ tool' = [mode |-> "write", policy |-> Chosen(package, preference)]
  /\ UNCHANGED <<disk, store, outputs, canvas, task, want, lasting>>
ToolWrites ==
  /\ tool # Down /\ tool' = Down
  /\ disk' \in {disk, [disk EXCEPT !.policy = tool.policy]}
  /\ UNCHANGED <<store, outputs, canvas, task, want, lasting, counts>>

Next ==
  \/ \E mode \in {"desktop", "mobile"} : Start(mode)
  \/ Stop \/ CreateBootstrap \/ ReconfigureBootstrap \/ RemoveTask \/ RequestClose
  \/ \E p \in Packages : CreateTask(p)
  \/ \E r \in Requests, b \in Bounds, i \in BOOLEAN : Configure(r, b, i)
  \/ \E s \in Scales : PreferScale(s)
  \/ Unmap \/ ApplyPendingResize \/ Edit \/ ToolWrites
  \/ \E p \in Packages \cup {"default"}, f \in Preferences : ToolLoads(p, f)
Spec == Init /\ [][Next]_sizingVars

-----------------------------------------------------------------------------
(* Once the turn after a batch is over, a window has the size and the scale *)
(* that its compositor asked for last, whatever order they came in          *)
(* (resize.rs: a scale keeps "a newer queued logical size"), and no window  *)
(* is configured before its first xdg configure;                            *)
LatestApplied ==
  Live /\ ~task.resize =>
    /\ task.serial = 0 <=> want.size = NoSize
    /\ want.size # NoSize =>
         task.logical = want.size /\ task.scale = want.scale
         /\ task.buffer = Scaled(want.size, want.scale)
(* the file of remembered sizes names only sizes a desktop window was left  *)
(* at (not one it had in passing, maximized or in a mobile session), and    *)
(* the presenter's copy is never ahead of the file (remember);              *)
OnlyLastingSizes ==
  /\ \A p \in Entries(disk.sizes, NoSize) : disk.sizes[p] \in lasting[p]
  /\ Up /\ store.paths => store.sizes = disk.sizes
(* the canvas of the bootstrap task is the largest of the host's        *)
(* outputs, in the pixels of its orientation (host_canvas_size).            *)
CanvasIsLargest ==
  canvas # NoSize =>
    \/ \A o \in outputs : OrientedOutputSize(o) = NoSize
    \/ /\ \E o \in outputs : OrientedOutputSize(o) = canvas
       /\ \A o \in outputs : Area(OrientedOutputSize(o)) <= Area(canvas)
(* The first size a window would get is within the compositor's bounds,     *)
(* follows the user's preference for the package before anything            *)
(* remembered, and otherwise restores, on a desktop, the size the window    *)
(* was left at, as far as it fits (resolve_initial);                        *)
FirstSizeHonest ==
  Live /\ want.size = NoSize =>
    \A b \in {x \in Bounds : Valid(x)} :
      LET size == ResolveInitial(task.package, NoSize, b, NoSize)
          preference == store.policy.apps[task.package]
          kept == disk.sizes[task.package]
      IN  /\ \A i \in 1..2 : size[i] \in 1..b[i]
          /\ preference.mode = "fit" => size = b
          /\ preference.mode = "windowed" => size = Clamped(preference.size, b)
          /\ preference = NoPreference =>
               /\ store.mode = "mobile" => size = b
               /\ store.mode = "desktop" /\ store.paths /\ kept # NoSize
                    /\ store.policy.default.mode = "windowed" => size = Clamped(kept, b)
(* so a window's size is the user's, the compositor's or the last one.      *)
WindowsSized == LatestApplied /\ OnlyLastingSizes /\ CanvasIsLargest /\ FirstSizeHonest
=============================================================================
