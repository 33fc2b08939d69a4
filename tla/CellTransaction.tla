--------------------------- MODULE CellTransaction ---------------------------
(***************************************************************************)
(* The supervisor's fail-closed transaction (lib.rs) over the auditable    *)
(* Linux plan (linux_plan.rs): CellSpec::validate, start, teardown and the *)
(* reverse-order rollback, for one cell.  Each construction stage expands  *)
(* to the plan's operations; of these the mount tree, whose order matters, *)
(* is kept operation by operation, and any other stage is the single       *)
(* object it claims.  A backend stage may fail to apply and may fail to    *)
(* roll back.  Paths are sequences of names.                               *)
(***************************************************************************)
EXTENDS Integers, Sequences, FiniteSets, SequencesExt

CONSTANTS Specs,       \* cell specifications a caller may present
          MinIds, MaxId,
          MaxCalls

VARIABLES cell,        \* the supervisor's CellRecord, or NoRecord
          applied,     \* stages in effect on the host
          mounts,      \* mounted targets
          misordered,  \* the last rollback met a missing or busy target
          calls

vars == <<cell, applied, mounts, misordered, calls>>

ConstructionOrder ==
  <<"ReserveIdentity", "CreateNamespaces", "PopulateIdMaps", "AssembleMountsAndDevices",
    "CreateBinderContexts", "CreateNetworkPolicy", "ApplyResourceLimits",
    "StartAndroidInit", "PublishHandle">>
NoRecord == [spec |-> << >>, completed |-> << >>]

(* CellSpec::validate.                                                      *)
EndExclusive(r) == r.start + r.count
HasId(r, id) == r.start <= id /\ id < EndExclusive(r)
RangeValid(r) == r.count >= MinIds /\ EndExclusive(r) <= MaxId + 1
Overlap(p, q) == IsPrefix(p, q) \/ IsPrefix(q, p)
OverridesValid(ts) ==
  /\ IsInjective(ts)
  /\ \A t \in Range(ts) : /\ Head(t) \in {"system", "system_ext", "product", "vendor"}
                          /\ Len(t) > 1 /\ t # <<"system", "bin", "init">>
RuntimeTargetsValid(ts) ==
  /\ \A t \in Range(ts) : Head(t) = "droidloom" /\ Len(t) > 1
  /\ \A i, j \in 1..Len(ts) : i # j => ~Overlap(ts[i], ts[j])
SharedValid(ds) ==
  /\ IsInjective([i \in 1..Len(ds) |-> ds[i].name])
  /\ \A i \in 1..Len(ds) : ds[i].name # "android" /\ ds[i].gid = ds[1].gid
Validate(s) ==
  /\ RangeValid(s.uids) /\ RangeValid(s.gids) /\ ~HasId(s.uids, s.host)
  /\ OverridesValid(s.overrides) /\ RuntimeTargetsValid(s.runtime) /\ SharedValid(s.shared)

(* mount_operations and binder_operations, in plan order.                   *)
PartitionMounts == << << >>, <<"system_ext">>, <<"product">>, <<"vendor">> >>
PrivateFilesystemMounts ==
  << <<"data">>, <<"metadata">>, <<"proc">>, <<"sys">>, <<"dev">>, <<"dev", "input">>,
     <<"dev", "pts">> >>
InitMount(s) == IF s.init THEN << <<"system", "bin", "init">> >> ELSE << >>
SharedTargets(s) == [i \in 1..Len(s.shared) |-> <<"data", "media", "0", s.shared[i].name>>]
DenialMount == << <<"dev", "socket", "droidloom", "denial">> >>
MountOperations(s) ==
  PartitionMounts \o InitMount(s) \o s.overrides \o s.runtime \o PrivateFilesystemMounts
    \o SharedTargets(s) \o DenialMount
ConstructionMounts(s, step) ==
  CASE step = "AssembleMountsAndDevices" -> MountOperations(s)
    [] step = "CreateBinderContexts" -> << <<"dev", "binderfs">> >>
    [] OTHER -> << >>

(* teardown_operations: the unmounts of one stage.                          *)
TeardownDevFirst(s, step) ==
  CASE step = "AssembleMountsAndDevices" ->
         Reverse(s.runtime) \o Reverse(s.overrides) \o InitMount(s) \o DenialMount
           \o Reverse(SharedTargets(s))
           \o << <<"dev">>, <<"dev", "pts">>, <<"dev", "input">>, <<"sys">>, <<"proc">>,
                 <<"metadata">>, <<"data">>, <<"vendor">>, <<"product">>,
                 <<"system_ext">>, << >> >>
    [] step = "CreateBinderContexts" -> << <<"dev", "binderfs">> >>
    [] OTHER -> << >>
TeardownUnmounts(s, step) ==
  CASE step = "AssembleMountsAndDevices" ->
         Reverse(s.runtime) \o Reverse(s.overrides) \o InitMount(s) \o DenialMount
           \o Reverse(SharedTargets(s))
           \o << <<"dev", "pts">>, <<"dev", "input">>, <<"dev">>, <<"sys">>, <<"proc">>,
                 <<"metadata">>, <<"data">>, <<"vendor">>, <<"product">>,
                 <<"system_ext">>, << >> >>
    [] step = "CreateBinderContexts" -> << <<"dev", "binderfs">> >>
    [] OTHER -> << >>

(* rollback_steps: newest first, keeping the stages whose rollback fails.   *)
RetainedReversed(steps, stuck) == Reverse(SelectSeq(steps, LAMBDA step : step \in stuck))
Retained(steps, stuck) == SelectSeq(steps, LAMBDA step : step \in stuck)
Unmounts(s, steps, stuck) ==
  LET undone == Reverse(SelectSeq(steps, LAMBDA step : step \notin stuck))
  IN FlattenSeq([i \in 1..Len(undone) |-> TeardownUnmounts(s, undone[i])])
Built(s, steps) ==
  UNION {ToSet(ConstructionMounts(s, steps[i])) : i \in 1..Len(steps)}

(* Each unmount finds its target mounted, with no mount below it.           *)
InOrder(m, ts) ==
  \A i \in 1..Len(ts) :
    /\ ts[i] \in m
    /\ \A u \in m : IsStrictPrefix(ts[i], u) => \E j \in 1..(i - 1) : ts[j] = u
Rollback(s, m, steps, stuck) ==
  LET ts == Unmounts(s, steps, stuck)
  IN mounts' = m \ ToSet(ts) /\ misordered' = ~InOrder(m, ts)

Init == /\ cell = NoRecord /\ applied = {} /\ mounts = {} /\ misordered = FALSE
        /\ calls = 0

Call == calls < MaxCalls /\ calls' = calls + 1

(* Supervisor::start: invalid input changes nothing; a recorded cell is     *)
(* refused; otherwise stages 1..n apply, and a failing one rolls all back.  *)
StartSucceeds(s) ==
  /\ Call /\ Validate(s) /\ cell = NoRecord
  /\ cell' = [spec |-> s, completed |-> ConstructionOrder]
  /\ applied' = applied \cup ToSet(ConstructionOrder)
  /\ mounts' = mounts \cup Built(s, ConstructionOrder)
  /\ misordered' = FALSE
StartFails(s, n, stuck) ==
  /\ Call /\ Validate(s) /\ cell = NoRecord
  /\ LET completed == SubSeq(ConstructionOrder, 1, n)
         kept == Retained(completed, stuck)
     IN /\ cell' = IF kept = << >> THEN cell ELSE [spec |-> s, completed |-> kept]
        /\ applied' = applied \cup ToSet(kept)
        /\ Rollback(s, mounts \cup Built(s, completed), completed, stuck)
StartRefused(s) ==
  Call /\ (~Validate(s) \/ cell # NoRecord) /\ UNCHANGED <<cell, applied, mounts, misordered>>

(* Supervisor::teardown: absent is a success; failed stages stay recorded.  *)
TeardownAbsent == Call /\ cell = NoRecord /\ UNCHANGED <<cell, applied, mounts, misordered>>
Teardown(stuck) ==
  /\ Call /\ cell # NoRecord
  /\ LET kept == Retained(cell.completed, stuck)
     IN /\ cell' = IF kept = << >> THEN NoRecord ELSE [cell EXCEPT !.completed = kept]
        /\ applied' = (applied \ ToSet(cell.completed)) \cup ToSet(kept)
        /\ Rollback(cell.spec, mounts, cell.completed, stuck)

Stuck == {{}, {"AssembleMountsAndDevices"}, {"CreateBinderContexts", "StartAndroidInit"},
          {"PublishHandle"}}
Next == \/ \E s \in Specs : StartSucceeds(s) \/ StartRefused(s)
        \/ \E s \in Specs, n \in 0..8, stuck \in Stuck : StartFails(s, n, stuck)
        \/ TeardownAbsent \/ \E stuck \in Stuck : Teardown(stuck)
Spec == Init /\ [][Next]_vars

(* Whatever fails, in any order of starts and teardowns: the stages in      *)
(* effect are exactly the recorded ones, in construction order, so that a   *)
(* later teardown owns all that is left; and a fully torn down cell leaves  *)
(* no mount behind.                                                         *)
ResidueIsRecorded ==
  /\ applied = ToSet(cell.completed)
  /\ cell.completed = SelectSeq(ConstructionOrder, LAMBDA step : step \in applied)
  /\ cell = NoRecord => mounts = {}

(* The plan's teardown reverses its construction: an unmount never names a  *)
(* target that is not mounted or that still has a mount below it, unless    *)
(* the rollback of the binder stage, whose mount lies below /dev, failed.   *)
UnmountsInOrder == misordered => "CreateBinderContexts" \in applied
=============================================================================
