------------------------- MODULE SourceProjectionProofs -------------------------
(***************************************************************************)
(* SourceKept of SourceProjection for every checkout, every set of source  *)
(* locks and any number of deaths of the builder.                          *)
(***************************************************************************)
EXTENDS SourceProjection, TLAPS

Steps == {"idle", "inputs", "extract", "source", "project", "write", "compile", "restore",
          "recover"}

(* What is saved of a file is its pinned content, in the journal and in    *)
(* the memory of the builder.                                              *)
Originals(s) == s = [f \in DOMAIN s |-> Pristine(f)] /\ DOMAIN s \subseteq Sources

BuilderTypes ==
  /\ BuilderTypeOK
  /\ run = [pc |-> run.pc, saved |-> run.saved, todo |-> run.todo] /\ run.pc \in Steps
  /\ Originals(journal) /\ Originals(run.saved)
  /\ lock.projects \in SUBSET Projects
  /\ base = [marker |-> base.marker, image |-> base.image, resources |-> base.resources,
             whole |-> base.whole]

(* The builder's memory and the journal agree as long as it lives; a file  *)
(* differs from the pinned source only when the journal has its original;  *)
(* a file that was saved is projected, but for the one being written; and  *)
(* only a compiling or a dead builder leaves a compiler running.           *)
IndInv ==
  /\ BuilderTypes
  /\ run.pc # "idle" => run.saved = journal
  /\ run.pc \in {"inputs", "extract", "source"} => DOMAIN journal = {}
  /\ run.pc \in {"write", "restore", "recover"} => run.todo \subseteq DOMAIN run.saved
  /\ \A f \in Sources \ DOMAIN journal : tree[f] = Pristine(f)
  /\ run.pc \in {"project", "compile"} => \A f \in DOMAIN run.saved : tree[f] = "projected"
  /\ run.pc = "write" => \A f \in DOMAIN run.saved \ run.todo : tree[f] = "projected"
  /\ run.pc \in {"restore", "recover"} =>
       \A f \in DOMAIN run.saved \ run.todo : tree[f] = Pristine(f)
  /\ compiler => run.pc \in {"idle", "compile"} /\ \A f \in Sources : tree[f] = "projected"
  /\ ~dirty
  /\ manifest \subseteq checkouts
  /\ run.pc \in {"source", "project", "write", "compile"} => base.resources
----------------------------------------------------------------------------
(* What the invariant is for.                                              *)
LEMMA IndInvImplies == IndInv => SourceKept
  BY DEF IndInv, BuilderTypes, SourceKept, Clean, Originals

(* An empty journal holds originals, and stays so when a file is saved     *)
(* before it changes, or again after it changed.                           *)
LEMMA NothingSaved == Originals(Nothing)
  BY DEF Originals, Nothing

LEMMA SavedOriginals ==
  ASSUME NEW f \in Sources, Originals(run.saved),
         f \notin DOMAIN run.saved => tree[f] = Pristine(f)
  PROVE  Originals(Saved(f)) /\ DOMAIN Saved(f) = DOMAIN run.saved \cup {f}
  <1>1. CASE f \in DOMAIN run.saved
    BY <1>1 DEF Saved
  <1>2. CASE f \notin DOMAIN run.saved
    BY <1>2 DEF Saved, SaveAgain, Originals
  <1> QED
    BY <1>1, <1>2

(* A work directory in which nothing was built yet satisfies it.           *)
LEMMA InitInv == BuilderInit => IndInv
  <1> SUFFICES ASSUME BuilderInit PROVE IndInv
    OBVIOUS
  <1>1. Originals(journal) /\ Originals(run.saved)
    BY NothingSaved DEF BuilderInit, Unstarted
  <1>2. DOMAIN journal = {}
    BY DEF BuilderInit, Nothing
  <1>3. tree \in [Sources -> {"pinned", "projected", "torn", "absent"}]
    BY DEF BuilderInit, Pristine
  <1>4. BuilderTypeOK
    <2>1. kills \in 0..MaxKills
      BY BuilderAssumption DEF BuilderInit
    <2>2. compiler \in BOOLEAN /\ checkouts \subseteq Projects /\ manifest \subseteq Projects
      BY Zenon DEF BuilderInit
    <2> QED
      BY <1>2, <1>3, <2>1, <2>2 DEF BuilderTypeOK
  <1>5. lock.projects \in SUBSET Projects
    BY DEF BuilderInit
  <1>6. BuilderTypes
    BY <1>1, <1>4, <1>5 DEF BuilderInit, BuilderTypes, Steps, Unstarted
  <1> QED
    BY <1>2, <1>6 DEF BuilderInit, IndInv, Unstarted

(* Every step of the builder, of a compiler and of the repository's owner  *)
(* keeps it.                                                               *)
LEMMA StepInv == IndInv /\ [BuilderNext]_builderVars => IndInv'
  <1> SUFFICES ASSUME IndInv, [BuilderNext]_builderVars PROVE IndInv'
    OBVIOUS
  <1> USE BuilderAssumption DEF IndInv, BuilderTypes, BuilderTypeOK, Originals, Steps
  <1>1. CASE Begin
    BY <1>1 DEF Begin, Acquirable, FreeOfBuilders
  <1>2. CASE KeepBase
    BY ZenonT(60), <1>2 DEF KeepBase, BaseValid, Unstarted, Nothing
  <1>3. CASE Extract
    BY Zenon, <1>3 DEF Extract, Step
  <1>4. CASE Extracted
    BY Zenon, <1>4 DEF Extracted, Step
  <1>5. CASE Materialize
    BY <1>5 DEF Materialize, Step
  <1>6. CASE Reconcile
    BY <1>6 DEF Reconcile, Step
  <1>7. CASE RefuseSource
    BY <1>7 DEF RefuseSource, Unstarted, Nothing, Clean
  <1>8. CASE Write
    BY <1>8 DEF Write, Step, Pristine
  <1>9. CASE Compile
    BY <1>9 DEF Compile, Step
  <1>10. CASE CompilerEnds
    BY ZenonT(60), <1>10 DEF CompilerEnds
  <1>11. CASE Fail
    BY Zenon, <1>11 DEF Fail
  <1>12. CASE Forget
    BY ZenonT(60), <1>12 DEF Forget, Unstarted, Nothing, Pristine
  <1>13. CASE Kill
    <2>1. Originals(run'.saved)
      BY <1>13, NothingSaved DEF Kill, Unstarted
    <2>2. run' = [pc |-> "idle", saved |-> Nothing, todo |-> {}]
      BY <1>13 DEF Kill, Unstarted
    <2>3. CASE tree' = tree
      BY <1>13, <2>1, <2>2, <2>3 DEF Kill
    <2>4. ASSUME NEW f \in Torn, tree' = [tree EXCEPT ![f] = "torn"] PROVE IndInv'
      <3>1. ~compiler /\ f \in DOMAIN journal
        BY <2>4 DEF Torn
      <3> QED
        BY <1>13, <2>1, <2>2, <2>4, <3>1 DEF Kill
    <2> QED
      BY <1>13, <2>3, <2>4 DEF Kill
  <1>14. CASE SelectLock
    BY <1>14 DEF SelectLock
  <1>15. ASSUME NEW p \in Projects, Install(p) PROVE IndInv'
    BY <1>15 DEF Install
  <1>16. ASSUME NEW f \in Sources, Save(f) PROVE IndInv'
    <2>1. Originals(Saved(f)) /\ DOMAIN Saved(f) = DOMAIN run.saved \cup {f}
      BY Zenon, <1>16, SavedOriginals DEF Save
    <2>2. run' = [pc |-> "write", saved |-> Saved(f), todo |-> {f}] /\ journal' = Saved(f)
      BY Zenon, <1>16 DEF Save
    <2> QED
      BY ZenonT(60), <1>16, <2>1, <2>2 DEF Save
  <1>17. ASSUME NEW f \in Sources, Restore(f) PROVE IndInv'
    <2>1. run' = [pc |-> run.pc, saved |-> run.saved, todo |-> run.todo \ {f}]
      BY Zenon, <1>17 DEF Restore
    <2>2. tree' = [tree EXCEPT ![f] = Pristine(f)]
      BY ZenonT(60), <1>17 DEF Restore
    <2>3. Pristine(f) \in {"pinned", "absent"}
      BY DEF Pristine
    <2>4. ~compiler
      BY <1>17 DEF Restore
    <2>5. BuilderTypes'
      <3>1. tree' \in [Sources -> {"pinned", "projected", "torn", "absent"}]
        BY <2>2, <2>3
      <3>2. UNCHANGED <<journal, checkouts, manifest, base, lock, compiler, kills>>
        BY <1>17 DEF Restore
      <3> QED
        BY <2>1, <3>1, <3>2
    <2>6. \A g \in Sources : tree'[g] = IF g = f THEN Pristine(f) ELSE tree[g]
      BY <2>2
    <2>7. journal' = journal /\ dirty' = dirty /\ base' = base /\ compiler' = compiler
          /\ checkouts' = checkouts /\ manifest' = manifest
      BY <1>17 DEF Restore
    <2>8. run.pc \in {"restore", "recover"} /\ f \in run.todo
      BY <1>17 DEF Restore
    <2> QED
      BY <2>1, <2>4, <2>5, <2>6, <2>7, <2>8
  <1>18. CASE UNCHANGED builderVars
    BY <1>18 DEF builderVars, Pristine
  <1> QED
    BY ZenonT(60), <1>1, <1>2, <1>3, <1>4, <1>5, <1>6, <1>7, <1>8, <1>9, <1>10, <1>11, <1>12, <1>13, <1>14, <1>15, <1>16, <1>17, <1>18 DEF BuilderNext

(* Projection and Lock keep the checkout usable whatever kills the builder *)
(* and whenever: SourceKept holds of any number of files, projects, source *)
(* locks and deaths.                                                       *)
THEOREM CheckoutKept == BuilderSpec => []SourceKept
  <1>1. BuilderInit => IndInv
    BY InitInv
  <1>2. IndInv /\ [BuilderNext]_builderVars => IndInv'
    BY StepInv
  <1>3. IndInv => SourceKept
    BY IndInvImplies
  <1> QED
    BY <1>1, <1>2, <1>3, PTL DEF BuilderSpec
=============================================================================
