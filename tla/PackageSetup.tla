---------------------------- MODULE PackageSetup ----------------------------
(***************************************************************************)
(* droidloom-package-support: the root-owned files that let one desktop    *)
(* user start Droidloom, written by `setup` (run by the user's first       *)
(* start through pkexec, and by pacman after every installation), believed *)
(* by `prepare` on every start, and removed by pacman's hook.              *)
(*                                                                         *)
(* `etc` holds cell.json (spec), runtime.env, the polkit rule and          *)
(* package-state.json; `package` the recipe and the version that pacman    *)
(* replaces, one file after the other, while users start and set up.       *)
(* Every file is replaced by a rename; a process may end after any step.   *)
(***************************************************************************)
EXTENDS Naturals

CONSTANTS
    Users,          \* desktop users
    Versions,       \* package versions, positive
    Renders,        \* render nodes the machine may show
    MaxOperations   \* bound: pacman transactions, setups and endings in a behaviour

VARIABLES
    etc, package,
    running,    \* droidloomd.service is active
    pacman,     \* the pacman transaction: step and version (0: removal)
    setups,     \* one setup a user started, and the one of pacman's hook
    owner,      \* history: user and data directory of the installation
    torn,       \* history: a removal, or a setup over published files, did not finish,
                \* or a setup read the recipe and the version of different packages
    operations

setupVars == <<etc, package, running, pacman, setups, owner, torn, operations>>

Nobody == 0
NoSpec == [uid |-> Nobody, recipe |-> 0, render |-> 0, data |-> "none"]
NoState == [uid |-> Nobody, version |-> 0]
Ended == [pc |-> "ended", uid |-> Nobody, spec |-> NoSpec, version |-> 0,
          over |-> FALSE]   \* over: history, files already published when it began
Idle == [pc |-> "idle", to |-> 0]
Kinds == {"user", "hook"}

Operation == operations < MaxOperations /\ operations' = operations + 1
Put(k, s) == setups' = [setups EXCEPT ![k] = s]

\* What `prepare` takes for a finished setup.
Believes(u) ==
  /\ etc.state = [uid |-> u, version |-> package.version]
  /\ etc.spec # NoSpec /\ etc.environment # 0

Init ==
  /\ etc = [spec |-> NoSpec, environment |-> 0, rule |-> Nobody, state |-> NoState]
  /\ \E v \in Versions : package = [recipe |-> v, version |-> v]
  /\ running = FALSE /\ pacman = Idle /\ setups = [k \in Kinds |-> Ended]
  /\ owner = [uid |-> Nobody, data |-> "none"] /\ torn = FALSE /\ operations = 0

\* prepare() of a desktop user's start: another user's installation is refused, a
\* finished setup is enough, and otherwise pkexec runs `setup`.
Prepare(u) ==
  /\ package.version # 0 /\ setups["user"].pc = "ended"
  /\ etc.spec # NoSpec => etc.spec.uid = u
  /\ IF Believes(u) THEN running' = TRUE /\ UNCHANGED <<setups, operations>>
     ELSE Operation /\ Put("user", [Ended EXCEPT !.pc = "lock", !.uid = u]) /\ UNCHANGED running
  /\ UNCHANGED <<etc, package, pacman, owner, torn>>

-----------------------------------------------------------------------------
(* setup(): under the lock of /etc/droidloom/setup.lock                    *)

Inside == {"configure", "version", "spec", "environment", "rule", "state"}
Lock(k) ==
  /\ setups[k].pc = "lock" /\ \A j \in Kinds : setups[j].pc \notin Inside
  /\ Put(k, [setups[k] EXCEPT !.pc = "configure"])
  /\ UNCHANGED <<etc, package, running, pacman, owner, torn, operations>>

\* configuration(): the recipe's settings for this user, with the data directory of
\* the previous file; an installation of another user is refused.
Configuration(k, render) ==
  [uid |-> setups[k].uid, recipe |-> package.recipe, render |-> render,
   data |-> IF etc.spec = NoSpec THEN "default" ELSE etc.spec.data]
Configure(k) ==
  /\ setups[k].pc = "configure" /\ package.recipe # 0
  /\ etc.spec # NoSpec => etc.spec.uid = setups[k].uid
  /\ \E render \in IF k = "hook" THEN {etc.spec.render} ELSE Renders :
       Put(k, [setups[k] EXCEPT !.pc = "version", !.spec = Configuration(k, render),
                              !.over = etc.state # NoState])
  /\ UNCHANGED <<etc, package, running, pacman, owner, torn, operations>>
ReadVersion(k) ==
  /\ setups[k].pc = "version" /\ package.version # 0
  /\ Put(k, [setups[k] EXCEPT !.pc = "spec", !.version = package.version])
  /\ torn' = (torn \/ setups[k].spec.recipe # package.version)
  /\ UNCHANGED <<etc, package, running, pacman, owner, operations>>

\* Mutant: the state is published before the rule.
SuccessorStateFirst(pc) ==
  CASE pc = "spec" -> "environment" [] pc = "environment" -> "state"
    [] pc = "state" -> "rule" [] OTHER -> "ended"
Successor(pc) ==
  CASE pc = "spec" -> "environment" [] pc = "environment" -> "rule"
    [] pc = "rule" -> "state" [] OTHER -> "ended"
Written(s) ==
  CASE s.pc = "spec" -> [etc EXCEPT !.spec = s.spec]
    [] s.pc = "environment" -> [etc EXCEPT !.environment = s.spec.render]
    [] s.pc = "rule" -> [etc EXCEPT !.rule = s.uid]
    [] s.pc = "state" -> [etc EXCEPT !.state = [uid |-> s.uid, version |-> s.version]]
Write(k) ==
  LET s == setups[k]
      next == Successor(s.pc)
  IN  /\ s.pc \in {"spec", "environment", "rule", "state"}
      /\ etc' = Written(s)
      /\ owner' = IF s.pc = "spec" /\ etc.spec = NoSpec
                  THEN [uid |-> s.uid, data |-> s.spec.data] ELSE owner
      /\ Put(k, IF next = "ended" THEN Ended ELSE [s EXCEPT !.pc = next])
      /\ UNCHANGED <<package, running, pacman, torn, operations>>
\* A refusal, a failed write, a declined authentication, or the end of the machine.
Fails(k) ==
  /\ setups[k].pc # "ended" /\ Operation
  /\ Put(k, Ended)
  /\ torn' = (torn \/ (setups[k].pc \in {"environment", "rule", "state"} /\ setups[k].over))
  /\ UNCHANGED <<etc, package, running, pacman, owner>>
\* The owner moves the Android data and says so in cell.json.
MoveData ==
  /\ etc.spec # NoSpec /\ etc.spec.data = "default"
  /\ \A k \in Kinds : setups[k].pc \notin Inside
  /\ etc' = [etc EXCEPT !.spec.data = "moved"] /\ owner' = [owner EXCEPT !.data = "moved"]
  /\ UNCHANGED <<package, running, pacman, setups, torn, operations>>

-----------------------------------------------------------------------------
(* pacman with the three hooks                                             *)

Transaction(to) ==
  /\ pacman = Idle /\ Operation
  /\ to # package.version
  /\ pacman' = [pc |-> IF package.version = 0 THEN "recipe" ELSE "stop", to |-> to]
  /\ UNCHANGED <<etc, package, running, setups, owner, torn>>
\* before(): the runtime is stopped, or the transaction is aborted.
Before ==
  /\ pacman.pc = "stop"
  /\ \/ running' = FALSE /\ pacman' = [pacman EXCEPT !.pc = IF pacman.to = 0 THEN "unrule" ELSE "recipe"]
     \/ UNCHANGED running /\ pacman' = Idle
  /\ UNCHANGED <<etc, package, setups, owner, torn, operations>>
\* The files go in this order; the configuration and Android's data stay.
Remove ==
  /\ \/ pacman.pc = "unrule" /\ etc' = [etc EXCEPT !.rule = Nobody]
        /\ pacman' = [pacman EXCEPT !.pc = "unenvironment"]
     \/ pacman.pc = "unenvironment" /\ etc' = [etc EXCEPT !.environment = 0]
        /\ pacman' = [pacman EXCEPT !.pc = "unstate"]
     \/ pacman.pc = "unstate" /\ etc' = [etc EXCEPT !.state = NoState]
        /\ pacman' = [pacman EXCEPT !.pc = "recipe"]
  /\ UNCHANGED <<package, running, setups, owner, torn, operations>>
RemoveFails ==
  /\ pacman.pc \in {"unrule", "unenvironment", "unstate"} /\ Operation
  /\ pacman' = Idle /\ torn' = TRUE
  /\ UNCHANGED <<etc, package, running, setups, owner>>
Replace ==
  /\ \/ pacman.pc = "recipe" /\ package' = [package EXCEPT !.recipe = pacman.to]
        /\ pacman' = [pacman EXCEPT !.pc = "version"]
     \/ pacman.pc = "version" /\ package' = [package EXCEPT !.version = pacman.to]
        /\ pacman' = IF pacman.to = 0 THEN Idle ELSE [pacman EXCEPT !.pc = "after"]
  /\ UNCHANGED <<etc, running, setups, owner, torn, operations>>
AfterInstall ==
  /\ pacman.pc = "after" /\ setups["hook"].pc = "ended"
  /\ pacman' = [pacman EXCEPT !.pc = "hooked"]
  /\ IF etc.spec = NoSpec THEN UNCHANGED setups
     ELSE Put("hook", [Ended EXCEPT !.pc = "lock", !.uid = etc.spec.uid])
  /\ UNCHANGED <<etc, package, running, owner, torn, operations>>
\* pacman reports a failing hook after the transaction, and is done.
Done ==
  /\ pacman.pc = "hooked" /\ setups["hook"].pc = "ended" /\ pacman' = Idle
  /\ UNCHANGED <<etc, package, running, setups, owner, torn, operations>>

Next ==
  \/ \E u \in Users : Prepare(u)
  \/ \E k \in Kinds : Lock(k) \/ Configure(k) \/ ReadVersion(k) \/ Write(k) \/ Fails(k)
  \/ MoveData
  \/ \E v \in Versions \cup {0} : Transaction(v)
  \/ Before \/ Remove \/ RemoveFails \/ Replace \/ AfterInstall \/ Done
Spec == Init /\ [][Next]_setupVars

-----------------------------------------------------------------------------
(* A setup that prepare() believes ("The root-owned state is published      *)
(* after the rule") is one: the rule, the environment and the specification *)
(* are this user's and this package's, whatever setups, upgrades and        *)
(* removals ran into each other, unless one was cut off halfway over files  *)
(* already published or read across pacman's replacement of the package;    *)
BelievedIsWhole ==
  pacman = Idle /\ (\A k \in Kinds : setups[k] = Ended) /\ ~torn =>
    \A u \in Users : Believes(u) =>
      /\ etc.rule = u /\ etc.spec.uid = u
      /\ etc.spec.recipe = package.version /\ etc.environment = etc.spec.render
(* and no setup, upgrade, removal or reinstallation changes whose           *)
(* installation it is or where its Android data is (configuration).         *)
OwnerKept == etc.spec # NoSpec => etc.spec.uid = owner.uid /\ etc.spec.data = owner.data
SetupWhole == BelievedIsWhole /\ OwnerKept
=============================================================================
