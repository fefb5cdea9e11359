------------------------------- MODULE PluginHost -------------------------------
(***************************************************************************)
(* The plugin host (plugins/): administrators install, register, disable,  *)
(* roll back and bind while callers run skills through                     *)
(* PluginExecutionGateway, PluginRuntime and PluginBacktestRunner.         *)
(* PluginLifecycle and SkillRegistry lock each of their operations and     *)
(* nothing locks two of them together, so every one is a step.             *)
(* Fetching and checking a package (PluginInstaller) succeeds or raises.   *)
(* Which version a record or a skill has is left out: no step looks at it. *)
(***************************************************************************)
EXTENDS Integers, Sequences

CONSTANTS
  Admins, Callers,
  Plugins, Skills,
  SkillsOf,          \* manifest.skills of each plugin, a sequence
  Allowed,           \* allowed_modes of the PluginExecutionPolicy
  EnvironmentGiven,  \* PluginExecutionGateway was built with an environment
  Requests,          \* what callers ask for
  None,              \* no plugin, no skill, no handler
  MaxOps,            \* bound: operations of administrators
  MaxBars            \* bound: bars of a backtest

SafeModes == {"PAPER_SANDBOX", "VIRTUAL_BACKTEST"}

Modes == SafeModes \cup {"REAL_LIVE"}

Calls == [kind : {"gateway", "invoke", "order"}, plugin : Plugins, skill : Skills, mode : Modes]
         \cup [kind : {"backtest"}, plugin : Plugins, skill : Skills,
               mode : {"VIRTUAL_BACKTEST"}]

\* PluginExecutionPolicy keeps no mode outside its SAFE_MODES.
ASSUME HostAssumption ==
  /\ Allowed \subseteq SafeModes
  /\ Requests \subseteq Calls
  /\ None \notin Plugins /\ None \notin Skills
  /\ SkillsOf \in [Plugins -> Seq(Skills)]
  /\ EnvironmentGiven \in BOOLEAN
  /\ MaxOps \in Nat /\ MaxBars \in Nat

VARIABLES
  rec,        \* PluginLifecycle._records: the state of each plugin
  skills,     \* SkillRegistry._skills: the owner of each skill
  handlers,   \* PluginSkillExecutor._handlers: whose code is bound to a skill
  versions,   \* PluginRollbackManager._versions: how many, up to two
  mode,       \* the environment's mode
  apc, op,    \* where each administrator's operation is, and which it is
  left,       \* the skills its register_verified has still to register
  outcome,    \* how its last operation ended
  ops,        \* operations begun
  pc, call,   \* where each caller's call is, and what was called
  bars,       \* bars its backtest has still to go through
  window,     \* history: facts that held at some moment of its call
  before,     \* history: the registry when an administrator's operation began
  closed      \* history: disabled through the manager, no skill registered since

admin == <<apc, op, left, outcome, ops, before>>
caller == <<pc, call, bars>>
vars == <<rec, skills, handlers, versions, mode, admin, caller, window, closed>>

States == {"absent", "installed", "verified", "enabled", "disabled", "removed"}

Ops == [kind : {"install", "register", "disable", "rollback", "enable"},
        plugin : Plugins, skill : {None}]
       \cup [kind : {"bind"}, plugin : Plugins, skill : Skills]

AdminPlaces ==
  {"idle", "install", "add", "readd", "verify", "validate", "register", "enable",
   "disable", "unregister", "remove", "previous", "replace", "resolve", "bind"}

CallPlaces ==
  {"idle", "state", "owner", "mode", "fetch", "handler", "run",
   "order_mode", "order_risk", "order_send"}

NoOp == [kind |-> "none", plugin |-> None, skill |-> None]

NoCall == [kind |-> "none", plugin |-> None, skill |-> None, mode |-> "PAPER_SANDBOX"]

Init ==
  /\ rec = [p \in Plugins |-> "absent"]
  /\ skills = [s \in Skills |-> None]
  /\ handlers = [s \in Skills |-> None]
  /\ versions = [p \in Plugins |-> 0]
  /\ mode = "PAPER_SANDBOX"
  /\ apc = [a \in Admins |-> "idle"] /\ op = [a \in Admins |-> NoOp]
  /\ left = [a \in Admins |-> <<>>] /\ outcome = [a \in Admins |-> "none"]
  /\ before = [a \in Admins |-> skills] /\ ops = 0
  /\ pc = [t \in Callers |-> "idle"] /\ call = [t \in Callers |-> NoCall]
  /\ bars = [t \in Callers |-> 0]
  /\ window = [t \in Callers |-> {}]
  /\ closed = [p \in Plugins |-> FALSE]

\* What holds of a call right now.
Facts(t) ==
  {f \in {"enabled", "owned", "listed", "mode"} :
     \/ f = "enabled" /\ rec[call[t].plugin] = "enabled"
     \/ f = "owned" /\ skills[call[t].skill] = call[t].plugin
     \/ f = "listed" /\ skills[call[t].skill] # None
     \/ f = "mode" /\ mode = call[t].mode}

\* The history of the calls: part of every step.
Watch == window' = [t \in Callers |->
  IF pc'[t] = "idle" THEN {}
  ELSE (IF pc[t] = "idle" THEN {} ELSE window[t]) \cup Facts(t)']

-----------------------------------------------------------------------------
(* Administrators: PluginManager, PluginRollbackManager, bind               *)

\* PluginLifecycle._get raises: there is no record, or it is REMOVED.
Gone(p) == rec[p] \in {"absent", "removed"}

SetState(p, s) == rec' = [rec EXCEPT ![p] = s]

AGoto(a, place) == apc' = [apc EXCEPT ![a] = place] /\ UNCHANGED outcome

AEnd(a, o) ==
  /\ apc' = [apc EXCEPT ![a] = "idle"]
  /\ outcome' = [outcome EXCEPT ![a] = o]

\* Mutant of Raise: install_and_enable has no except block.
Raise_Uncaught(a) == AEnd(a, "raised")

\* An exception: install_and_enable goes to its except block.
Raise(a) ==
  IF op[a].kind = "install" THEN AGoto(a, "unregister") ELSE AEnd(a, "raised")

First(kind) ==
  CASE kind = "install" -> "install"
    [] kind = "register" -> "validate"
    [] kind = "disable" -> "disable"
    [] kind = "rollback" -> "previous"
    [] kind = "enable" -> "enable"
    [] kind = "bind" -> "resolve"

AdminBegin(a) ==
  /\ apc[a] = "idle" /\ ops < MaxOps
  /\ ops' = ops + 1
  /\ \E o \in Ops :
       /\ o.kind = "bind" => \E i \in DOMAIN SkillsOf[o.plugin] : o.skill = SkillsOf[o.plugin][i]
       /\ op' = [op EXCEPT ![a] = o]
       /\ left' = [left EXCEPT ![a] = SkillsOf[o.plugin]]
       /\ AGoto(a, First(o.kind))
  /\ before' = [before EXCEPT ![a] = skills]
  /\ UNCHANGED <<rec, skills, handlers, versions, mode, caller, closed>>

\* PluginInstaller.install and the manifest: outside the try.
Install(a) ==
  /\ apc[a] = "install"
  /\ AGoto(a, "add") \/ AEnd(a, "raised")
  /\ UNCHANGED <<rec, skills, handlers, versions, mode, op, left, ops, before, caller, closed>>

\* lifecycle.add: by install_and_enable, outside the try, and by
\* register_verified when its lifecycle.get found nothing.
Add(a) ==
  /\ apc[a] \in {"add", "readd"}
  /\ LET p == op[a].plugin IN
     \/ /\ Gone(p)
        /\ SetState(p, "installed")
        /\ AGoto(a, IF apc[a] = "add" THEN "verify" ELSE "register")
     \/ /\ ~Gone(p)
        /\ IF apc[a] = "add" THEN AEnd(a, "raised") ELSE Raise(a)
        /\ UNCHANGED rec
  /\ UNCHANGED <<skills, handlers, versions, mode, op, left, ops, before, caller, closed>>

\* lifecycle.verify: from any state.
Verify(a) ==
  /\ apc[a] = "verify"
  /\ \/ Gone(op[a].plugin) /\ Raise(a) /\ UNCHANGED rec
     \/ ~Gone(op[a].plugin) /\ SetState(op[a].plugin, "verified") /\ AGoto(a, "validate")
  /\ UNCHANGED <<skills, handlers, versions, mode, op, left, ops, before, caller, closed>>

\* Mutant of Validate: a plugin without a record is not added.
Validate_NoRecord(a) ==
  /\ apc[a] = "validate"
  /\ Raise(a) \/ AGoto(a, "register")
  /\ UNCHANGED <<rec, skills, handlers, versions, mode, op, left, ops, before, caller, closed>>

\* register_verified: manifest and permissions are checked, the record looked up.
Validate(a) ==
  /\ apc[a] = "validate"
  /\ Raise(a) \/ AGoto(a, IF Gone(op[a].plugin) THEN "readd" ELSE "register")
  /\ UNCHANGED <<rec, skills, handlers, versions, mode, op, left, ops, before, caller, closed>>

\* registry.register, skill by skill; another owner's skill is a collision.
Register(a) ==
  /\ apc[a] = "register"
  /\ LET p == op[a].plugin IN
     \/ /\ left[a] = <<>>
        /\ IF op[a].kind = "install" THEN AGoto(a, "enable") ELSE AEnd(a, "ok")
        /\ UNCHANGED <<skills, left, closed>>
     \/ /\ left[a] # <<>> /\ skills[Head(left[a])] \notin {p, None}
        /\ Raise(a)
        /\ UNCHANGED <<skills, left, closed>>
     \/ /\ left[a] # <<>> /\ skills[Head(left[a])] \in {p, None}
        /\ skills' = [skills EXCEPT ![Head(left[a])] = p]
        /\ left' = [left EXCEPT ![a] = Tail(@)]
        /\ closed' = [closed EXCEPT ![p] = FALSE]
        /\ UNCHANGED <<apc, outcome>>
  /\ UNCHANGED <<rec, handlers, versions, mode, op, ops, before, caller>>

\* lifecycle.enable: from VERIFIED only.  The host also calls it after a
\* rollback.
Enable(a) ==
  /\ apc[a] = "enable"
  /\ \/ rec[op[a].plugin] # "verified" /\ Raise(a) /\ UNCHANGED rec
     \/ /\ rec[op[a].plugin] = "verified"
        /\ SetState(op[a].plugin, "enabled") /\ AEnd(a, "ok")
  /\ UNCHANGED <<skills, handlers, versions, mode, op, left, ops, before, caller, closed>>

\* lifecycle.disable, for manager.disable and for rollback.
Disable(a) ==
  /\ apc[a] = "disable"
  /\ \/ Gone(op[a].plugin) /\ AEnd(a, "raised") /\ UNCHANGED rec
     \/ /\ ~Gone(op[a].plugin)
        /\ SetState(op[a].plugin, "disabled")
        /\ AGoto(a, IF op[a].kind = "disable" THEN "unregister" ELSE "replace")
  /\ UNCHANGED <<skills, handlers, versions, mode, op, left, ops, before, caller, closed>>

\* Mutant of Unregistered: only the first skill of the manifest.
Unregistered_First(p) ==
  [s \in Skills |-> IF skills[s] = p /\ s = Head(SkillsOf[p]) THEN None ELSE skills[s]]

Unregistered(p) ==
  [s \in Skills |-> IF skills[s] = p THEN None ELSE skills[s]]

\* registry.unregister_plugin, in the except block and in manager.disable.
Unregister(a) ==
  /\ apc[a] = "unregister"
  /\ skills' = Unregistered(op[a].plugin)
  /\ IF op[a].kind = "install"
       THEN AGoto(a, "remove") /\ UNCHANGED closed
       ELSE AEnd(a, "ok") /\ closed' = [closed EXCEPT ![op[a].plugin] = TRUE]
  /\ UNCHANGED <<rec, handlers, versions, mode, op, left, ops, before, caller>>

\* lifecycle.remove in the except block, which then raises.
Remove(a) ==
  /\ apc[a] = "remove"
  /\ \/ Gone(op[a].plugin) /\ UNCHANGED rec
     \/ ~Gone(op[a].plugin) /\ SetState(op[a].plugin, "removed")
  /\ AEnd(a, "raised")
  /\ UNCHANGED <<skills, handlers, versions, mode, op, left, ops, before, caller, closed>>

\* PluginRollbackManager.record, of any plugin; the version before last is all
\* that rollback looks for, so two stands for more.
RecordVersion(p) ==
  /\ versions[p] < 2
  /\ versions' = [versions EXCEPT ![p] = @ + 1]
  /\ UNCHANGED <<rec, skills, handlers, mode, admin, caller, closed>>

\* rollback: there must be a version before the last, and a record.
Previous(a) ==
  /\ apc[a] = "previous"
  /\ IF versions[op[a].plugin] < 2 \/ Gone(op[a].plugin)
       THEN AEnd(a, "raised") ELSE AGoto(a, "disable")
  /\ UNCHANGED <<rec, skills, handlers, versions, mode, op, left, ops, before, caller, closed>>

\* rollback writes the old version's record, VERIFIED, into the life cycle.
Replace(a) ==
  /\ apc[a] = "replace"
  /\ SetState(op[a].plugin, "verified")
  /\ AEnd(a, "ok")
  /\ UNCHANGED <<skills, handlers, versions, mode, op, left, ops, before, caller, closed>>

\* bind: the skill must be registered, by whomever.
Bind(a) ==
  /\ \/ /\ apc[a] = "resolve"
        /\ IF skills[op[a].skill] = None THEN AEnd(a, "raised") ELSE AGoto(a, "bind")
        /\ UNCHANGED handlers
     \/ /\ apc[a] = "bind"
        /\ handlers' = [handlers EXCEPT ![op[a].skill] = op[a].plugin]
        /\ AEnd(a, "ok")
  /\ UNCHANGED <<rec, skills, versions, mode, op, left, ops, before, caller, closed>>

AdminStep(a) ==
  \/ AdminBegin(a) \/ Install(a) \/ Add(a) \/ Verify(a) \/ Validate(a)
  \/ Register(a) \/ Enable(a) \/ Disable(a) \/ Unregister(a) \/ Remove(a)
  \/ Previous(a) \/ Replace(a) \/ Bind(a)

-----------------------------------------------------------------------------
(* Callers: PluginExecutionGateway, PluginRuntime, PluginBacktestRunner     *)

Goto(t, place) == pc' = [pc EXCEPT ![t] = place] /\ UNCHANGED call

\* The call returns or raises.
End(t) == pc' = [pc EXCEPT ![t] = "idle"] /\ call' = [call EXCEPT ![t] = NoCall]

Begin(t) ==
  /\ pc[t] = "idle"
  /\ \E c \in Requests :
       /\ call' = [call EXCEPT ![t] = c]
       /\ pc' = [pc EXCEPT ![t] = IF c.kind = "order" THEN "order_mode" ELSE "state"]
       /\ bars' = [bars EXCEPT ![t] = IF c.kind = "backtest" THEN MaxBars ELSE 1]
  /\ UNCHANGED <<rec, skills, handlers, versions, mode, admin, closed>>

\* A step of a call that only reads: it goes on when ok holds, else it raises.
Test(t, from, ok, to) ==
  /\ pc[t] = from
  /\ IF ok THEN Goto(t, to) ELSE End(t)
  /\ UNCHANGED <<rec, skills, handlers, versions, mode, admin, bars, closed>>

\* lifecycle.get and the state; a backtest goes on to its bars.
CheckState(t) ==
  Test(t, "state",
       /\ rec[call[t].plugin] = "enabled"
       /\ call[t].kind = "backtest" => "VIRTUAL_BACKTEST" \in Allowed,
       IF call[t].kind = "backtest" THEN "fetch" ELSE "owner")

\* Mutant of CheckOwner: the skill may be anyone's.
CheckOwner_Any(t) == Test(t, "owner", skills[call[t].skill] # None, "mode")

\* registry.resolve and the owner.
CheckOwner(t) ==
  Test(t, "owner", skills[call[t].skill] = call[t].plugin, "mode")

\* The policy and the environment's mode; their order does not matter.
CheckMode(t) ==
  Test(t, "mode",
       /\ call[t].mode \in Allowed
       /\ (call[t].kind = "gateway" /\ ~EnvironmentGiven) \/ mode = call[t].mode,
       "fetch")

\* PluginSkillExecutor.execute: registry.resolve; a backtest without bars left
\* returns.
Fetch(t) ==
  Test(t, "fetch", bars[t] > 0 /\ skills[call[t].skill] # None, "handler")

\* execute goes on: the handler, then no REAL_LIVE.  The skill may have been
\* unregistered or bound again since it was resolved.
FetchHandler(t) ==
  Test(t, "handler",
       handlers[call[t].skill] # None /\ call[t].mode # "REAL_LIVE",
       "run")

\* The handler raises, or returns and the next bar is taken.
Run(t) ==
  /\ pc[t] = "run"
  /\ End(t) \/ (call[t].kind = "backtest" /\ Goto(t, "fetch"))
  /\ bars' = [bars EXCEPT ![t] = @ - 1]
  /\ UNCHANGED <<rec, skills, handlers, versions, mode, admin, closed>>

\* submit_paper_order: the mode, the policy.
OrderMode(t) ==
  Test(t, "order_mode", mode = call[t].mode /\ call[t].mode \in Allowed, "order_risk")

\* RiskGuardian.approve raises or lets the order through.
OrderRisk(t) == \E ok \in BOOLEAN : Test(t, "order_risk", ok, "order_send")

\* ExecutionGateway.execute, which is PaperGateway's Enter.
OrderSend(t) ==
  /\ pc[t] = "order_send" /\ End(t)
  /\ UNCHANGED <<rec, skills, handlers, versions, mode, admin, bars, closed>>

CallerStep(t) ==
  \/ Begin(t) \/ CheckState(t) \/ CheckOwner(t) \/ CheckMode(t) \/ Fetch(t)
  \/ FetchHandler(t) \/ Run(t) \/ OrderMode(t) \/ OrderRisk(t) \/ OrderSend(t)

\* The operators change the environment's mode (LiveDesk).
ChangeMode ==
  /\ \E m \in Modes \ {mode} : mode' = m
  /\ UNCHANGED <<rec, skills, handlers, versions, admin, caller, closed>>

Next ==
  /\ \/ \E a \in Admins : AdminStep(a)
     \/ \E t \in Callers : CallerStep(t)
     \/ \E p \in Plugins : RecordVersion(p)
     \/ ChangeMode
  /\ Watch

Spec == Init /\ [][Next]_vars

\* Administration is one thread.
OneAdmin == \A a, b \in Admins : a = b

-----------------------------------------------------------------------------
(* Properties                                                               *)

\* The state's types.
Types ==
  /\ rec \in [Plugins -> States] /\ skills \in [Skills -> Plugins \cup {None}]
  /\ handlers \in [Skills -> Plugins \cup {None}]
  /\ versions \in [Plugins -> 0..2] /\ mode \in Modes
  /\ apc \in [Admins -> AdminPlaces] /\ outcome \in [Admins -> {"none", "ok", "raised"}]
  /\ left \in [Admins -> Seq(Skills)] /\ ops \in 0..MaxOps
  /\ pc \in [Callers -> CallPlaces] /\ call \in [Callers -> Requests \cup {NoCall}]
  /\ bars \in [Callers -> 0..(MaxBars + 1)]
  /\ closed \in [Plugins -> BOOLEAN]

\* The types, and whoever owns a registered skill has had a life-cycle record,
\* with any number of administrators: register_verified adds a missing record
\* before it registers, and no operation deletes one.
TypeOK ==
  /\ Types
  /\ \A s \in Skills : skills[s] # None => rec[skills[s]] # "absent"

\* What a call must have found, at some moment each, before a handler runs.
Required(c) ==
  CASE c.kind = "backtest" -> {"enabled", "listed"}
    [] c.kind = "gateway" /\ ~EnvironmentGiven -> {"enabled", "owned", "listed"}
    [] OTHER -> {"enabled", "owned", "listed", "mode"}

\* However administrators and operators interleave with a call, a handler runs
\* only in a paper mode, and only if during this call the plugin was enabled,
\* owned the skill and the environment was in the requested mode (a backtest
\* asks for no owner and no environment); an order leaves for the paper
\* gateway only if the environment was in its paper mode during the call.
RunsAreAuthorised ==
  \A t \in Callers :
    /\ pc[t] = "run" => call[t].mode \in SafeModes /\ Required(call[t]) \subseteq window[t]
    /\ pc[t] = "order_send" => call[t].mode \in SafeModes /\ "mode" \in window[t]

\* With one administrator, a registered skill always belongs to a plugin that
\* has a record and that manager.disable has not closed: whatever step of an
\* installation fails, the life cycle and the registry never disagree.
NoOrphanSkills ==
  \A s \in Skills : skills[s] # None => ~Gone(skills[s]) /\ ~closed[skills[s]]

\* With one administrator, an install_and_enable that raised has left the
\* registry as it found it: no other plugin lost a skill to it, and its own
\* are gone.
FailedInstallRestores ==
  \A a \in Admins :
    apc[a] = "idle" /\ op[a].kind = "install" /\ outcome[a] = "raised" => skills = before[a]
=============================================================================
