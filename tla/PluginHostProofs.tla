---------------------------- MODULE PluginHostProofs ----------------------------
(***************************************************************************)
(* The plugin host for any plugins, skills, manifests, administrators and  *)
(* callers: types and authorised runs; for one administrator, that life    *)
(* cycle and registry agree and that a failed installation is undone.      *)
(***************************************************************************)
EXTENDS PluginHost, TLAPS

-----------------------------------------------------------------------------
(* Types                                                                    *)

\* A plugin is registering skills, or owns one, only after it had a record.
Recorded ==
  /\ \A s \in Skills : skills[s] # None => rec[skills[s]] # "absent"
  /\ \A a \in Admins : apc[a] = "register" => rec[op[a].plugin] # "absent"

TInv ==
  /\ Types /\ Recorded
  /\ DOMAIN op = Admins /\ DOMAIN before = Admins
  /\ \A a \in Admins : apc[a] # "idle" => op[a] \in Ops
  /\ \A a \in Admins : apc[a] \in {"resolve", "bind"} => op[a].skill \in Skills
  /\ \A t \in Callers : pc[t] # "idle" => call[t] \in Requests
  /\ \A t \in Callers : pc[t] \in {"handler", "run"} => bars[t] > 0

LEMMA OpType ==
  ASSUME NEW o \in Ops
  PROVE  /\ o.plugin \in Plugins
         /\ o.kind \in {"install", "register", "disable", "rollback", "enable", "bind"}
         /\ o.kind = "bind" => o.skill \in Skills
BY DEF Ops

LEMMA InitT == Init => TInv
<1> SUFFICES ASSUME Init PROVE TInv
  OBVIOUS
<1>1. Types
  <2>1. ops \in 0..MaxOps /\ \A t \in Callers : bars[t] \in 0..(MaxBars + 1)
    BY HostAssumption DEF Init
  <2>2. left \in [Admins -> Seq(Skills)]
    BY DEF Init
  <2> QED BY <2>1, <2>2 DEF Init, Types, States, Modes, SafeModes, AdminPlaces, CallPlaces
<1> QED BY <1>1 DEF Init, TInv, Recorded

\* What no step of an administrator touches, and what every one keeps.
AdminFrame(a) ==
  /\ mode' = mode /\ versions' = versions /\ pc' = pc /\ call' = call /\ bars' = bars
  /\ \E x \in AdminPlaces : apc' = [apc EXCEPT ![a] = x]
  /\ outcome' = outcome \/ \E o \in {"ok", "raised"} : outcome' = [outcome EXCEPT ![a] = o]

LEMMA AdminFramed ==
  ASSUME TInv, NEW a \in Admins, AdminStep(a)
  PROVE  AdminFrame(a)
<1>0. apc \in [Admins -> AdminPlaces]
  BY DEF TInv, Types
<1>1. ASSUME NEW x \in AdminPlaces, AGoto(a, x)
      PROVE  (\E y \in AdminPlaces : apc' = [apc EXCEPT ![a] = y]) /\ outcome' = outcome
  BY <1>1 DEF AGoto
<1>2. ASSUME NEW x \in {"ok", "raised"}, AEnd(a, x)
      PROVE  /\ \E y \in AdminPlaces : apc' = [apc EXCEPT ![a] = y]
             /\ \E o \in {"ok", "raised"} : outcome' = [outcome EXCEPT ![a] = o]
  BY <1>2 DEF AEnd, AdminPlaces
<1>3. CASE AdminBegin(a)
  <2>1. PICK o \in Ops : AGoto(a, First(o.kind))
    BY <1>3 DEF AdminBegin
  <2>2. First(o.kind) \in AdminPlaces
    BY OpType DEF First, AdminPlaces
  <2> QED BY <1>1, <1>3, <2>1, <2>2 DEF AdminBegin, AdminFrame, caller
<1>4. CASE Install(a) \/ Verify(a) \/ Validate(a)
  BY <1>1, <1>2, <1>4 DEF Install, Verify, Validate, Raise, AdminFrame, caller, AdminPlaces
<1>5. CASE Add(a)
  BY <1>1, <1>2, <1>5 DEF Add, Raise, AdminFrame, caller, AdminPlaces
<1>6. CASE Register(a)
  <2>1. CASE apc' = apc /\ outcome' = outcome
    <3>1. apc' = [apc EXCEPT ![a] = apc[a]]
      BY <1>0, <2>1
    <3> QED BY <1>6, <2>1, <3>1 DEF Register, AdminFrame, caller, AdminPlaces
  <2>2. CASE ~(apc' = apc /\ outcome' = outcome)
    BY <1>1, <1>2, <1>6, <2>2 DEF Register, Raise, AdminFrame, caller, AdminPlaces
  <2> QED BY <2>1, <2>2
<1>7. CASE Enable(a) \/ Disable(a)
  BY <1>1, <1>2, <1>7 DEF Enable, Disable, Raise, AdminFrame, caller, AdminPlaces
<1>8. CASE Unregister(a) \/ Remove(a)
  BY <1>1, <1>2, <1>8 DEF Unregister, Remove, Raise, AdminFrame, caller, AdminPlaces
<1>9. CASE Previous(a) \/ Replace(a) \/ Bind(a)
  BY <1>1, <1>2, <1>9 DEF Previous, Replace, Bind, AdminFrame, caller, AdminPlaces
<1> QED BY <1>3, <1>4, <1>5, <1>6, <1>7, <1>8, <1>9 DEF AdminStep

LEMMA AdminT ==
  ASSUME TInv, NEW a \in Admins, AdminStep(a)
  PROVE  TInv'
<1>0. Types /\ AdminFrame(a)
  BY AdminFramed DEF TInv
<1>1. PICK x \in AdminPlaces : apc' = [apc EXCEPT ![a] = x]
  BY <1>0 DEF AdminFrame
<1>2. apc' \in [Admins -> AdminPlaces] /\ outcome' \in [Admins -> {"none", "ok", "raised"}]
  BY <1>0, <1>1 DEF AdminFrame, Types
<1>3. CASE AdminBegin(a)
  <2>1. PICK o \in Ops :
          /\ op' = [op EXCEPT ![a] = o]
          /\ left' = [left EXCEPT ![a] = SkillsOf[o.plugin]]
          /\ AGoto(a, First(o.kind))
    BY <1>3 DEF AdminBegin
  <2>2. /\ UNCHANGED <<rec, skills, handlers, versions, mode, pc, call, bars, closed>>
        /\ ops' = ops + 1 /\ ops < MaxOps /\ before' = [before EXCEPT ![a] = skills]
    BY <1>3 DEF AdminBegin, caller
  <2>3. ops' \in 0..MaxOps
    BY <1>0, <2>2, HostAssumption DEF Types
  <2>4. left' \in [Admins -> Seq(Skills)]
    BY <1>0, <2>1, OpType, HostAssumption DEF Types
  <2>5. Types'
    BY <1>0, <1>2, <2>2, <2>3, <2>4 DEF Types
  <2>6. ASSUME NEW b \in Admins
        PROVE  /\ apc'[b] # "idle" => op'[b] \in Ops
               /\ apc'[b] \in {"resolve", "bind"} => op'[b].skill \in Skills
               /\ apc'[b] = "register" => rec'[op'[b].plugin] # "absent"
    <3>1. CASE b = a
      <4>1. op'[b] = o /\ apc'[b] = First(o.kind)
        BY <1>0, <2>1, <3>1 DEF AGoto, Types, TInv
      <4>2. /\ First(o.kind) \in {"resolve", "bind"} => o.kind = "bind"
            /\ First(o.kind) # "register"
        BY OpType DEF First
      <4> QED BY <4>1, <4>2, OpType
    <3>2. CASE b # a
      <4>1. op'[b] = op[b] /\ apc'[b] = apc[b]
        BY <1>0, <1>1, <2>1, <3>2 DEF Types, TInv
      <4> QED BY <2>2, <4>1 DEF TInv, Recorded
    <3> QED BY <3>1, <3>2
  <2>7. DOMAIN op' = Admins /\ DOMAIN before' = Admins
    BY <2>1, <2>2 DEF TInv
  <2> QED BY <2>2, <2>5, <2>6, <2>7 DEF TInv, Recorded
<1>4. CASE ~AdminBegin(a)
  <2>1. apc[a] # "idle" /\ UNCHANGED <<op, before, ops>>
    BY <1>4 DEF AdminStep, Install, Add, Verify, Validate, Register, Enable, Disable,
                Unregister, Remove, Previous, Replace, Bind
  <2>2. op[a] \in Ops /\ op[a].plugin \in Plugins
    BY <2>1, OpType DEF TInv
  <2>3. rec' \in [Plugins -> States]
    BY <1>0, <1>4, <2>2
    DEF Types, AdminStep, Install, Add, Verify, Validate, Register, Enable, Disable,
        Unregister, Remove, Previous, Replace, Bind, SetState, States
  <2>4. skills' \in [Skills -> Plugins \cup {None}] /\ left' \in [Admins -> Seq(Skills)]
    <3>1. CASE Register(a)
      <4>1. CASE UNCHANGED <<skills, left>>
        BY <1>0, <4>1 DEF Types
      <4>2. CASE ~UNCHANGED <<skills, left>>
        <5>1. /\ left[a] # <<>> /\ skills' = [skills EXCEPT ![Head(left[a])] = op[a].plugin]
              /\ left' = [left EXCEPT ![a] = Tail(left[a])]
          BY <3>1, <4>2 DEF Register
        <5>2. left[a] \in Seq(Skills)
          BY <1>0 DEF Types
        <5>3. Tail(left[a]) \in Seq(Skills) /\ Head(left[a]) \in Skills
          BY <5>1, <5>2
        <5> QED BY <1>0, <2>2, <5>1, <5>3 DEF Types
      <4> QED BY <4>1, <4>2
    <3>2. CASE Unregister(a)
      BY <1>0, <3>2 DEF Types, Unregister, Unregistered
    <3>3. CASE ~Register(a) /\ ~Unregister(a)
      BY <1>0, <1>4, <3>3
      DEF Types, AdminStep, Install, Add, Verify, Validate, Enable, Disable,
          Remove, Previous, Replace, Bind
    <3> QED BY <3>1, <3>2, <3>3
  <2>5. handlers' \in [Skills -> Plugins \cup {None}]
    <3>1. CASE Bind(a)
      BY <1>0, <2>2, <3>1 DEF Types, TInv, Bind
    <3>2. CASE ~Bind(a)
      BY <1>0, <1>4, <3>2
      DEF Types, AdminStep, Install, Add, Verify, Validate, Register, Enable, Disable,
          Unregister, Remove, Previous, Replace
    <3> QED BY <3>1, <3>2
  <2>6. closed' \in [Plugins -> BOOLEAN]
    <3>1. CASE closed' = closed
      BY <1>0, <3>1 DEF Types
    <3>2. CASE closed' = [closed EXCEPT ![op[a].plugin] = TRUE]
      BY <1>0, <3>2 DEF Types
    <3>3. CASE closed' = [closed EXCEPT ![op[a].plugin] = FALSE]
      BY <1>0, <3>3 DEF Types
    <3> QED BY <1>4, <3>1, <3>2, <3>3
      DEF AdminStep, Install, Add, Verify, Validate, Register, Enable, Disable,
          Unregister, Remove, Previous, Replace, Bind
  <2>7. Types'
    BY <1>0, <1>2, <2>1, <2>3, <2>4, <2>5, <2>6 DEF Types, AdminFrame
  <2>8. apc'[a] = "bind" => apc[a] \in {"resolve", "bind"}
    BY <1>0, <1>4
    DEF Types, AdminStep, Install, Add, Verify, Validate, Register, Enable, Disable,
        Unregister, Remove, Previous, Replace, Bind, Raise, AGoto, AEnd
  <2>9. apc'[a] = "resolve" => apc[a] \in {"resolve", "bind"}
    BY <1>0, <1>4
    DEF Types, AdminStep, Install, Add, Verify, Validate, Register, Enable, Disable,
        Unregister, Remove, Previous, Replace, Bind, Raise, AGoto, AEnd
  <2>10. ASSUME NEW b \in Admins
        PROVE  /\ apc'[b] # "idle" => op'[b] \in Ops
               /\ apc'[b] \in {"resolve", "bind"} => op'[b].skill \in Skills
    <3>1. CASE b = a
      BY <2>1, <2>2, <2>8, <2>9, <3>1 DEF TInv
    <3>2. CASE b # a
      BY <1>0, <1>1, <2>1, <3>2 DEF Types, TInv
    <3> QED BY <3>1, <3>2
  <2>11. \A p \in Plugins : rec[p] # "absent" => rec'[p] # "absent"
    BY <1>0, <1>4, <2>2
    DEF Types, AdminStep, Install, Add, Verify, Validate, Register, Enable, Disable,
        Unregister, Remove, Previous, Replace, Bind, SetState
  <2>12. apc'[a] = "register" => rec'[op[a].plugin] # "absent"
    <3>1. CASE Add(a)
      BY <1>0, <2>2, <3>1 DEF Types, Add, SetState, Gone, AGoto, AEnd, Raise
    <3>2. CASE Validate(a)
      BY <1>0, <2>2, <3>2 DEF Types, Validate, Gone, AGoto, AEnd, Raise
    <3>3. CASE ~Add(a) /\ ~Validate(a)
      <4>1. apc'[a] = "register" => apc[a] = "register"
        BY <1>0, <1>4, <3>3
        DEF Types, AdminStep, Install, Verify, Register, Enable, Disable,
            Unregister, Remove, Previous, Replace, Bind, Raise, AGoto, AEnd
      <4> QED BY <2>2, <2>11, <4>1 DEF TInv, Recorded
    <3> QED BY <3>1, <3>2, <3>3
  <2>13. ASSUME NEW b \in Admins, apc'[b] = "register" PROVE rec'[op'[b].plugin] # "absent"
    <3>1. CASE b = a
      BY <2>1, <2>12, <2>13, <3>1
    <3>2. CASE b # a
      <4>1. apc[b] = "register"
        BY <1>0, <1>1, <2>13, <3>2 DEF Types
      <4>2. op[b].plugin \in Plugins /\ rec[op[b].plugin] # "absent"
        BY <4>1, OpType DEF TInv, Recorded
      <4> QED BY <2>1, <2>11, <4>2
    <3> QED BY <3>1, <3>2
  <2>14. ASSUME NEW s \in Skills, skills'[s] # None PROVE rec'[skills'[s]] # "absent"
    <3>1. skills'[s] = skills[s] \/ (apc[a] = "register" /\ skills'[s] = op[a].plugin)
      <4>1. CASE Register(a)
        BY <1>0, <4>1 DEF Types, Register
      <4>2. CASE Unregister(a)
        BY <1>0, <2>14, <4>2 DEF Types, Unregister, Unregistered
      <4>3. CASE ~Register(a) /\ ~Unregister(a)
        BY <1>4, <4>3
        DEF AdminStep, Install, Add, Verify, Validate, Enable, Disable,
            Remove, Previous, Replace, Bind
      <4> QED BY <4>1, <4>2, <4>3
    <3>2. CASE skills'[s] = skills[s]
      <4>1. skills[s] \in Plugins /\ rec[skills[s]] # "absent"
        BY <1>0, <2>14, <3>2 DEF Types, TInv, Recorded
      <4> QED BY <2>11, <3>2, <4>1
    <3>3. CASE apc[a] = "register" /\ skills'[s] = op[a].plugin
      BY <2>2, <2>11, <3>3 DEF TInv, Recorded
    <3> QED BY <3>1, <3>2, <3>3
  <2>15. Recorded'
    BY <2>13, <2>14 DEF Recorded
  <2> QED BY <1>0, <2>1, <2>7, <2>10, <2>15 DEF TInv, AdminFrame
<1> QED BY <1>3, <1>4

\* A caller's step: reads only, besides its own locals.
LEMMA CallerT ==
  ASSUME TInv, NEW t \in Callers, CallerStep(t)
  PROVE  TInv' /\ UNCHANGED <<rec, skills, handlers, versions, mode, admin, closed>>
<1>1. UNCHANGED <<rec, skills, handlers, versions, mode, admin, closed>>
  BY DEF CallerStep, Begin, CheckState, CheckOwner, CheckMode, Fetch, FetchHandler, Run, OrderMode,
         OrderRisk, OrderSend, Test
<1>2. /\ pc \in [Callers -> CallPlaces] /\ call \in [Callers -> Requests \cup {NoCall}]
      /\ bars \in [Callers -> 0..(MaxBars + 1)] /\ MaxBars \in Nat
  BY HostAssumption DEF TInv, Types
<1>3. SUFFICES /\ \E x \in CallPlaces : pc' = [pc EXCEPT ![t] = x]
               /\ \E c \in Requests \cup {NoCall} :
                    call' = [call EXCEPT ![t] = c] /\ (pc'[t] # "idle" => c \in Requests)
               /\ \E n \in 0..(MaxBars + 1) :
                    bars' = [bars EXCEPT ![t] = n] /\ (pc'[t] \in {"handler", "run"} => n > 0)
  <2>1. Types'
    BY <1>1, <1>2, <1>3 DEF TInv, Types, admin
  <2>2. ASSUME NEW d \in Callers
        PROVE  /\ pc'[d] # "idle" => call'[d] \in Requests
               /\ pc'[d] \in {"handler", "run"} => bars'[d] > 0
    <3>1. CASE d = t
      BY <1>2, <1>3, <3>1
    <3>2. CASE d # t
      <4>1. pc'[d] = pc[d] /\ call'[d] = call[d] /\ bars'[d] = bars[d]
        BY <1>2, <1>3, <3>2
      <4> QED BY <4>1 DEF TInv
    <3> QED BY <3>1, <3>2
  <2> QED BY <1>1, <2>1, <2>2 DEF TInv, Recorded, admin
<1>4. pc[t] # "idle" => call[t] \in Requests
  BY DEF TInv
<1>5. ASSUME NEW x \in CallPlaces, Goto(t, x), pc[t] # "idle"
      PROVE  /\ pc' = [pc EXCEPT ![t] = x] /\ pc'[t] = x
             /\ \E c \in Requests \cup {NoCall} :
                    call' = [call EXCEPT ![t] = c] /\ (pc'[t] # "idle" => c \in Requests)
  <2>1. call' = [call EXCEPT ![t] = call[t]]
    BY <1>2, <1>5 DEF Goto
  <2> QED BY <1>2, <1>4, <1>5, <2>1 DEF Goto
<1>6. ASSUME End(t)
      PROVE  /\ pc' = [pc EXCEPT ![t] = "idle"] /\ pc'[t] = "idle"
             /\ \E c \in Requests \cup {NoCall} :
                    call' = [call EXCEPT ![t] = c] /\ (pc'[t] # "idle" => c \in Requests)
  BY <1>2, <1>6 DEF End
<1>7. ASSUME NEW f \in CallPlaces \ {"idle"}, NEW ok, NEW x \in CallPlaces, Test(t, f, ok, x),
             x \in {"handler", "run"} => (ok => bars[t] > 0)
      PROVE  /\ \E y \in CallPlaces : pc' = [pc EXCEPT ![t] = y]
             /\ \E c \in Requests \cup {NoCall} :
                    call' = [call EXCEPT ![t] = c] /\ (pc'[t] # "idle" => c \in Requests)
             /\ \E n \in 0..(MaxBars + 1) :
                    bars' = [bars EXCEPT ![t] = n] /\ (pc'[t] \in {"handler", "run"} => n > 0)
  <2>0. pc[t] # "idle" /\ bars' = bars /\ bars = [bars EXCEPT ![t] = bars[t]] /\ bars[t] \in 0..(MaxBars + 1)
    BY <1>2, <1>7 DEF Test
  <2>1. CASE ok
    <3>1. Goto(t, x)
      BY <1>7, <2>1 DEF Test
    <3>2. pc'[t] \in {"handler", "run"} => bars[t] > 0
      BY <1>5, <1>7, <2>0, <2>1, <3>1
    <3> QED BY <1>5, <1>7, <2>0, <3>1, <3>2
  <2>2. CASE ~ok
    <3>1. End(t)
      BY <1>7, <2>2 DEF Test
    <3>2. "idle" \in CallPlaces
      BY DEF CallPlaces
    <3> QED BY <1>6, <2>0, <3>1, <3>2
  <2> QED BY <2>1, <2>2
<1>8. CASE Begin(t)
  <2>1. PICK c \in Requests :
          /\ call' = [call EXCEPT ![t] = c]
          /\ pc' = [pc EXCEPT ![t] = IF c.kind = "order" THEN "order_mode" ELSE "state"]
          /\ bars' = [bars EXCEPT ![t] = IF c.kind = "backtest" THEN MaxBars ELSE 1]
    BY <1>8 DEF Begin
  <2>2. pc'[t] \notin {"handler", "run"}
    BY <1>2, <2>1
  <2>3. (IF c.kind = "backtest" THEN MaxBars ELSE 1) \in 0..(MaxBars + 1)
    BY <1>2
  <2> QED BY <2>1, <2>2, <2>3 DEF CallPlaces
<1>9. CASE CheckState(t)
  BY <1>7, <1>9 DEF CheckState, CallPlaces
<1>10. CASE CheckOwner(t) \/ CheckMode(t) \/ OrderMode(t)
  BY <1>7, <1>10 DEF CheckOwner, CheckMode, OrderMode, CallPlaces
<1>11. CASE OrderRisk(t)
  BY <1>7, <1>11 DEF OrderRisk, CallPlaces
<1>12. CASE Fetch(t)
  <2> DEFINE ok == bars[t] > 0 /\ skills[call[t].skill] # None
  <2>1. Test(t, "fetch", ok, "handler") /\ (ok => bars[t] > 0)
    BY <1>12 DEF Fetch
  <2> HIDE DEF ok
  <2> QED BY <1>7, <2>1 DEF CallPlaces
<1>13. CASE Run(t)
  <2>1. bars' = [bars EXCEPT ![t] = bars[t] - 1] /\ bars[t] - 1 \in 0..(MaxBars + 1)
    BY <1>2, <1>13 DEF Run, TInv
  <2>2. pc[t] # "idle" /\ (End(t) \/ Goto(t, "fetch"))
    BY <1>13 DEF Run
  <2> QED BY <1>5, <1>6, <2>1, <2>2 DEF CallPlaces
<1>14. CASE OrderSend(t)
  <2>1. bars' = [bars EXCEPT ![t] = bars[t]] /\ bars[t] \in 0..(MaxBars + 1) /\ End(t)
    BY <1>2, <1>14 DEF OrderSend
  <2> QED BY <1>6, <2>1 DEF CallPlaces
<1>15. CASE FetchHandler(t)
  <2> DEFINE ok == handlers[call[t].skill] # None /\ call[t].mode # "REAL_LIVE"
  <2>1. Test(t, "handler", ok, "run")
    BY <1>15 DEF FetchHandler
  <2>2. bars[t] > 0
    BY <2>1 DEF Test, TInv
  <2> HIDE DEF ok
  <2> QED BY <1>7, <2>1, <2>2 DEF CallPlaces
<1> QED BY <1>8, <1>9, <1>10, <1>11, <1>12, <1>13, <1>14, <1>15 DEF CallerStep

LEMMA NextT == TInv /\ [Next]_vars => TInv'
<1> SUFFICES ASSUME TInv, [Next]_vars PROVE TInv'
  OBVIOUS
<1>1. ASSUME NEW p \in Plugins, RecordVersion(p) PROVE TInv'
  <2>1. versions' \in [Plugins -> 0..2]
    <3>1. versions \in [Plugins -> 0..2] /\ versions[p] < 2
      BY <1>1 DEF RecordVersion, TInv, Types
    <3>2. versions[p] + 1 \in 0..2 /\ versions' = [versions EXCEPT ![p] = versions[p] + 1]
      BY <1>1, <3>1 DEF RecordVersion
    <3> QED BY <3>1, <3>2
  <2> QED BY <1>1, <2>1 DEF RecordVersion, TInv, Types, Recorded, admin, caller
<1>2. CASE ChangeMode
  BY <1>2 DEF ChangeMode, TInv, Types, Recorded, admin, caller
<1>3. CASE UNCHANGED vars
  BY <1>3 DEF vars, TInv, Types, Recorded, admin, caller
<1> QED BY <1>1, <1>2, <1>3, AdminT, CallerT DEF Next

\* For any administrators and callers, the plugin host keeps its types and no
\* skill is registered for a plugin that never had a life-cycle record.
THEOREM HostTypeCorrect == Spec => []TypeOK
<1>1. TInv => TypeOK
  BY DEF TInv, TypeOK, Recorded
<1> QED BY <1>1, InitT, NextT, PTL DEF Spec

-----------------------------------------------------------------------------
(* Authorised runs                                                          *)

\* The guards a call has passed at each place are in its window.
Auth(t) ==
  /\ pc[t] # "idle" => Facts(t) \subseteq window[t]
  /\ pc[t] \in {"owner", "mode"} => call[t].kind \in {"gateway", "invoke"}
  /\ pc[t] \in {"fetch", "handler", "run"} => call[t].kind \in {"gateway", "invoke", "backtest"}
  /\ pc[t] = "state" => call[t].kind # "order"
  /\ pc[t] \in {"owner", "mode", "fetch", "handler", "run"} => "enabled" \in window[t]
  /\ pc[t] = "mode" => {"owned", "listed"} \subseteq window[t]
  /\ pc[t] \in {"fetch", "handler", "run"} =>
       /\ call[t].mode \in SafeModes
       /\ call[t].kind # "backtest" => {"owned", "listed"} \subseteq window[t]
       /\ call[t].kind # "backtest" /\ ~(call[t].kind = "gateway" /\ ~EnvironmentGiven)
          => "mode" \in window[t]
  /\ pc[t] \in {"handler", "run"} => "listed" \in window[t]
  /\ pc[t] \in {"order_risk", "order_send"} => call[t].mode \in SafeModes /\ "mode" \in window[t]

AInv == \A t \in Callers : Auth(t)

LEMMA RequestType ==
  ASSUME NEW c \in Requests
  PROVE  /\ c.kind \in {"gateway", "invoke", "order", "backtest"}
         /\ c.plugin \in Plugins /\ c.skill \in Skills
         /\ c.kind = "backtest" => c.mode = "VIRTUAL_BACKTEST"
BY HostAssumption DEF Calls

\* While a call goes on its window keeps what it has and takes in what holds.
LEMMA WatchGrows ==
  ASSUME Watch, NEW t \in Callers, pc'[t] # "idle"
  PROVE  Facts(t)' \subseteq window'[t] /\ (pc[t] # "idle" => window[t] \subseteq window'[t])
BY DEF Watch

\* A step that leaves the call where it is.
LEMMA OthersAuth ==
  ASSUME AInv, Watch, NEW t \in Callers, pc'[t] = pc[t], call'[t] = call[t]
  PROVE  Auth(t)'
<1>1. Auth(t)
  BY DEF AInv
<1>2. pc[t] # "idle" => Facts(t)' \subseteq window'[t] /\ window[t] \subseteq window'[t]
  BY WatchGrows
<1> QED BY <1>1, <1>2 DEF Auth

LEMMA CallerAuth ==
  ASSUME TInv, AInv, Watch, NEW t \in Callers, CallerStep(t)
  PROVE  Auth(t)'
<1>1. Auth(t) /\ pc \in [Callers -> CallPlaces] /\ DOMAIN call = Callers
  BY DEF AInv, TInv, Types
<1>2. pc[t] # "idle" => call[t] \in Requests
  BY DEF TInv
<1>3. CASE pc'[t] = "idle"
  BY <1>3 DEF Auth
<1>4. CASE pc'[t] # "idle" /\ pc[t] = "idle"
  <2>1. Begin(t)
    BY <1>4 DEF CallerStep, CheckState, CheckOwner, CheckMode, Fetch, FetchHandler, Run, OrderMode,
                OrderRisk, OrderSend, Test
  <2>2. PICK c \in Requests :
          call'[t] = c /\ pc'[t] = IF c.kind = "order" THEN "order_mode" ELSE "state"
    BY <1>1, <2>1 DEF Begin
  <2>3. Facts(t)' \subseteq window'[t]
    BY <1>4, WatchGrows
  <2> QED BY <2>2, <2>3 DEF Auth
<1>5. CASE pc'[t] # "idle" /\ pc[t] # "idle"
  <2>0. Facts(t)' \subseteq window'[t] /\ window[t] \subseteq window'[t] /\ Facts(t) \subseteq window[t]
    BY <1>1, <1>5, WatchGrows DEF Auth
  <2>1. ASSUME NEW f, NEW ok, NEW x, Test(t, f, ok, x)
        PROVE  pc[t] = f /\ ok /\ pc'[t] = x /\ call'[t] = call[t]
    BY <1>1, <1>5, <2>1 DEF Test, Goto, End
  <2>2. CASE CheckState(t)
    <3>1. /\ pc[t] = "state" /\ rec[call[t].plugin] = "enabled" /\ call'[t] = call[t]
          /\ pc'[t] = IF call[t].kind = "backtest" THEN "fetch" ELSE "owner"
      BY <2>1, <2>2 DEF CheckState
    <3>2. "enabled" \in window'[t]
      BY <2>0, <3>1 DEF Facts
    <3>3. call[t].kind = "backtest" => call[t].mode \in SafeModes
      BY <1>2, <1>5, RequestType DEF SafeModes
    <3>4. call[t].kind \in {"gateway", "invoke", "backtest"}
      BY <1>1, <1>2, <1>5, <3>1, RequestType DEF Auth
    <3> QED BY <2>0, <3>1, <3>2, <3>3, <3>4 DEF Auth
  <2>3. CASE CheckOwner(t)
    <3>1. /\ pc[t] = "owner" /\ skills[call[t].skill] = call[t].plugin /\ call'[t] = call[t]
          /\ pc'[t] = "mode"
      BY <2>1, <2>3 DEF CheckOwner
    <3>2. call[t].plugin # None
      BY <1>2, <1>5, RequestType, HostAssumption
    <3>3. {"owned", "listed"} \subseteq window'[t]
      BY <2>0, <3>1, <3>2 DEF Facts
    <3> QED BY <1>1, <2>0, <3>1, <3>3 DEF Auth
  <2>4. CASE CheckMode(t)
    <3>1. /\ pc[t] = "mode" /\ pc'[t] = "fetch" /\ call'[t] = call[t]
          /\ call[t].mode \in Allowed
          /\ (call[t].kind = "gateway" /\ ~EnvironmentGiven) \/ mode = call[t].mode
      BY <2>1, <2>4 DEF CheckMode
    <3>2. mode = call[t].mode => "mode" \in window'[t]
      BY <2>0 DEF Facts
    <3>3. call[t].mode \in SafeModes
      BY <3>1, HostAssumption
    <3> QED BY <1>1, <2>0, <3>1, <3>2, <3>3 DEF Auth
  <2>5. CASE Fetch(t)
    <3>1. /\ pc[t] = "fetch" /\ pc'[t] = "handler" /\ call'[t] = call[t]
          /\ skills[call[t].skill] # None
      BY <2>1, <2>5 DEF Fetch
    <3>2. "listed" \in window'[t]
      BY <2>0, <3>1 DEF Facts
    <3> QED BY <1>1, <2>0, <3>1, <3>2 DEF Auth
  <2>6. CASE Run(t)
    <3>1. pc[t] = "run" /\ pc'[t] = "fetch" /\ call'[t] = call[t]
      BY <1>1, <1>5, <2>6 DEF Run, End, Goto
    <3> QED BY <1>1, <2>0, <3>1 DEF Auth
  <2>7. CASE OrderMode(t)
    <3>1. /\ pc[t] = "order_mode" /\ pc'[t] = "order_risk" /\ call'[t] = call[t]
          /\ mode = call[t].mode /\ call[t].mode \in SafeModes
      BY <2>1, <2>7, HostAssumption DEF OrderMode
    <3>2. "mode" \in window'[t]
      BY <2>0, <3>1 DEF Facts
    <3> QED BY <2>0, <3>1, <3>2 DEF Auth
  <2>8. CASE OrderRisk(t)
    <3>1. pc[t] = "order_risk" /\ pc'[t] = "order_send" /\ call'[t] = call[t]
      BY <2>1, <2>8 DEF OrderRisk
    <3> QED BY <1>1, <2>0, <3>1 DEF Auth
  <2>9. ~Begin(t) /\ ~OrderSend(t)
    BY <1>1, <1>5 DEF Begin, OrderSend, End
  <2>10. CASE FetchHandler(t)
    <3>1. pc[t] = "handler" /\ pc'[t] = "run" /\ call'[t] = call[t]
      BY <2>1, <2>10 DEF FetchHandler
    <3> QED BY <1>1, <2>0, <3>1 DEF Auth
  <2> QED BY <2>2, <2>3, <2>4, <2>5, <2>6, <2>7, <2>8, <2>9, <2>10 DEF CallerStep
<1> QED BY <1>3, <1>4, <1>5

LEMMA NextA == TInv /\ AInv /\ [Next]_vars => AInv'
<1> SUFFICES ASSUME TInv, AInv, [Next]_vars, NEW d \in Callers PROVE Auth(d)'
  BY DEF AInv
<1>1. CASE UNCHANGED vars
  BY <1>1 DEF vars, caller, AInv, Auth, Facts
<1>2. CASE Next
  <2>0. Watch
    BY <1>2 DEF Next
  <2>1. ASSUME NEW t \in Callers, CallerStep(t), d # t PROVE pc'[d] = pc[d] /\ call'[d] = call[d]
    <3>1. DOMAIN pc = Callers /\ DOMAIN call = Callers
      BY DEF TInv, Types
    <3> QED BY <2>1, <3>1
      DEF CallerStep, Begin, CheckState, CheckOwner, CheckMode, Fetch, FetchHandler, Run, OrderMode,
          OrderRisk, OrderSend, Test, Goto, End
  <2>2. ASSUME NEW a \in Admins, AdminStep(a) PROVE pc' = pc /\ call' = call
    BY <2>2, AdminFramed DEF AdminFrame
  <2>3. ASSUME NEW p \in Plugins, RecordVersion(p) \/ ChangeMode PROVE pc' = pc /\ call' = call
    BY <2>3 DEF RecordVersion, ChangeMode, caller
  <2>4. CASE ChangeMode
    BY <2>0, <2>4, OthersAuth DEF ChangeMode, caller
  <2>5. CASE CallerStep(d)
    BY <2>0, <2>5, CallerAuth
  <2> QED BY <1>2, <2>0, <2>1, <2>2, <2>3, <2>4, <2>5, OthersAuth DEF Next
<1> QED BY <1>1, <1>2

\* For any administrators, callers and operators: a handler runs only in a
\* paper mode and for a plugin that was enabled and owned the skill during
\* the call; an order leaves only in a paper mode the environment was in.
THEOREM HostRunsAreAuthorised == Spec => []RunsAreAuthorised
<1>1. Init => AInv
  BY DEF Init, AInv, Auth
<1>2. TInv /\ AInv => RunsAreAuthorised
  <2> SUFFICES ASSUME TInv, AInv, NEW t \in Callers
      PROVE  /\ pc[t] = "run" => call[t].mode \in SafeModes /\ Required(call[t]) \subseteq window[t]
             /\ pc[t] = "order_send" => call[t].mode \in SafeModes /\ "mode" \in window[t]
    BY DEF RunsAreAuthorised
  <2>1. Auth(t)
    BY DEF AInv
  <2> QED BY <2>1 DEF Auth, Required
<1> QED BY <1>1, <1>2, InitT, NextT, NextA, PTL DEF Spec

-----------------------------------------------------------------------------
(* One administrator                                                        *)

Installing == {"verify", "validate", "readd", "register", "enable", "unregister"}

\* The registry is what it was, plus skills of p that nobody had; p had none.
Grown(a) ==
  \A s \in Skills :
    /\ before[a][s] # op[a].plugin
    /\ skills[s] = before[a][s] \/ (before[a][s] = None /\ skills[s] = op[a].plugin)

\* What an administrator's operation relies on at each place.
Course(a) ==
  /\ apc[a] \in {"install", "add", "verify", "remove"} => op[a].kind = "install"
  /\ apc[a] \in {"validate", "readd", "register"} => op[a].kind \in {"install", "register"}
  /\ apc[a] = "register" => ~Gone(op[a].plugin)
  /\ apc[a] = "unregister" => op[a].kind \in {"install", "disable"}
  /\ op[a].kind = "install" =>
       /\ apc[a] \in {"install", "add"} => skills = before[a]
       /\ apc[a] \in Installing => Grown(a) /\ ~Gone(op[a].plugin)
       /\ apc[a] = "remove" => skills = before[a] /\ \A s \in Skills : skills[s] # op[a].plugin
       /\ apc[a] \in {"idle", "install", "add", "remove"} \cup Installing
       /\ apc[a] = "idle" /\ outcome[a] = "raised" => skills = before[a]

CInv ==
  /\ NoOrphanSkills
  /\ before \in [Admins -> [Skills -> Plugins \cup {None}]]
  /\ \A a \in Admins : Course(a)

LEMMA InitC == Init => CInv
BY DEF Init, CInv, NoOrphanSkills, Course, NoOp

\* What the steps of callers and operators leave alone.
LEMMA OthersC ==
  ASSUME CInv, UNCHANGED <<rec, skills, admin, closed>>
  PROVE  CInv'
BY DEF CInv, NoOrphanSkills, Course, Grown, Gone, admin

\* With one administrator it is enough to look at the one that moves.
LEMMA OnlyC ==
  ASSUME OneAdmin, NEW a \in Admins, NoOrphanSkills', Course(a)',
         before' \in [Admins -> [Skills -> Plugins \cup {None}]]
  PROVE  CInv'
<1>1. \A b \in Admins : b = a
  BY DEF OneAdmin
<1> QED BY <1>1 DEF CInv

\* How an operation moves on, ends, or raises.
LEMMA AMoves ==
  ASSUME TInv, NEW a \in Admins
  PROVE  /\ \A x : AGoto(a, x) => apc'[a] = x /\ outcome'[a] = outcome[a]
         /\ \A o : AEnd(a, o) => apc'[a] = "idle" /\ outcome'[a] = o
         /\ Raise(a) => \/ op[a].kind = "install" /\ apc'[a] = "unregister"
                        \/ op[a].kind # "install" /\ apc'[a] = "idle"
<1>1. DOMAIN apc = Admins /\ DOMAIN outcome = Admins
  BY DEF TInv, Types
<1> QED BY <1>1 DEF AGoto, AEnd, Raise

\* A record may take any state but REMOVED without touching the registry.
LEMMA StateC ==
  ASSUME TInv, CInv, NEW p \in Plugins, NEW x, SetState(p, x), x \notin {"absent", "removed"},
         UNCHANGED <<skills, closed>>
  PROVE  NoOrphanSkills' /\ rec'[p] = x
<1>1. rec' = [rec EXCEPT ![p] = x] /\ DOMAIN rec = Plugins /\ skills \in [Skills -> Plugins \cup {None}]
  BY DEF SetState, TInv, Types
<1>2. rec'[p] = x /\ \A r \in Plugins : rec[r] \notin {"absent", "removed"}
                                        => rec'[r] \notin {"absent", "removed"}
  BY <1>1
<1> QED BY <1>1, <1>2 DEF CInv, NoOrphanSkills, Gone

LEMMA BeginC ==
  ASSUME OneAdmin, TInv, CInv, NEW a \in Admins, AdminBegin(a)
  PROVE  CInv'
<1>1. PICK o \in Ops :
        /\ op' = [op EXCEPT ![a] = o]
        /\ AGoto(a, First(o.kind))
  BY DEF AdminBegin
<1>2. /\ rec' = rec /\ skills' = skills /\ closed' = closed /\ before' = [before EXCEPT ![a] = skills]
      /\ skills \in [Skills -> Plugins \cup {None}] /\ closed \in [Plugins -> BOOLEAN]
      /\ before \in [Admins -> [Skills -> Plugins \cup {None}]]
  BY DEF AdminBegin, TInv, Types, CInv
<1>3. op'[a] = o /\ apc'[a] = First(o.kind) /\ before'[a] = skills
  BY <1>1, <1>2, AMoves DEF TInv
<1>4. /\ o.plugin \in Plugins
      /\ o.kind \in {"install", "register", "disable", "rollback", "enable", "bind"}
  BY OpType
<1>5. NoOrphanSkills'
  BY <1>2 DEF CInv, NoOrphanSkills, Gone
<1>6. before' \in [Admins -> [Skills -> Plugins \cup {None}]]
  BY <1>2
<1>7. Course(a)'
  <2>1. CASE o.kind = "install"
    <3>1. apc'[a] = "install"
      BY <1>3, <2>1 DEF First
    <3> QED BY <1>2, <1>3, <2>1, <3>1 DEF Course, Installing
  <2>2. CASE o.kind = "register"
    <3>1. apc'[a] = "validate"
      BY <1>3, <2>2 DEF First
    <3> QED BY <1>3, <2>2, <3>1 DEF Course
  <2>3. CASE o.kind \in {"disable", "rollback", "enable", "bind"}
    <3>1. apc'[a] \in {"disable", "previous", "enable", "resolve"}
      BY <1>3, <2>3 DEF First
    <3> QED BY <1>3, <2>3, <3>1 DEF Course
  <2> QED BY <1>4, <2>1, <2>2, <2>3
<1> QED BY <1>5, <1>6, <1>7, OnlyC

\* Every other step of the operation.

LEMMA WorkC ==
  ASSUME OneAdmin, TInv, CInv, NEW a \in Admins, AdminStep(a), ~AdminBegin(a)
  PROVE  CInv'
<1> DEFINE p == op[a].plugin
<1>1. apc[a] # "idle" /\ UNCHANGED <<op, before>>
  BY DEF AdminStep, Install, Add, Verify, Validate, Register, Enable, Disable,
         Unregister, Remove, Previous, Replace, Bind
<1>2. /\ p \in Plugins /\ p # None
      /\ op[a].kind \in {"install", "register", "disable", "rollback", "enable", "bind"}
  BY <1>1, OpType, HostAssumption DEF TInv
<1>3. /\ Course(a) /\ NoOrphanSkills /\ before' \in [Admins -> [Skills -> Plugins \cup {None}]]
      /\ before[a] \in [Skills -> Plugins \cup {None}]
      /\ skills \in [Skills -> Plugins \cup {None}] /\ rec \in [Plugins -> States]
      /\ closed \in [Plugins -> BOOLEAN]
  BY <1>1 DEF CInv, TInv, Types
<1>4. SUFFICES NoOrphanSkills' /\ Course(a)'
  BY <1>3, OnlyC
<1>p. p' = p
  BY <1>1
<1> HIDE DEF p
<1>5. ASSUME UNCHANGED <<rec, skills, closed>> PROVE NoOrphanSkills'
  BY <1>3, <1>5 DEF NoOrphanSkills, Gone
<1>6. CASE Install(a)
  <2>1. /\ UNCHANGED <<rec, skills, closed>> /\ apc[a] = "install"
        /\ apc'[a] \in {"add", "idle"}
    BY <1>6, AMoves DEF Install
  <2>2. op[a].kind = "install" /\ skills = before[a]
    BY <1>3, <2>1 DEF Course
  <2> QED BY <1>1, <1>5, <2>1, <2>2 DEF Course, Installing
<1>7. CASE Add(a)
  <2>1. apc[a] \in {"add", "readd"} /\ UNCHANGED <<skills, closed>>
    BY <1>7 DEF Add
  <2>2. CASE Gone(p)
    <3>1. /\ SetState(p, "installed")
          /\ apc'[a] = IF apc[a] = "add" THEN "verify" ELSE "register"
      BY <1>7, <2>2, AMoves DEF Add, p
    <3>2. NoOrphanSkills' /\ ~Gone(p)'
      <4>1. NoOrphanSkills' /\ rec'[p] = "installed"
        BY <1>2, <2>1, <3>1, StateC
      <4> QED BY <1>p, <4>1 DEF Gone
    <3>3. \A s \in Skills : skills[s] # p
      BY <1>2, <1>3, <2>2 DEF NoOrphanSkills
    <3>4. CASE apc[a] = "add"
      <4>1. op[a].kind = "install" /\ skills = before[a]
        BY <1>3, <3>4 DEF Course, p
      <4>2. Grown(a)'
        BY <1>1, <2>1, <3>3, <4>1 DEF Grown, p
      <4> QED BY <1>1, <2>1, <3>1, <3>2, <3>4, <4>1, <4>2 DEF Course, Installing, p
    <3>5. CASE apc[a] = "readd"
      <4>1. op[a].kind = "register"
        BY <1>3, <2>2, <3>5 DEF Course, Installing, p
      <4> QED BY <1>1, <2>1, <3>1, <3>2, <3>5, <4>1 DEF Course, p
    <3> QED BY <2>1, <3>4, <3>5
  <2>3. CASE ~Gone(p)
    <3>1. UNCHANGED rec /\ IF apc[a] = "add" THEN AEnd(a, "raised") ELSE Raise(a)
      BY <1>7, <2>3 DEF Add, p
    <3>2. CASE apc[a] = "add"
      <4>1. op[a].kind = "install" /\ skills = before[a] /\ apc'[a] = "idle"
        BY <1>3, <3>1, <3>2, AMoves DEF Course
      <4> QED BY <1>1, <1>5, <2>1, <3>1, <4>1 DEF Course, Installing
    <3>3. CASE apc[a] = "readd"
      <4>1. op[a].kind = "install" => Grown(a)
        BY <1>3, <3>3 DEF Course, Installing, p
      <4>2. op[a].kind = "install" => Grown(a)'
        BY <1>1, <2>1, <4>1 DEF Grown
      <4>3. ~Gone(p)'
        BY <1>p, <2>3, <3>1 DEF Gone
      <4>4. \/ op[a].kind = "install" /\ apc'[a] = "unregister"
            \/ op[a].kind # "install" /\ apc'[a] = "idle"
        BY <3>1, <3>3, AMoves
      <4> QED BY <1>1, <1>5, <2>1, <3>1, <4>1, <4>2, <4>3, <4>4 DEF Course, Installing, p
    <3> QED BY <2>1, <3>2, <3>3
  <2> QED BY <2>2, <2>3
<1>8. CASE Verify(a)
  <2>1. apc[a] = "verify" /\ UNCHANGED <<skills, closed>>
    BY <1>8 DEF Verify
  <2>2. op[a].kind = "install" /\ Grown(a) /\ ~Gone(p)
    BY <1>3, <2>1 DEF Course, Installing, p
  <2>3. SetState(p, "verified") /\ apc'[a] = "validate"
    BY <1>8, <2>2, AMoves DEF Verify, p
  <2>4. NoOrphanSkills' /\ ~Gone(p)'
    <3>1. NoOrphanSkills' /\ rec'[p] = "verified"
      BY <1>2, <2>1, <2>3, StateC
    <3> QED BY <1>p, <3>1 DEF Gone
  <2>5. Grown(a)'
    BY <1>1, <2>1, <2>2 DEF Grown
  <2> QED BY <1>1, <2>1, <2>2, <2>3, <2>4, <2>5 DEF Course, Installing, p
<1>9. CASE Validate(a)
  <2>1. apc[a] = "validate" /\ UNCHANGED <<rec, skills, closed>>
    BY <1>9 DEF Validate
  <2>2. /\ op[a].kind \in {"install", "register"}
        /\ op[a].kind = "install" => Grown(a) /\ ~Gone(p)
    BY <1>3, <2>1 DEF Course, Installing, p
  <2>3. Gone(p)' = Gone(p) /\ (op[a].kind = "install" => Grown(a)')
    BY <1>1, <2>1, <2>2 DEF Grown, Gone, p
  <2>4. \/ op[a].kind = "install" /\ apc'[a] = "unregister"
        \/ op[a].kind # "install" /\ apc'[a] = "idle"
        \/ Gone(p) /\ apc'[a] = "readd"
        \/ ~Gone(p) /\ apc'[a] = "register"
    BY <1>9, AMoves DEF Validate, p
  <2> QED BY <1>1, <1>5, <2>1, <2>2, <2>3, <2>4 DEF Course, Installing, p
<1>10. CASE Register(a)
  <2>1. apc[a] = "register" /\ UNCHANGED rec
    BY <1>10 DEF Register
  <2>2. /\ op[a].kind \in {"install", "register"} /\ ~Gone(p)
        /\ op[a].kind = "install" => Grown(a)
    BY <1>3, <2>1 DEF Course, Installing, p
  <2>3. ~Gone(p)'
    BY <1>p, <2>1, <2>2 DEF Gone
  <2>4. CASE UNCHANGED <<skills, closed>>
    <3>1. op[a].kind = "install" => Grown(a)'
      BY <1>1, <2>2, <2>4 DEF Grown
    <3>2. \/ apc'[a] = apc[a]
          \/ op[a].kind = "install" /\ apc'[a] \in {"unregister", "enable"}
          \/ op[a].kind # "install" /\ apc'[a] = "idle"
      BY <1>10, AMoves DEF Register
    <3> QED BY <1>1, <1>5, <2>1, <2>2, <2>3, <2>4, <3>1, <3>2 DEF Course, Installing, p
  <2>5. CASE ~UNCHANGED <<skills, closed>>
    <3> DEFINE h == Head(left[a])
    <3>1. /\ skills[h] \in {p, None} /\ skills' = [skills EXCEPT ![h] = p]
          /\ closed' = [closed EXCEPT ![p] = FALSE] /\ UNCHANGED <<apc, outcome>>
      BY <1>10, <2>5 DEF Register, p
    <3> HIDE DEF h
    <3>2. \A s \in Skills : skills'[s] = skills[s] \/ (skills[s] \in {p, None} /\ skills'[s] = p)
      BY <1>3, <3>1
    <3>3. ~closed'[p] /\ \A r \in Plugins : r # p => closed'[r] = closed[r]
      BY <1>2, <1>3, <3>1
    <3>4. NoOrphanSkills'
      BY <1>3, <2>1, <2>2, <3>2, <3>3 DEF NoOrphanSkills, Gone
    <3>5. op[a].kind = "install" => Grown(a)'
      <4> SUFFICES ASSUME op[a].kind = "install", NEW s \in Skills
          PROVE  /\ before[a][s] # p
                 /\ skills'[s] = before[a][s] \/ (before[a][s] = None /\ skills'[s] = p)
        BY <1>1 DEF Grown, p
      <4>1. /\ before[a][s] # p
            /\ skills[s] = before[a][s] \/ (before[a][s] = None /\ skills[s] = p)
        BY <2>2 DEF Grown, p
      <4> QED BY <3>2, <4>1
    <3> QED BY <1>1, <2>1, <2>2, <2>3, <3>1, <3>4, <3>5 DEF Course, Installing, p
  <2> QED BY <2>4, <2>5
<1>11. CASE Enable(a)
  <2>1. apc[a] = "enable" /\ UNCHANGED <<skills, closed>>
    BY <1>11 DEF Enable
  <2>2. op[a].kind = "install" => Grown(a) /\ ~Gone(p)
    BY <1>3, <2>1 DEF Course, Installing, p
  <2>3. CASE rec[p] = "verified"
    <3>1. SetState(p, "enabled") /\ apc'[a] = "idle" /\ outcome'[a] = "ok"
      BY <1>11, <2>3, AMoves DEF Enable, p
    <3>2. ~Gone(p)
      BY <2>3 DEF Gone
    <3>3. NoOrphanSkills'
      BY <1>2, <2>1, <3>1, StateC
    <3> QED BY <3>1, <3>3 DEF Course, Installing
  <2>4. CASE rec[p] # "verified"
    <3>1. /\ UNCHANGED rec
          /\ \/ op[a].kind = "install" /\ apc'[a] = "unregister"
             \/ op[a].kind # "install" /\ apc'[a] = "idle"
      BY <1>11, <2>4, AMoves DEF Enable, p
    <3>2. op[a].kind = "install" => Grown(a)' /\ ~Gone(p)'
      BY <1>1, <1>p, <2>1, <2>2, <3>1 DEF Grown, Gone
    <3> QED BY <1>1, <1>5, <2>1, <2>2, <3>1, <3>2 DEF Course, Installing, p
  <2> QED BY <2>3, <2>4
<1>12. CASE Disable(a)
  <2>1. apc[a] = "disable" /\ UNCHANGED <<skills, closed>>
    BY <1>12 DEF Disable
  <2>2. op[a].kind # "install"
    BY <1>3, <2>1 DEF Course, Installing
  <2>3. \/ UNCHANGED rec /\ apc'[a] = "idle"
        \/ /\ SetState(p, "disabled")
           /\ apc'[a] = IF op[a].kind = "disable" THEN "unregister" ELSE "replace"
    BY <1>12, AMoves DEF Disable, p
  <2>4. NoOrphanSkills'
    BY <1>2, <1>5, <2>1, <2>3, StateC
  <2> QED BY <1>1, <2>2, <2>3, <2>4 DEF Course
<1>13. CASE Unregister(a)
  <2>1. apc[a] = "unregister" /\ skills' = Unregistered(p) /\ UNCHANGED rec
    BY <1>13 DEF Unregister, p
  <2>2. \A s \in Skills : skills'[s] # p /\ (skills'[s] # None => skills'[s] = skills[s])
    BY <1>2, <2>1 DEF Unregistered
  <2>3. CASE op[a].kind = "install"
    <3>1. apc'[a] = "remove" /\ UNCHANGED closed
      BY <1>13, <2>3, AMoves DEF Unregister
    <3>2. NoOrphanSkills'
      BY <1>3, <2>1, <2>2, <3>1 DEF NoOrphanSkills, Gone
    <3>3. Grown(a)
      BY <1>3, <2>1, <2>3 DEF Course, Installing
    <3>4. skills' = before[a]
      <4>1. \A s \in Skills : skills'[s] = before[a][s]
        BY <2>1, <3>3 DEF Unregistered, Grown, p
      <4>2. skills' \in [Skills -> Plugins \cup {None}]
        BY <1>3, <2>1 DEF Unregistered
      <4> QED BY <1>3, <4>1, <4>2
    <3> QED BY <1>1, <2>2, <2>3, <3>1, <3>2, <3>4 DEF Course, Installing, p
  <2>4. CASE op[a].kind # "install"
    <3>1. apc'[a] = "idle" /\ closed' = [closed EXCEPT ![p] = TRUE]
      BY <1>13, <2>4, AMoves DEF Unregister, p
    <3>2. \A r \in Plugins : r # p => closed'[r] = closed[r]
      BY <1>2, <1>3, <3>1
    <3>3. NoOrphanSkills'
      BY <1>3, <2>1, <2>2, <3>2 DEF NoOrphanSkills, Gone
    <3> QED BY <1>1, <2>4, <3>1, <3>3 DEF Course
  <2> QED BY <2>3, <2>4
<1>14. CASE Remove(a)
  <2>1. apc[a] = "remove" /\ UNCHANGED <<skills, closed>> /\ apc'[a] = "idle"
    BY <1>14, AMoves DEF Remove
  <2>2. op[a].kind = "install" /\ skills = before[a] /\ \A s \in Skills : skills[s] # p
    BY <1>3, <2>1 DEF Course, p
  <2>3. rec' = rec \/ rec' = [rec EXCEPT ![p] = "removed"]
    BY <1>14 DEF Remove, SetState, p
  <2>4. \A r \in Plugins : r # p => rec'[r] = rec[r]
    BY <1>2, <1>3, <2>3
  <2>5. NoOrphanSkills'
    BY <1>3, <2>1, <2>2, <2>4 DEF NoOrphanSkills, Gone
  <2> QED BY <1>1, <2>1, <2>2, <2>5 DEF Course, Installing
<1>15. CASE Previous(a) \/ Bind(a)
  <2>1. /\ apc[a] \in {"previous", "resolve", "bind"} /\ UNCHANGED <<rec, skills, closed>>
        /\ apc'[a] \in {"idle", "disable", "bind"}
    BY <1>15, AMoves DEF Previous, Bind
  <2>2. op[a].kind # "install"
    BY <1>3, <2>1 DEF Course, Installing
  <2> QED BY <1>1, <1>5, <2>1, <2>2 DEF Course
<1>16. CASE Replace(a)
  <2>1. /\ apc[a] = "replace" /\ UNCHANGED <<skills, closed>> /\ apc'[a] = "idle"
        /\ SetState(p, "verified")
    BY <1>16, AMoves DEF Replace, p
  <2>2. op[a].kind # "install"
    BY <1>3, <2>1 DEF Course, Installing
  <2>3. NoOrphanSkills'
    BY <1>2, <2>1, StateC
  <2> QED BY <1>1, <2>1, <2>2, <2>3 DEF Course
<1> QED BY <1>6, <1>7, <1>8, <1>9, <1>10, <1>11, <1>12, <1>13, <1>14, <1>15, <1>16 DEF AdminStep

LEMMA NextC == OneAdmin /\ TInv /\ CInv /\ [Next]_vars => CInv'
<1> SUFFICES ASSUME OneAdmin, TInv, CInv, [Next]_vars PROVE CInv'
  OBVIOUS
<1>1. ASSUME NEW a \in Admins, AdminStep(a) PROVE CInv'
  BY <1>1, BeginC, WorkC
<1>2. ASSUME NEW t \in Callers, CallerStep(t) PROVE CInv'
  BY <1>2, CallerT, OthersC
<1>3. ASSUME NEW p \in Plugins, RecordVersion(p) PROVE CInv'
  BY <1>3, OthersC DEF RecordVersion
<1>4. CASE ChangeMode
  BY <1>4, OthersC DEF ChangeMode
<1>5. CASE UNCHANGED vars
  BY <1>5, OthersC DEF vars
<1> QED BY <1>1, <1>2, <1>3, <1>4, <1>5 DEF Next

LEMMA SpecC == OneAdmin /\ Spec => []CInv
<1>1. SUFFICES ASSUME OneAdmin PROVE Spec => []CInv
  OBVIOUS
<1>2. TInv /\ CInv /\ [Next]_vars => CInv'
  BY <1>1, NextC
<1> QED BY <1>2, InitT, NextT, InitC, PTL DEF Spec

\* With one administrator, every registered skill belongs to a plugin that has
\* a record and is not closed, whichever step of an installation fails.
THEOREM SoloNoOrphanSkills == OneAdmin /\ Spec => []NoOrphanSkills
<1>1. CInv => NoOrphanSkills
  BY DEF CInv
<1> QED BY <1>1, SpecC, PTL

\* With one administrator, an install_and_enable that raised leaves the
\* registry as it found it.
THEOREM SoloFailedInstallRestores == OneAdmin /\ Spec => []FailedInstallRestores
<1>1. CInv => FailedInstallRestores
  BY DEF CInv, Course, FailedInstallRestores
<1> QED BY <1>1, SpecC, PTL

=============================================================================
