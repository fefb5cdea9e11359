------------------------------- MODULE LiveDesk -------------------------------
(***************************************************************************)
(* The live path: InternalTradeFacade.preview, submit and cancel           *)
(* (trade_facade.py), through the order approval gate, the secret broker,  *)
(* the BrokerRouter and the adapter, to the broker's HTTP API; with the    *)
(* operators who promote and demote the environment, issue and revoke      *)
(* approvals, trip the circuit breaker and rotate the broker secret.       *)
(* Threads are the request threads of internal_api.py, which share one     *)
(* facade, one router and one adapter object, none of them locked.  The    *)
(* Toss and the KB adapter share nothing, so the model follows the calls   *)
(* for one of them.                                                        *)
(*                                                                         *)
(* Whether an order is within the risk limits is an attribute of the call  *)
(* (the arithmetic is PortfolioRisk's); credentials and tokens are the     *)
(* version of the secret they come from.  All collaborators are configured *)
(* and PAPER_LIVE_ENABLE_LIVE is set: otherwise every call is refused.     *)
(***************************************************************************)
EXTENDS Integers, FiniteSets

CONSTANTS
  Threads,
  Orders,         \* client order ids of the orders clients want
  BaseSecret,     \* secret version the adapter was built with; 0 is None
  MaxApprovals,   \* bound: order approvals issued
  MaxSecrets,     \* bound: versions of the broker secret
  MaxCalls        \* bound: calls entered

ASSUME LiveAssumption ==
  /\ Orders # {} /\ MaxApprovals \in Nat /\ MaxCalls \in Nat
  /\ MaxSecrets \in Nat \ {0} /\ BaseSecret \in 0..MaxSecrets

VARIABLES
  mode,         \* EnvironmentController._mode
  promotion,    \* the promotion gate of live_approval.py: "none" before any approval,
                \* then "granted", or "revoked" (both "none" and "revoked" are None there)
  pending,      \* an operator thread is inside set_mode(REAL_LIVE), past require()
  approval,     \* the order approval id that require() accepts now; 0 is none
  issued,       \* order approvals issued so far
  tripped,      \* CircuitBreaker._tripped
  secret,       \* version in the secret store; 0 is revoked
  broker,       \* which adapter the calls are for
  credentials, token, ephemeral,   \* the adapter's fields
  previews,     \* InternalTradeFacade._previews
  pc, call, lmode, lsecret, ltoken, \* each thread's place and locals
  received,     \* the orders that reached the broker
  window,       \* history: which guards have held at some moment of the call
  calls         \* bound: calls entered so far

envVars == <<mode, promotion, pending>>
gateVars == <<approval, issued, tripped, secret>>
adapterVars == <<broker, credentials, token, ephemeral>>
vars == <<mode, promotion, pending, approval, issued, tripped, secret, broker, credentials, token,
          ephemeral, previews, pc, call, lmode, lsecret, ltoken, received, window, calls>>

Modes == {"PAPER_SANDBOX", "REAL_LIVE"}
Secrets == 0..MaxSecrets
Kinds == {"preview", "submit", "cancel"}
CallArgs == [number : 0..MaxCalls, kind : Kinds, order : Orders, within : BOOLEAN,
             approval : 0..MaxApprovals, preview : 0..MaxCalls]
Places == {"idle", "mode", "lookup", "risk", "risk_mode", "skill", "gate", "resolve", "apply", "route",
           "request", "token", "token_reply", "post", "reply", "clear"}

\* One request at the broker: the call it belongs to, and the account header
\* and bearer token it carried.  Nothing in it lets the broker recognise a
\* second request for the same order: to_broker_order drops the client id.
Receipt == [call : CallArgs, account : Secrets, token : Secrets]

\* A preview is known by the number of the call that made it.
OrderPreview == [id : 0..MaxCalls, order : Orders, approved : BOOLEAN]

Init ==
  /\ mode \in Modes /\ promotion \in {"none", "granted"} /\ pending = FALSE
  /\ mode = "REAL_LIVE" => promotion = "granted"   \* __post_init__ refuses to start otherwise
  /\ approval = 0 /\ issued = 0 /\ tripped = FALSE
  /\ secret = 1
  /\ broker \in {"toss", "kb"}
  /\ credentials = BaseSecret /\ token = 0 /\ ephemeral = FALSE
  /\ previews = {}
  /\ pc = [t \in Threads |-> "idle"]
  /\ call = [t \in Threads |-> [number |-> 0, kind |-> "submit", order |-> CHOOSE o \in Orders : TRUE,
                                within |-> FALSE, approval |-> 0, preview |-> 0]]
  /\ lmode = [t \in Threads |-> "PAPER_SANDBOX"]
  /\ lsecret = [t \in Threads |-> 0]
  /\ ltoken = [t \in Threads |-> 0]
  /\ received = {}
  /\ window = [t \in Threads |-> {}]
  /\ calls = 0

-----------------------------------------------------------------------------
Goto(t, place) == pc' = [pc EXCEPT ![t] = place]

\* The guards of a live call that hold at this moment.
Guards(t) ==
  {g \in {"live", "calm", "approved"} :
     \/ g = "live" /\ mode = "REAL_LIVE"
     \/ g = "calm" /\ ~tripped
     \/ g = "approved" /\ approval # 0 /\ approval = call[t].approval}

\* History: a guard that held at any moment since the call was entered.
Observe ==
  window' = [t \in Threads |-> (IF pc[t] = "idle" THEN {} ELSE window[t]) \cup Guards(t)']

\* Mutant of Required: any approval id will do, lapsed or not.
Required_AnyId(id) == id # 0

\* LiveApprovalGate.require of the order gate.
Required(id) == id # 0 /\ approval = id

\* A request thread enters preview, submit or cancel.  The approval id and, for
\* submit, the preview id it was given (0 is none) may be good, lapsed or unknown.
Enter(t) ==
  /\ pc[t] = "idle" /\ calls < MaxCalls
  /\ \E c \in CallArgs :
       /\ c.number = calls + 1
       /\ c.kind = "cancel" => c.within       \* no limit is checked
       /\ c.approval <= issued /\ (c.kind = "preview" => c.approval = 0)
       /\ c.preview <= calls /\ (c.kind # "submit" => c.preview = 0)
       /\ call' = [call EXCEPT ![t] = c]
  /\ calls' = calls + 1
  /\ Goto(t, "mode")
  /\ UNCHANGED <<envVars, gateVars, adapterVars, lmode, lsecret, ltoken, received, previews>>
  /\ Observe

\* Mutant of ReadMode: cancel goes on whatever the mode is.
ReadMode_CancelAnywhere(t) ==
  /\ pc[t] = "mode"
  /\ lmode' = [lmode EXCEPT ![t] = mode]
  /\ Goto(t, CASE call[t].kind = "preview" -> "risk"
               [] call[t].kind = "submit" -> IF call[t].preview # 0 THEN "lookup" ELSE "risk"
               [] call[t].kind = "cancel" -> "gate")
  /\ UNCHANGED <<envVars, gateVars, adapterVars, call, lsecret, ltoken, received, calls, previews>>
  /\ Observe

\* mode = controller.get_current_mode(); cancel is refused outside REAL_LIVE.
ReadMode(t) ==
  /\ pc[t] = "mode"
  /\ lmode' = [lmode EXCEPT ![t] = mode]
  /\ Goto(t, CASE call[t].kind = "preview" -> "risk"
               [] call[t].kind = "submit" -> IF call[t].preview # 0 THEN "lookup" ELSE "risk"
               [] call[t].kind = "cancel" -> IF mode = "REAL_LIVE" THEN "gate" ELSE "idle")
  /\ UNCHANGED <<envVars, gateVars, adapterVars, call, lsecret, ltoken, received, calls, previews>>
  /\ Observe

\* submit with a preview id: an unknown preview and a rejected one raise, and
\* the order is the previewed one, whatever the request says.
Lookup(t) ==
  /\ pc[t] = "lookup"
  /\ LET stored == {p \in previews : p.id = call[t].preview} IN
     \/ /\ \A p \in stored : ~p.approved
        /\ Goto(t, "idle") /\ UNCHANGED call
     \/ \E p \in stored :
          /\ p.approved
          /\ call' = [call EXCEPT ![t].order = p.order] /\ Goto(t, "risk")
  /\ UNCHANGED <<envVars, gateVars, adapterVars, lmode, lsecret, ltoken, received, calls, previews>>
  /\ Observe

\* An order whose risk is approved goes live or, when the mode it read was a
\* paper mode, leaves for the gateway: that is PaperGateway's Enter.
AfterRisk(t) == IF lmode[t] = "REAL_LIVE" THEN "gate" ELSE "idle"

\* preview keeps its result, under an id nobody knows before it returns.
Assessed(t, ok) ==
  IF call[t].kind = "preview"
    THEN /\ previews' = previews \cup
              {[id |-> call[t].number, order |-> call[t].order, approved |-> ok]}
         /\ Goto(t, "idle")
    ELSE Goto(t, IF ok THEN AfterRisk(t) ELSE "idle") /\ UNCHANGED previews

\* _assess_risk: the circuit breaker and the limits ...
AssessRisk(t) ==
  /\ pc[t] = "risk"
  /\ \/ (tripped \/ ~call[t].within) /\ Assessed(t, FALSE)
     \/ ~tripped /\ call[t].within /\ Goto(t, "risk_mode") /\ UNCHANGED previews
  /\ UNCHANGED <<envVars, gateVars, adapterVars, call, lmode, lsecret, ltoken, received, calls>>
  /\ Observe

\* ... then the mode again ...
RiskMode(t) ==
  /\ pc[t] = "risk_mode"
  /\ \/ mode # "REAL_LIVE" /\ Assessed(t, TRUE)
     \/ mode = "REAL_LIVE" /\ Goto(t, "skill") /\ UNCHANGED previews
  /\ UNCHANGED <<envVars, gateVars, adapterVars, call, lmode, lsecret, ltoken, received, calls>>
  /\ Observe

\* ... and assert_skill_allowed("skill-risk-circuit-breaker"), which reads the
\* mode once more.  When it is no longer REAL_LIVE it raises
\* EnvironmentTransitionError: _assess_risk does not catch that, so the call
\* ends with it and a preview keeps nothing.
CheckSkill(t) ==
  /\ pc[t] = "skill"
  /\ \/ mode = "REAL_LIVE" /\ Assessed(t, TRUE)
     \/ mode # "REAL_LIVE" /\ Goto(t, "idle") /\ UNCHANGED previews
  /\ UNCHANGED <<envVars, gateVars, adapterVars, call, lmode, lsecret, ltoken, received, calls>>
  /\ Observe

\* The facade's own order_approval_gate.require(approval_id).
RequireApproval(t) ==
  /\ pc[t] = "gate"
  /\ Goto(t, IF Required(call[t].approval) THEN "resolve" ELSE "idle")
  /\ UNCHANGED <<envVars, gateVars, adapterVars, call, lmode, lsecret, ltoken, received, calls,
                 previews>>
  /\ Observe

\* secret_broker.resolve, asked with the literal mode REAL_LIVE; a revoked
\* secret raises KeyError, before the try block.
ResolveSecret(t) ==
  /\ pc[t] = "resolve"
  /\ lsecret' = [lsecret EXCEPT ![t] = secret]
  /\ Goto(t, IF secret # 0 THEN "apply" ELSE "idle")
  /\ UNCHANGED <<envVars, gateVars, adapterVars, call, lmode, ltoken, received, calls, previews>>
  /\ Observe

\* The adapter's parser refuses the material: an error before the try block.
RejectSecret(t) ==
  /\ pc[t] = "apply"
  /\ Goto(t, "idle")
  /\ UNCHANGED <<envVars, gateVars, adapterVars, call, lmode, lsecret, ltoken, received, calls,
                 previews>>
  /\ Observe

\* adapter.apply_secret_material.
ApplySecret(t) ==
  /\ pc[t] = "apply"
  /\ credentials' = lsecret[t] /\ token' = 0 /\ ephemeral' = TRUE
  /\ Goto(t, "route")
  /\ UNCHANGED <<envVars, gateVars, broker, call, lmode, lsecret, ltoken, received, calls, previews>>
  /\ Observe

\* BrokerRouter._authorize: the mode it is given was read in ReadMode (or is
\* the literal REAL_LIVE), so only the approval is checked again.  The adapter
\* may refuse the order itself (_validate_order).
Authorize(t) ==
  /\ pc[t] = "route"
  /\ \/ Required(call[t].approval) /\ Goto(t, "request")
     \/ Goto(t, "clear")
  /\ UNCHANGED <<envVars, gateVars, adapterVars, call, lmode, lsecret, ltoken, received, calls,
                 previews>>
  /\ Observe

\* KbBrokerAdapter.submit and cancel raise before any request: the fields of a
\* KB order are not known.
KbRefuses(t) ==
  /\ pc[t] = "request" /\ broker = "kb"
  /\ Goto(t, "clear")
  /\ UNCHANGED <<envVars, gateVars, adapterVars, call, lmode, lsecret, ltoken, received, calls,
                 previews>>
  /\ Observe

\* Mutant of ReadCredentials: the account is taken from the store, not from
\* the credentials that were injected.
ReadCredentials_FromStore(t) ==
  /\ pc[t] = "request" /\ broker = "toss"
  /\ lsecret' = [lsecret EXCEPT ![t] = secret]
  /\ Goto(t, IF credentials # 0 THEN "token" ELSE "clear")
  /\ UNCHANGED <<envVars, gateVars, adapterVars, call, lmode, ltoken, received, calls, previews>>
  /\ Observe

\* _request: the credentials whose account goes into the header.
ReadCredentials(t) ==
  /\ pc[t] = "request" /\ broker = "toss"
  /\ lsecret' = [lsecret EXCEPT ![t] = credentials]
  /\ Goto(t, IF credentials # 0 THEN "token" ELSE "clear")
  /\ UNCHANGED <<envVars, gateVars, adapterVars, call, lmode, ltoken, received, calls, previews>>
  /\ Observe

\* _token_value: the credentials are read again; a cached token is used,
\* otherwise one is requested for them.
ReadToken(t) ==
  /\ pc[t] = "token"
  /\ \/ credentials = 0 /\ Goto(t, "clear") /\ UNCHANGED ltoken
     \/ /\ credentials # 0 /\ token # 0
        /\ ltoken' = [ltoken EXCEPT ![t] = token] /\ Goto(t, "post")
     \/ /\ credentials # 0 /\ token = 0
        /\ ltoken' = [ltoken EXCEPT ![t] = credentials] /\ Goto(t, "token_reply")
  /\ UNCHANGED <<envVars, gateVars, adapterVars, call, lmode, lsecret, received, calls, previews>>
  /\ Observe

\* The token endpoint answers, and the adapter caches the token; or it fails.
TokenReply(t) ==
  /\ pc[t] = "token_reply"
  /\ \/ token' = ltoken[t] /\ Goto(t, "post")
     \/ UNCHANGED token /\ Goto(t, "clear")
  /\ UNCHANGED <<envVars, gateVars, credentials, ephemeral, call, lmode, lsecret, ltoken,
                 received, calls, broker, previews>>
  /\ Observe

\* The request goes out.  The broker receives it, or it is lost on the way.
Post(t) ==
  /\ pc[t] = "post"
  /\ \/ received' = received \cup {[call |-> call[t], account |-> lsecret[t], token |-> ltoken[t]]}
     \/ UNCHANGED received
  /\ Goto(t, "reply")
  /\ UNCHANGED <<envVars, gateVars, adapterVars, call, lmode, lsecret, ltoken, calls, previews>>
  /\ Observe

\* The answer, a refusal by the broker, or a timeout: TossApiError in the last
\* case.  All of them go through the finally block.
Reply(t) ==
  /\ pc[t] = "reply"
  /\ Goto(t, "clear")
  /\ UNCHANGED <<envVars, gateVars, adapterVars, call, lmode, lsecret, ltoken, received, calls,
                 previews>>
  /\ Observe

\* Mutant of ClearSecret: the token of the injected credentials stays cached.
ClearSecret_KeepsToken(t) ==
  /\ pc[t] = "clear"
  /\ credentials' = BaseSecret /\ ephemeral' = FALSE
  /\ Goto(t, "idle")
  /\ UNCHANGED <<envVars, gateVars, broker, token, call, lmode, lsecret, ltoken, received, calls,
                 previews>>
  /\ Observe

\* adapter.clear_secret_material in the finally block; then the call ends.
ClearSecret(t) ==
  /\ pc[t] = "clear"
  /\ IF ephemeral
     THEN credentials' = BaseSecret /\ token' = 0 /\ ephemeral' = FALSE
     ELSE UNCHANGED <<credentials, token, ephemeral>>
  /\ Goto(t, "idle")
  /\ UNCHANGED <<envVars, gateVars, broker, call, lmode, lsecret, ltoken, received, calls, previews>>
  /\ Observe

Step(t) ==
  \/ ReadMode(t) \/ Lookup(t) \/ AssessRisk(t) \/ RiskMode(t) \/ CheckSkill(t)
  \/ RequireApproval(t) \/ ResolveSecret(t) \/ RejectSecret(t) \/ ApplySecret(t) \/ Authorize(t) \/ KbRefuses(t)
  \/ ReadCredentials(t) \/ ReadToken(t) \/ TokenReply(t) \/ Post(t) \/ Reply(t) \/ ClearSecret(t)
-----------------------------------------------------------------------------
(* Operators.                                                              *)
threadVars == <<pc, call, lmode, lsecret, ltoken, received, calls, previews>>

\* approve and revoke of the promotion gate.
ApprovePromotion ==
  /\ promotion' = "granted"
  /\ UNCHANGED <<mode, pending, gateVars, adapterVars, threadVars>>
  /\ Observe

RevokePromotion ==
  /\ promotion' = IF promotion = "granted" THEN "revoked" ELSE promotion
  /\ UNCHANGED <<mode, pending, gateVars, adapterVars, threadVars>>
  /\ Observe

\* Mutant of SetLiveRequire: the promotion gate is not asked.
SetLiveRequire_Unchecked ==
  /\ ~pending
  /\ pending' = TRUE
  /\ UNCHANGED <<mode, promotion, gateVars, adapterVars, threadVars>>
  /\ Observe

\* set_mode(REAL_LIVE): the gate is asked before the lock is taken ...
SetLiveRequire ==
  /\ ~pending /\ promotion = "granted"
  /\ pending' = TRUE
  /\ UNCHANGED <<mode, promotion, gateVars, adapterVars, threadVars>>
  /\ Observe

\* ... and the mode is written under the lock.
SetLiveWrite ==
  /\ pending
  /\ pending' = FALSE /\ mode' = "REAL_LIVE"
  /\ UNCHANGED <<promotion, gateVars, adapterVars, threadVars>>
  /\ Observe

\* set_mode(PAPER_SANDBOX) or set_mode(VIRTUAL_BACKTEST) asks no gate.
SetPaper ==
  /\ mode' = "PAPER_SANDBOX"
  /\ UNCHANGED <<promotion, pending, gateVars, adapterVars, threadVars>>
  /\ Observe

\* approve of the order gate: a fresh random id replaces the one before.  Ids
\* are numbered in the order they are drawn; issued only keeps them apart.
IssueApproval ==
  /\ issued < MaxApprovals
  /\ issued' = issued + 1 /\ approval' = issued + 1
  /\ UNCHANGED <<envVars, tripped, secret, adapterVars, threadVars>>
  /\ Observe

\* revoke of the order gate, or the end of the approval's TTL.
LapseApproval ==
  /\ approval' = 0
  /\ UNCHANGED <<envVars, issued, tripped, secret, adapterVars, threadVars>>
  /\ Observe

\* trip and reset of the circuit breaker.
SetBreaker ==
  /\ tripped' = ~tripped
  /\ UNCHANGED <<envVars, approval, issued, secret, adapterVars, threadVars>>
  /\ Observe

\* The secret store is given a new version of the broker secret, or loses it.
RotateSecret ==
  /\ secret' \in {0, secret + 1} \cap Secrets
  /\ UNCHANGED <<envVars, approval, issued, tripped, adapterVars, threadVars>>
  /\ Observe

Operator ==
  \/ ApprovePromotion \/ RevokePromotion \/ SetLiveRequire \/ SetLiveWrite \/ SetPaper
  \/ IssueApproval \/ LapseApproval \/ SetBreaker \/ RotateSecret

Next == Operator \/ \E t \in Threads : Enter(t) \/ Step(t)

Spec == Init /\ [][Next]_vars

-----------------------------------------------------------------------------
(* Properties.                                                             *)

\* The values of every variable.
Types ==
  /\ mode \in Modes /\ promotion \in {"none", "granted", "revoked"} /\ pending \in BOOLEAN
  /\ approval \in 0..issued /\ issued \in 0..MaxApprovals
  /\ tripped \in BOOLEAN /\ secret \in Secrets
  /\ broker \in {"toss", "kb"}
  /\ credentials \in Secrets /\ token \in Secrets /\ ephemeral \in BOOLEAN
  /\ previews \subseteq OrderPreview
  /\ pc \in [Threads -> Places]
  /\ call \in [Threads -> CallArgs]
  /\ lmode \in [Threads -> Modes]
  /\ lsecret \in [Threads -> Secrets]
  /\ ltoken \in [Threads -> Secrets]
  /\ received \subseteq Receipt
  /\ window \in [Threads -> SUBSET {"live", "calm", "approved"}]
  /\ calls \in 0..MaxCalls

\* The places that only a REAL_LIVE call of the facade reaches.
Facing == {"gate", "resolve", "apply", "route", "request", "token", "token_reply", "post", "reply",
           "clear"}

\* TypeOK: every variable keeps its type; only a call that read REAL_LIVE gets
\* past the facade's mode test, a cancel included; and a call about to post has
\* an account and a token to send.
TypeOK ==
  /\ Types
  /\ \A t \in Threads : pc[t] \in Facing => lmode[t] = "REAL_LIVE"
  /\ \A t \in Threads : pc[t] = "post" => lsecret[t] # 0 /\ ltoken[t] # 0

GuardsOf(kind) == IF kind = "submit" THEN {"live", "calm", "approved"} ELSE {"live", "approved"}

\* The order of a call that names a preview is the previewed and approved one.
AsPreviewed(t) ==
  call[t].preview # 0 =>
    \E p \in previews : p.id = call[t].preview /\ p.approved /\ p.order = call[t].order

\* GuardedSend: nothing goes to the broker unless, at some moment of that very
\* call, the environment was REAL_LIVE, the call's approval was the current
\* one and, for an order, the circuit breaker was not tripped.  So a lapsed
\* approval, a demotion or a trip stops every call that comes after it, and an
\* earlier preview replaces none of the guards: it only says which order may go.
GuardedSend ==
  \A t \in Threads :
    pc[t] = "post" => GuardsOf(call[t].kind) \subseteq window[t] /\ AsPreviewed(t)

Live(t) == pc[t] \in {"route", "request", "token", "token_reply", "post", "reply", "clear"}

\* CredentialsDropped: when no live call holds the adapter, it is back to the
\* credentials it was built with, and caches no token of the injected ones.
CredentialsDropped ==
  (\A t \in Threads : ~Live(t)) => credentials = BaseSecret /\ token = 0 /\ ~ephemeral

\* OneIdentity: a request to the broker carries the account and the token of
\* the same secret, also when the secret is rotated while the call runs.
OneIdentity == \A r \in received : r.account = r.token /\ r.token # 0

\* LiveWasApproved: the environment is REAL_LIVE, from startup or from
\* set_mode, only after a human approval of the promotion was given.
LiveWasApproved == mode = "REAL_LIVE" => promotion # "none"
=============================================================================
