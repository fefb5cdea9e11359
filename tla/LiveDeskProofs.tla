---------------------------- MODULE LiveDeskProofs ----------------------------
(***************************************************************************)
(* What the live path guarantees with any number of request threads, and   *)
(* what it guarantees when there is one thread only.                       *)
(***************************************************************************)
EXTENDS LiveDesk, TLAPS

\* The places of a call past the risk check, the mode check and the approval.
Calmed == {"risk_mode", "skill", "gate", "resolve", "apply", "route", "request", "token", "token_reply",
           "post"}
Routed == {"gate", "resolve", "apply", "route", "request", "token", "token_reply", "post"}
Approved == {"resolve", "apply", "route", "request", "token", "token_reply", "post"}

\* The guards a call has passed on its way have held during that call; at the
\* risk check this is known of the mode only through the local copy of it.
Guarded ==
  \A t \in Threads :
    /\ call[t].kind = "submit" /\ pc[t] \in Calmed => "calm" \in window[t]
    /\ pc[t] \in {"lookup", "risk", "risk_mode", "skill"} /\ lmode[t] = "REAL_LIVE" => "live" \in window[t]
    /\ pc[t] \in {"lookup", "risk", "risk_mode", "skill"} => call[t].kind \in {"preview", "submit"}
    /\ pc[t] \in Routed => "live" \in window[t]
    /\ pc[t] \in Approved => "approved" \in window[t]

\* Only submit names a preview, and past the look-up the order is the
\* previewed one.
Named ==
  \A t \in Threads :
    /\ call[t].kind # "submit" => call[t].preview = 0
    /\ pc[t] = "lookup" => call[t].preview # 0
    /\ pc[t] \notin {"idle", "mode", "lookup"} => AsPreviewed(t)

\* REAL_LIVE, or a set_mode past its require(), had a promotion approval.
Promoted == (mode = "REAL_LIVE" \/ pending) => promotion # "none"

IInv == Types /\ Guarded /\ Named /\ Promoted

\* No thread is in a call at startup, and REAL_LIVE needs a granted promotion.
LEMMA InitIInv == Init => IInv
<1> SUFFICES ASSUME Init PROVE IInv
  OBVIOUS
<1> USE LiveAssumption DEF Init, Secrets
<1>1. (CHOOSE o \in Orders : TRUE) \in Orders
  OBVIOUS
<1>2. Types
  <2>1. call \in [Threads -> CallArgs]
    BY <1>1 DEF CallArgs, Kinds
  <2>2. window \in [Threads -> SUBSET {"live", "calm", "approved"}] /\ received \subseteq Receipt
    OBVIOUS
  <2>3. pc \in [Threads -> Places] /\ lmode \in [Threads -> Modes]
    BY DEF Places, Modes
  <2>4. pending \in BOOLEAN /\ tripped \in BOOLEAN /\ ephemeral \in BOOLEAN
    OBVIOUS
  <2>5. /\ approval \in 0..issued /\ issued \in 0..MaxApprovals /\ secret \in Secrets
        /\ credentials \in Secrets /\ token \in Secrets /\ calls \in 0..MaxCalls
    OBVIOUS
  <2>6. lsecret \in [Threads -> Secrets] /\ ltoken \in [Threads -> Secrets]
    OBVIOUS
  <2>7. /\ mode \in Modes /\ promotion \in {"none", "granted", "revoked"}
        /\ broker \in {"toss", "kb"} /\ previews \subseteq OrderPreview
    OBVIOUS
  <2>8. QED
    BY <2>1, <2>2, <2>3, <2>4, <2>5, <2>6, <2>7, Zenon DEF Types
<1>3. Guarded /\ Named /\ Promoted
  BY DEF Guarded, Named, AsPreviewed, Promoted, Calmed, Routed, Approved
<1>4. QED
  BY <1>2, <1>3 DEF IInv

\* The window of a thread in a call only grows, and holds what holds now.
LEMMA ObserveWindow ==
  ASSUME Observe
  PROVE  \A t \in Threads :
           /\ window'[t] \subseteq {"live", "calm", "approved"} \/ pc[t] # "idle"
           /\ pc[t] # "idle" => window[t] \subseteq window'[t]
           /\ mode' = "REAL_LIVE" => "live" \in window'[t]
           /\ ~tripped' => "calm" \in window'[t]
           /\ approval' # 0 /\ approval' = call'[t].approval => "approved" \in window'[t]
  BY DEF Observe, Guards

\* The history variable keeps its type.
LEMMA ObserveType ==
  ASSUME Types, Observe
  PROVE  window' \in [Threads -> SUBSET {"live", "calm", "approved"}]
  BY DEF Types, Observe, Guards

\* Every step of a request thread and of an operator keeps the invariant.
LEMMA NextIInv == IInv /\ [Next]_vars => IInv'
<1> SUFFICES ASSUME IInv, [Next]_vars PROVE IInv'
  OBVIOUS
<1> USE LiveAssumption DEF IInv, Guarded, Promoted, Goto, Calmed, Routed, Approved
<1> DEFINE Grows == \A t \in Threads :
             /\ pc[t] # "idle" => window[t] \subseteq window'[t]
             /\ mode' = "REAL_LIVE" => "live" \in window'[t]
             /\ ~tripped' => "calm" \in window'[t]
             /\ approval' # 0 /\ approval' = call'[t].approval => "approved" \in window'[t]
<1>g. ASSUME Observe PROVE Grows /\ window' \in [Threads -> SUBSET {"live", "calm", "approved"}]
  BY <1>g, ObserveWindow, ObserveType
<1>1. ASSUME NEW t \in Threads, Enter(t) PROVE IInv'
  <2> USE <1>1 DEF Enter, envVars, gateVars, adapterVars
  <2>0. PICK c \in CallArgs :
          /\ c.kind # "submit" => c.preview = 0
          /\ call' = [call EXCEPT ![t] = c]
    OBVIOUS
  <2>1. Types'
    <3>1. call' \in [Threads -> CallArgs] /\ calls' \in 0..MaxCalls
      BY <2>0 DEF Types
    <3>2. QED
      BY <1>g, <3>1 DEF Types, Places
  <2>2. Guarded'
    BY <1>g DEF Types
  <2>3. Named'
    BY <2>0 DEF Types, Named, AsPreviewed
  <2>4. QED
    BY <2>1, <2>2, <2>3
<1>l. ASSUME NEW t \in Threads, Lookup(t) PROVE IInv'
  <2> USE <1>l DEF Lookup, envVars, gateVars, adapterVars
  <2>1. /\ UNCHANGED <<mode, promotion, pending, approval, issued, tripped, secret, broker, credentials,
                       token, ephemeral, previews, lmode, lsecret, ltoken, received, calls>>
        /\ Observe /\ pc[t] = "lookup"
    OBVIOUS
  <2>2. CASE pc' = [pc EXCEPT ![t] = "idle"] /\ UNCHANGED call
    <3>1. Types'
      BY <1>g, <2>1, <2>2 DEF Types, Places
    <3>2. Guarded' /\ Named'
      BY <1>g, <2>1, <2>2 DEF Types, Named, AsPreviewed
    <3>3. QED
      BY <2>1, <3>1, <3>2
  <2>3. ASSUME NEW p \in previews, p.id = call[t].preview, p.approved,
               call' = [call EXCEPT ![t].order = p.order], pc' = [pc EXCEPT ![t] = "risk"]
        PROVE  IInv'
    <3>1. p.order \in Orders
      BY DEF Types, OrderPreview
    <3>2. call' \in [Threads -> CallArgs]
      BY <2>3, <3>1 DEF Types, CallArgs
    <3>3. /\ call'[t].preview = call[t].preview /\ call'[t].kind = call[t].kind
          /\ call'[t].order = p.order /\ call'[t].approval = call[t].approval
      BY <2>3 DEF Types, CallArgs
    <3>4. \A u \in Threads : u # t => call'[u] = call[u] /\ pc'[u] = pc[u]
      BY <2>3 DEF Types
    <3>5. pc' \in [Threads -> Places] /\ pc'[t] = "risk"
      BY <2>3 DEF Types, Places
    <3>6. Types'
      BY <1>g, <2>1, <3>2, <3>5 DEF Types
    <3>7. Guarded'
      BY <1>g, <2>1, <3>3, <3>4, <3>5
    <3>8. Named'
      BY <2>1, <2>3, <3>3, <3>4, <3>5 DEF Named, AsPreviewed
    <3>9. QED
      BY <2>1, <3>6, <3>7, <3>8
  <2>4. QED
    BY <2>2, <2>3
<1>a. ASSUME NEW t \in Threads, NEW ok, Assessed(t, ok), ok \in BOOLEAN
      PROVE  /\ previews \subseteq previews' /\ previews' \subseteq OrderPreview
             /\ pc' \in [Threads -> Places] /\ \A u \in Threads : u # t => pc'[u] = pc[u]
             /\ pc'[t] = "idle" \/ (/\ pc'[t] = "gate" /\ ok /\ lmode[t] = "REAL_LIVE"
                                     /\ call[t].kind # "preview")
  <2>1. [id |-> call[t].number, order |-> call[t].order, approved |-> ok] \in OrderPreview
    BY <1>a DEF Types, CallArgs, OrderPreview
  <2>2. QED
    BY <1>a, <2>1 DEF Assessed, AfterRisk, Types, Places
<1>r. ASSUME NEW t \in Threads, AssessRisk(t) \/ RiskMode(t) \/ CheckSkill(t) PROVE IInv'
  <2>1. /\ UNCHANGED <<mode, promotion, pending, approval, issued, tripped, secret, broker, credentials,
                       token, ephemeral, call, lmode, lsecret, ltoken, received, calls>>
        /\ Observe /\ pc[t] \in {"risk", "risk_mode", "skill"}
    BY <1>r DEF AssessRisk, RiskMode, CheckSkill, envVars, gateVars, adapterVars
  <2>2. /\ previews \subseteq previews' /\ previews' \subseteq OrderPreview
        /\ pc' \in [Threads -> Places] /\ \A u \in Threads : u # t => pc'[u] = pc[u]
        /\ \/ pc'[t] = "idle"
           \/ pc'[t] = "risk_mode" /\ ~tripped
           \/ pc'[t] = "skill" /\ pc[t] = "risk_mode"
           \/ pc'[t] = "gate" /\ lmode[t] = "REAL_LIVE" /\ pc[t] \in {"risk_mode", "skill"}
    <3>1. CASE AssessRisk(t)
      BY <1>a, <3>1 DEF AssessRisk, Types, Places
    <3>2. CASE RiskMode(t)
      BY <1>a, <3>2 DEF RiskMode, Types, Places
    <3>3. CASE CheckSkill(t)
      BY <1>a, <3>3 DEF CheckSkill, Types, Places
    <3>4. QED
      BY <1>r, <3>1, <3>2, <3>3
  <2>3. Types'
    BY <1>g, <2>1, <2>2 DEF Types
  <2>4. Guarded'
    BY <1>g, <2>1, <2>2
  <2>5. Named'
    BY <2>1, <2>2 DEF Named, AsPreviewed
  <2>6. QED
    BY <2>1, <2>3, <2>4, <2>5
<1>m. ASSUME NEW t \in Threads, ReadMode(t) PROVE IInv'
  <2>u. /\ UNCHANGED <<mode, promotion, pending, approval, issued, tripped, secret, broker, credentials,
                       token, ephemeral, previews, call, lsecret, ltoken, received, calls>>
        /\ lmode' = [lmode EXCEPT ![t] = mode] /\ Observe /\ pc[t] = "mode"
    BY <1>m DEF ReadMode, envVars, gateVars, adapterVars
  <2>0. call[t].kind \in {"preview", "submit", "cancel"}
    BY DEF Types, CallArgs, Kinds
  <2>1. PICK q \in {"risk", "lookup", "gate", "idle"} :
          /\ pc' = [pc EXCEPT ![t] = q]
          /\ q \in {"risk", "lookup"} => call[t].kind \in {"preview", "submit"}
          /\ q = "lookup" => call[t].preview # 0
          /\ q = "risk" => call[t].preview = 0 \/ call[t].kind = "preview"
          /\ q = "gate" => call[t].kind = "cancel" /\ mode = "REAL_LIVE"
    BY <1>m, <2>0 DEF ReadMode
  <2>2. Types'
    <3>1. pc' \in [Threads -> Places] /\ lmode' \in [Threads -> Modes]
      BY <2>u, <2>1 DEF Types, Places
    <3>2. QED
      BY <1>g, <2>u, <3>1 DEF Types
  <2>3. Guarded'
    BY <1>g, <2>u, <2>1 DEF Types
  <2>4. Named'
    BY <2>u, <2>1 DEF Types, Named, AsPreviewed
  <2>5. QED
    BY <2>u, <2>2, <2>3, <2>4
<1>2. ASSUME NEW t \in Threads, RequireApproval(t) \/ ResolveSecret(t) \/ RejectSecret(t)
      PROVE  IInv'
  <2> USE <1>2 DEF RequireApproval, ResolveSecret, RejectSecret, Required, envVars, gateVars, adapterVars
  <2>1. Types'
    BY <1>g DEF Types, Places
  <2>2. Guarded'
    BY <1>g DEF Types
  <2>3. Named'
    BY DEF Types, Named, AsPreviewed
  <2>4. QED
    BY <2>1, <2>2, <2>3
<1>3. ASSUME NEW t \in Threads,
             ApplySecret(t) \/ Authorize(t) \/ KbRefuses(t) \/ ReadCredentials(t) \/ ReadToken(t)
               \/ TokenReply(t)
      PROVE  IInv'
  <2> USE <1>3 DEF ApplySecret, Authorize, KbRefuses, ReadCredentials, ReadToken, TokenReply,
                   Required, envVars, gateVars, adapterVars
  <2>1. credentials' \in Secrets /\ token' \in Secrets /\ ephemeral' \in BOOLEAN
    <3>1. credentials' \in Secrets /\ token' \in Secrets
      BY DEF Types, Secrets
    <3>2. ephemeral' \in BOOLEAN
      BY Zenon DEF Types
    <3>3. QED
      BY <3>1, <3>2
  <2>2. lsecret' \in [Threads -> Secrets] /\ ltoken' \in [Threads -> Secrets]
    BY DEF Types, Secrets
  <2>3. pc' \in [Threads -> Places]
    BY DEF Types, Places
  <2>4. UNCHANGED <<mode, promotion, pending, approval, issued, tripped, secret, call, lmode,
                    received, calls, broker, previews>> /\ Observe
    OBVIOUS
  <2>5. Types'
    BY <1>g, <2>1, <2>2, <2>3, <2>4 DEF Types
  <2>6. Guarded'
    BY <1>g DEF Types
  <2>7. Named'
    BY <2>4 DEF Types, Named, AsPreviewed
  <2>8. QED
    BY <2>4, <2>5, <2>6, <2>7
<1>4. ASSUME NEW t \in Threads, Post(t) \/ Reply(t) \/ ClearSecret(t) PROVE IInv'
  <2> USE <1>4 DEF Post, Reply, ClearSecret, envVars, gateVars, adapterVars
  <2>1. received' \subseteq Receipt
    BY DEF Types, Receipt
  <2>2. credentials' \in Secrets /\ token' \in Secrets /\ ephemeral' \in BOOLEAN
    <3>1. credentials' \in Secrets /\ token' \in Secrets
      BY DEF Types, Secrets
    <3>2. ephemeral' \in BOOLEAN
      BY Zenon DEF Types
    <3>3. QED
      BY <3>1, <3>2
  <2>3. pc' \in [Threads -> Places]
    BY DEF Types, Places
  <2>4. UNCHANGED <<mode, promotion, pending, approval, issued, tripped, secret, call, lmode,
                    lsecret, ltoken, calls, broker, previews>> /\ Observe
    OBVIOUS
  <2>5. Types'
    BY <1>g, <2>1, <2>2, <2>3, <2>4 DEF Types
  <2>6. Guarded'
    BY <1>g DEF Types
  <2>7. Named'
    BY <2>4 DEF Types, Named, AsPreviewed
  <2>8. QED
    BY <2>4, <2>5, <2>6, <2>7
<1>5. CASE Operator
  <2> USE DEF gateVars, envVars, adapterVars, threadVars
  <2>1. ASSUME ApprovePromotion \/ RevokePromotion \/ SetLiveRequire \/ SetLiveWrite \/ SetPaper
        PROVE  IInv'
    <3> USE <2>1 DEF ApprovePromotion, RevokePromotion, SetLiveRequire, SetLiveWrite, SetPaper
    <3>1. Types'
      <4>1. /\ mode' \in Modes /\ promotion' \in {"none", "granted", "revoked"}
            /\ UNCHANGED <<approval, issued, tripped, secret, broker, credentials, token, ephemeral,
                           previews, pc, call, lmode, lsecret, ltoken, received, calls>>
            /\ Observe
        BY DEF Types, Modes
      <4>2. pending' \in BOOLEAN
        BY Zenon DEF Types
      <4>3. QED
        BY <1>g, <4>1, <4>2 DEF Types
    <3>2. Guarded' /\ Named' /\ Promoted'
      BY <1>g DEF Types, Named, AsPreviewed
    <3>3. QED
      BY <3>1, <3>2
  <2>2. ASSUME IssueApproval \/ LapseApproval \/ RotateSecret PROVE IInv'
    <3> USE <2>2 DEF IssueApproval, LapseApproval, RotateSecret
    <3>1. Types'
      BY <1>g DEF Types, Secrets
    <3>2. Guarded' /\ Named'
      BY <1>g DEF Types, Named, AsPreviewed
    <3>3. QED
      BY <3>1, <3>2
  <2>3. ASSUME SetBreaker PROVE IInv'
    <3> USE <2>3 DEF SetBreaker
    <3>1. tripped' \in BOOLEAN
      OBVIOUS
    <3>2. Types'
      BY <1>g, <3>1 DEF Types
    <3>3. Guarded' /\ Named'
      BY <1>g DEF Types, Named, AsPreviewed
    <3>4. QED
      BY <3>2, <3>3
  <2>4. QED
    BY <1>5, <2>1, <2>2, <2>3 DEF Operator
<1>6. CASE UNCHANGED vars
  BY <1>6 DEF vars, Types, Named, AsPreviewed
<1>7. QED
  BY <1>1, <1>m, <1>l, <1>r, <1>2, <1>3, <1>4, <1>5, <1>6 DEF Next, Step

\* The inductive invariant holds with any number of threads and any operators.
LEMMA SpecIInv == Spec => []IInv
  BY InitIInv, NextIInv, PTL DEF Spec

\* What a call has in its locals past the mode test, and on its way to the
\* request.
Locals ==
  \A t \in Threads :
    /\ pc[t] \in Facing => lmode[t] = "REAL_LIVE"
    /\ pc[t] \in {"token", "token_reply", "post"} => lsecret[t] # 0
    /\ pc[t] \in {"token_reply", "post"} => ltoken[t] # 0

\* Locals are the thread's own: only its own steps change them, and each step
\* that goes further has tested what it read.
LEMMA NextLocals == IInv /\ Locals /\ [Next]_vars => Locals'
<1> SUFFICES ASSUME IInv, Locals, [Next]_vars PROVE Locals'
  OBVIOUS
<1>t. /\ pc \in [Threads -> Places] /\ lmode \in [Threads -> Modes]
      /\ lsecret \in [Threads -> Secrets] /\ ltoken \in [Threads -> Secrets]
      /\ call \in [Threads -> CallArgs]
  BY DEF IInv, Types
<1> USE <1>t DEF Locals, Facing, Goto
<1>1. ASSUME NEW t \in Threads, Enter(t) \/ Lookup(t) \/ ReadMode(t) PROVE Locals'
  <2>1. call[t].kind \in {"preview", "submit", "cancel"}
    BY DEF CallArgs, Kinds
  <2>2. CASE ReadMode(t)
    BY <2>1, <2>2 DEF ReadMode
  <2>3. CASE Enter(t) \/ Lookup(t)
    BY <2>3 DEF Enter, Lookup
  <2>4. QED
    BY <1>1, <2>2, <2>3
<1>2. ASSUME NEW t \in Threads, AssessRisk(t) \/ RiskMode(t) \/ CheckSkill(t) PROVE Locals'
  BY <1>2 DEF AssessRisk, RiskMode, CheckSkill, Assessed, AfterRisk
<1>3. ASSUME NEW t \in Threads, RequireApproval(t) \/ ResolveSecret(t) \/ RejectSecret(t)
               \/ ApplySecret(t) \/ Authorize(t) \/ KbRefuses(t)
      PROVE  Locals'
  BY <1>3 DEF RequireApproval, ResolveSecret, RejectSecret, ApplySecret, Authorize, KbRefuses
<1>4. ASSUME NEW t \in Threads, ReadCredentials(t) \/ ReadToken(t) \/ TokenReply(t) PROVE Locals'
  BY <1>4 DEF ReadCredentials, ReadToken, TokenReply
<1>5. ASSUME NEW t \in Threads, Post(t) \/ Reply(t) \/ ClearSecret(t) PROVE Locals'
  BY <1>5 DEF Post, Reply, ClearSecret
<1>6. CASE Operator
  BY <1>6 DEF Operator, ApprovePromotion, RevokePromotion, SetLiveRequire, SetLiveWrite, SetPaper,
              IssueApproval, LapseApproval, SetBreaker, RotateSecret, threadVars
<1>7. CASE UNCHANGED vars
  BY <1>7 DEF vars
<1>8. QED
  BY <1>1, <1>2, <1>3, <1>4, <1>5, <1>6, <1>7 DEF Next, Step

\* The type invariant of the live path: with any number of threads, a call
\* past the mode test read REAL_LIVE, and one about to post has an account
\* and a token.
THEOREM LiveTypeCorrect == Spec => []TypeOK
<1>1. Init => Locals
  BY DEF Init, Locals, Facing
<1>2. IInv /\ Locals => TypeOK
  BY DEF IInv, Locals, TypeOK
<1>3. QED
  BY <1>1, <1>2, NextLocals, SpecIInv, PTL DEF Spec

\* No request leaves for the broker unless the environment was REAL_LIVE, the
\* call's approval was current and, for an order, the breaker was not tripped,
\* each at a moment of that call: for any number of threads that share the
\* facade, and whatever the operators do meanwhile.
THEOREM LiveSendsAreGuarded == Spec => []GuardedSend
<1>1. IInv => GuardedSend
  BY DEF IInv, Types, CallArgs, Guarded, Named, GuardedSend, GuardsOf, Calmed, Routed, Approved
<1>2. QED
  BY <1>1, SpecIInv, PTL

\* REAL_LIVE is never entered without an approval of the promotion, although
\* set_mode asks the gate before it takes the lock.
THEOREM LiveModeWasApproved == Spec => []LiveWasApproved
<1>1. IInv => LiveWasApproved
  BY DEF IInv, Promoted, LiveWasApproved
<1>2. QED
  BY <1>1, SpecIInv, PTL

-----------------------------------------------------------------------------
(* One request thread.                                                     *)
OneThread == \A t, u \in Threads : t = u

\* What a single call knows of the adapter at each place between its
\* apply_secret_material and its clear_secret_material.
Injected ==
  \A t \in Threads :
    /\ pc[t] = "apply" => lsecret[t] # 0
    /\ Live(t) => ephemeral = TRUE
    /\ pc[t] \in {"route", "request", "token", "token_reply"} => credentials # 0 /\ token = 0
    /\ pc[t] \in {"token", "token_reply"} => lsecret[t] = credentials
    /\ pc[t] = "token_reply" => ltoken[t] = credentials
    /\ pc[t] = "post" => ltoken[t] = lsecret[t] /\ ltoken[t] # 0

\* Outside a live call the adapter has its own credentials and no token.
Dropped == (\A t \in Threads : ~Live(t)) => credentials = BaseSecret /\ token = 0 /\ ephemeral = FALSE

SoloInv == Injected /\ Dropped /\ OneIdentity

\* The adapter starts with the credentials it was built with.
LEMMA InitSolo == Init => SoloInv
  BY DEF Init, SoloInv, Injected, Dropped, OneIdentity, Live

\* A single thread's steps, and the operators', keep what it knows.
LEMMA NextSolo == OneThread /\ IInv /\ SoloInv /\ [Next]_vars => SoloInv'
<1> SUFFICES ASSUME OneThread, IInv, SoloInv, [Next]_vars PROVE SoloInv'
  OBVIOUS
<1>t. /\ pc \in [Threads -> Places] /\ lsecret \in [Threads -> Secrets] /\ ltoken \in [Threads -> Secrets]
  BY DEF IInv, Types
<1> USE <1>t DEF OneThread, SoloInv, Injected, Dropped, OneIdentity, Live, Goto
<1>1. ASSUME NEW t \in Threads,
             Enter(t) \/ ReadMode(t) \/ Lookup(t) \/ AssessRisk(t) \/ RiskMode(t)
               \/ CheckSkill(t) \/ RequireApproval(t) \/ ResolveSecret(t)
      PROVE  SoloInv'
  <2>1. CASE ResolveSecret(t)
    BY <2>1 DEF ResolveSecret, adapterVars
  <2>2. CASE Enter(t) \/ ReadMode(t) \/ Lookup(t) \/ RequireApproval(t)
    <3>1. PICK q \in {"mode", "lookup", "risk", "gate", "resolve", "idle"} :
            pc' = [pc EXCEPT ![t] = q]
      <4>1. call[t].kind \in {"preview", "submit", "cancel"}
        BY DEF IInv, Types, CallArgs, Kinds
      <4>2. QED
        BY <2>2, <4>1 DEF Enter, ReadMode, Lookup, RequireApproval
    <3>2. UNCHANGED <<credentials, token, ephemeral, lsecret, ltoken, received>> /\ ~Live(t)
      BY <2>2 DEF Enter, ReadMode, Lookup, RequireApproval, adapterVars
    <3>3. QED
      BY <3>1, <3>2
  <2>3. CASE AssessRisk(t) \/ RiskMode(t) \/ CheckSkill(t)
    <3>1. PICK q \in {"risk_mode", "skill", "gate", "idle"} : pc' = [pc EXCEPT ![t] = q]
      BY <2>3 DEF AssessRisk, RiskMode, CheckSkill, Assessed, AfterRisk
    <3>2. UNCHANGED <<credentials, token, ephemeral, lsecret, ltoken, received>> /\ ~Live(t)
      BY <2>3 DEF AssessRisk, RiskMode, CheckSkill, adapterVars
    <3>3. QED
      BY <3>1, <3>2
  <2>4. QED
    BY <1>1, <2>1, <2>2, <2>3
<1>2. ASSUME NEW t \in Threads, RejectSecret(t) \/ ApplySecret(t) \/ Authorize(t) \/ KbRefuses(t)
               \/ ReadCredentials(t)
      PROVE  SoloInv'
  BY <1>2 DEF RejectSecret, ApplySecret, Authorize, KbRefuses, ReadCredentials, adapterVars
<1>3. ASSUME NEW t \in Threads, ReadToken(t) \/ TokenReply(t) PROVE SoloInv'
  BY <1>3 DEF ReadToken, TokenReply, adapterVars
<1>4. ASSUME NEW t \in Threads, Post(t) \/ Reply(t) PROVE SoloInv'
  BY <1>4 DEF Post, Reply, adapterVars
<1>5. ASSUME NEW t \in Threads, ClearSecret(t) PROVE SoloInv'
  BY <1>5 DEF ClearSecret
<1>6. CASE Operator
  BY <1>6 DEF Operator, ApprovePromotion, RevokePromotion, SetLiveRequire, SetLiveWrite, SetPaper,
              IssueApproval, LapseApproval, SetBreaker, RotateSecret, adapterVars, threadVars
<1>7. CASE UNCHANGED vars
  BY <1>7 DEF vars
<1>8. QED
  BY <1>1, <1>2, <1>3, <1>4, <1>5, <1>6, <1>7 DEF Next, Step

\* With one thread, the adapter's fields follow that thread's calls.
LEMMA SpecSolo == OneThread /\ Spec => []SoloInv
<1>1. SUFFICES ASSUME OneThread PROVE Spec => []SoloInv
  OBVIOUS
<1>2. IInv /\ SoloInv /\ [Next]_vars => SoloInv'
  BY <1>1, NextSolo
<1>3. QED
  BY <1>2, InitSolo, SpecIInv, PTL DEF Spec

\* With one request thread, a request never mixes the account of one secret
\* with the token of another, however the secret is rotated meanwhile.
THEOREM SoloOneIdentity == OneThread /\ Spec => []OneIdentity
<1>1. SoloInv => OneIdentity
  BY DEF SoloInv
<1>2. QED
  BY <1>1, SpecSolo, PTL

\* With one request thread, clear_secret_material leaves nothing of the
\* injected credentials behind, whichever way the call ends.
THEOREM SoloCredentialsDropped == OneThread /\ Spec => []CredentialsDropped
<1>1. SoloInv => CredentialsDropped
  BY DEF SoloInv, Dropped, CredentialsDropped
<1>2. QED
  BY <1>1, SpecSolo, PTL
=============================================================================
