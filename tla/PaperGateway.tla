----------------------------- MODULE PaperGateway -----------------------------
(***************************************************************************)
(* The paper path of the trading system: ExecutionGateway.execute/cancel   *)
(* (execution.py) in front of VirtualMatchingEngine and OrderLifecycle     *)
(* (order_lifecycle.py).  None of the three holds a lock.  Threads is the  *)
(* set of callers: one for the daily job and the command line, several for *)
(* the ThreadingHTTPServer of internal_api.py, which shares one gateway.   *)
(*                                                                         *)
(* A call is cut into steps where CPython can switch threads, i.e. at      *)
(* function calls: a dict.get and the statement that uses its result are   *)
(* two steps, while a run of plain reads and stores without a call (the    *)
(* cash check, the debit and the position store of execute) is one step.   *)
(***************************************************************************)
EXTENDS MatchingMath, FiniteSets, FiniteSetsExt

CONSTANTS
  Threads,        \* callers of the gateway
  Ids,            \* non-empty client order ids
  NoId,           \* the empty client order id
  Symbols,
  Calls,          \* the calls threads may make: a subset of CallArgs
  NoDepth,        \* available_quantity is None
  NoLimit,        \* limit_price is None
  NoOrder,        \* lifecycle.get(...) is None
  InitialCash, InitialPositions,
  FillRatio,      \* max_fill_ratio, as a fraction of Scale
  MaxCalls        \* bound: calls made in one behaviour

Sides == {"BUY", "SELL"}
PaperModes == {"PAPER_SANDBOX", "VIRTUAL_BACKTEST"}
Modes == PaperModes \cup {"REAL_LIVE"}
Statuses == {"NEW", "PARTIALLY_FILLED", "FILLED", "CANCELED", "REJECTED"}
TerminalStatuses == {"FILLED", "CANCELED", "REJECTED"}

\* The arguments of execute(order, market_price, available_quantity); of
\* cancel(client_order_id) only the id matters.  Money is in units of 0.01.
CallArgs ==
  [kind : {"execute", "cancel"}, client_order_id : Ids \cup {NoId}, symbol : Symbols,
   side : Sides, quantity : Int, order_type : {"MARKET", "LIMIT"},
   limit_price : Int \cup {NoLimit}, price : Int, depth : Int \cup {NoDepth}]

OrderRecord ==
  [symbol : Symbols, side : Sides, quantity : Int, filled_quantity : Nat, status : Statuses]

ASSUME GatewayAssumption ==
  /\ Calls \subseteq CallArgs /\ Calls # {}
  /\ NoOrder \notin OrderRecord
  /\ IsFiniteSet(Ids) /\ NoId \notin Ids
  /\ InitialCash \in Nat
  /\ InitialPositions \in [Symbols -> Nat]
  /\ FillRatio \in Nat
  /\ MaxCalls \in Nat

VARIABLES
  mode,       \* EnvironmentController._mode
  orders,     \* OrderLifecycle._orders
  cash,       \* PaperAccount.cash
  positions,  \* PaperAccount.positions
  pc,         \* where each thread is in execute() or cancel()
  call,       \* the arguments of its current call
  eff,        \* quantity of its effective order (the whole or the remaining one)
  fill,       \* quantity it has to settle, then has settled, in this call
  seen,       \* its local copy of account.positions[symbol]
  cur,        \* its local copy of the order record (fill, cancel)
  out,        \* how its last call ended
  executed,   \* history: quantity the engine has settled per client order id
  calls       \* bound: calls made so far

account == <<cash, positions, executed>>
vars == <<mode, orders, cash, positions, pc, call, eff, fill, seen, cur, out, executed, calls>>

Places == {"idle", "mode", "skill", "lookup", "submit", "store", "match", "settle",
           "fill_read", "fill_write", "cancel_read", "cancel_write"}
Outcomes == {"none", "raised", "replayed", "filled", "rejected", "canceled"}

-----------------------------------------------------------------------------
(* What VirtualMatchingEngine and OrderLifecycle compute.                   *)

Smaller(a, b) == IF a <= b THEN a ELSE b

\* fill_qty: the share max_fill_ratio of the order, cut to the depth offered.
\* The code multiplies without rounding: a quantity here counts some smallest
\* unit, and the share is rounded up to it, so that as in the code the share
\* of a positive order is never empty.
FillQuantity(quantity, depth) ==
  LET share == (quantity * FillRatio + (Scale - 1)) \div Scale
  IN  IF depth = NoDepth THEN share ELSE Smaller(share, depth)

\* The LIMIT checks of the engine; a LIMIT order without a price is refused.
Marketable(c) ==
  \/ c.order_type = "MARKET"
  \/ /\ c.limit_price # NoLimit
     /\ IF c.side = "BUY" THEN c.price <= c.limit_price ELSE c.price >= c.limit_price

MatchingParametersValid == FillRatio > 0 /\ FillRatio <= Scale

\* The record that submit() would store for a request.
FreshRecord(c) ==
  [symbol |-> c.symbol, side |-> c.side, quantity |-> c.quantity,
   filled_quantity |-> 0, status |-> "NEW"]

SameOrder(record, c) ==
  record.symbol = c.symbol /\ record.side = c.side /\ record.quantity = c.quantity

\* Mutant of Filled: the last fill overwrites the filled quantity.
Filled_Overwrites(record, quantity) ==
  [record EXCEPT !.filled_quantity = quantity,
                 !.status = IF quantity = record.quantity THEN "FILLED" ELSE "PARTIALLY_FILLED"]

\* The record after lifecycle.fill applies quantity to it.
Filled(record, quantity) ==
  LET total == record.filled_quantity + quantity
  IN  [record EXCEPT !.filled_quantity = total,
                     !.status = IF total = record.quantity THEN "FILLED" ELSE "PARTIALLY_FILLED"]

-----------------------------------------------------------------------------
Goto(t, place) == pc' = [pc EXCEPT ![t] = place]

\* The call of t ends: an exception or a returned Fill / OrderRecord.
End(t, outcome) ==
  /\ Goto(t, "idle")
  /\ out' = [out EXCEPT ![t] = outcome]

Init ==
  /\ mode \in PaperModes
  /\ orders = [i \in Ids |-> NoOrder]
  /\ cash = InitialCash
  /\ positions = InitialPositions
  /\ pc = [t \in Threads |-> "idle"]
  /\ call = [t \in Threads |-> CHOOSE c \in Calls : TRUE]
  /\ eff = [t \in Threads |-> 0]
  /\ fill = [t \in Threads |-> 0]
  /\ seen = [t \in Threads |-> 0]
  /\ cur = [t \in Threads |-> NoOrder]
  /\ out = [t \in Threads |-> "none"]
  /\ executed = [i \in Ids |-> 0]
  /\ calls = 0


\* A caller enters execute() or cancel().
Enter(t) ==
  /\ pc[t] = "idle"
  /\ calls < MaxCalls
  /\ \E c \in Calls :
       /\ call' = [call EXCEPT ![t] = c]
       /\ Goto(t, IF c.kind = "execute" THEN "mode" ELSE "cancel_read")
  /\ fill' = [fill EXCEPT ![t] = 0]
  /\ out' = [out EXCEPT ![t] = "none"]
  /\ calls' = calls + 1
  /\ UNCHANGED <<mode, orders, account, eff, seen, cur>>

\* The gateway's own mode check.
CheckMode(t) ==
  /\ pc[t] = "mode"
  /\ \/ mode \in PaperModes /\ Goto(t, "skill") /\ UNCHANGED out
     \/ mode \notin PaperModes /\ End(t, "raised")
  /\ UNCHANGED <<mode, orders, account, call, eff, fill, seen, cur, calls>>

\* assert_skill_allowed("skill-virtual-matching-engine"): it reads the mode
\* again, and the skill is allowed in exactly the two paper modes.  Then the
\* test that the client order id is not empty.
CheckSkill(t) ==
  /\ pc[t] = "skill"
  /\ \/ mode \in PaperModes /\ call[t].client_order_id # NoId /\ Goto(t, "lookup") /\ UNCHANGED out
     \/ (mode \notin PaperModes \/ call[t].client_order_id = NoId) /\ End(t, "raised")
  /\ UNCHANGED <<mode, orders, account, call, eff, fill, seen, cur, calls>>

\* Mutant of Lookup: a retry sends the whole quantity, not the remaining one.
Lookup_Whole(t) ==
  LET c == call[t]  existing == orders[c.client_order_id] IN
  /\ pc[t] = "lookup"
  /\ \/ existing = NoOrder /\ Goto(t, "submit") /\ UNCHANGED <<eff, out>>
     \/ /\ existing # NoOrder
        /\ ~SameOrder(existing, c) \/ existing.status \in TerminalStatuses
        /\ End(t, IF SameOrder(existing, c) THEN "replayed" ELSE "raised") /\ UNCHANGED eff
     \/ /\ existing # NoOrder /\ SameOrder(existing, c) /\ existing.status \notin TerminalStatuses
        /\ eff' = [eff EXCEPT ![t] = c.quantity]
        /\ Goto(t, "match") /\ UNCHANGED out
  /\ UNCHANGED <<mode, orders, account, call, fill, seen, cur, calls>>

\* existing = lifecycle.get(id), and the branches taken on it.
Lookup(t) ==
  LET c == call[t]  existing == orders[c.client_order_id]
      remaining == c.quantity - existing.filled_quantity
  IN
  /\ pc[t] = "lookup"
  /\ \/ existing = NoOrder /\ Goto(t, "submit") /\ UNCHANGED <<eff, out>>
     \/ existing # NoOrder /\ ~SameOrder(existing, c) /\ End(t, "raised") /\ UNCHANGED eff
     \/ /\ existing # NoOrder /\ SameOrder(existing, c)
        /\ existing.status \in TerminalStatuses \/ remaining <= 0
        /\ End(t, "replayed") /\ UNCHANGED eff
     \/ /\ existing # NoOrder /\ SameOrder(existing, c)
        /\ existing.status \notin TerminalStatuses /\ remaining > 0
        /\ eff' = [eff EXCEPT ![t] = remaining]
        /\ Goto(t, "match") /\ UNCHANGED out
  /\ UNCHANGED <<mode, orders, account, call, fill, seen, cur, calls>>

\* lifecycle.submit reads the table again; a record stored in between is
\* returned when it equals the new one and is an error otherwise.
Submit(t) ==
  LET c == call[t]  existing == orders[c.client_order_id] IN
  /\ pc[t] = "submit"
  /\ \/ existing = NoOrder /\ Goto(t, "store") /\ UNCHANGED <<eff, out>>
     \/ /\ existing # NoOrder /\ existing = FreshRecord(c)
        /\ eff' = [eff EXCEPT ![t] = c.quantity]
        /\ Goto(t, "match") /\ UNCHANGED out
     \/ existing # NoOrder /\ existing # FreshRecord(c) /\ End(t, "raised") /\ UNCHANGED eff
  /\ UNCHANGED <<mode, orders, account, call, fill, seen, cur, calls>>

\* ... and stores the new record.
Store(t) ==
  /\ pc[t] = "store"
  /\ orders' = [orders EXCEPT ![call[t].client_order_id] = FreshRecord(call[t])]
  /\ eff' = [eff EXCEPT ![t] = call[t].quantity]
  /\ Goto(t, "match")
  /\ UNCHANGED <<mode, account, call, fill, seen, cur, out, calls>>

\* engine.execute up to positions.get: validation, limit checks and the size
\* of the fill.  An empty fill is REJECTED and makes the gateway cancel.
Match(t) ==
  LET c == call[t]  quantity == FillQuantity(eff[t], c.depth)
      valid == eff[t] > 0 /\ c.price > 0 /\ MatchingParametersValid /\ Marketable(c)
  IN
  /\ pc[t] = "match"
  /\ \/ ~valid /\ End(t, "raised") /\ UNCHANGED <<fill, seen>>
     \/ valid /\ quantity <= 0 /\ Goto(t, "cancel_read") /\ UNCHANGED <<fill, seen, out>>
     \/ /\ valid /\ quantity > 0
        /\ fill' = [fill EXCEPT ![t] = quantity]
        /\ seen' = [seen EXCEPT ![t] = positions[c.symbol]]
        /\ Goto(t, "settle") /\ UNCHANGED out
  /\ UNCHANGED <<mode, orders, account, call, eff, cur, calls>>

\* Mutants of Covered: the cash, or the position, is not checked.
Covered_AnyCash(c, quantity, position) == c.side = "SELL" => position >= quantity
Covered_AnyPosition(c, quantity, position) ==
  c.side = "BUY" => cash >= BuyTotal(c.price, quantity)

\* Whether the account covers a fill, given the position read before.
Covered(c, quantity, position) ==
  IF c.side = "BUY" THEN cash >= BuyTotal(c.price, quantity) ELSE position >= quantity

\* Mutant of Settle: the position moves by the order, the record by the fill.
Settle_WholeOrder(t) ==
  LET c == call[t]  quantity == fill[t] IN
  /\ pc[t] = "settle" /\ Covered(c, quantity, seen[t])
  /\ cash' = IF c.side = "BUY" THEN cash - BuyTotal(c.price, quantity)
                               ELSE cash + SellProceeds(c.price, quantity)
  /\ positions' = [positions EXCEPT ![c.symbol] =
                     IF c.side = "BUY" THEN seen[t] + eff[t] ELSE seen[t] - quantity]
  /\ executed' = [executed EXCEPT ![c.client_order_id] = @ + quantity]
  /\ Goto(t, "fill_read")
  /\ UNCHANGED <<mode, orders, call, eff, fill, seen, cur, out, calls>>

\* The rest of engine.execute.  Cash is read here, the position in Match.
Settle(t) ==
  LET c == call[t]  quantity == fill[t] IN
  /\ pc[t] = "settle"
  /\ \/ /\ ~Covered(c, quantity, seen[t])
        /\ End(t, "raised")
        /\ fill' = [fill EXCEPT ![t] = 0]
        /\ UNCHANGED account
     \/ /\ Covered(c, quantity, seen[t])
        /\ cash' = IF c.side = "BUY" THEN cash - BuyTotal(c.price, quantity)
                                     ELSE cash + SellProceeds(c.price, quantity)
        /\ positions' = [positions EXCEPT ![c.symbol] =
                           IF c.side = "BUY" THEN seen[t] + quantity ELSE seen[t] - quantity]
        /\ executed' = [executed EXCEPT ![c.client_order_id] = @ + quantity]
        /\ Goto(t, "fill_read") /\ UNCHANGED <<fill, out>>
  /\ UNCHANGED <<mode, orders, call, eff, seen, cur, calls>>

\* Mutant of FillRead: the fill is not checked against the order's quantity.
FillRead_Unchecked(t) ==
  /\ pc[t] = "fill_read"
  /\ orders[call[t].client_order_id] # NoOrder
  /\ cur' = [cur EXCEPT ![t] = orders[call[t].client_order_id]]
  /\ Goto(t, "fill_write")
  /\ UNCHANGED <<mode, orders, account, call, eff, fill, seen, out, calls>>

\* lifecycle.fill: read and check the record, replace() it, store it.
FillRead(t) ==
  LET current == orders[call[t].client_order_id] IN
  /\ pc[t] = "fill_read"
  /\ \/ /\ current = NoOrder \/ fill[t] <= 0
              \/ current.filled_quantity + fill[t] > current.quantity
        /\ End(t, "raised") /\ UNCHANGED cur
     \/ /\ current # NoOrder /\ fill[t] > 0
        /\ current.filled_quantity + fill[t] <= current.quantity
        /\ cur' = [cur EXCEPT ![t] = current]
        /\ Goto(t, "fill_write") /\ UNCHANGED out
  /\ UNCHANGED <<mode, orders, account, call, eff, fill, seen, calls>>

FillWrite(t) ==
  /\ pc[t] = "fill_write"
  /\ orders' = [orders EXCEPT ![call[t].client_order_id] = Filled(cur[t], fill[t])]
  /\ End(t, "filled")
  /\ UNCHANGED <<mode, account, call, eff, fill, seen, cur, calls>>

\* Mutant of CancelRead: terminal orders are canceled as well.
CancelRead_Terminal(t) ==
  LET c == call[t]
      current == IF c.client_order_id = NoId THEN NoOrder ELSE orders[c.client_order_id]
  IN
  /\ pc[t] = "cancel_read"
  /\ \/ current = NoOrder /\ End(t, "raised") /\ UNCHANGED cur
     \/ /\ current # NoOrder
        /\ cur' = [cur EXCEPT ![t] = current]
        /\ Goto(t, "cancel_write") /\ UNCHANGED out
  /\ UNCHANGED <<mode, orders, account, call, eff, fill, seen, calls>>

\* lifecycle.cancel, from gateway.cancel or after an empty fill.
CancelRead(t) ==
  LET c == call[t]
      current == IF c.client_order_id = NoId THEN NoOrder ELSE orders[c.client_order_id]
      done == IF c.kind = "execute" THEN "rejected" ELSE "canceled"
  IN
  /\ pc[t] = "cancel_read"
  /\ \/ current = NoOrder /\ End(t, "raised") /\ UNCHANGED cur
     \/ current # NoOrder /\ current.status \in TerminalStatuses /\ End(t, done) /\ UNCHANGED cur
     \/ /\ current # NoOrder /\ current.status \notin TerminalStatuses
        /\ cur' = [cur EXCEPT ![t] = current]
        /\ Goto(t, "cancel_write") /\ UNCHANGED out
  /\ UNCHANGED <<mode, orders, account, call, eff, fill, seen, calls>>

CancelWrite(t) ==
  /\ pc[t] = "cancel_write"
  /\ orders' = [orders EXCEPT ![call[t].client_order_id] = [cur[t] EXCEPT !.status = "CANCELED"]]
  /\ End(t, IF call[t].kind = "execute" THEN "rejected" ELSE "canceled")
  /\ UNCHANGED <<mode, account, call, eff, fill, seen, cur, calls>>

Step(t) ==
  \/ CheckMode(t) \/ CheckSkill(t) \/ Lookup(t) \/ Submit(t) \/ Store(t)
  \/ Match(t) \/ Settle(t) \/ FillRead(t) \/ FillWrite(t)
  \/ CancelRead(t) \/ CancelWrite(t)

\* An operator moves the environment to another mode (set_mode).
SetMode(m) ==
  /\ mode' = m
  /\ UNCHANGED <<orders, account, pc, call, eff, fill, seen, cur, out, calls>>

Next ==
  \/ \E t \in Threads : Enter(t) \/ Step(t)
  \/ \E m \in Modes : SetMode(m)

Spec == Init /\ [][Next]_vars

-----------------------------------------------------------------------------
(* Properties.                                                             *)

\* TypeOK: every variable keeps its type; account.cash and the positions are
\* never negative, in any interleaving of any number of callers.
TypeOK ==
  /\ mode \in Modes
  /\ orders \in [Ids -> OrderRecord \cup {NoOrder}]
  /\ cash \in Nat
  /\ positions \in [Symbols -> Nat]
  /\ pc \in [Threads -> Places]
  /\ call \in [Threads -> Calls]
  /\ eff \in [Threads -> Int]
  /\ fill \in [Threads -> Nat]
  /\ seen \in [Threads -> Nat]
  /\ cur \in [Threads -> OrderRecord \cup {NoOrder}]
  /\ out \in [Threads -> Outcomes]
  /\ executed \in [Ids -> Nat]
  /\ calls \in Nat
  /\ \A t \in Threads : pc[t] \notin {"idle", "mode", "skill", "cancel_read"} =>
                           call[t].client_order_id \in Ids
  /\ \A t \in Threads : pc[t] \in {"fill_write", "cancel_write"} => cur[t] # NoOrder

\* NeverOverfilled: whatever the interleaving of execute and cancel, the
\* lifecycle never records more filled than ordered, and FILLED means all of
\* it (OrderLifecycle.fill checks and writes the same copy of the record).
NeverOverfilled ==
  \A i \in Ids : orders[i] # NoOrder =>
    /\ orders[i].filled_quantity > 0 => orders[i].filled_quantity <= orders[i].quantity
    /\ orders[i].status = "FILLED" => orders[i].filled_quantity = orders[i].quantity
    /\ orders[i].status # "REJECTED"

FilledOf(i) == IF orders[i] = NoOrder THEN 0 ELSE orders[i].filled_quantity

\* A fill of order i has been settled by the engine and not yet recorded.
Recording(t, i) == pc[t] \in {"fill_read", "fill_write"} /\ call[t].client_order_id = i

\* BooksAgree: once no call is between the engine and the lifecycle, the
\* quantity the engine settled under a client order id is the quantity the
\* lifecycle has recorded for it, after any sequence of partial fills,
\* retries, refused fills, cancels and mode changes.
BooksAgree ==
  \A i \in Ids : (\A t \in Threads : ~Recording(t, i)) => executed[i] = FilledOf(i)

\* IdempotentExecution: the engine never settles more under one client order
\* id than that order asked for, however often the request is repeated.
IdempotentExecution ==
  \A i \in Ids : orders[i] # NoOrder /\ executed[i] > 0 => executed[i] <= orders[i].quantity

\* RaiseIsClean: a call that ended with an exception has moved no cash and no
\* position; a caller may treat an error as "nothing was traded".
RaiseIsClean == \A t \in Threads : out[t] = "raised" => fill[t] = 0

\* OrdersOnlyAdvance: a stored order keeps its symbol, side and quantity, its
\* filled quantity never goes back, and FILLED or CANCELED is for ever.
OrdersOnlyAdvance ==
  [][\A i \in Ids : orders[i] # NoOrder =>
       /\ orders'[i] # NoOrder
       /\ SameOrder(orders'[i], orders[i])
       /\ orders'[i].filled_quantity >= orders[i].filled_quantity
       /\ orders[i].status \in TerminalStatuses => orders'[i] = orders[i]]_vars

\* What the engine settled under an id, signed by the side of its order.
SignedExecuted(i) ==
  IF orders[i] = NoOrder THEN 0
  ELSE IF orders[i].side = "BUY" THEN executed[i] ELSE -executed[i]

OrdersOf(s) == {i \in Ids : orders[i] # NoOrder /\ orders[i].symbol = s}

\* PositionsExplained: a position is its initial size plus what the engine
\* bought minus what it sold under all client order ids of that symbol.
PositionsExplained ==
  \A s \in Symbols :
    positions[s] = InitialPositions[s]
                     + MapThenSumSet(SignedExecuted, OrdersOf(s))

\* The order book as a caller may see it: a settled fill counts as recorded.
Book ==
  [i \in Ids |-> IF orders[i] # NoOrder /\ executed[i] > orders[i].filled_quantity
                 THEN Filled(orders[i], executed[i] - orders[i].filled_quantity)
                 ELSE orders[i]]

Desk == INSTANCE AtomicDesk WITH book <- Book

\* AtomicExecution: with one caller, the steps of execute and cancel implement
\* AtomicDesk: account and order book appear to move together.
AtomicExecution == Desk!DeskSpec
=============================================================================
