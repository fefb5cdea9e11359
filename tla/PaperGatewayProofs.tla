-------------------------- MODULE PaperGatewayProofs --------------------------
(***************************************************************************)
(* The paper path with any number of callers: types, cash and positions    *)
(* that never go negative, and an order book that is never overfilled.     *)
(* With one caller: the engine and the lifecycle agree, every position is  *)
(* the sum of its executions, and the steps of execute and cancel          *)
(* implement AtomicDesk.                                                   *)
(***************************************************************************)
EXTENDS PaperGateway, FiniteSetTheorems, WellFoundedInduction, TLAPS

-----------------------------------------------------------------------------
(* Bounds on the amounts of VirtualMatchingEngine.execute, for every price  *)
(* and every rate: no rounding makes a charge exceed the gross amount.      *)

\* What \div, i.e. ROUND_DOWN, does to a product with a rate.
LEMMA DivBounds ==
  ASSUME NEW n \in Nat, NEW s \in Nat \ {0}
  PROVE  n \div s \in Nat /\ s * (n \div s) <= n
  BY Z3

\* A product of natural numbers is one.
LEMMA TimesNat == ASSUME NEW a \in Nat, NEW b \in Nat PROVE a * b \in Nat
  BY Z3

\* A factor common to both sides of an inequality can be dropped.
LEMMA CancelFactor ==
  ASSUME NEW a \in Int, NEW b \in Int, NEW s \in Nat \ {0}, s * a <= s * b
  PROVE  a <= b
  BY Z3

\* A larger rate gives a larger product.
LEMMA TimesMonotone ==
  ASSUME NEW g \in Nat, NEW a \in Nat, NEW b \in Nat, a <= b
  PROVE  g * a <= g * b
  BY Z3

\* Multiplication distributes over addition.
LEMMA Distributes ==
  ASSUME NEW g \in Int, NEW a \in Int, NEW b \in Int
  PROVE  g * (a + b) = g * a + g * b
  BY Z3

\* Multiplication commutes.
LEMMA Commutes == ASSUME NEW a \in Int, NEW b \in Int PROVE a * b = b * a
  BY Z3

\* fee and tax, each rounded down, never exceed the gross amount together.
LEMMA ChargesBelowGross ==
  ASSUME NEW g \in Nat
  PROVE  Fee(g) \in Nat /\ Tax(g) \in Nat /\ Fee(g) + Tax(g) <= g
<1> USE RateAssumption
<1>1. g * FeeRate \in Nat /\ g * TaxRate \in Nat
  BY TimesNat
<1>2. /\ Fee(g) \in Nat /\ Scale * Fee(g) <= g * FeeRate
      /\ Tax(g) \in Nat /\ Scale * Tax(g) <= g * TaxRate
  BY <1>1, DivBounds DEF Fee, Tax
<1>3. g * (FeeRate + TaxRate) <= g * Scale
  BY TimesMonotone
<1>4. Scale * (Fee(g) + Tax(g)) = Scale * Fee(g) + Scale * Tax(g)
  BY <1>2, Distributes
<1>5. g * (FeeRate + TaxRate) = g * FeeRate + g * TaxRate
  BY Distributes
<1>6. g * Scale = Scale * g
  BY Commutes
<1>7. Scale * (Fee(g) + Tax(g)) <= Scale * g
  <2> DEFINE a == Scale * Fee(g)  b == Scale * Tax(g)  c == g * FeeRate  d == g * TaxRate
             e == Scale * (Fee(g) + Tax(g))  f == g * (FeeRate + TaxRate)  h == g * Scale
  <2>1. a \in Int /\ b \in Int /\ c \in Int /\ d \in Int /\ h \in Int
    BY <1>1, <1>2, TimesNat
  <2>2. a <= c /\ b <= d /\ f <= h /\ e = a + b /\ f = c + d /\ h = Scale * g
    BY <1>2, <1>3, <1>4, <1>5, <1>6
  <2> HIDE DEF a, b, c, d, e, f, h
  <2>3. e <= h
    BY <2>1, <2>2
  <2>4. QED
    BY <2>2, <2>3 DEF e
<1>8. QED
  BY <1>2, <1>7, CancelFactor

\* A buy costs something that is not negative, and a sale pays as much.
LEMMA AmountsNat ==
  ASSUME NEW p \in Nat, NEW q \in Nat
  PROVE  BuyTotal(p, q) \in Nat /\ SellProceeds(p, q) \in Nat
<1> USE RateAssumption
<1>1. FillPrice("BUY", p) \in Nat /\ FillPrice("SELL", p) \in Nat
  <2>1. Scale + Slippage \in Nat /\ Scale - Slippage \in Nat
    OBVIOUS
  <2>2. QED
    BY <2>1, TimesNat DEF FillPrice
<1>2. Gross("BUY", p, q) \in Nat /\ Gross("SELL", p, q) \in Nat
  BY <1>1, TimesNat, DivBounds DEF Gross
<1>3. QED
  BY <1>2, ChargesBelowGross DEF BuyTotal, SellProceeds

\* A share of at most the whole, rounded up, is at most the whole.
LEMMA ShareBelowWhole ==
  ASSUME NEW n \in Nat, NEW r \in Nat, r <= Scale
  PROVE  /\ (n * r + (Scale - 1)) \div Scale \in Nat
         /\ (n * r + (Scale - 1)) \div Scale <= n
<1> USE RateAssumption
<1> DEFINE b == n * r  share == (b + (Scale - 1)) \div Scale
<1>1. b \in Nat /\ n * Scale \in Nat /\ Scale * n \in Nat
  BY TimesNat
<1>2. b <= n * Scale /\ n * Scale = Scale * n
  BY TimesMonotone, Commutes
<1> HIDE DEF b
<1>3. b + (Scale - 1) \in Nat
  BY <1>1
<1>4. share \in Nat /\ Scale * share <= b + (Scale - 1)
  BY <1>3, DivBounds
<1> HIDE DEF share
<1>5. ~(n + 1 <= share)
  <2>1. SUFFICES ASSUME n + 1 <= share PROVE FALSE
    OBVIOUS
  <2>2. Scale * (n + 1) <= Scale * share
    BY <1>4, <2>1, TimesMonotone
  <2>3. Scale * (n + 1) = Scale * n + Scale * 1 /\ Scale * 1 = Scale
    BY Distributes
  <2> DEFINE p == Scale * (n + 1)  q == Scale * n  x == Scale * share  y == n * Scale
  <2>4. x \in Int /\ q \in Int /\ y \in Int
    BY <1>1, <1>4, TimesNat
  <2>5. p <= x /\ p = q + Scale /\ x <= b + (Scale - 1) /\ b <= y /\ y = q
    BY <1>2, <1>4, <2>2, <2>3
  <2> HIDE DEF p, q, x, y
  <2>6. QED
    BY <1>1, <2>4, <2>5
<1>6. share \in Nat /\ share <= n
  BY <1>4, <1>5
<1>7. QED
  BY <1>6 DEF share, b

-----------------------------------------------------------------------------
(* Any number of callers.                                                    *)

\* A record the lifecycle may hold.
Sound(record) ==
  /\ record.filled_quantity > 0 => record.filled_quantity <= record.quantity
  /\ record.status = "FILLED" => record.filled_quantity = record.quantity
  /\ record.status # "REJECTED"

\* What a thread knows of its own locals at each place, whatever the others do.
Locals ==
  \A t \in Threads :
    /\ pc[t] = "settle" => call[t].price > 0 /\ fill[t] > 0
    /\ pc[t] = "fill_write" =>
         cur[t].filled_quantity + fill[t] <= cur[t].quantity /\ fill[t] > 0 /\ Sound(cur[t])
    /\ pc[t] = "cancel_write" => Sound(cur[t])

IInv == TypeOK /\ NeverOverfilled /\ Locals

\* lifecycle.fill turns an order record into an order record.
LEMMA FilledKeeps ==
  ASSUME NEW record \in OrderRecord, NEW quantity \in Nat
  PROVE  Filled(record, quantity) \in OrderRecord /\ Filled(record, quantity) # NoOrder
<1> DEFINE total == record.filled_quantity + quantity
           status == IF total = record.quantity THEN "FILLED" ELSE "PARTIALLY_FILLED"
<1>1. total \in Nat /\ status \in Statuses
  BY DEF OrderRecord, Statuses
<1>2. Filled(record, quantity) = [record EXCEPT !.filled_quantity = total, !.status = status]
  BY DEF Filled
<1> HIDE DEF total, status
<1>3. [record EXCEPT !.filled_quantity = total, !.status = status] \in OrderRecord
  BY <1>1 DEF OrderRecord
<1>4. QED
  BY <1>2, <1>3, GatewayAssumption

\* The account starts with cash and positions that are not negative.
LEMMA InitIInv == Init => IInv
<1> SUFFICES ASSUME Init PROVE IInv
  OBVIOUS
<1> USE GatewayAssumption DEF Init
<1>1. (CHOOSE c \in Calls : TRUE) \in Calls
  OBVIOUS
<1>2. TypeOK
  BY <1>1 DEF TypeOK, Modes, Places, Outcomes
<1>3. NeverOverfilled /\ Locals
  BY DEF NeverOverfilled, Locals
<1>4. QED
  BY <1>2, <1>3 DEF IInv

\* Every step of a caller and every change of mode keeps the invariant.
LEMMA NextIInv == IInv /\ [Next]_vars => IInv'
<1> SUFFICES ASSUME IInv, [Next]_vars PROVE IInv'
  OBVIOUS
<1> USE GatewayAssumption DEF IInv, NeverOverfilled, Locals, Goto, End, account
<1>1. ASSUME NEW t \in Threads, Enter(t) PROVE IInv'
  <2>1. PICK c \in Calls : call' = [call EXCEPT ![t] = c]
                          /\ Goto(t, IF c.kind = "execute" THEN "mode" ELSE "cancel_read")
    BY <1>1 DEF Enter
  <2>2. TypeOK'
    BY <1>1, <2>1 DEF Enter, TypeOK, Places, Outcomes
  <2>3. NeverOverfilled' /\ Locals'
    BY <1>1, <2>1 DEF Enter, TypeOK
  <2>4. QED
    BY <2>2, <2>3
<1>2. ASSUME NEW t \in Threads, CheckMode(t) \/ CheckSkill(t) PROVE IInv'
  <2>0. call[t].client_order_id \in Ids \cup {NoId}
    BY DEF TypeOK, CallArgs
  <2>1. TypeOK'
    BY <1>2, <2>0 DEF CheckMode, CheckSkill, TypeOK, Places, Outcomes
  <2>2. NeverOverfilled' /\ Locals'
    BY <1>2 DEF CheckMode, CheckSkill, TypeOK
  <2>3. QED
    BY <2>1, <2>2
<1>3. ASSUME NEW t \in Threads, Lookup(t) \/ Submit(t) PROVE IInv'
  <2>1. call[t] \in CallArgs /\ call[t].client_order_id \in Ids
    BY <1>3 DEF Lookup, Submit, TypeOK
  <2>2. eff' \in [Threads -> Int]
    BY <1>3, <2>1 DEF Lookup, Submit, TypeOK, OrderRecord, CallArgs
  <2>3. TypeOK'
    BY <1>3, <2>1, <2>2 DEF Lookup, Submit, TypeOK, Places, Outcomes
  <2>4. NeverOverfilled' /\ Locals'
    BY <1>3 DEF Lookup, Submit, TypeOK
  <2>5. QED
    BY <2>3, <2>4
<1>4. ASSUME NEW t \in Threads, Store(t) PROVE IInv'
  <2>1. call[t] \in CallArgs /\ call[t].client_order_id \in Ids
    BY <1>4 DEF Store, TypeOK
  <2>2. FreshRecord(call[t]) \in OrderRecord /\ Sound(FreshRecord(call[t]))
    BY <2>1 DEF FreshRecord, OrderRecord, Sound, CallArgs, Statuses
  <2>3. TypeOK'
    BY <1>4, <2>1, <2>2 DEF Store, TypeOK, Places, CallArgs
  <2>4. NeverOverfilled' /\ Locals'
    BY <1>4, <2>1, <2>2 DEF Store, TypeOK, Sound
  <2>5. QED
    BY <2>3, <2>4
<1>5. ASSUME NEW t \in Threads, Match(t) PROVE IInv'
  <2>1. call[t] \in CallArgs /\ call[t].client_order_id \in Ids
    BY <1>5 DEF Match, TypeOK
  <2>2. ASSUME eff[t] > 0, MatchingParametersValid PROVE FillQuantity(eff[t], call[t].depth) \in Int
    <3> DEFINE share == (eff[t] * FillRatio + (Scale - 1)) \div Scale
    <3>1. eff[t] \in Nat /\ FillRatio \in Nat /\ FillRatio <= Scale
      BY <2>2 DEF TypeOK, MatchingParametersValid
    <3>2. share \in Nat
      BY <3>1, ShareBelowWhole
    <3>3. call[t].depth \in Int \cup {NoDepth}
      BY <2>1 DEF CallArgs
    <3> HIDE DEF share
    <3>4. (IF call[t].depth = NoDepth THEN share ELSE Smaller(share, call[t].depth)) \in Int
      BY <3>2, <3>3 DEF Smaller
    <3>5. QED
      BY <3>4 DEF FillQuantity, share
  <2>s. positions[call[t].symbol] \in Nat
    BY <2>1 DEF CallArgs, TypeOK
  <2>3. TypeOK'
    <3>1. fill' \in [Threads -> Nat] /\ seen' \in [Threads -> Nat]
      BY <1>5, <2>2, <2>s DEF Match, TypeOK
    <3>2. QED
      BY <1>5, <2>1, <3>1 DEF Match, TypeOK, Places, Outcomes
  <2>4. NeverOverfilled' /\ Locals'
    BY <1>5 DEF Match, TypeOK
  <2>5. QED
    BY <2>3, <2>4
<1>6. ASSUME NEW t \in Threads, Settle(t) PROVE IInv'
  <2>1. call[t] \in CallArgs /\ call[t].client_order_id \in Ids
    BY <1>6 DEF Settle, TypeOK
  <2>2. call[t].price \in Nat /\ fill[t] \in Nat
    BY <1>6, <2>1 DEF Settle, TypeOK, CallArgs
  <2>3. BuyTotal(call[t].price, fill[t]) \in Nat /\ SellProceeds(call[t].price, fill[t]) \in Nat
    BY <2>2, AmountsNat
  <2>4. cash' \in Nat
    BY <1>6, <2>3 DEF Settle, Covered, TypeOK
  <2>5. positions' \in [Symbols -> Nat]
    BY <1>6, <2>1 DEF Settle, Covered, TypeOK, CallArgs
  <2>6. executed' \in [Ids -> Nat] /\ fill' \in [Threads -> Nat]
    BY <1>6, <2>1 DEF Settle, TypeOK
  <2>7. TypeOK'
    BY <1>6, <2>1, <2>4, <2>5, <2>6 DEF Settle, TypeOK, Places, Outcomes
  <2>8. NeverOverfilled' /\ Locals'
    BY <1>6 DEF Settle, TypeOK
  <2>9. QED
    BY <2>7, <2>8
<1>7. ASSUME NEW t \in Threads, FillRead(t) PROVE IInv'
  <2>1. call[t] \in CallArgs /\ call[t].client_order_id \in Ids
    BY <1>7 DEF FillRead, TypeOK
  <2>2. TypeOK'
    BY <1>7, <2>1 DEF FillRead, TypeOK, Places, Outcomes
  <2>3. NeverOverfilled' /\ Locals'
    BY <1>7, <2>1 DEF FillRead, TypeOK, Sound
  <2>4. QED
    BY <2>2, <2>3
<1>8. ASSUME NEW t \in Threads, FillWrite(t) PROVE IInv'
  <2>1. call[t] \in CallArgs /\ call[t].client_order_id \in Ids /\ cur[t] \in OrderRecord
    BY <1>8 DEF FillWrite, TypeOK
  <2>2. Filled(cur[t], fill[t]) \in OrderRecord /\ Sound(Filled(cur[t], fill[t]))
    <3>1. /\ cur[t].filled_quantity \in Nat /\ fill[t] \in Nat /\ fill[t] > 0
          /\ cur[t].quantity \in Int /\ cur[t].filled_quantity + fill[t] <= cur[t].quantity
      BY <1>8, <2>1 DEF FillWrite, TypeOK, OrderRecord
    <3>2. Filled(cur[t], fill[t]) \in OrderRecord
      BY <2>1, <3>1, FilledKeeps
    <3>3. Sound(Filled(cur[t], fill[t]))
      BY <2>1, <3>1 DEF OrderRecord, Sound, Filled
    <3>4. QED
      BY <3>2, <3>3
  <2>3. TypeOK'
    BY <1>8, <2>1, <2>2 DEF FillWrite, TypeOK, Places, Outcomes
  <2>4. NeverOverfilled' /\ Locals'
    BY <1>8, <2>1, <2>2 DEF FillWrite, TypeOK, Sound
  <2>5. QED
    BY <2>3, <2>4
<1>9. ASSUME NEW t \in Threads, CancelRead(t) PROVE IInv'
  <2>1. call[t] \in CallArgs
    BY DEF TypeOK
  <2>2. call[t].client_order_id \in Ids \/ call[t].client_order_id = NoId
    BY <2>1 DEF CallArgs
  <2>3. TypeOK'
    BY <1>9, <2>1, <2>2 DEF CancelRead, TypeOK, Places, Outcomes
  <2>4. NeverOverfilled' /\ Locals'
    BY <1>9, <2>2 DEF CancelRead, TypeOK, Sound
  <2>5. QED
    BY <2>3, <2>4
<1>10. ASSUME NEW t \in Threads, CancelWrite(t) PROVE IInv'
  <2>1. call[t] \in CallArgs /\ call[t].client_order_id \in Ids /\ cur[t] \in OrderRecord
    BY <1>10 DEF CancelWrite, TypeOK
  <2> DEFINE canceled == [cur[t] EXCEPT !.status = "CANCELED"]
  <2>2. canceled \in OrderRecord /\ Sound(canceled)
    BY <1>10, <2>1 DEF CancelWrite, TypeOK, OrderRecord, Sound, Statuses
  <2>3. TypeOK'
    BY <1>10, <2>1, <2>2 DEF CancelWrite, TypeOK, Places, Outcomes
  <2>4. NeverOverfilled' /\ Locals'
    BY <1>10, <2>1, <2>2 DEF CancelWrite, TypeOK, Sound
  <2>5. QED
    BY <2>3, <2>4
<1>11. ASSUME NEW m \in Modes, SetMode(m) PROVE IInv'
  BY <1>11 DEF SetMode, TypeOK
<1>12. CASE UNCHANGED vars
  BY <1>12 DEF vars, TypeOK
<1>13. QED
  BY <1>1, <1>2, <1>3, <1>4, <1>5, <1>6, <1>7, <1>8, <1>9, <1>10, <1>11, <1>12 DEF Next, Step

\* The inductive invariant holds with any number of callers.
LEMMA SpecIInv == Spec => []IInv
  BY InitIInv, NextIInv, PTL DEF Spec

\* Types, and with them: account.cash and the positions never go negative,
\* for any number of callers, any orders, prices, rates and depths.
THEOREM GatewayTypeCorrect == Spec => []TypeOK
<1>1. IInv => TypeOK
  BY DEF IInv
<1>2. QED
  BY <1>1, SpecIInv, PTL

\* OrderLifecycle never records more than was ordered, in any interleaving of
\* any number of callers that share it without a lock.
THEOREM GatewayNeverOverfilled == Spec => []NeverOverfilled
<1>1. IInv => NeverOverfilled
  BY DEF IInv
<1>2. QED
  BY <1>1, SpecIInv, PTL

-----------------------------------------------------------------------------
(* One caller: the daily job, or one client at a time.                     *)
OneCaller == \A t, u \in Threads : t = u

IdOf(t) == call[t].client_order_id

\* The call's order is stored, is what was asked for and may still be filled.
Working(t) ==
  /\ orders[IdOf(t)] # NoOrder
  /\ SameOrder(orders[IdOf(t)], call[t])
  /\ orders[IdOf(t)].status \in {"NEW", "PARTIALLY_FILLED"}

\* What a single caller knows of the book at each place of its call.
Known(t) ==
  /\ pc[t] # "idle" => out[t] = "none"
  /\ pc[t] \notin {"idle", "settle", "fill_read", "fill_write"} => fill[t] = 0
  /\ pc[t] \in {"submit", "store"} => orders[IdOf(t)] = NoOrder
  /\ pc[t] \in {"match", "settle"} =>
       Working(t) /\ eff[t] = orders[IdOf(t)].quantity - orders[IdOf(t)].filled_quantity
  /\ pc[t] = "settle" => fill[t] <= eff[t] /\ seen[t] = positions[call[t].symbol]
  /\ pc[t] \in {"fill_read", "fill_write"} =>
       /\ Working(t) /\ fill[t] > 0
       /\ executed[IdOf(t)] = orders[IdOf(t)].filled_quantity + fill[t]
       /\ executed[IdOf(t)] <= orders[IdOf(t)].quantity
  /\ pc[t] \in {"fill_write", "cancel_write"} => cur[t] = orders[IdOf(t)]
  /\ pc[t] = "cancel_write" => orders[IdOf(t)].status \in {"NEW", "PARTIALLY_FILLED"}

SoloInv == (\A t \in Threads : Known(t)) /\ RaiseIsClean /\ BooksAgree

\* Nothing is in the book and nothing is settled at first.
LEMMA InitSolo == Init => SoloInv
  BY DEF Init, SoloInv, Known, RaiseIsClean, BooksAgree, FilledOf

\* A fill is never more than the quantity it was computed from.
LEMMA FillWithin ==
  ASSUME NEW q \in Nat, NEW d \in Int \cup {NoDepth}, MatchingParametersValid
  PROVE  FillQuantity(q, d) \in Int /\ FillQuantity(q, d) <= q
<1> DEFINE share == (q * FillRatio + (Scale - 1)) \div Scale
<1>1. share \in Nat /\ share <= q
  BY GatewayAssumption, ShareBelowWhole DEF MatchingParametersValid
<1> HIDE DEF share
<1>2. /\ (IF d = NoDepth THEN share ELSE Smaller(share, d)) \in Int
      /\ (IF d = NoDepth THEN share ELSE Smaller(share, d)) <= q
  BY <1>1 DEF Smaller
<1>3. QED
  BY <1>2 DEF FillQuantity, share

\* A single caller's steps keep what it knows, and keep the books in step.
LEMMA NextSolo == OneCaller /\ IInv /\ SoloInv /\ [Next]_vars => SoloInv'
<1> SUFFICES ASSUME OneCaller, IInv, SoloInv, [Next]_vars PROVE SoloInv'
  OBVIOUS
<1> USE GatewayAssumption DEF OneCaller, Goto, End, account, IdOf, Known, SoloInv, RaiseIsClean,
                              BooksAgree, FilledOf, Recording
<1>t. TypeOK
  BY DEF IInv
<1>1. ASSUME NEW t \in Threads, Enter(t) PROVE SoloInv'
  BY <1>t, <1>1 DEF Enter, TypeOK
<1>2. ASSUME NEW t \in Threads, CheckMode(t) \/ CheckSkill(t) PROVE SoloInv'
  BY <1>t, <1>2 DEF CheckMode, CheckSkill, TypeOK
<1>3. ASSUME NEW t \in Threads, Lookup(t) PROVE SoloInv'
  <2> DEFINE i == IdOf(t)
  <2>1. i \in Ids /\ pc[t] = "lookup" /\ fill[t] = 0 /\ out[t] = "none" /\ orders[i] \in OrderRecord \cup {NoOrder}
    BY <1>t, <1>3 DEF Lookup, TypeOK
  <2>2. /\ UNCHANGED <<orders, executed, call, fill, seen, cur, positions>>
        /\ \A u \in Threads : u = t
    BY <1>3 DEF Lookup
  <2>3. \/ orders[i] = NoOrder /\ pc'[t] = "submit" /\ UNCHANGED <<eff, out>>
        \/ pc'[t] = "idle" /\ UNCHANGED eff
        \/ /\ orders[i] # NoOrder /\ SameOrder(orders[i], call[t])
           /\ orders[i].status \notin TerminalStatuses
           /\ eff'[t] = call[t].quantity - orders[i].filled_quantity
           /\ pc'[t] = "match" /\ UNCHANGED out
    BY <1>t, <1>3 DEF Lookup, TypeOK
  <2>4. ASSUME orders[i] # NoOrder, orders[i].status \notin TerminalStatuses
        PROVE  orders[i].status \in {"NEW", "PARTIALLY_FILLED"}
    BY <2>1, <2>4 DEF OrderRecord, Statuses, TerminalStatuses
  <2>5. Known(t)'
    BY <2>1, <2>2, <2>3, <2>4 DEF Working, SameOrder
  <2>6. RaiseIsClean'
    BY <2>1, <2>2
  <2>7. BooksAgree'
    BY <2>1, <2>2, <2>3
  <2>8. QED
    BY <2>2, <2>5, <2>6, <2>7
<1>4. ASSUME NEW t \in Threads, Submit(t) PROVE SoloInv'
  BY <1>t, <1>4 DEF Submit, TypeOK
<1>5. ASSUME NEW t \in Threads, Store(t) PROVE SoloInv'
  <2>1. call[t] \in CallArgs /\ IdOf(t) \in Ids
    BY <1>t, <1>5 DEF Store, TypeOK
  <2>2. /\ orders'[IdOf(t)] = FreshRecord(call[t]) /\ FreshRecord(call[t]) # NoOrder
        /\ \A i \in Ids \ {IdOf(t)} : orders'[i] = orders[i]
    <3>1. FreshRecord(call[t]) \in OrderRecord
      BY <2>1 DEF FreshRecord, OrderRecord, CallArgs, Statuses
    <3>2. QED
      BY <1>t, <1>5, <2>1, <3>1 DEF Store, TypeOK
  <2>3. Known(t)'
    BY <1>t, <1>5, <2>1, <2>2 DEF Store, TypeOK, Working, SameOrder, FreshRecord, CallArgs
  <2>4. BooksAgree'
    BY <1>t, <1>5, <2>2 DEF Store, TypeOK, FreshRecord
  <2>5. QED
    BY <1>t, <1>5, <2>3, <2>4 DEF Store, TypeOK
<1>6. ASSUME NEW t \in Threads, Match(t) PROVE SoloInv'
  <2>1. call[t].depth \in Int \cup {NoDepth} /\ call[t].symbol \in Symbols
    BY <1>t DEF TypeOK, CallArgs
  <2> DEFINE quantity == FillQuantity(eff[t], call[t].depth)
  <2>2. ASSUME eff[t] > 0, MatchingParametersValid PROVE quantity \in Int /\ quantity <= eff[t]
    <3>1. eff[t] \in Nat
      BY <1>t, <2>2 DEF TypeOK
    <3>2. QED
      BY <2>1, <2>2, <3>1, FillWithin
  <2>3. \/ End(t, "raised") /\ UNCHANGED <<fill, seen>>
        \/ Goto(t, "cancel_read") /\ UNCHANGED <<fill, seen, out>>
        \/ /\ eff[t] > 0 /\ MatchingParametersValid /\ quantity > 0
           /\ fill' = [fill EXCEPT ![t] = quantity]
           /\ seen' = [seen EXCEPT ![t] = positions[call[t].symbol]]
           /\ Goto(t, "settle") /\ UNCHANGED out
    BY <1>6 DEF Match
  <2> HIDE DEF quantity
  <2>4. QED
    BY <1>t, <1>6, <2>1, <2>2, <2>3 DEF Match, TypeOK, Working
<1>7. ASSUME NEW t \in Threads, Settle(t) PROVE SoloInv'
  BY <1>t, <1>7 DEF Settle, TypeOK, Working, IInv, Locals, OrderRecord
<1>8. ASSUME NEW t \in Threads, FillRead(t) PROVE SoloInv'
  BY <1>t, <1>8 DEF FillRead, TypeOK, Working, OrderRecord
<1>9. ASSUME NEW t \in Threads, FillWrite(t) PROVE SoloInv'
  <2>1. IdOf(t) \in Ids /\ cur[t] = orders[IdOf(t)] /\ cur[t] \in OrderRecord
    BY <1>t, <1>9 DEF FillWrite, TypeOK
  <2>2. /\ orders'[IdOf(t)] = Filled(cur[t], fill[t])
        /\ \A i \in Ids \ {IdOf(t)} : orders'[i] = orders[i]
    BY <1>t, <1>9, <2>1 DEF FillWrite, TypeOK
  <2>3. Filled(cur[t], fill[t]).filled_quantity = cur[t].filled_quantity + fill[t]
    BY <2>1 DEF Filled, OrderRecord
  <2>4. Filled(cur[t], fill[t]) # NoOrder
    BY <1>9, FilledKeeps, <2>1, <1>t DEF TypeOK
  <2>5. BooksAgree'
    BY <1>t, <1>9, <2>1, <2>2, <2>3, <2>4 DEF FillWrite, TypeOK
  <2>6. QED
    BY <1>t, <1>9, <2>5 DEF FillWrite, TypeOK
<1>10. ASSUME NEW t \in Threads, CancelRead(t) PROVE SoloInv'
  <2>1. call[t].client_order_id \in Ids \cup {NoId}
    BY <1>t DEF TypeOK, CallArgs
  <2>2. ASSUME NEW r \in OrderRecord, r.status \notin TerminalStatuses
        PROVE  r.status \in {"NEW", "PARTIALLY_FILLED"}
    BY <2>2 DEF OrderRecord, Statuses, TerminalStatuses
  <2>3. /\ UNCHANGED <<orders, executed, call, fill, seen, eff, positions>>
        /\ pc[t] = "cancel_read" /\ fill[t] = 0 /\ \A u \in Threads : u = t
    BY <1>10 DEF CancelRead
  <2>4. \/ pc'[t] = "idle" /\ UNCHANGED cur
        \/ /\ pc'[t] = "cancel_write" /\ UNCHANGED out
           /\ orders[IdOf(t)] \in OrderRecord /\ orders[IdOf(t)].status \notin TerminalStatuses
           /\ cur'[t] = orders[IdOf(t)]
    BY <1>t, <1>10, <2>1 DEF CancelRead, TypeOK
  <2>5. Known(t)'
    BY <2>2, <2>3, <2>4
  <2>6. RaiseIsClean'
    BY <2>3
  <2>7. BooksAgree'
    BY <2>3, <2>4
  <2>8. QED
    BY <2>3, <2>5, <2>6, <2>7
<1>11. ASSUME NEW t \in Threads, CancelWrite(t) PROVE SoloInv'
  <2>1. IdOf(t) \in Ids /\ cur[t] = orders[IdOf(t)] /\ cur[t] \in OrderRecord
    BY <1>t, <1>11 DEF CancelWrite, TypeOK
  <2> DEFINE canceled == [cur[t] EXCEPT !.status = "CANCELED"]
  <2>2. /\ canceled \in OrderRecord /\ canceled.filled_quantity = cur[t].filled_quantity
    BY <2>1 DEF OrderRecord, Statuses
  <2>3. /\ orders'[IdOf(t)] = canceled
        /\ \A i \in Ids \ {IdOf(t)} : orders'[i] = orders[i]
    BY <1>t, <1>11, <2>1 DEF CancelWrite, TypeOK
  <2> HIDE DEF canceled
  <2>4. /\ UNCHANGED <<executed, call, fill, eff, seen, cur, positions>>
        /\ pc'[t] = "idle" /\ out'[t] # "raised" /\ pc[t] = "cancel_write"
        /\ \A u \in Threads : u = t
    BY <1>t, <1>11 DEF CancelWrite, TypeOK
  <2>5. orders[IdOf(t)] # NoOrder /\ canceled # NoOrder
    BY <2>1, <2>2
  <2>6. BooksAgree'
    BY <2>1, <2>2, <2>3, <2>4, <2>5
  <2>7. QED
    BY <2>4, <2>6
<1>12. ASSUME NEW m \in Modes, SetMode(m) PROVE SoloInv'
  BY <1>12 DEF SetMode, Working
<1>13. CASE UNCHANGED vars
  BY <1>13 DEF vars, Working
<1>14. QED
  BY <1>1, <1>2, <1>3, <1>4, <1>5, <1>6, <1>7, <1>8, <1>9, <1>10, <1>11, <1>12, <1>13 DEF Next, Step

\* With one caller, its knowledge of the book is never out of date.
LEMMA SpecSolo == OneCaller /\ Spec => []SoloInv
<1>1. SUFFICES ASSUME OneCaller PROVE Spec => []SoloInv
  OBVIOUS
<1>2. IInv /\ SoloInv /\ [Next]_vars => SoloInv'
  BY <1>1, NextSolo
<1>3. QED
  BY <1>2, InitSolo, SpecIInv, PTL DEF Spec

\* With one caller, what the engine settled is what the lifecycle recorded,
\* after any sequence of partial fills, retries, cancels and mode changes.
THEOREM SoloBooksAgree == OneCaller /\ Spec => []BooksAgree
<1>1. SoloInv => BooksAgree
  BY DEF SoloInv
<1>2. QED
  BY <1>1, SpecSolo, PTL

\* With one caller, a call that raises has traded nothing.
THEOREM SoloRaiseIsClean == OneCaller /\ Spec => []RaiseIsClean
<1>1. SoloInv => RaiseIsClean
  BY DEF SoloInv
<1>2. QED
  BY <1>1, SpecSolo, PTL

\* With one caller, repeating a request never trades more than it asked for.
THEOREM SoloIdempotent == OneCaller /\ Spec => []IdempotentExecution
<1>1. ASSUME OneCaller, IInv, SoloInv PROVE IdempotentExecution
  <2> SUFFICES ASSUME NEW i \in Ids, orders[i] # NoOrder, executed[i] > 0
               PROVE  executed[i] <= orders[i].quantity
    BY DEF IdempotentExecution
  <2>1. CASE \E t \in Threads : Recording(t, i)
    BY <2>1, <1>1 DEF SoloInv, Known, Recording, IdOf
  <2>2. CASE \A t \in Threads : ~Recording(t, i)
    BY <2>2, <1>1 DEF SoloInv, BooksAgree, FilledOf, IInv, NeverOverfilled
  <2>3. QED
    BY <2>1, <2>2
<1>2. SUFFICES ASSUME OneCaller PROVE Spec => []IdempotentExecution
  OBVIOUS
<1>3. IInv /\ SoloInv => IdempotentExecution
  BY <1>1, <1>2
<1>4. OneCaller
  BY <1>2
<1>5. QED
  BY <1>3, <1>4, SpecIInv, SpecSolo, PTL

\* With one caller, no step takes a stored order back: its terms are fixed, its
\* filled quantity only grows, and a filled or canceled order is final.
THEOREM SoloOrdersAdvance == OneCaller /\ Spec => OrdersOnlyAdvance
<1> DEFINE Advance == \A i \in Ids : orders[i] # NoOrder =>
             /\ orders'[i] # NoOrder
             /\ SameOrder(orders'[i], orders[i])
             /\ orders'[i].filled_quantity >= orders[i].filled_quantity
             /\ orders[i].status \in TerminalStatuses => orders'[i] = orders[i]
<1>1. SUFFICES ASSUME OneCaller PROVE Spec => OrdersOnlyAdvance
  OBVIOUS
<1>2. ASSUME IInv, SoloInv, [Next]_vars PROVE [Advance]_vars
  <2>t. orders \in [Ids -> OrderRecord \cup {NoOrder}] /\ fill \in [Threads -> Nat]
    BY <1>2 DEF IInv, TypeOK
  <2>1. ASSUME UNCHANGED orders PROVE Advance
    BY <2>t, <2>1 DEF SameOrder, OrderRecord
  <2>2. ASSUME NEW t \in Threads, Store(t) PROVE Advance
    <3>1. IdOf(t) \in Ids /\ orders[IdOf(t)] = NoOrder
      BY <1>2, <2>2 DEF Store, IInv, TypeOK, SoloInv, Known, IdOf
    <3>2. \A i \in Ids : orders[i] # NoOrder => orders'[i] = orders[i]
      BY <2>t, <2>2, <3>1 DEF Store, IdOf
    <3>3. QED
      BY <2>t, <3>2 DEF SameOrder, OrderRecord
  <2>3. ASSUME NEW t \in Threads, FillWrite(t) PROVE Advance
    <3>1. /\ IdOf(t) \in Ids /\ cur[t] = orders[IdOf(t)] /\ cur[t] # NoOrder
          /\ cur[t].status \in {"NEW", "PARTIALLY_FILLED"}
      BY <1>2, <2>3 DEF FillWrite, IInv, TypeOK, SoloInv, Known, Working, IdOf
    <3>2. Filled(cur[t], fill[t]) # NoOrder
      BY <2>t, <3>1, FilledKeeps
    <3>3. /\ SameOrder(Filled(cur[t], fill[t]), cur[t])
          /\ Filled(cur[t], fill[t]).filled_quantity >= cur[t].filled_quantity
      BY <2>t, <3>1 DEF Filled, SameOrder, OrderRecord
    <3>4. orders' = [orders EXCEPT ![IdOf(t)] = Filled(cur[t], fill[t])]
      BY <2>3 DEF FillWrite, IdOf
    <3>5. QED
      BY <2>t, <3>1, <3>2, <3>3, <3>4 DEF SameOrder, OrderRecord, TerminalStatuses
  <2>4. ASSUME NEW t \in Threads, CancelWrite(t) PROVE Advance
    <3>1. /\ IdOf(t) \in Ids /\ cur[t] = orders[IdOf(t)] /\ cur[t] # NoOrder
          /\ cur[t].status \in {"NEW", "PARTIALLY_FILLED"}
      BY <1>2, <2>4 DEF CancelWrite, IInv, TypeOK, SoloInv, Known, IdOf
    <3> DEFINE canceled == [cur[t] EXCEPT !.status = "CANCELED"]
    <3>2. canceled \in OrderRecord /\ SameOrder(canceled, cur[t]) /\ canceled.filled_quantity = cur[t].filled_quantity
      BY <2>t, <3>1 DEF SameOrder, OrderRecord, Statuses
    <3>3. orders' = [orders EXCEPT ![IdOf(t)] = canceled]
      BY <2>4 DEF CancelWrite, IdOf
    <3> HIDE DEF canceled
    <3>4. QED
      BY <2>t, <3>1, <3>2, <3>3, GatewayAssumption DEF SameOrder, OrderRecord, TerminalStatuses
  <2>5. QED
    BY <1>2, <2>1, <2>2, <2>3, <2>4
       DEF Next, Step, vars, Enter, CheckMode, CheckSkill, Lookup, Submit, Match, Settle, FillRead, CancelRead, SetMode
<1>3. OneCaller
  BY <1>1
<1>4. QED
  BY <1>2, <1>3, SpecIInv, SpecSolo, PTL DEF Spec, OrdersOnlyAdvance

-----------------------------------------------------------------------------
(* Positions.  Sums over the order ids, taken in any order: an induction     *)
(* over subsets is an argument about a minimal subset on which a claim fails. *)

\* A set of subsets of a finite set that is not empty has a minimal member.
LEMMA MinimalSubset ==
  ASSUME NEW S, IsFiniteSet(S), NEW bad, bad \subseteq SUBSET S, bad # {}
  PROVE  \E D \in bad : \A x \in D : D \ {x} \notin bad
<1>1. IsWellFoundedOn(StrictSubsetOrdering(S), SUBSET S)
  BY FS_StrictSubsetOrderingWellFounded, FS_FiniteSubsetsOfFinite
<1>2. PICK D \in bad : \A E \in bad : <<E, D>> \notin StrictSubsetOrdering(S)
  BY <1>1, WFMin
<1>3. ASSUME NEW x \in D PROVE D \ {x} \notin bad
  BY <1>2 DEF StrictSubsetOrdering
<1> QED BY <1>2, <1>3

\* The element MapThenFoldSet and MapThenSumSet take first.
Least(s) == CHOOSE x \in s : TRUE

\* g[s] is what the recursion of a fold makes of the values of f on s.
Unfolds(g, op, base, f, s) ==
  g[s] = IF s = {} THEN base ELSE op[<<f[Least(s)], g[s \ {Least(s)}]>>]

\* g[s] folds the values of f on s with op, whichever element comes first.
IsFold(g, A, op, base, f, S) ==
  /\ g \in [SUBSET S -> A] /\ g[{}] = base
  /\ \A s \in SUBSET S : \A x \in s : g[s] = op[<<f[x], g[s \ {x}]>>]

Foldable(A, op, base, f, S) ==
  /\ IsFiniteSet(S) /\ base \in A /\ op \in [A \X A -> A] /\ f \in [S -> A]
  /\ \A a, b, c \in A : op[<<a, op[<<b, c>>]>>] = op[<<b, op[<<a, c>>]>>]

\* Such a g exists when the order does not matter to op.
LEMMA FoldExists ==
  \A S, A, base, op, f : Foldable(A, op, base, f, S) => \E g : IsFold(g, A, op, base, f, S)
<1> SUFFICES ASSUME NEW S, NEW A, NEW base, NEW op, NEW f, Foldable(A, op, base, f, S)
       PROVE  \E g : IsFold(g, A, op, base, f, S)
  OBVIOUS
<1> USE DEF Foldable
<1> DEFINE upto(D) == \E g \in [SUBSET S -> A] : \A s \in SUBSET S :
             Cardinality(s) <= Cardinality(D) => Unfolds(g, op, base, f, s)
<1>0. \A D \in SUBSET S : IsFiniteSet(D) /\ Cardinality(D) \in Nat /\ Cardinality(D) <= Cardinality(S)
  BY FS_Subset, FS_CardinalityType
<1>l. \A s \in SUBSET S : s # {} => Least(s) \in s /\ s \ {Least(s)} \in SUBSET S
  BY DEF Least
<1>1. ASSUME NEW D \in SUBSET S, D # {}, NEW z \in D, upto(D \ {z}) PROVE upto(D)
  <2>1. PICK g \in [SUBSET S -> A] : \A s \in SUBSET S :
      Cardinality(s) <= Cardinality(D \ {z}) => Unfolds(g, op, base, f, s)
    BY <1>1
  <2> DEFINE h == [s \in SUBSET S |-> IF s = {} THEN base ELSE op[<<f[Least(s)], g[s \ {Least(s)}]>>]]
  <2>3. h \in [SUBSET S -> A]
    BY <1>l
  <2>4. Cardinality(D \ {z}) = Cardinality(D) - 1
    BY <1>0, <1>1, FS_RemoveElement
  <2>5. ASSUME NEW s \in SUBSET S, Cardinality(s) <= Cardinality(D) PROVE Unfolds(h, op, base, f, s)
    <3>1. CASE s = {}
      BY <3>1 DEF Unfolds
    <3>2. CASE s # {}
      <4> DEFINE r == s \ {Least(s)}
      <4>1. Cardinality(r) = Cardinality(s) - 1 /\ r \in SUBSET S
        BY <1>0, <1>l, <3>2, FS_RemoveElement
      <4>2. Cardinality(r) <= Cardinality(D \ {z})
        BY <1>0, <1>1, <2>4, <2>5, <4>1
      <4>3. g[r] = IF r = {} THEN base ELSE op[<<f[Least(r)], g[r \ {Least(r)}]>>]
        BY <2>1, <4>1, <4>2 DEF Unfolds
      <4>4. h[r] = g[r]
        BY <4>1, <4>3
      <4> HIDE DEF r
      <4> QED BY <3>2, <4>4 DEF Unfolds, r
    <3> QED BY <3>1, <3>2
  <2> HIDE DEF h
  <2> QED BY <2>3, <2>5
<1>2. upto({})
  <2>1. [s \in SUBSET S |-> base] \in [SUBSET S -> A]
    OBVIOUS
  <2>2. \A s \in SUBSET S : Cardinality(s) <= Cardinality({}) => s = {}
    BY <1>0, FS_EmptySet
  <2> QED BY <2>1, <2>2 DEF Unfolds
<1> HIDE DEF upto
<1>3. upto(S)
  <2> DEFINE bad == {D \in SUBSET S : ~upto(D)}
  <2> SUFFICES ASSUME bad # {} PROVE FALSE
    OBVIOUS
  <2>1. PICK D \in bad : \A x \in D : D \ {x} \notin bad
    BY MinimalSubset
  <2>2. PICK z \in D : TRUE
    BY <1>2, <2>1
  <2>3. upto(D \ {z})
    BY <2>1, <2>2
  <2> QED BY <1>1, <2>1, <2>2, <2>3
<1>4. PICK g \in [SUBSET S -> A] : \A s \in SUBSET S : Unfolds(g, op, base, f, s)
  BY <1>0, <1>3 DEF upto
<1>5. ASSUME NEW t \in SUBSET S, NEW y \in t PROVE g[t] = op[<<f[y], g[t \ {y}]>>]
  <2> DEFINE bad == {D \in SUBSET S : \E x \in D : g[D] # op[<<f[x], g[D \ {x}]>>]}
  <2> SUFFICES ASSUME bad # {} PROVE FALSE
    OBVIOUS
  <2>1. PICK D \in bad : \A x \in D : D \ {x} \notin bad
    <3>1. bad \subseteq SUBSET S
      OBVIOUS
    <3> HIDE DEF bad
    <3> QED BY <3>1, MinimalSubset
  <2>3. PICK x \in D : g[D] # op[<<f[x], g[D \ {x}]>>]
    BY <2>1
  <2> DEFINE l == Least(D)
         E == D \ {l}
         F == D \ {x}
         R == E \ {x}
  <2>4. l \in D /\ D \in SUBSET S
    BY <1>l, <2>1, <2>3
  <2>5. g[D] = op[<<f[l], g[E]>>]
    BY <1>4, <2>3, <2>4 DEF Unfolds
  <2>6. l # x
    BY <2>3, <2>5
  <2>7. E \notin bad /\ F \notin bad
    BY <2>1, <2>3, <2>4
  <2>8. /\ R \in SUBSET S /\ F \ {l} = R /\ x \in E /\ l \in F /\ x \in S /\ l \in S
      /\ E \in SUBSET S /\ F \in SUBSET S
    BY <2>3, <2>4, <2>6
  <2> HIDE DEF l, E, F, R
  <2>9. g[E] = op[<<f[x], g[R]>>]
    BY <2>7, <2>8 DEF R
  <2>10. g[F] = op[<<f[l], g[R]>>]
    BY <2>7, <2>8
  <2>11. f[x] \in A /\ f[l] \in A /\ g[R] \in A
    BY <1>4, <2>8
  <2>12. g[D] = op[<<f[x], g[F]>>]
    BY <2>5, <2>9, <2>10, <2>11
  <2> QED BY <2>3, <2>12 DEF F
<1>6. g[{}] = base
  BY <1>4 DEF Unfolds
<1> HIDE DEF Foldable
<1>7. IsFold(g, A, op, base, f, S)
  BY <1>4, <1>5, <1>6 DEF IsFold
<1> QED BY <1>7

\* Two functions that agree on {} and that a step of the recursion keeps equal
\* agree on every subset.
LEMMA SameOnSubsets ==
  ASSUME NEW S, IsFiniteSet(S), NEW g, NEW h, g[{}] = h[{}],
     \A D \in SUBSET S : D # {} /\ g[D \ {Least(D)}] = h[D \ {Least(D)}] => g[D] = h[D]
  PROVE  \A D \in SUBSET S : g[D] = h[D]
<1> DEFINE bad == {D \in SUBSET S : g[D] # h[D]}
<1> SUFFICES ASSUME bad # {} PROVE FALSE
  OBVIOUS
<1>1. PICK D \in bad : \A x \in D : D \ {x} \notin bad
  BY MinimalSubset
<1>2. D # {} /\ Least(D) \in D
  BY <1>1 DEF Least
<1> QED BY <1>1, <1>2

Plus == [p \in Int \X Int |-> p[1] + p[2]]

\* g[S] is the sum of f over S, for every set S of ids.
IsSum(g, f) ==
  /\ g \in [SUBSET Ids -> Int] /\ g[{}] = 0
  /\ \A S \in SUBSET Ids : \A x \in S : g[S] = f[x] + g[S \ {x}]

Total(f) == CHOOSE g : IsSum(g, f)

LEMMA TotalIsSum == ASSUME NEW f \in [Ids -> Int] PROVE IsSum(Total(f), f)
<1>1. Foldable(Int, Plus, 0, f, Ids)
  <2>1. Plus \in [Int \X Int -> Int] /\ \A a, b \in Int : Plus[<<a, b>>] = a + b
    BY DEF Plus
  <2>2. \A a, b, c \in Int : Plus[<<a, Plus[<<b, c>>]>>] = Plus[<<b, Plus[<<a, c>>]>>]
    <3> SUFFICES ASSUME NEW a \in Int, NEW b \in Int, NEW c \in Int
                 PROVE  Plus[<<a, Plus[<<b, c>>]>>] = Plus[<<b, Plus[<<a, c>>]>>]
      OBVIOUS
    <3>1. b + c \in Int /\ a + c \in Int /\ a + (b + c) = b + (a + c)
      OBVIOUS
    <3> QED BY <2>1, <3>1
  <2> QED BY <2>1, <2>2, GatewayAssumption DEF Foldable
<1>2. PICK g : IsFold(g, Int, Plus, 0, f, Ids)
  BY <1>1, FoldExists, Zenon
<1>3. ASSUME NEW s \in SUBSET Ids, NEW x \in s PROVE g[s] = f[x] + g[s \ {x}]
  <2>1. g[s] = Plus[<<f[x], g[s \ {x}]>>] /\ g[s \ {x}] \in Int
    BY <1>2 DEF IsFold
  <2> QED BY <2>1 DEF Plus
<1>4. IsSum(g, f)
  BY <1>2, <1>3 DEF IsFold, IsSum
<1> QED BY <1>4 DEF Total

\* A sum depends only on the values in it.
LEMMA SameTotal ==
  ASSUME NEW f \in [Ids -> Int], NEW h \in [Ids -> Int], NEW S \in SUBSET Ids,
         \A i \in S : f[i] = h[i]
  PROVE  Total(f)[S] = Total(h)[S]
<1> DEFINE g == Total(f)
           k == Total(h)
<1>1. IsSum(g, f) /\ IsSum(k, h)
  BY TotalIsSum
<1>2. IsFiniteSet(S)
  BY FS_Subset, GatewayAssumption
<1> HIDE DEF g, k
<1>3. ASSUME NEW D \in SUBSET S, D # {}, g[D \ {Least(D)}] = k[D \ {Least(D)}] PROVE g[D] = k[D]
  <2>1. Least(D) \in D /\ D \in SUBSET Ids
    BY <1>3 DEF Least
  <2>2. g[D] = f[Least(D)] + g[D \ {Least(D)}] /\ k[D] = h[Least(D)] + k[D \ {Least(D)}]
    BY <1>1, <2>1 DEF IsSum
  <2> QED BY <1>3, <2>1, <2>2
<1>4. g[{}] = k[{}]
  BY <1>1 DEF IsSum
<1>5. \A D \in SUBSET S : g[D] = k[D]
  BY <1>2, <1>3, <1>4, SameOnSubsets
<1> QED BY <1>5 DEF g, k

\* Changing one term of a sum changes the sum by as much.
LEMMA ChangedTotal ==
  ASSUME NEW f \in [Ids -> Int], NEW h \in [Ids -> Int], NEW S \in SUBSET Ids, NEW z \in S,
         \A i \in S \ {z} : f[i] = h[i]
  PROVE  Total(h)[S] = Total(f)[S] - f[z] + h[z] /\ Total(f)[S] \in Int
<1>1. IsSum(Total(f), f) /\ IsSum(Total(h), h)
  BY TotalIsSum
<1>2. Total(f)[S \ {z}] = Total(h)[S \ {z}]
  BY SameTotal
<1>3. Total(f)[S] = f[z] + Total(f)[S \ {z}] /\ Total(h)[S] = h[z] + Total(h)[S \ {z}]
  BY <1>1 DEF IsSum
<1>4. Total(f)[S \ {z}] \in Int /\ f[z] \in Int /\ h[z] \in Int
  BY <1>1 DEF IsSum
<1> QED BY <1>2, <1>3, <1>4

Signed == [i \in Ids |-> SignedExecuted(i)]

\* Every position is its initial size plus the sum of the signed executions.
PosInv == \A s \in Symbols : positions[s] = InitialPositions[s] + Total(Signed)[OrdersOf(s)]

\* The sum of PositionsExplained is the one PosInv speaks of.
LEMMA SumOfExecutions ==
  ASSUME TypeOK, NEW S \in SUBSET Ids
  PROVE  MapThenSumSet(SignedExecuted, S) = Total(Signed)[S]
<1> DEFINE g == Total(Signed)
           Iter(it) == it = [s \in SUBSET S |-> IF s = {} THEN 0
                                ELSE LET x == CHOOSE x \in s : TRUE IN SignedExecuted(x) + it[s \ {x}]]
           iter == CHOOSE it : Iter(it)
           part == [s \in SUBSET S |-> g[s]]
<1>1. Signed \in [Ids -> Int]
  BY DEF TypeOK, Signed, SignedExecuted
<1>2. IsSum(g, Signed)
  BY <1>1, TotalIsSum
<1>3. MapThenSumSet(SignedExecuted, S) = iter[S]
  BY DEF MapThenSumSet, MapThenFoldSet
<1> HIDE DEF g
<1>4. \A s \in SUBSET S : s # {} => /\ Least(s) \in s /\ s \ {Least(s)} \in SUBSET S
                                    /\ Signed[Least(s)] = SignedExecuted(Least(s))
  BY DEF Least, Signed
<1>5. \A s \in SUBSET S : s # {} => g[s] = SignedExecuted(Least(s)) + g[s \ {Least(s)}]
  BY <1>2, <1>4 DEF IsSum
<1>6. g[{}] = 0
  BY <1>2 DEF IsSum
<1>7. Iter(part)
  BY <1>4, <1>5, <1>6 DEF Least
<1> HIDE DEF Iter
<1>8. Iter(iter)
  BY <1>7
<1> HIDE DEF iter
<1>9. /\ iter[{}] = 0
      /\ \A s \in SUBSET S : s # {} => iter[s] = SignedExecuted(Least(s)) + iter[s \ {Least(s)}]
  BY <1>8 DEF Iter, Least
<1>10. \A D \in SUBSET S : D # {} /\ g[D \ {Least(D)}] = iter[D \ {Least(D)}] => g[D] = iter[D]
  BY <1>5, <1>9
<1>11. \A D \in SUBSET S : g[D] = iter[D]
  <2>1. IsFiniteSet(S) /\ g[{}] = iter[{}]
    BY <1>6, <1>9, FS_Subset, GatewayAssumption
  <2> QED BY <1>10, <2>1, SameOnSubsets
<1> QED BY <1>3, <1>11 DEF g

LEMMA SignedType == TypeOK => Signed \in [Ids -> Int]
  BY DEF TypeOK, Signed, SignedExecuted

\* At first nothing is ordered.
LEMMA InitPos == Init => PosInv
<1> SUFFICES ASSUME Init, NEW s \in Symbols PROVE positions[s] = InitialPositions[s] + Total(Signed)[OrdersOf(s)]
  BY DEF PosInv
<1>1. OrdersOf(s) = {}
  BY DEF Init, OrdersOf
<1>2. Signed \in [Ids -> Int]
  BY DEF Init, Signed, SignedExecuted
<1>3. Total(Signed)[{}] = 0
  BY <1>2, TotalIsSum DEF IsSum
<1> QED BY <1>1, <1>3, GatewayAssumption DEF Init

\* A step that leaves the positions, and the side, symbol and executed quantity
\* of every order, leaves every sum.
LEMMA SameBooksSamePos ==
  ASSUME TypeOK, TypeOK', PosInv, UNCHANGED <<positions, executed>>,
         \A i \in Ids : /\ orders'[i] = NoOrder <=> orders[i] = NoOrder
                        /\ orders[i] # NoOrder => /\ orders'[i].symbol = orders[i].symbol
                                                  /\ orders'[i].side = orders[i].side
  PROVE  PosInv'
<1>1. Signed' = Signed
  BY DEF Signed, SignedExecuted
<1>2. \A s \in Symbols : OrdersOf(s)' = OrdersOf(s)
  BY DEF OrdersOf
<1>3. \A s \in Symbols : positions'[s] = InitialPositions[s] + Total(Signed')[OrdersOf(s)']
  BY <1>1, <1>2 DEF PosInv
<1> QED BY <1>3 DEF PosInv, Total, IsSum

\* Submitting an order adds a term that is zero.
LEMMA StoreKeepsPos ==
  ASSUME OneCaller, IInv, IInv', SoloInv, PosInv, NEW t \in Threads, Store(t)
  PROVE  PosInv'
<1> DEFINE z == IdOf(t)
<1>t. TypeOK /\ TypeOK'
  BY DEF IInv
<1>1. /\ z \in Ids /\ orders[z] = NoOrder /\ executed[z] = 0 /\ pc[t] = "store"
  BY <1>t DEF Store, TypeOK, SoloInv, Known, BooksAgree, Recording, FilledOf, OneCaller, IdOf
<1>2. /\ UNCHANGED <<positions, executed>> /\ orders'[z] = FreshRecord(call[t])
      /\ \A i \in Ids \ {z} : orders'[i] = orders[i]
  BY <1>t, <1>1 DEF Store, TypeOK, account, IdOf
<1>3. call[t] \in CallArgs /\ FreshRecord(call[t]) # NoOrder /\ FreshRecord(call[t]).symbol = call[t].symbol
  <2>1. call[t] \in CallArgs
    BY <1>t, GatewayAssumption DEF TypeOK
  <2>2. FreshRecord(call[t]) \in OrderRecord
    BY <2>1 DEF FreshRecord, OrderRecord, CallArgs, Statuses
  <2> QED BY <2>1, <2>2, GatewayAssumption DEF FreshRecord
<1> DEFINE f == Signed
           h == Signed'
<1>4. f \in [Ids -> Int] /\ h \in [Ids -> Int] /\ \A i \in Ids \ {z} : h[i] = f[i]
  BY <1>t, <1>2 DEF Signed, SignedExecuted, TypeOK
<1>5. f[z] = 0 /\ h[z] = 0
  BY <1>1, <1>2, <1>3 DEF Signed, SignedExecuted
<1> HIDE DEF f, h, z
<1>6. ASSUME NEW s \in Symbols PROVE Total(h)[OrdersOf(s)'] = Total(f)[OrdersOf(s)]
  <2>1. OrdersOf(s) \in SUBSET Ids /\ z \notin OrdersOf(s)
    BY <1>1 DEF OrdersOf
  <2>2. Total(h)[OrdersOf(s)] = Total(f)[OrdersOf(s)]
    BY <1>4, <1>5, <2>1, SameTotal
  <2>3. CASE s # call[t].symbol
    <3>1. OrdersOf(s)' = OrdersOf(s)
      BY <1>1, <1>2, <1>3, <2>3 DEF OrdersOf
    <3> QED BY <2>2, <3>1
  <2>4. CASE s = call[t].symbol
    <3>1. OrdersOf(s)' = OrdersOf(s) \cup {z}
      BY <1>1, <1>2, <1>3, <2>4 DEF OrdersOf
    <3>2. (OrdersOf(s) \cup {z}) \ {z} = OrdersOf(s)
      BY <2>1
    <3>3. Total(h)[OrdersOf(s) \cup {z}] = h[z] + Total(h)[OrdersOf(s)] /\ Total(h)[OrdersOf(s)] \in Int
      BY <1>1, <1>4, <2>1, <3>2, TotalIsSum DEF IsSum
    <3> QED BY <1>5, <2>2, <3>1, <3>3
  <2> QED BY <2>3, <2>4
<1>7. \A s \in Symbols : positions'[s] = InitialPositions[s] + Total(Signed')[OrdersOf(s)']
  BY <1>2, <1>6 DEF PosInv, f, h
<1> QED BY <1>7 DEF PosInv, Total, IsSum

\* Settling a fill moves the position and one term of the sum by the fill.
LEMMA SettleKeepsPos ==
  ASSUME IInv, IInv', SoloInv, PosInv, NEW t \in Threads, Settle(t), executed' # executed
  PROVE  PosInv'
<1> DEFINE z == IdOf(t)
           c == call[t]
           q == fill[t]
<1>t. TypeOK /\ TypeOK'
  BY DEF IInv
<1>1. /\ z \in Ids /\ Working(t) /\ seen[t] = positions[c.symbol] /\ c.symbol \in Symbols /\ q \in Nat
  <2>1. pc[t] = "settle"
    BY DEF Settle
  <2>2. z \in Ids /\ q \in Nat /\ c \in CallArgs
    BY <1>t, <2>1, GatewayAssumption DEF TypeOK, IdOf
  <2>3. Working(t) /\ seen[t] = positions[c.symbol]
    BY <2>1 DEF SoloInv, Known
  <2> QED BY <2>2, <2>3 DEF CallArgs
<1>2. /\ UNCHANGED orders
      /\ positions' = [positions EXCEPT ![c.symbol] =
                           IF c.side = "BUY" THEN seen[t] + q ELSE seen[t] - q]
      /\ executed' = [executed EXCEPT ![z] = @ + q]
  BY DEF Settle, account, IdOf
<1>3. orders[z] # NoOrder /\ orders[z].symbol = c.symbol /\ orders[z].side = c.side
  BY <1>1 DEF Working, SameOrder
<1> HIDE DEF z, c, q
<1> DEFINE f == Signed
           h == Signed'
           d == IF c.side = "BUY" THEN q ELSE -q
<1>4. f \in [Ids -> Int] /\ h \in [Ids -> Int] /\ d \in Int
  BY <1>t, <1>1 DEF Signed, SignedExecuted, TypeOK
<1>5. \A i \in Ids \ {z} : f[i] = h[i]
  BY <1>t, <1>1, <1>2 DEF Signed, SignedExecuted, TypeOK
<1>6. h[z] = f[z] + d
  BY <1>t, <1>1, <1>2, <1>3 DEF Signed, SignedExecuted, TypeOK
<1>7. /\ positions'[c.symbol] = positions[c.symbol] + d
      /\ \A s \in Symbols \ {c.symbol} : positions'[s] = positions[s]
      /\ \A s \in Symbols : positions[s] \in Int /\ InitialPositions[s] \in Int
  <2>1. positions \in [Symbols -> Nat] /\ InitialPositions \in [Symbols -> Nat]
    BY <1>t, GatewayAssumption DEF TypeOK
  <2>2. CASE c.side = "BUY"
    BY <1>1, <1>2, <2>1, <2>2
  <2>3. CASE c.side # "BUY"
    BY <1>1, <1>2, <2>1, <2>3
  <2> QED BY <2>2, <2>3
<1> HIDE DEF f, h, d
<1>8. ASSUME NEW s \in Symbols PROVE positions'[s] = InitialPositions[s] + Total(h)[OrdersOf(s)]
  <2>1. OrdersOf(s) \in SUBSET Ids
    BY DEF OrdersOf
  <2>2. positions[s] = InitialPositions[s] + Total(f)[OrdersOf(s)]
    BY DEF PosInv, f
  <2>3. CASE s = c.symbol
    <3>1. z \in OrdersOf(s)
      BY <1>1, <1>3, <2>3 DEF OrdersOf
    <3>2. Total(h)[OrdersOf(s)] = Total(f)[OrdersOf(s)] - f[z] + h[z] /\ Total(f)[OrdersOf(s)] \in Int
      BY <1>4, <1>5, <2>1, <3>1, ChangedTotal
    <3>3. f[z] \in Int
      BY <1>1, <1>4
    <3>4. Total(h)[OrdersOf(s)] = Total(f)[OrdersOf(s)] + d
      BY <1>4, <1>6, <3>2, <3>3
    <3> QED BY <1>4, <1>7, <2>2, <2>3, <3>2, <3>4
  <2>4. CASE s # c.symbol
    <3>1. z \notin OrdersOf(s)
      BY <1>3, <2>4 DEF OrdersOf
    <3>2. Total(h)[OrdersOf(s)] = Total(f)[OrdersOf(s)]
      BY <1>4, <1>5, <2>1, <3>1, SameTotal
    <3> QED BY <1>7, <2>2, <2>4, <3>2
  <2> QED BY <2>3, <2>4
<1>9. \A s \in Symbols : OrdersOf(s)' = OrdersOf(s)
  BY <1>2 DEF OrdersOf
<1>10. \A s \in Symbols : positions'[s] = InitialPositions[s] + Total(Signed')[OrdersOf(s)']
  BY <1>8, <1>9 DEF h
<1> QED BY <1>10 DEF PosInv, Total, IsSum

\* A single caller's steps keep every position explained.
LEMMA NextPos == OneCaller /\ IInv /\ IInv' /\ SoloInv /\ PosInv /\ [Next]_vars => PosInv'
<1> SUFFICES ASSUME OneCaller, IInv, IInv', SoloInv, PosInv, [Next]_vars PROVE PosInv'
  OBVIOUS
<1>t. TypeOK /\ TypeOK'
  BY DEF IInv
<1>0. ASSUME UNCHANGED <<positions, executed, orders>> PROVE PosInv'
  BY <1>t, <1>0, SameBooksSamePos
<1>1. ASSUME NEW t \in Threads, \/ Enter(t) \/ CheckMode(t) \/ CheckSkill(t) \/ Lookup(t) \/ Submit(t)
                                \/ Match(t) \/ FillRead(t) \/ CancelRead(t)
      PROVE  PosInv'
  BY <1>0, <1>1 DEF Enter, CheckMode, CheckSkill, Lookup, Submit, Match, FillRead, CancelRead, account
<1>2. ASSUME NEW t \in Threads, Store(t) PROVE PosInv'
  BY <1>2, StoreKeepsPos
<1>3. ASSUME NEW t \in Threads, Settle(t) PROVE PosInv'
  <2>1. CASE executed' # executed
    BY <1>3, <2>1, SettleKeepsPos
  <2>2. CASE executed' = executed
    <3>1. UNCHANGED <<positions, executed, orders>>
      BY <1>3, <1>t, <2>2, GatewayAssumption DEF Settle, account, TypeOK, IInv, Locals, CallArgs
    <3> QED BY <1>0, <3>1
  <2> QED BY <2>1, <2>2
<1>4. ASSUME NEW t \in Threads, FillWrite(t) PROVE PosInv'
  <2>1. IdOf(t) \in Ids /\ cur[t] = orders[IdOf(t)] /\ cur[t] \in OrderRecord
    BY <1>t, <1>4 DEF FillWrite, TypeOK, SoloInv, Known, IdOf
  <2>2. /\ orders'[IdOf(t)] = Filled(cur[t], fill[t])
        /\ \A i \in Ids \ {IdOf(t)} : orders'[i] = orders[i]
        /\ UNCHANGED <<positions, executed>>
    BY <1>t, <1>4, <2>1 DEF FillWrite, TypeOK, IdOf, account
  <2>3. /\ Filled(cur[t], fill[t]).symbol = cur[t].symbol /\ Filled(cur[t], fill[t]).side = cur[t].side
    BY <2>1 DEF Filled, OrderRecord
  <2>4. Filled(cur[t], fill[t]) # NoOrder /\ cur[t] # NoOrder
    BY <1>4, FilledKeeps, <2>1, <1>t, GatewayAssumption DEF TypeOK
  <2> QED BY <1>t, <2>1, <2>2, <2>3, <2>4, SameBooksSamePos
<1>5. ASSUME NEW t \in Threads, CancelWrite(t) PROVE PosInv'
  <2>1. IdOf(t) \in Ids /\ cur[t] = orders[IdOf(t)] /\ cur[t] \in OrderRecord
    BY <1>t, <1>5 DEF CancelWrite, TypeOK, SoloInv, Known, IdOf
  <2> DEFINE canceled == [cur[t] EXCEPT !.status = "CANCELED"]
  <2>2. canceled \in OrderRecord /\ canceled.symbol = cur[t].symbol /\ canceled.side = cur[t].side
    BY <2>1 DEF OrderRecord, Statuses
  <2>3. /\ orders'[IdOf(t)] = canceled
        /\ \A i \in Ids \ {IdOf(t)} : orders'[i] = orders[i]
        /\ UNCHANGED <<positions, executed>>
    BY <1>t, <1>5, <2>1 DEF CancelWrite, TypeOK, IdOf, account
  <2> HIDE DEF canceled
  <2>4. canceled # NoOrder /\ cur[t] # NoOrder
    BY <2>1, <2>2, GatewayAssumption
  <2> QED BY <1>t, <2>1, <2>2, <2>3, <2>4, SameBooksSamePos
<1>6. ASSUME NEW m \in Modes, SetMode(m) PROVE PosInv'
  BY <1>0, <1>6 DEF SetMode, account
<1>7. CASE UNCHANGED vars
  BY <1>0, <1>7 DEF vars
<1> QED BY <1>1, <1>2, <1>3, <1>4, <1>5, <1>6, <1>7 DEF Next, Step

\* With one caller, every position is what the engine bought minus what it sold
\* on top of the initial one: engine.execute never loses or repeats an update.
THEOREM SoloPositionsExplained == OneCaller /\ Spec => []PositionsExplained
<1>1. IInv /\ PosInv => PositionsExplained
  <2> SUFFICES ASSUME IInv, PosInv, NEW s \in Symbols
               PROVE  positions[s] = InitialPositions[s] + MapThenSumSet(SignedExecuted, OrdersOf(s))
    BY DEF PositionsExplained
  <2>1. OrdersOf(s) \in SUBSET Ids /\ TypeOK
    BY DEF OrdersOf, IInv
  <2>2. MapThenSumSet(SignedExecuted, OrdersOf(s)) = Total(Signed)[OrdersOf(s)]
    BY <2>1, SumOfExecutions
  <2>3. positions[s] = InitialPositions[s] + Total(Signed)[OrdersOf(s)]
    BY DEF PosInv
  <2> QED BY <2>2, <2>3, Zenon
<1>2. SUFFICES ASSUME OneCaller PROVE Spec => []PositionsExplained
  OBVIOUS
<1>3. IInv /\ IInv' /\ SoloInv /\ PosInv /\ [Next]_vars => PosInv'
  BY <1>2, NextPos
<1>4. OneCaller
  BY <1>2
<1>5. QED
  BY <1>1, <1>3, <1>4, InitPos, SpecIInv, SpecSolo, PTL DEF Spec

-----------------------------------------------------------------------------
(* The refinement: every step maps to a step of AtomicDesk or to none.       *)

\* A desk sees the stored orders, except that a fill that is settled and not
\* yet recorded counts as recorded.
BookMirrors ==
  \A i \in Ids :
    /\ (\A t \in Threads : ~Recording(t, i)) => Book[i] = orders[i]
    /\ \A t \in Threads : Recording(t, i) => Book[i] = Filled(orders[i], fill[t])

\* The mapped book mirrors the lifecycle's orders in every state.
LEMMA BookIsOrders == IInv /\ SoloInv => BookMirrors
<1> SUFFICES ASSUME IInv, SoloInv, NEW i \in Ids
             PROVE  /\ (\A t \in Threads : ~Recording(t, i)) => Book[i] = orders[i]
                    /\ \A t \in Threads : Recording(t, i) => Book[i] = Filled(orders[i], fill[t])
  BY DEF BookMirrors
<1>1. orders[i] # NoOrder => orders[i].filled_quantity \in Nat
  BY DEF IInv, TypeOK, OrderRecord
<1>2. fill \in [Threads -> Nat]
  BY DEF IInv, TypeOK
<1>3. ASSUME \A t \in Threads : ~Recording(t, i) PROVE Book[i] = orders[i]
  BY <1>1, <1>3 DEF Book, SoloInv, BooksAgree, FilledOf
<1>4. ASSUME NEW t \in Threads, Recording(t, i) PROVE Book[i] = Filled(orders[i], fill[t])
  <2>1. orders[i] # NoOrder /\ fill[t] > 0 /\ executed[i] = orders[i].filled_quantity + fill[t]
    BY <1>4 DEF SoloInv, Known, Recording, IdOf, Working
  <2>2. executed[i] > orders[i].filled_quantity /\ executed[i] - orders[i].filled_quantity = fill[t]
    BY <1>1, <1>2, <2>1
  <2>3. QED
    BY <2>1, <2>2 DEF Book
<1>5. QED
  BY <1>3, <1>4

\* ... and so it does after a step.
LEMMA BookIsOrdersNext == IInv' /\ SoloInv' => BookMirrors'
  BY BookIsOrders, PTL

\* When the orders and the settled quantities stay, so does the book.
LEMMA BookUnchanged == UNCHANGED <<orders, executed>> => UNCHANGED Book
  BY DEF Book

\* Both start with an empty book and the initial account.
LEMMA InitRefines == Init => Desk!DeskInit
  BY DEF Init, Desk!DeskInit, Book

\* lifecycle.submit's store opens an order.
LEMMA StoreRefines ==
  ASSUME OneCaller, IInv, SoloInv, IInv', SoloInv', NEW t \in Threads, Store(t)
  PROVE  Desk!OpenOrder(IdOf(t))
<1> DEFINE i == IdOf(t)
<1>1. i \in Ids /\ call[t] \in CallArgs /\ orders[i] = NoOrder
  BY GatewayAssumption DEF Store, IInv, TypeOK, SoloInv, Known, IdOf
<1>2. \A j \in Ids, u \in Threads : ~Recording(u, j) /\ ~Recording(u, j)'
  BY DEF Store, IInv, TypeOK, OneCaller, Recording, Goto
<1>3. \A j \in Ids : Book[j] = orders[j] /\ Book'[j] = orders'[j]
  BY <1>2, BookIsOrders, BookIsOrdersNext DEF BookMirrors
<1>4. orders' = [orders EXCEPT ![i] = FreshRecord(call[t])] /\ orders \in [Ids -> OrderRecord \cup {NoOrder}]
  BY DEF Store, IdOf, IInv, TypeOK
<1>5. Book'[i] = FreshRecord(call[t])
  BY <1>1, <1>3, <1>4
<1>6. Book' = [Book EXCEPT ![i] = Book'[i]]
  BY <1>1, <1>3, <1>4, <1>5 DEF Book
<1>7. Book'[i] \in Desk!Records /\ Book'[i].filled_quantity = 0 /\ Book'[i].status = "NEW"
  BY <1>1, <1>5 DEF Desk!Records, FreshRecord, CallArgs, Sides
<1>8. QED
  BY <1>1, <1>3, <1>6, <1>7 DEF Desk!OpenOrder, Store, account

\* The engine's debit or credit is one trade: it moves the account, and the
\* book as a caller sees it, by the same quantity.
LEMMA SettleRefines ==
  ASSUME OneCaller, IInv, SoloInv, IInv', SoloInv', NEW t \in Threads, Settle(t),
         Covered(call[t], fill[t], seen[t])
  PROVE  /\ Book[IdOf(t)] # NoOrder /\ fill[t] \in 1..Book[IdOf(t)].quantity
         /\ Desk!Trade(IdOf(t), fill[t])
<1> DEFINE i == IdOf(t)  c == call[t]  o == orders[i]
<1>1. i \in Ids /\ c \in CallArgs
  BY GatewayAssumption DEF Settle, IInv, TypeOK, IdOf
<1>2. /\ o # NoOrder /\ SameOrder(o, c) /\ o.status \in {"NEW", "PARTIALLY_FILLED"}
      /\ fill[t] <= o.quantity - o.filled_quantity /\ seen[t] = positions[c.symbol]
  BY DEF Settle, SoloInv, Known, Working, IdOf
<1>3. o \in OrderRecord /\ fill[t] \in Nat /\ fill[t] > 0 /\ c.price \in Nat /\ cash \in Nat
  BY <1>1, <1>2 DEF Settle, IInv, TypeOK, Locals, CallArgs
<1>4. BuyTotal(c.price, fill[t]) \in Nat /\ SellProceeds(c.price, fill[t]) \in Nat
  BY <1>3, AmountsNat
<1>5. /\ cash' = IF c.side = "BUY" THEN cash - BuyTotal(c.price, fill[t])
                                   ELSE cash + SellProceeds(c.price, fill[t])
      /\ positions' = [positions EXCEPT ![c.symbol] =
                          IF c.side = "BUY" THEN seen[t] + fill[t] ELSE seen[t] - fill[t]]
      /\ UNCHANGED <<orders, call, fill>>
      /\ pc' = [pc EXCEPT ![t] = "fill_read"]
  BY DEF Settle, Goto
<1>6. /\ \A j \in Ids, u \in Threads : ~Recording(u, j)
      /\ \A j \in Ids \ {i}, u \in Threads : ~Recording(u, j)'
      /\ \A j \in {i} : Recording(t, j)'
  BY <1>1, <1>5 DEF Settle, IInv, TypeOK, OneCaller, Recording, IdOf
<1>7. \A j \in Ids : Book[j] = orders[j]
  BY <1>6, BookIsOrders DEF BookMirrors
<1>8. \A j \in Ids : Book'[j] = IF j = i THEN Filled(o, fill[t]) ELSE orders[j]
  <2> SUFFICES ASSUME NEW j \in Ids
               PROVE  Book'[j] = IF j = i THEN Filled(o, fill[t]) ELSE orders[j]
    OBVIOUS
  <2>1. BookMirrors'
    BY BookIsOrdersNext
  <2>2. CASE j = i
    <3>1. Recording(t, j)'
      BY <1>6, <2>2
    <3>2. Book'[j] = Filled(orders'[j], fill'[t])
      BY <2>1, <3>1 DEF BookMirrors
    <3>3. QED
      BY <1>5, <2>2, <3>2
  <2>3. CASE j # i
    BY <1>5, <1>6, <2>1, <2>3 DEF BookMirrors
  <2>4. QED
    BY <2>2, <2>3
<1>9. Book' = [Book EXCEPT ![i] = Filled(o, fill[t])]
  BY <1>1, <1>7, <1>8 DEF Book
<1>10. Filled(o, fill[t]) = Desk!Booked(Book[i], fill[t])
  BY <1>1, <1>7 DEF Filled, Desk!Booked
<1>11. \/ /\ o.side = "BUY" /\ cash' \in Nat /\ cash' <= cash
          /\ positions' = [positions EXCEPT ![o.symbol] = @ + fill[t]]
       \/ /\ o.side = "SELL" /\ cash' \in Nat /\ cash' >= cash
          /\ fill[t] <= positions[o.symbol]
          /\ positions' = [positions EXCEPT ![o.symbol] = @ - fill[t]]
  <2>1. c.side \in {"BUY", "SELL"} /\ o.side = c.side /\ o.symbol = c.symbol
    BY <1>1, <1>2 DEF CallArgs, Sides, SameOrder
  <2>2. CASE c.side = "BUY"
    BY <1>2, <1>3, <1>4, <1>5, <2>1, <2>2 DEF Covered
  <2>3. CASE c.side = "SELL"
    BY <1>2, <1>3, <1>4, <1>5, <2>1, <2>3 DEF Covered
  <2>4. QED
    BY <2>1, <2>2, <2>3
<1>12. fill[t] \in 1..o.quantity
  BY <1>2, <1>3 DEF OrderRecord
<1>13. QED
  BY <1>1, <1>2, <1>7, <1>9, <1>10, <1>11, <1>12 DEF Desk!Trade, Desk!Open

\* lifecycle.fill's store only records what the desk has traded already.
LEMMA FillWriteRefines ==
  ASSUME OneCaller, IInv, SoloInv, IInv', SoloInv', NEW t \in Threads, FillWrite(t)
  PROVE  UNCHANGED <<Book, cash, positions>>
<1> DEFINE i == IdOf(t)
<1>1. i \in Ids /\ cur[t] = orders[i]
  BY GatewayAssumption DEF FillWrite, IInv, TypeOK, IdOf, SoloInv, Known
<1>2. orders' = [orders EXCEPT ![i] = Filled(cur[t], fill[t])] /\ orders \in [Ids -> OrderRecord \cup {NoOrder}]
  BY DEF FillWrite, IdOf, IInv, TypeOK
<1>3. /\ Recording(t, i)
      /\ \A j \in Ids \ {i}, u \in Threads : ~Recording(u, j)
      /\ \A j \in Ids, u \in Threads : ~Recording(u, j)'
  BY <1>1 DEF FillWrite, IInv, TypeOK, OneCaller, Recording, IdOf, End, Goto
<1>4. \A j \in Ids : Book[j] = IF j = i THEN Filled(orders[i], fill[t]) ELSE orders[j]
  BY <1>1, <1>3, BookIsOrders DEF BookMirrors
<1>5. \A j \in Ids : Book'[j] = orders'[j]
  BY <1>3, BookIsOrdersNext DEF BookMirrors
<1>6. \A j \in Ids : Book'[j] = Book[j]
  BY <1>1, <1>2, <1>4, <1>5
<1>7. Book' = Book
  BY <1>6 DEF Book
<1>8. QED
  BY <1>7 DEF FillWrite, account

\* lifecycle.cancel's store cancels an open order of the desk.
LEMMA CancelWriteRefines ==
  ASSUME OneCaller, IInv, SoloInv, IInv', SoloInv', NEW t \in Threads, CancelWrite(t)
  PROVE  Desk!CancelOrder(IdOf(t))
<1> DEFINE i == IdOf(t)
<1>1. i \in Ids /\ cur[t] = orders[i] /\ cur[t] # NoOrder /\ orders[i].status \in {"NEW", "PARTIALLY_FILLED"}
  BY GatewayAssumption DEF CancelWrite, IInv, TypeOK, IdOf, SoloInv, Known
<1>2. orders' = [orders EXCEPT ![i] = [cur[t] EXCEPT !.status = "CANCELED"]]
      /\ orders \in [Ids -> OrderRecord \cup {NoOrder}]
  BY DEF CancelWrite, IdOf, IInv, TypeOK
<1>3. \A j \in Ids, u \in Threads : ~Recording(u, j) /\ ~Recording(u, j)'
  BY DEF CancelWrite, IInv, TypeOK, OneCaller, Recording, End, Goto
<1>4. \A j \in Ids : Book[j] = orders[j] /\ Book'[j] = orders'[j]
  BY <1>3, BookIsOrders, BookIsOrdersNext DEF BookMirrors
<1>5. \A j \in Ids : Book'[j] = IF j = i THEN [Book[i] EXCEPT !.status = "CANCELED"] ELSE Book[j]
  BY <1>1, <1>2, <1>4
<1>6. Book' = [Book EXCEPT ![i].status = "CANCELED"]
  BY <1>1, <1>5 DEF Book
<1>7. QED
  BY <1>1, <1>4, <1>6 DEF Desk!CancelOrder, Desk!Open, CancelWrite, account

\* Every step of the gateway is a step of the desk or no step.
LEMMA NextRefines ==
  OneCaller /\ IInv /\ SoloInv /\ IInv' /\ SoloInv' /\ [Next]_vars
    => [Desk!DeskNext]_(Desk!deskVars)
<1> SUFFICES ASSUME OneCaller, IInv, SoloInv, IInv', SoloInv', [Next]_vars
             PROVE  [Desk!DeskNext]_(Desk!deskVars)
  OBVIOUS
<1>0. ASSUME UNCHANGED <<orders, executed, cash, positions>> PROVE UNCHANGED Desk!deskVars
  BY <1>0, BookUnchanged DEF Desk!deskVars
<1>1. ASSUME NEW t \in Threads,
             \/ Enter(t) \/ CheckMode(t) \/ CheckSkill(t) \/ Lookup(t) \/ Submit(t) \/ Match(t)
             \/ FillRead(t) \/ CancelRead(t)
      PROVE  UNCHANGED Desk!deskVars
  BY <1>0, <1>1 DEF Enter, CheckMode, CheckSkill, Lookup, Submit, Match, FillRead, CancelRead, account
<1>2. ASSUME NEW t \in Threads, Store(t) PROVE Desk!DeskNext
  <2>1. IdOf(t) \in Ids
    BY <1>2 DEF Store, IInv, TypeOK, IdOf
  <2>2. QED
    BY <1>2, <2>1, StoreRefines DEF Desk!DeskNext
<1>3. ASSUME NEW t \in Threads, Settle(t) PROVE [Desk!DeskNext]_(Desk!deskVars)
  <2>1. IdOf(t) \in Ids
    BY <1>3 DEF Settle, IInv, TypeOK, IdOf
  <2>2. CASE Covered(call[t], fill[t], seen[t])
    BY <1>3, <2>1, <2>2, SettleRefines DEF Desk!DeskNext
  <2>3. CASE ~Covered(call[t], fill[t], seen[t])
    BY <1>0, <1>3, <2>3 DEF Settle, account
  <2>4. QED
    BY <2>2, <2>3
<1>4. ASSUME NEW t \in Threads, FillWrite(t) PROVE UNCHANGED Desk!deskVars
  BY <1>4, FillWriteRefines DEF Desk!deskVars
<1>5. ASSUME NEW t \in Threads, CancelWrite(t) PROVE Desk!DeskNext
  <2>1. IdOf(t) \in Ids
    BY <1>5 DEF CancelWrite, IInv, TypeOK, IdOf
  <2>2. QED
    BY <1>5, <2>1, CancelWriteRefines DEF Desk!DeskNext
<1>6. ASSUME NEW m \in Modes, SetMode(m) PROVE UNCHANGED Desk!deskVars
  BY <1>0, <1>6 DEF SetMode, account
<1>7. ASSUME UNCHANGED vars PROVE UNCHANGED Desk!deskVars
  BY <1>0, <1>7 DEF vars
<1>8. QED
  BY <1>1, <1>2, <1>3, <1>4, <1>5, <1>6, <1>7 DEF Next, Step

\* With one caller, ExecutionGateway.execute and cancel implement AtomicDesk:
\* account and order book move together, nothing is overdrawn or overfilled,
\* and a filled or canceled order is final.
THEOREM SoloAtomicExecution == OneCaller /\ Spec => AtomicExecution
<1>1. SUFFICES ASSUME OneCaller PROVE Spec => AtomicExecution
  OBVIOUS
<1>2. IInv /\ SoloInv /\ IInv' /\ SoloInv' /\ [Next]_vars => [Desk!DeskNext]_(Desk!deskVars)
  BY <1>1, NextRefines
<1>3. OneCaller
  BY <1>1
<1>4. QED
  BY <1>2, <1>3, InitRefines, SpecIInv, SpecSolo, PTL DEF Spec, AtomicExecution, Desk!DeskSpec
=============================================================================
