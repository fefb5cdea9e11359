----------------------------- MODULE PortfolioRisk -----------------------------
(***************************************************************************)
(* The decisions the facade takes about one selected portfolio row, as     *)
(* functions of the account: the valuation of PortfolioRiskContextBuilder  *)
(* (portfolio_risk.py), the order that intent_from_portfolio_row derives   *)
(* from the target weight (trade_facade.py) and the limits of RiskGuardian *)
(* (risk.py).  Ratios are fractions of Scale; a lot is one share.          *)
(***************************************************************************)
EXTENDS MatchingMath, FiniteSets, FiniteSetsExt

CONSTANTS
  Symbols, Weight, Price, Market,
  MaxOrderNotional, MaxPositionNotional, MaxPortfolioNotional,
  MaxMarketExposure, MinCashReserve      \* fractions of Scale

ASSUME RiskAssumption ==
  /\ IsFiniteSet(Symbols)
  /\ Price \in [Symbols -> Nat \ {0}]
  /\ Weight \in [Symbols -> 0..Scale]
  /\ {MaxOrderNotional, MaxPositionNotional, MaxPortfolioNotional} \subseteq Nat
  /\ {MaxMarketExposure, MinCashReserve} \subseteq 0..Scale

NoMarket == ""

Notional(positions, S) == MapThenSumSet(LAMBDA s : positions[s] * Price[s], S)
AccountValue(cash, positions) == cash + Notional(positions, Symbols)
MarketNotional(positions, m) == Notional(positions, {s \in Symbols : Market[s] = m})

\* build() raises when a held symbol has no price: the daily job passes the
\* prices of the rows selected today, and only those.
Valued(cash, positions, priced) ==
  /\ \A s \in Symbols : positions[s] > 0 => s \in priced
  /\ AccountValue(cash, positions) > 0

\* The signed quantity that brings s to its target weight, rounded down.
Delta(cash, positions, s) ==
  (AccountValue(cash, positions) * Weight[s]) \div (Scale * Price[s]) - positions[s]

Size(delta) == IF delta < 0 THEN -delta ELSE delta

\* RiskGuardian.approve: the limits on the order, the cash and the position.
OrderApproved(cash, positions, s, delta) ==
  LET notional == Size(delta) * Price[s]
      projected == positions[s] + delta
  IN  /\ notional <= MaxOrderNotional
      /\ delta > 0 =>
           (cash - notional) * Scale > MinCashReserve * AccountValue(cash, positions)
      /\ projected >= 0
      /\ projected * Price[s] <= MaxPositionNotional

\* RiskGuardian.approve_portfolio: that, then market and portfolio exposure.
\* The builder leaves the context's market empty for a symbol whose market is
\* not known, and the market gate is skipped then.
Approved(cash, positions, s, delta) ==
  LET moved == delta * Price[s]
      market == MarketNotional(positions, Market[s]) + moved
      portfolio == Notional(positions, Symbols) + moved
  IN  /\ OrderApproved(cash, positions, s, delta)
      /\ Market[s] # NoMarket =>
           market >= 0 /\ market * Scale < MaxMarketExposure * AccountValue(cash, positions)
      /\ portfolio >= 0 /\ portfolio <= MaxPortfolioNotional

\* revalidate_portfolio_row: no order, an order that risk approves, or a
\* refusal (by risk, or because the account cannot be valued).
Verdict(cash, positions, priced, tripped, s) ==
  IF ~Valued(cash, positions, priced) THEN "reject"
  ELSE IF Delta(cash, positions, s) = 0 THEN "noop"
  ELSE IF ~tripped /\ Approved(cash, positions, s, Delta(cash, positions, s)) THEN "order"
  ELSE "reject"

=============================================================================
