----------------------------- MODULE MatchingMath -----------------------------
(***************************************************************************)
(* The money arithmetic of VirtualMatchingEngine.execute (execution.py).   *)
(* Amounts are integers in the 0.01 unit that quantize() keeps, rates are  *)
(* fractions of Scale, and \div is the rounding of ROUND_DOWN.             *)
(***************************************************************************)
EXTENDS Integers

CONSTANTS Scale, FeeRate, TaxRate, Slippage

\* The constructor's defaults satisfy these; it does not check them.
ASSUME RateAssumption ==
  /\ Scale \in Nat \ {0}
  /\ FeeRate \in Nat /\ TaxRate \in Nat /\ Slippage \in Nat
  /\ FeeRate + TaxRate <= Scale /\ Slippage <= Scale

\* fill_price, as a multiple of 1/Scale: slippage is against the caller.
FillPrice(side, price) ==
  price * (IF side = "BUY" THEN Scale + Slippage ELSE Scale - Slippage)

Gross(side, price, quantity) == (quantity * FillPrice(side, price)) \div Scale
Fee(gross) == (gross * FeeRate) \div Scale
Tax(gross) == (gross * TaxRate) \div Scale

\* What a buy takes from the account's cash and what a sale, taxed, adds to it.
BuyTotal(price, quantity) ==
  LET gross == Gross("BUY", price, quantity) IN gross + Fee(gross)
SellProceeds(price, quantity) ==
  LET gross == Gross("SELL", price, quantity) IN gross - Fee(gross) - Tax(gross)

=============================================================================
