--------------------------- MODULE MCMarketIngest ---------------------------
(* Small instances of MarketIngest for TLC.                                 *)
EXTENDS MarketIngest, TLC

CONSTANTS w1, w2

\* The workers are interchangeable.
WorkerSymmetry == Permutations(Workers)

=============================================================================
