------------------------------ MODULE MCDailyRun ------------------------------
(* A small instance of DailyRun for TLC.                                    *)
EXTENDS DailyRun

CONSTANTS AAA, BBB, CCC

MCWeight == [s \in Symbols |-> IF s = CCC THEN 20 ELSE 8]
MCPrice == [s \in Symbols |-> 10]
MCMarket == [s \in Symbols |-> CASE s = AAA -> "KRX" [] s = BBB -> NoMarket [] s = CCC -> "US"]
MCSelections == {<<>>, <<AAA>>, <<CCC>>, <<AAA, BBB>>, <<AAA, CCC>>}

Holding(s, q) == [r \in Symbols |-> IF r = s THEN q ELSE 0]

\* Accounts for which the batch fills completely, breaks off at its second
\* row, finds nothing left to do there, cannot pay slippage and fee, sells, is
\* at its target already, and holds a symbol that is not selected.
MCInitialAccounts ==
  {[cash |-> c, positions |-> Holding(AAA, 0)] : c \in {25, 41, 100}}
  \cup {[cash |-> 30, positions |-> Holding(AAA, 2)], [cash |-> 10, positions |-> Holding(AAA, 4)],
        [cash |-> 5, positions |-> Holding(AAA, 1)], [cash |-> 90, positions |-> Holding(CCC, 1)]}

=============================================================================
