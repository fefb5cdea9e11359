-------------------------- MODULE MCRecommendation --------------------------
(* Four securities in three markets.  Three of them, two in one market, have *)
(* every combination of the quotes below on two trade dates; the fourth is   *)
(* there or not, so that a portfolio of two can be full before the last row. *)
(* Decisions are made at time 2.                                             *)
EXTENDS Recommendation

MCMarketOf(s) == CASE s = 3 -> "NYSE" [] s = 4 -> "NASDAQ" [] OTHER -> "KRX"

MCQuote(avail, close, volume, sane) ==
    [avail |-> avail, close |-> close, volume |-> volume, sane |-> sane]

\* Yesterday: no row, a good one, one that was refetched after the decision.
FirstQuotes  == {NoQuote, MCQuote(1, 100, 9, TRUE), MCQuote(3, 100, 9, TRUE)}

\* Today: up, down, a jump, and the ways in which a row can be of no use.
SecondQuotes == {NoQuote, MCQuote(2, 104, 9, TRUE), MCQuote(2, 102, 9, TRUE), MCQuote(2, 98, 9, TRUE),
                 MCQuote(2, 190, 9, TRUE), MCQuote(3, 108, 9, TRUE), MCQuote(0, 108, 9, TRUE),
                 MCQuote(2, 104, 0, TRUE), MCQuote(2, 104, 9, FALSE), MCQuote(1, 112, 9, TRUE)}

Fourth == {MCQuote(1, 100, 9, TRUE)} \X {NoQuote, MCQuote(2, 103, 9, TRUE)}

MCTables == {[k \in Securities \X Dates |-> IF k[1] = 4 THEN f[k[2]] ELSE v[k[1]][k[2]]] :
                v \in [{1, 2, 3} -> FirstQuotes \X SecondQuotes], f \in Fourth}

\* The latest close, which orders the securities as their one-day return does.
MCScore(closes) == closes[Max(DOMAIN closes)]

\* A security that has fallen is below the confidence a portfolio asks for.
MCConfidence(closes) == IF MCScore(closes) = 98 THEN 30 ELSE 80

\* The distance of the closes, in hundredths; 0 for a single close.
MCVolatility(closes) ==
    LET all == {closes[d] : d \in DOMAIN closes} IN Max(all) - Min(all)
=============================================================================
