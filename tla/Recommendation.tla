--------------------------- MODULE Recommendation ---------------------------
(***************************************************************************)
(* RecommendationPipeline.build_from_daily: from the daily rows of a run to *)
(* the ranked, weighted portfolio that the daily job trades.  The rows that *)
(* were available at the decision time are turned into features, the latest *)
(* one of every security is a candidate, candidates pass quality filters or *)
(* are audited, and a greedy loop picks the portfolio under a limit per     *)
(* market and a limit in total.  Three snapshots are written on the way;    *)
(* every write may fail.                                                    *)
(*                                                                          *)
(* Factor arithmetic is a parameter: Score, Confidence and Volatility are   *)
(* any functions of the closes a security has in its features.  A security  *)
(* stands for a (market, symbol) pair, numbered in the order of symbols.    *)
(***************************************************************************)
EXTENDS Integers, Sequences, FiniteSets, FiniteSetsExt

CONSTANTS Securities, Dates,      \* numbers: sorted symbols, trade dates
          MarketOf(_),            \* the market of a security
          Tables,                 \* the daily rows a run may start from
          Decision,               \* decision_time
          Score(_), Confidence(_), Volatility(_),
          MinHistory, MinVolume, MaxReturn, MaxVolatility,     \* filters
          MinScore, MinConfidence, MaxPositions, MaxPerMarket, MaxWeight

\* A quote is what a daily row says; avail = 0 is a missing or unreadable
\* available_at, sane = FALSE an impossible combination of open, high and low.
Quote   == [avail : Nat, close : Nat, volume : Nat, sane : BOOLEAN]
NoQuote == [avail |-> 0, close |-> 0, volume |-> 0, sane |-> FALSE]

ASSUME RecommendationAssumption ==
    /\ Securities \subseteq Nat /\ IsFiniteSet(Securities)
    /\ Dates \subseteq Nat /\ IsFiniteSet(Dates)
    /\ Tables \subseteq [Securities \X Dates -> Quote]
    /\ Decision \in Nat
    /\ MaxPositions \in Nat \ {0} /\ MaxPerMarket \in Nat \ {0}

\* Weights have six decimals: they are counted in millionths.
Million == 1000000

ASSUME WeightAssumption == MaxWeight \in 1 .. Million

\* Scores, confidences and volatilities are numbers.
ASSUME FactorAssumption ==
    \A t \in Tables, s \in Securities, D \in (SUBSET Dates) \ {{}} :
        LET closes == [d \in D |-> t[<<s, d>>].close]
        IN  Score(closes) \in Int /\ Confidence(closes) \in Int /\ Volatility(closes) \in Int

VARIABLES
    table,      \* the daily rows, at most one per security and date
    pc,
    eligible,   \* the rows the point-in-time validator let through
    features,   \* the rows the feature engine has built
    candidates, \* securities with a latest row
    audit,      \* why a candidate was filtered: last_filter_audit
    ranked,     \* the candidates that are ranked
    left,       \* the ranked rows the portfolio loop has not looked at
    chosen,     \* selected, in the order of portfolio_rank
    weight,     \* target_weight, in millionths
    stored      \* the snapshots on the storage

vars == <<table, pc, eligible, features, candidates, audit, ranked, left, chosen, weight, stored>>

Reasons   == {"insufficient_history", "invalid_or_low_volume", "return_limit",
              "volatility_limit", "invalid_ohlc"}
Snapshots == {"features", "filter_audit", "recommendations"}
Picked    == {chosen[i] : i \in DOMAIN chosen}
NoWeight  == [s \in Securities |-> 0]

\* TypeOK: every variable keeps its type; features come from validated rows
\* only, ranked rows from the candidates, and no security is selected twice.
TypeOK ==
    /\ table \in [Securities \X Dates -> Quote]
    /\ pc \in {"validate", "features", "save_features", "candidates", "filter", "save_audit",
               "rank", "select", "weigh", "save", "done", "raised"}
    /\ eligible \subseteq Securities \X Dates /\ features \subseteq eligible
    /\ candidates \subseteq Securities
    /\ audit \in [DOMAIN audit -> Reasons] /\ DOMAIN audit \subseteq candidates
    /\ ranked \subseteq candidates /\ left \subseteq ranked
    /\ chosen \in Seq(ranked) /\ Len(chosen) = Cardinality(Picked)
    /\ weight \in [Securities -> 0 .. Million]
    /\ stored \subseteq Snapshots

Init ==
    /\ table \in Tables
    /\ pc = "validate"
    /\ eligible = {} /\ features = {} /\ candidates = {}
    /\ audit = <<>> /\ ranked = {} /\ left = {} /\ chosen = <<>>
    /\ weight = NoWeight /\ stored = {}

-----------------------------------------------------------------------------
(* Point in time. *)

\* A mutation: a row counts whenever it became available.
Available_AnyTime(q) == q.avail # 0

\* The row says when it became available, and that was no later than the
\* decision.
Available(q) == q.avail # 0 /\ q.avail <= Decision

\* PointInTimeValidator.validate.
Validate ==
    /\ pc = "validate"
    /\ eligible' = {k \in Securities \X Dates : table[k] # NoQuote /\ Available(table[k])}
    /\ pc' = "features"
    /\ UNCHANGED <<table, features, candidates, audit, ranked, left, chosen, weight, stored>>

\* A mutation: the features are built from the unvalidated rows.
BuildFeatures_Unvalidated ==
    /\ pc = "features"
    /\ features' = {k \in Securities \X Dates : table[k] # NoQuote}
    /\ pc' = "save_features"
    /\ UNCHANGED <<table, eligible, candidates, audit, ranked, left, chosen, weight, stored>>

\* DailyFeatureEngine.build looks at available_at once more; a feature row is
\* built for every row of a security's history.
BuildFeatures ==
    /\ pc = "features"
    /\ features' = {k \in eligible : Available(table[k])}
    /\ pc' = "save_features"
    /\ UNCHANGED <<table, eligible, candidates, audit, ranked, left, chosen, weight, stored>>

-----------------------------------------------------------------------------
(* Writing a snapshot. *)

\* write_snapshot: it succeeds, or raises before or after taking effect.
Save(from, snapshot, to) ==
    /\ pc = from
    /\ \/ stored' = stored \cup {snapshot} /\ pc' = to
       \/ stored' \in {stored, stored \cup {snapshot}} /\ pc' = "raised"
    /\ UNCHANGED <<table, eligible, features, candidates, audit, ranked, left, chosen, weight>>

SaveFeatures        == Save("save_features", "features", "candidates")
SaveAudit           == Save("save_audit", "filter_audit", "rank")
SaveRecommendations == Save("save", "recommendations", "done")

-----------------------------------------------------------------------------
(* Candidates and quality filters. *)

History(keys, s) == {d \in Dates : <<s, d>> \in keys}
Latest(keys, s)  == Max(History(keys, s))
Closes(keys, s)  == [d \in History(keys, s) |-> table[<<s, d>>].close]
LatestQuote(keys, s) == table[<<s, Latest(keys, s)>>]

\* _latest_candidates: the latest available row of every security.
LatestCandidates ==
    /\ pc = "candidates"
    /\ candidates' = {s \in Securities : History(features, s) # {}}
    /\ pc' = "filter"
    /\ UNCHANGED <<table, eligible, features, audit, ranked, left, chosen, weight, stored>>

\* return_1d against the row before the latest one; without such a row, or
\* with a close of zero there, it is None and passes.  MaxReturn is in percent.
ReturnTooLarge(keys, s) ==
    LET earlier == History(keys, s) \ {Latest(keys, s)}
        prev    == table[<<s, Max(earlier)>>].close
        change  == LatestQuote(keys, s).close - prev
    IN  /\ earlier # {} /\ prev # 0
        /\ 100 * (IF change < 0 THEN -change ELSE change) > MaxReturn * prev

\* The first check of _filter_candidates that a candidate fails, or "none".
Verdict(keys, s) ==
    LET quote == LatestQuote(keys, s)
    IN  IF Cardinality(History(keys, s)) < MinHistory THEN "insufficient_history"
        ELSE IF quote.volume < MinVolume THEN "invalid_or_low_volume"
        ELSE IF ReturnTooLarge(keys, s) THEN "return_limit"
        ELSE IF Volatility(Closes(keys, s)) > MaxVolatility THEN "volatility_limit"
        ELSE IF quote.close = 0 \/ ~quote.sane THEN "invalid_ohlc"
        ELSE "none"

FilterCandidates ==
    /\ pc = "filter"
    /\ audit' = [s \in {r \in candidates : Verdict(features, r) # "none"} |-> Verdict(features, s)]
    /\ ranked' = {s \in candidates : Verdict(features, s) = "none"}
    /\ pc' = "save_audit"
    /\ UNCHANGED <<table, eligible, features, candidates, left, chosen, weight, stored>>

-----------------------------------------------------------------------------
(* Ranking and portfolio construction. *)

ScoreOf(keys, s) == Score(Closes(keys, s))

\* StockRecommendationAgent.rank: by falling score, then by symbol.
Before(keys, r, s) == \/ ScoreOf(keys, r) > ScoreOf(keys, s)
                      \/ ScoreOf(keys, r) = ScoreOf(keys, s) /\ r < s

\* The rows with the score and the confidence a portfolio asks for.
Investable(keys, S) == {s \in S : /\ ScoreOf(keys, s) >= MinScore
                                  /\ Confidence(Closes(keys, s)) >= MinConfidence}

Rank ==
    /\ pc = "rank"
    /\ left' = Investable(features, ranked)
    /\ pc' = "select"
    /\ UNCHANGED <<table, eligible, features, candidates, audit, ranked, chosen, weight, stored>>

InMarket(S, s) == {r \in S : MarketOf(r) = MarketOf(s)}

\* One round of the loop of construct_portfolio: the next row in rank order
\* is skipped when its market is full, and the loop breaks when the portfolio
\* is full.
Select ==
    /\ pc = "select"
    /\ \E s \in left :
        /\ \A r \in left \ {s} : Before(features, s, r)
        /\ \/ /\ Cardinality(InMarket(Picked, s)) >= MaxPerMarket
              /\ left' = left \ {s}
              /\ UNCHANGED chosen
           \/ /\ Cardinality(InMarket(Picked, s)) < MaxPerMarket
              /\ chosen' = Append(chosen, s)
              /\ left' = IF Len(chosen') >= MaxPositions THEN {} ELSE left \ {s}
    /\ UNCHANGED <<table, pc, eligible, features, candidates, audit, ranked, weight, stored>>

SelectDone ==
    /\ pc = "select" /\ left = {}
    /\ pc' = "weigh"
    /\ UNCHANGED <<table, eligible, features, candidates, audit, ranked, left, chosen, weight, stored>>

\* A volatility of None or below 0.01 counts as 0.01, the unit of the model.
Vol(s) == Max({1, Volatility(Closes(features, s))})

\* Inverse volatility weights over a common denominator, so that 1/Vol(s) is
\* InverseVol(S, s) / the product of the volatilities of S.
InverseVol(S, s) == MapThenFoldSet(LAMBDA a, b : a * b, 1, Vol, LAMBDA T : CHOOSE x \in T : TRUE, S \ {s})

\* round(w, 6) of the fraction n / d, a tie rounded up; Python's round is to even.
Round(n, d) == (2 * Million * n + d) \div (2 * d)

\* A mutation: the weight is not capped.
WeightOf_Uncapped(S, s) == Round(InverseVol(S, s), MapThenSumSet(LAMBDA r : InverseVol(S, r), S))

WeightOf(S, s) ==
    LET share == Round(InverseVol(S, s), MapThenSumSet(LAMBDA r : InverseVol(S, r), S))
    IN  IF share > MaxWeight THEN MaxWeight ELSE share

Weigh ==
    /\ pc = "weigh"
    /\ weight' = [s \in Securities |-> IF s \in Picked THEN WeightOf(Picked, s) ELSE 0]
    /\ pc' = "save"
    /\ UNCHANGED <<table, eligible, features, candidates, audit, ranked, left, chosen, stored>>

-----------------------------------------------------------------------------
Step == \/ Validate \/ BuildFeatures \/ SaveFeatures \/ LatestCandidates
        \/ FilterCandidates \/ SaveAudit \/ Rank \/ Select \/ SelectDone
        \/ Weigh \/ SaveRecommendations

Ended == pc \in {"done", "raised"} /\ UNCHANGED vars

Next == Step \/ Ended

Spec == Init /\ [][Next]_vars

-----------------------------------------------------------------------------
(* Properties. *)

\* The portfolio by definition, from the keys of the rows that had become
\* available by the decision: a row that passes the filters and is investable
\* is in it when fewer than MaxPerMarket better rows of its market are, and
\* fewer than MaxPositions better rows are.
IsPortfolio(S, keys) ==
    LET good == Investable(keys, {s \in Securities : /\ History(keys, s) # {}
                                                     /\ Verdict(keys, s) = "none"})
        better(s) == {r \in S : Before(keys, r, s)}
    IN  S = {s \in good : /\ Cardinality(InMarket(better(s), s)) < MaxPerMarket
                          /\ Cardinality(better(s)) < MaxPositions}

\* Whatever rows a run starts from, the finished portfolio is the one the
\* definition gives for the rows available at the decision time: rows that
\* came later change nothing, and the greedy loop with its skips and its break
\* neither stops too early nor takes a worse row before a better one.
PortfolioByDefinition ==
    pc \in {"weigh", "save", "done"} =>
        IsPortfolio(Picked, {k \in Securities \X Dates :
                               /\ table[k] # NoQuote
                               /\ table[k].avail \in 1 .. Decision})

\* The weights ask for no more than the whole account, up to half a millionth
\* of rounding each, none is above its cap, a steadier security never gets
\* less than a more volatile one, and every selected row gets something.
WeightsFit ==
    pc \in {"save", "done"} =>
        /\ 2 * MapThenSumSet(LAMBDA s : weight[s], Securities) <= 2 * Million + Cardinality(Picked)
        /\ \A s \in Securities : weight[s] <= MaxWeight /\ (weight[s] > 0 <=> s \in Picked)
        /\ \A r, s \in Picked : Vol(r) <= Vol(s) => weight[r] >= weight[s]
=============================================================================
