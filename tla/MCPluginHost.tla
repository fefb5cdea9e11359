------------------------------ MODULE MCPluginHost ------------------------------
(* A small instance of PluginHost for TLC.                                   *)
EXTENDS PluginHost

CONSTANTS a1, t1, p1, p2, s1, s2

\* Both plugins bring the skill s2, p1 as its second one.
Manifests == [x \in Plugins |-> IF x = p1 THEN <<s1, s2>> ELSE <<s2>>]

Ask(k, x, y, m) == [kind |-> k, plugin |-> x, skill |-> y, mode |-> m]

\* Each kind of call; p1 asked for its own skills, for one it may not own, and
\* for REAL_LIVE; p2 asked for a skill that only p1 can own.
SomeRequests ==
  {Ask("gateway", p1, s1, "PAPER_SANDBOX"), Ask("gateway", p1, s2, "REAL_LIVE"),
   Ask("invoke", p1, s2, "PAPER_SANDBOX"), Ask("invoke", p2, s1, "VIRTUAL_BACKTEST"),
   Ask("backtest", p1, s2, "VIRTUAL_BACKTEST"),
   Ask("order", p1, s1, "PAPER_SANDBOX"), Ask("order", p1, s1, "REAL_LIVE")}
=============================================================================
