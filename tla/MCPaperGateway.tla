---------------------------- MODULE MCPaperGateway ----------------------------
(* Small instances of PaperGateway for TLC.                                 *)
EXTENDS PaperGateway

CONSTANTS o1, o2, AAA, BBB, t1, t2

MCInitialPositions == [s \in Symbols |-> IF s = AAA THEN 3 ELSE 0]

Execute(i, s, sd, q, p, d) ==
  [kind |-> "execute", client_order_id |-> i, symbol |-> s, side |-> sd, quantity |-> q,
   order_type |-> "MARKET", limit_price |-> NoLimit, price |-> p, depth |-> d]
Limit(c, l) == [c EXCEPT !.order_type = "LIMIT", !.limit_price = l]
Cancel(i) == [Execute(i, AAA, "BUY", 1, 10, NoDepth) EXCEPT !.kind = "cancel"]

\* One caller: an order that fills in parts or not at all, its retry at other
\* depths, a reuse of its id for another order, a sale, an order the account
\* cannot cover, limit orders, an order of nothing and one without an id.
SoloCalls ==
  {Execute(o1, AAA, "BUY", 2, 10, d) : d \in {NoDepth, 0, 1}}
  \cup {Execute(o2, AAA, "SELL", 4, 10, d) : d \in {NoDepth, 2, 3}}
  \cup {Execute(o1, BBB, "BUY", 1, 10, NoDepth),
        Execute(o2, BBB, "BUY", 4, 10, NoDepth),
        Execute(o1, AAA, "BUY", 0, 10, NoDepth),
        Execute(NoId, AAA, "BUY", 1, 10, NoDepth)}
  \cup {Limit(Execute(o2, BBB, "BUY", 1, 20, NoDepth), l) : l \in {10, 20, NoLimit}}
  \cup {Cancel(o1), Cancel(o2)}

\* Several callers: a buy that fills at once or in parts, a sale of the same
\* symbol under another id, the buy's id reused for another order, a cancel.
SharedCalls ==
  {Execute(o1, AAA, "BUY", 2, 10, d) : d \in {NoDepth, 1}}
  \cup {Execute(o2, AAA, "SELL", 2, 10, NoDepth), Execute(o1, BBB, "BUY", 1, 10, NoDepth), Cancel(o1)}

\* Two submissions of the same order: a client that retries after a timeout.
RetryCalls == {Execute(o1, AAA, "BUY", 2, 10, NoDepth)}

=============================================================================
