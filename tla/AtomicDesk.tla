------------------------------ MODULE AtomicDesk ------------------------------
(***************************************************************************)
(* What the paper gateway promises its callers, whatever its steps are:    *)
(* an order is opened once, every trade moves the account and the order's  *)
(* filled quantity together, an order never fills beyond its quantity and  *)
(* never moves again once it is filled or canceled, and neither cash nor a *)
(* position is ever overdrawn.                                             *)
(***************************************************************************)
EXTENDS Integers

CONSTANTS Ids, Symbols, NoOrder, InitialCash, InitialPositions

VARIABLES book, cash, positions

deskVars == <<book, cash, positions>>

Records ==
  [symbol : Symbols, side : {"BUY", "SELL"}, quantity : Int, filled_quantity : Nat,
   status : {"NEW", "PARTIALLY_FILLED", "FILLED", "CANCELED", "REJECTED"}]

Open(record) == record # NoOrder /\ record.status \in {"NEW", "PARTIALLY_FILLED"}

Booked(record, quantity) ==
  LET total == record.filled_quantity + quantity
  IN  [record EXCEPT !.filled_quantity = total,
                     !.status = IF total = record.quantity THEN "FILLED" ELSE "PARTIALLY_FILLED"]

DeskInit ==
  /\ book = [i \in Ids |-> NoOrder]
  /\ cash = InitialCash
  /\ positions = InitialPositions

\* A new client order id enters the book, unfilled.
OpenOrder(i) ==
  /\ book[i] = NoOrder
  /\ book'[i] \in Records
  /\ book'[i].filled_quantity = 0 /\ book'[i].status = "NEW"
  /\ book' = [book EXCEPT ![i] = book'[i]]
  /\ UNCHANGED <<cash, positions>>

\* One fill: the book and the account move in the same step.
Trade(i, quantity) ==
  LET o == book[i] IN
  /\ Open(o)
  /\ quantity <= o.quantity - o.filled_quantity
  /\ book' = [book EXCEPT ![i] = Booked(o, quantity)]
  /\ \/ /\ o.side = "BUY"
        /\ cash' \in Nat /\ cash' <= cash
        /\ positions' = [positions EXCEPT ![o.symbol] = @ + quantity]
     \/ /\ o.side = "SELL"
        /\ cash' \in Nat /\ cash' >= cash
        /\ quantity <= positions[o.symbol]
        /\ positions' = [positions EXCEPT ![o.symbol] = @ - quantity]

CancelOrder(i) ==
  /\ Open(book[i])
  /\ book' = [book EXCEPT ![i].status = "CANCELED"]
  /\ UNCHANGED <<cash, positions>>

DeskNext ==
  \E i \in Ids :
    \/ OpenOrder(i)
    \/ book[i] # NoOrder /\ \E q \in 1..book[i].quantity : Trade(i, q)
    \/ CancelOrder(i)

DeskSpec == DeskInit /\ [][DeskNext]_deskVars

=============================================================================
