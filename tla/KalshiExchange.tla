--------------------------- MODULE KalshiExchange ---------------------------
(***************************************************************************)
(* The exchange as the bot's execution layer meets it: the account's open  *)
(* orders, and what one REST request can do to them.  The book itself is   *)
(* Kalshi's (external); which outcomes a request can have is read from the *)
(* adapter (lipmm/execution/adapters/kalshi.py) and from the retrying REST *)
(* client under it (feeds/kalshi/client.py).                               *)
(*                                                                         *)
(* A quote is a price in cents and a size.                                 *)
(* Order identifiers are numbered in the order the exchange issues them.   *)
(***************************************************************************)
EXTENDS Strikes, Integers, FiniteSets

CONSTANTS
    Prices,     \* limit prices, in cents
    MaxSize,    \* the largest size of an order, in contracts
    MaxOrders   \* bound: how many orders the exchange issues in a behaviour

Sizes == 1 .. MaxSize
Quotes == [px : Prices, sz : Sizes]
OrderIds == 1 .. MaxOrders
Orders == [id : OrderIds, key : Keys, quote : Quotes]

ASSUME ExchangeAssumption ==
    /\ MaxSize \in Nat \ {0}
    /\ MaxOrders \in Nat
    /\ Prices \subseteq Nat
    /\ None \notin Keys
    /\ None \notin Quotes

VARIABLES
    open,   \* the account's open orders, as the exchange has them
    issued  \* how many order identifiers the exchange has issued

book == <<open, issued>>

BookTypeOK ==
    /\ open \subseteq Orders
    /\ issued \in 0 .. MaxOrders

EmptyBook ==
    /\ open = {}
    /\ issued = 0

IsOpen(id) == \E o \in open : o.id = id

-----------------------------------------------------------------------------
(* What a request does to the book when the exchange executes it.          *)

\* POST /portfolio/orders: a new order rests.
Rest(k, q) ==
    /\ issued < MaxOrders
    /\ issued' = issued + 1
    /\ open' = open \cup {[id |-> issued + 1, key |-> k, quote |-> q]}

\* DELETE /portfolio/orders/{id}: the order leaves the book.
Pull(id) ==
    /\ IsOpen(id)
    /\ open' = {o \in open : o.id # id}
    /\ UNCHANGED issued

\* POST /portfolio/orders/{id}/amend: the same order at a new price and size.
Reprice(id, q) ==
    /\ IsOpen(id)
    /\ open' = {IF o.id = id THEN [o EXCEPT !.quote = q] ELSE o : o \in open}
    /\ UNCHANGED issued

-----------------------------------------------------------------------------
(* What the market does to the book without being asked.                   *)

\* An order is filled completely, expires with its market, or is cancelled
\* by the exchange itself (short collateral): the bot is not told.
Vanish(o) ==
    /\ o \in open
    /\ open' = open \ {o}
    /\ UNCHANGED issued

\* An order is filled in part: it keeps its identifier and price.
PartFill(o) ==
    /\ o \in open
    /\ o.quote.sz > 1
    /\ open' = (open \ {o}) \cup {[o EXCEPT !.quote.sz = @ - 1]}
    /\ UNCHANGED issued

Market == \E o \in open : Vanish(o) \/ PartFill(o)
=============================================================================
