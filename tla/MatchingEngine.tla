--------------------------- MODULE MatchingEngine ---------------------------
(***************************************************************************)
(* src/src/systems/hft/matching_engine.cpp.  submitOrder makes the new     *)
(* order the incoming one; each iteration of the loop of matchBuy or       *)
(* matchSell is a Fill, the end of the call is Rest.  The two functions    *)
(* differ only in the side, which is a parameter here: book[Buy] is bids_  *)
(* and book[Sell] is asks_.  A side maps each price that has a level to    *)
(* the queue of orders resting there.                                      *)
(***************************************************************************)
EXTENDS Naturals, Sequences, FiniteSets, FiniteSetsExt, SequencesExt

CONSTANTS Prices, MaxQuantity,
          MaxOrders      \* bound on the number of calls

Sides == {"Buy", "Sell"}
Opposite(side) == IF side = "Buy" THEN "Sell" ELSE "Buy"
NoOrder == [id |-> 0]
Order == [id : 1 .. MaxOrders, side : Sides, price : Prices, quantity : 0 .. MaxQuantity]

VARIABLES book, trades_, next_order_id_,
          order,         \* the order being matched, or NoOrder
          submitted      \* history: the orders as they were submitted

vars == <<book, trades_, next_order_id_, order, submitted>>

Init ==
    /\ book = [side \in Sides |-> <<>>]
    /\ trades_ = <<>> /\ next_order_id_ = 1
    /\ order = NoOrder /\ submitted = {}

LowestPrice(side) == Min(DOMAIN book[side])

(* begin() of the map: the highest bid or the lowest ask. *)
BestPrice(side) == IF side = "Buy" THEN Max(DOMAIN book[side]) ELSE Min(DOMAIN book[side])
Resting(side) == Head(book[side][BestPrice(side)])

Accepts(o, price) == IF o.side = "Buy" THEN o.price >= price ELSE o.price <= price

CanFill(o) ==
    /\ o.quantity > 0 /\ DOMAIN book[Opposite(o.side)] # {}
    /\ Accepts(o, BestPrice(Opposite(o.side)))

(* A level after its first order has lost filled. *)
AfterFill(level, filled) ==
    IF level[1].quantity = filled THEN Tail(level) ELSE [level EXCEPT ![1].quantity = @ - filled]

ReducedKeepingEmpty(side, filled) ==
    [book[side] EXCEPT ![BestPrice(side)] = AfterFill(@, filled)]

Reduced(side, filled) ==
    LET p == BestPrice(side)
        level == AfterFill(book[side][p], filled)
    IN  [q \in {r \in DOMAIN book[side] : r = p => level # <<>>} |->
            IF q = p THEN level ELSE book[side][q]]

(* The level an order joins is created if it does not exist. *)
WithOrder(levels, o) ==
    [q \in DOMAIN levels \cup {o.price} |->
        LET level == IF q \in DOMAIN levels THEN levels[q] ELSE <<>>
        IN  IF q = o.price THEN Append(level, o) ELSE level]

-----------------------------------------------------------------------------
submitOrder(side, price, qty) ==
    /\ order = NoOrder /\ next_order_id_ <= MaxOrders
    /\ order' = [id |-> next_order_id_, side |-> side, price |-> price, quantity |-> qty]
    /\ submitted' = submitted \cup {order'}
    /\ next_order_id_' = next_order_id_ + 1
    /\ UNCHANGED <<book, trades_>>

Fill ==
    /\ order # NoOrder /\ CanFill(order)
    /\ LET side == Opposite(order.side)
           resting == Resting(side)
           filled == Min({order.quantity, resting.quantity})
           buyer == IF order.side = "Buy" THEN order ELSE resting
           seller == IF order.side = "Buy" THEN resting ELSE order
       IN  /\ trades_' = Append(trades_, [buy_order_id |-> buyer.id, sell_order_id |-> seller.id,
                                         price |-> resting.price, quantity |-> filled])
           /\ order' = [order EXCEPT !.quantity = @ - filled]
           /\ book' = [book EXCEPT ![side] = Reduced(side, filled)]
    /\ UNCHANGED <<next_order_id_, submitted>>

Rest ==
    /\ order # NoOrder /\ ~CanFill(order)
    /\ book' = IF order.quantity > 0
               THEN [book EXCEPT ![order.side] = WithOrder(@, order)] ELSE book
    /\ order' = NoOrder
    /\ UNCHANGED <<trades_, next_order_id_, submitted>>

(* The bound on the number of orders is reached. *)
NoMoreOrders == order = NoOrder /\ next_order_id_ > MaxOrders /\ UNCHANGED vars

Next ==
    \/ \E side \in Sides, price \in Prices, qty \in 0 .. MaxQuantity : submitOrder(side, price, qty)
    \/ Fill
    \/ Rest
    \/ NoMoreOrders

Spec == Init /\ [][Next]_vars

-----------------------------------------------------------------------------
OrdersIn(b) == UNION {UNION {ToSet(b[side][p]) : p \in DOMAIN b[side]} : side \in Sides}
RestingOrders == OrdersIn(book)

LevelSound(side, p, level) ==
    /\ level # <<>>
    /\ \A n \in DOMAIN level :
           level[n] \in Order /\ level[n].side = side /\ level[n].price = p /\ level[n].quantity > 0
    /\ \A m, n \in DOMAIN level : m < n => level[m].id < level[n].id

(* Levels exist exactly while they hold orders, an order rests on its side at
   its price with something left to fill, and a level is a queue in the order
   of submission. *)
LevelsSound == \A side \in Sides : \A p \in DOMAIN book[side] : LevelSound(side, p, book[side][p])

(* Between two calls the best bid is below the best ask. *)
NotCrossed ==
    order = NoOrder =>
        \A bid \in DOMAIN book["Buy"], ask \in DOMAIN book["Sell"] : bid < ask

TotalOf(quantity) == MapThenSumSet(LAMBDA x : quantity[x], DOMAIN quantity)
QuantityIn(orders) == TotalOf([r \in orders |-> r.quantity])
TradesOf(id, trades) == {n \in DOMAIN trades : id \in {trades[n].buy_order_id, trades[n].sell_order_id}}
Traded(id, trades) == TotalOf([n \in TradesOf(id, trades) |-> trades[n].quantity])

(* Of every order, what was submitted is what was traded plus what is left. *)
QuantityConserved ==
    \A o \in submitted :
        o.quantity = Traded(o.id, trades_) + QuantityIn({r \in RestingOrders \cup {order} : r.id = o.id})

(* A trade is at a price both parties accept. *)
TradesWithinLimits ==
    \A n \in DOMAIN trades_ : \A buyer, seller \in submitted :
        buyer.id = trades_[n].buy_order_id /\ seller.id = trades_[n].sell_order_id =>
            /\ buyer.side = "Buy" /\ seller.side = "Sell"
            /\ seller.price <= trades_[n].price /\ trades_[n].price <= buyer.price
            /\ trades_[n].quantity > 0

(* The engine loses and invents nothing, trades only within the limits of both
   parties, and a finished call leaves no pair of orders that should have
   traded (lines 80-129). *)
MatchingSound == LevelsSound /\ NotCrossed /\ QuantityConserved /\ TradesWithinLimits

(* Price-time priority (lines 5-7): no order is filled while an order of its
   side with a better price, or with the same price and an earlier submission,
   rests in the book. *)
PriorityRespected ==
    [][\A r \in RestingOrders :
           Len(trades_') > Len(trades_) /\ r.side # order.side =>
               LET t == trades_'[Len(trades_')]
                   filled == CHOOSE x \in RestingOrders :
                                 x.id \in {t.buy_order_id, t.sell_order_id}
               IN  \/ r.price = filled.price /\ r.id >= filled.id
                   \/ IF r.side = "Buy" THEN r.price < filled.price ELSE r.price > filled.price
      ]_vars
==============================================================================
