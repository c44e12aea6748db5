------------------------------ MODULE OrderBook ------------------------------
(***************************************************************************)
(* src/src/systems/hft/order_book.cpp.  book["Buy"] is bids_ and           *)
(* book["Sell"] is asks_; a side maps each price that has a level to its   *)
(* list.  A list node is identified by the number of the addOrder call     *)
(* that made it, which no other node ever has, so that the iterator stored *)
(* in order_lookup_ is that number and a dangling one can be told.  Ids    *)
(* are chosen by the caller and may repeat.                                *)
(***************************************************************************)
EXTENDS Naturals, Sequences, FiniteSets, FiniteSetsExt, SequencesExt

CONSTANTS Ids, Prices, Quantities,
          Modulus,       \* the quantities are added modulo this (2^32 in the code)
          MaxAdds        \* bound on the calls of addOrder

Sides == {"Buy", "Sell"}

VARIABLES book, order_lookup_,
          adds,          \* calls of addOrder so far: the next node
          superseded     \* history: nodes whose id was added again while they rested

vars == <<book, order_lookup_, adds, superseded>>

Init ==
    /\ book = [side \in Sides |-> <<>>] /\ order_lookup_ = <<>>
    /\ adds = 0 /\ superseded = {}

(* level.push_back(order), after book[price] has made the level if need be. *)
PushBack(levels, price, o) ==
    [q \in DOMAIN levels \cup {price} |->
        LET level == IF q \in DOMAIN levels THEN levels[q] ELSE <<>>
        IN  IF q = price THEN Append(level, o) ELSE level]

(* list.erase of the node an iterator points to. *)
Without(level, it) ==
    LET position == CHOOSE n \in DOMAIN level : level[n].node = it
    IN  RemoveAt(level, position)

EraseKeepingLevel(levels, loc) ==
    [levels EXCEPT ![loc.price] = Without(@, loc.it)]

(* The erase of cancelOrder; a level that it leaves empty goes. *)
Erase(levels, loc) ==
    LET level == Without(levels[loc.price], loc.it)
    IN  [q \in {r \in DOMAIN levels : r = loc.price => level # <<>>} |->
            IF q = loc.price THEN level ELSE levels[q]]

-----------------------------------------------------------------------------
addOrder(id, side, price, qty) ==
    /\ adds < MaxAdds /\ adds' = adds + 1
    /\ book' = [book EXCEPT ![side] =
                   PushBack(@, price, [id |-> id, quantity |-> qty, node |-> adds])]
    /\ order_lookup_' = [i \in DOMAIN order_lookup_ \cup {id} |->
                            IF i = id THEN [side |-> side, price |-> price, it |-> adds]
                            ELSE order_lookup_[i]]
    /\ superseded' = superseded \cup
           {order_lookup_[i].it : i \in DOMAIN order_lookup_ \cap {id}}

cancelOrder(id) ==
    /\ id \in DOMAIN order_lookup_
    /\ LET loc == order_lookup_[id]
       IN  book' = IF loc.price \in DOMAIN book[loc.side]
                   THEN [book EXCEPT ![loc.side] = Erase(@, loc)] ELSE book
    /\ order_lookup_' = [i \in DOMAIN order_lookup_ \ {id} |-> order_lookup_[i]]
    /\ UNCHANGED <<adds, superseded>>

(* cancelOrder of an unknown id returns false. *)
CancelUnknown(id) == id \notin DOMAIN order_lookup_ /\ UNCHANGED vars

(* The quantities of a level, added up in uint32_t arithmetic. *)
Added(level) ==
    LET sum[n \in 0 .. Len(level)] ==
            IF n = 0 THEN 0 ELSE (sum[n - 1] + level[n].quantity) % Modulus
    IN  sum[Len(level)]

(* One side of getTopOfBook: rbegin() of the bids, begin() of the asks. *)
TopOf(side) ==
    IF book[side] = <<>> THEN [price |-> 0, quantity |-> 0]
    ELSE LET best == IF side = "Buy" THEN Max(DOMAIN book[side]) ELSE Min(DOMAIN book[side])
         IN  [price |-> best, quantity |-> Added(book[side][best])]

Next ==
    \/ \E id \in Ids, side \in Sides, price \in Prices, qty \in Quantities :
           addOrder(id, side, price, qty)
    \/ \E id \in Ids : cancelOrder(id) \/ CancelUnknown(id)

Spec == Init /\ [][Next]_vars

-----------------------------------------------------------------------------
(* Stored iterators point into the level they name, at an order of their id. *)
IteratorsValid ==
    \A id \in DOMAIN order_lookup_ :
        LET loc == order_lookup_[id]
        IN  /\ loc.price \in DOMAIN book[loc.side]
            /\ \E n \in DOMAIN book[loc.side][loc.price] :
                   LET o == book[loc.side][loc.price][n] IN o.node = loc.it /\ o.id = id

(* Every resting order can be cancelled, unless its id was used again, and
   rests in the order of arrival in a level that exists only for its orders. *)
LevelsReachable ==
    \A side \in Sides : \A p \in DOMAIN book[side] :
        LET level == book[side][p]
        IN  /\ level # <<>>
            /\ \A m, n \in DOMAIN level : m < n => level[m].node < level[n].node
            /\ \A n \in DOMAIN level :
                   level[n].node \notin superseded =>
                       /\ level[n].id \in DOMAIN order_lookup_
                       /\ order_lookup_[level[n].id].it = level[n].node

Total(quantity) == MapThenSumSet(LAMBDA n : quantity[n], DOMAIN quantity)
QuantityOf(level) == Total([n \in DOMAIN level |-> level[n].quantity])

(* The top of a side that has orders is a price with an order, no other order
   is better, and while it fits the quantity is the sum over that price. *)
TopCorrect ==
    \A side \in Sides : DOMAIN book[side] # {} =>
        LET top == TopOf(side)
            total == QuantityOf(book[side][top.price])
        IN  /\ \A p \in DOMAIN book[side] : IF side = "Buy" THEN p <= top.price ELSE p >= top.price
            /\ 0 < total /\ (total < Modulus => top.quantity = total)

(* Whatever ids are added, repeated and cancelled, cancelOrder never uses a
   dangling iterator (line 69) and getTopOfBook describes a resting order. *)
BookSound == IteratorsValid /\ LevelsReachable /\ TopCorrect
==============================================================================
