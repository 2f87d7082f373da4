------------------------------ MODULE OrderLists ------------------------------
(***************************************************************************)
(* The client's own orders (wf-market types/order_list.rs) and the calls    *)
(* that change them (endpoints/order.rs).  A list is a set of records with  *)
(* an id, the item and sub-type (`key') and the side; what else a record    *)
(* holds is the user's of this module.  A call answers with the market and  *)
(* the cache it leaves and whether it succeeded.                            *)
(***************************************************************************)
EXTENDS Integers, FiniteSets

OfSide(list, side) == {o \in list : o.side = side}
order_ids(list, side) == {o.id : o \in OfSide(list, side)}
total_orders(list) == Cardinality(list)
get_by_id(list, id) == {o \in list : o.id = id}

\* Orders of one key and side; the code takes the first of them.
find_order(list, key, side) == {o \in OfSide(list, side) : o.key = key}

remove_by_id(list, id) == {o \in list : o.id # id}
update(list, id, change) ==
  {IF o.id = id THEN [f \in DOMAIN o |-> IF f \in DOMAIN change THEN change[f] ELSE o[f]]
   ELSE o : o \in list}

\* An unsigned subtraction, on a word that TLC's integers can hold (the code's
\* has 32 bits): a quantity above the order's wraps around where overflow is
\* not checked.
U32 == 2^16

\* The doc of close_order gives 0 a meaning of its own; the code does not.
close_order(list, id, quantity) ==
  LET left(o) == (o.quantity - quantity) % U32
      of == get_by_id(list, id)
  IN IF of = {} THEN list
     ELSE LET o == CHOOSE x \in of : TRUE
          IN IF left(o) <= 0 THEN remove_by_id(list, id)
             ELSE update(list, id, [quantity |-> left(o)])

-----------------------------------------------------------------------------
(***************************************************************************)
(* The market answers "ok", or the call fails: the answer is lost after the *)
(* market acted ("lost"), the market refuses what it does not know or has   *)
(* no room for ("refused"), or it never acted ("failed").                   *)
(***************************************************************************)
Answer(market, cache, answer) == [market |-> market, cache |-> cache, answer |-> answer]

can_create_order(cache, limit) == total_orders(cache) < limit

\* A mutated form: the new order is not put into the cache.
create_Uncached(market, cache, order, props, limit) ==
  {Answer(market \cup {order}, cache, "ok")}

\* `props' are the fields only the cache knows of an order.
create(market, cache, order, props, limit) ==
  IF ~can_create_order(cache, limit) \/ total_orders(market) >= limit
  THEN {Answer(market, cache, "refused")}
  ELSE LET cached == [f \in DOMAIN order \cup DOMAIN props |->
                        IF f \in DOMAIN props THEN props[f] ELSE order[f]]
       IN {Answer(market \cup {order}, cache \cup {cached}, "ok"),
           Answer(market \cup {order}, cache, "lost"),
           Answer(market, cache, "failed")}

\* The market keeps no properties, so an update leaves its own list as it is.
update_order(market, cache, id, props) ==
  IF get_by_id(market, id) = {} THEN {Answer(market, cache, "refused")}
  ELSE {Answer(market, update(cache, id, props), "ok"), Answer(market, cache, "failed")}

delete(market, cache, id) ==
  IF get_by_id(market, id) = {} THEN {Answer(market, cache, "refused")}
  ELSE {Answer(remove_by_id(market, id), remove_by_id(cache, id), "ok"),
        Answer(remove_by_id(market, id), cache, "lost"),
        Answer(market, cache, "failed")}

\* The cache becomes what the market answered, without any properties.
my_orders(answered, blank) ==
  {[f \in DOMAIN o \cup DOMAIN blank |-> IF f \in DOMAIN blank THEN blank[f] ELSE o[f]] :
     o \in answered}
=============================================================================
