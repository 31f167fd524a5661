---- MODULE OrderReports ----
(***************************************************************************)
(* What one order says, on its way out (protocol::json::Encoder) and in    *)
(* the reports that come back (gateway::DropCopy, Executions), with the    *)
(* enum maps between the two (protocol/json/map.cpp).                      *)
(*                                                                         *)
(* The two sides have different vocabularies: the exchange knows fewer     *)
(* times in force and more order types, a field without a value is left    *)
(* out of a request, and most reports have only a few of the fields.       *)
(*                                                                         *)
(* The order lives on one connection that is not lost (DropCopy has the    *)
(* losses).  Quantities and prices count increments of the symbol, so that *)
(* the decimals of a request are exact.  The exchange is modelled from the *)
(* messages of test/json_executions.cpp.                                   *)
(***************************************************************************)
EXTENDS Integers, Sequences

CONSTANTS
    Quantities,     \* the quantities a client asks for
    Prices,         \* the prices a client asks for
    TimesInForce,   \* the times in force a client asks for
    MaxAmends,      \* bound: amendments asked for
    None            \* no order, no update

NaN == -1           \* no value

(* roq::TimeInForce *)
RoqTimeInForce ==
    {"UNDEFINED", "GFD", "GTC", "OPG", "IOC", "FOK", "GTX", "GTD", "AT_THE_CLOSE",
     "GOOD_THROUGH_CROSSING", "AT_CROSSING", "GOOD_FOR_TIME", "GFA", "GFM"}

ASSUME FieldAssumption ==
    /\ Quantities \subseteq Nat \ {0}
    /\ Prices \subseteq Nat
    /\ TimesInForce \subseteq RoqTimeInForce
    /\ MaxAmends \in Nat

VARIABLES
    request,        \* the CreateOrder, or None
    amends,         \* the number of ModifyOrders
    canceled,       \* a CancelOrder was sent
    upstream,       \* requests on their way to the exchange
    downstream,     \* reports on their way from the exchange, each with the
                    \* order as it was when the report was made
    exchange,       \* the order at the exchange, or None
    wanted,         \* the order as the client asked for it in the requests
                    \* the exchange has accepted (history)
    update,         \* the last OrderUpdate, or None
    truth           \* the order the last OrderUpdate is about (history)

vars == <<request, amends, canceled, upstream, downstream, exchange, wanted,
          update, truth>>

CreateOrders ==
    [side : {"BUY", "SELL"}, order_type : {"UNDEFINED", "MARKET", "LIMIT"},
     time_in_force : TimesInForce, quantity : Quantities, price : Prices \cup {NaN}]

ModifyOrders == [quantity : Quantities \cup {NaN}, price : Prices \cup {NaN}]

(* The orders there may be at the exchange. *)
Orders ==
    [side : {"buy", "sell"}, order_type : {"market", "limit"},
     time_in_force : {"gtc", "gtd", "ioc"}, order_qty : Quantities,
     limit_price : Prices \cup {NaN}, cum_qty : Nat,
     status : {"open", "filled", "canceled", "expired"}]

ASSUME NoneAssumption == None \notin CreateOrders \cup Orders

----------------------------------------------------------------------------
(* roq => json.  What has no counterpart becomes the empty text. *)

JsonSide(side) ==
    CASE side = "BUY" -> "buy"
      [] side = "SELL" -> "sell"
      [] OTHER -> ""

JsonOrderType(order_type) ==
    CASE order_type = "MARKET" -> "market"
      [] order_type = "LIMIT" -> "limit"
      [] OTHER -> ""

(* Faulty variant: the nearest the exchange has. *)
JsonTimeInForceNearest(time_in_force) ==
    CASE time_in_force \in {"GTC", "GFD"} -> "gtc"
      [] time_in_force \in {"IOC", "FOK"} -> "ioc"
      [] time_in_force = "GTD" -> "gtd"
      [] OTHER -> ""

JsonTimeInForce(time_in_force) ==
    CASE time_in_force = "GTC" -> "gtc"
      [] time_in_force = "IOC" -> "ioc"
      [] time_in_force = "GTD" -> "gtd"
      [] OTHER -> ""

----------------------------------------------------------------------------
(* json => roq.  A field the report does not have is undefined. *)

RoqSide(side) ==
    CASE side = "buy" -> "BUY"
      [] side = "sell" -> "SELL"
      [] OTHER -> "UNDEFINED"

RoqOrderType(order_type) ==
    CASE order_type \in {"limit", "stop-loss-limit", "take-profit-limit",
                         "trailing-stop-limit"} -> "LIMIT"
      [] order_type \in {"market", "stop-loss", "take-profit", "trailing-stop",
                         "settle-position"} -> "MARKET"
      [] OTHER -> "UNDEFINED"

RoqTimeInForce2(time_in_force) ==
    IF time_in_force \in {"GTC", "GTD", "IOC"} THEN time_in_force ELSE "UNDEFINED"

(* Faulty variant: an order that expires is not known to have ended. *)
RoqOrderStatusNoExpiry(order_status) ==
    CASE order_status = "pending_new" -> "ACCEPTED"
      [] order_status \in {"new", "partially_filled"} -> "WORKING"
      [] order_status = "filled" -> "COMPLETED"
      [] order_status = "canceled" -> "CANCELED"
      [] OTHER -> "UNDEFINED"

RoqOrderStatus(order_status) ==
    CASE order_status = "pending_new" -> "ACCEPTED"
      [] order_status \in {"new", "partially_filled"} -> "WORKING"
      [] order_status = "filled" -> "COMPLETED"
      [] order_status = "canceled" -> "CANCELED"
      [] order_status = "expired" -> "EXPIRED"
      [] OTHER -> "UNDEFINED"

----------------------------------------------------------------------------
(* Requests.  asked is what the client asked for, which the exchange does  *)
(* not see.                                                                *)

add_order_json(create_order) ==
    [method |-> "add_order",
     side |-> JsonSide(create_order.side),
     order_type |-> JsonOrderType(create_order.order_type),
     order_qty |-> create_order.quantity,
     time_in_force |-> IF create_order.time_in_force = "UNDEFINED"
                       THEN "absent"
                       ELSE JsonTimeInForce(create_order.time_in_force),
     limit_price |-> create_order.price,
     asked |-> create_order]

(* A field that is to stay as it is, is left out. *)
amend_order_json(modify_order) ==
    [method |-> "amend_order",
     order_qty |-> modify_order.quantity,
     limit_price |-> modify_order.price,
     asked |-> modify_order]

CreateOrder ==
    /\ request = None
    /\ \E r \in CreateOrders :
         /\ request' = r
         /\ upstream' = Append(upstream, add_order_json(r))
    /\ UNCHANGED <<amends, canceled, downstream, exchange, wanted, update, truth>>

(* A client amends an order it has seen. *)
ModifyOrder ==
    /\ update # None
    /\ amends < MaxAmends
    /\ amends' = amends + 1
    /\ \E a \in ModifyOrders : upstream' = Append(upstream, amend_order_json(a))
    /\ UNCHANGED <<request, canceled, downstream, exchange, wanted, update, truth>>

CancelOrder ==
    /\ request # None
    /\ ~canceled
    /\ canceled' = TRUE
    /\ upstream' = Append(upstream, [method |-> "cancel_order"])
    /\ UNCHANGED <<request, amends, downstream, exchange, wanted, update, truth>>

----------------------------------------------------------------------------
(* The exchange *)

Given(value, default) == IF value = NaN THEN default ELSE value

ReportedTimeInForce == [gtc |-> "GTC", gtd |-> "GTD", ioc |-> "IOC"]

(* A report with the fields it has.  *)
Report(order, exec_type, order_status, fields) ==
    [exec_type |-> exec_type, order_status |-> order_status,
     side |-> IF "side" \in fields THEN order.side ELSE "absent",
     order_type |-> IF "side" \in fields THEN order.order_type ELSE "absent",
     time_in_force |-> IF "time_in_force" \in fields
                       THEN ReportedTimeInForce[order.time_in_force]
                       ELSE "absent",
     order_qty |-> IF "order_qty" \in fields THEN order.order_qty ELSE NaN,
     limit_price |-> IF "order_qty" \in fields THEN order.limit_price ELSE NaN,
     cum_qty |-> IF "cum_qty" \in fields THEN order.cum_qty ELSE NaN,
     order |-> order]

PendingNew(order) ==
    Report(order, "pending_new", "pending_new", {"side", "time_in_force", "order_qty"})
New(order) == Report(order, "new", "new", {})
Amended(order) ==
    Report(order, "amended", IF order.cum_qty = 0 THEN "new" ELSE "partially_filled",
           {"order_qty", "cum_qty"})
Traded(order) == Report(order, "trade", "partially_filled", {"side", "cum_qty"})
Closed(order) == Report(order, order.status, order.status, {"cum_qty"})

Valid(m) ==
    /\ m.side \in {"buy", "sell"}
    /\ m.order_type \in {"market", "limit"}
    /\ m.order_type = "limit" => m.limit_price # NaN
    /\ m.time_in_force \in {"absent", "gtc", "gtd", "ioc"}

(* The order of a valid request; its time in force is gtc by default. *)
Placed(m) ==
    [side |-> m.side, order_type |-> m.order_type,
     time_in_force |-> IF m.time_in_force = "absent" THEN "gtc" ELSE m.time_in_force,
     order_qty |-> m.order_qty, limit_price |-> m.limit_price,
     cum_qty |-> 0, status |-> "open"]

TakeAdd(m) ==
    /\ m.method = "add_order"
    /\ exchange = None
    /\ Valid(m)
    /\ exchange' = Placed(m)
    /\ wanted' = m.asked
    /\ downstream' = downstream \o <<PendingNew(exchange'), New(exchange')>>

Amendable(m) ==
    /\ exchange # None
    /\ exchange.status = "open"
    /\ Given(m.order_qty, exchange.order_qty) > exchange.cum_qty

TakeAmend(m) ==
    /\ m.method = "amend_order"
    /\ Amendable(m)
    /\ exchange' = [exchange EXCEPT !.order_qty = Given(m.order_qty, @),
                                    !.limit_price = Given(m.limit_price, @)]
    /\ wanted' = [wanted EXCEPT !.quantity = Given(m.asked.quantity, @),
                                !.price = Given(m.asked.price, @)]
    /\ downstream' = Append(downstream, Amended(exchange'))

Close(status) ==
    /\ exchange # None
    /\ exchange.status = "open"
    /\ exchange' = [exchange EXCEPT !.status = status]
    /\ downstream' = Append(downstream, Closed(exchange'))

TakeCancel(m) ==
    /\ m.method = "cancel_order"
    /\ Close("canceled")
    /\ UNCHANGED wanted

(* Any request may be refused, and one that cannot be done must be. *)
Refuse == UNCHANGED <<downstream, exchange, wanted>>

Take ==
    /\ upstream # <<>>
    /\ upstream' = Tail(upstream)
    /\ LET m == Head(upstream)
       IN TakeAdd(m) \/ TakeAmend(m) \/ TakeCancel(m) \/ Refuse
    /\ UNCHANGED <<request, amends, canceled, update, truth>>

Trade ==
    /\ exchange # None
    /\ exchange.status = "open"
    /\ \E n \in 1 .. exchange.order_qty - exchange.cum_qty :
         LET cum == exchange.cum_qty + n
             done == cum = exchange.order_qty
             traded == [exchange EXCEPT !.cum_qty = cum]
         IN /\ exchange' = [traded EXCEPT !.status = IF done THEN "filled" ELSE "open"]
            /\ downstream' = downstream \o
                 IF done THEN <<Traded(traded), Closed(exchange')>> ELSE <<Traded(traded)>>
    /\ UNCHANGED <<request, amends, canceled, upstream, wanted, update, truth>>

(* The exchange cancels or expires the order by itself. *)
Expire ==
    /\ \E status \in {"canceled", "expired"} : Close(status)
    /\ UNCHANGED <<request, amends, canceled, upstream, wanted, update, truth>>

----------------------------------------------------------------------------
(* Reports *)

(* Faulty variant: only a trade has a traded quantity. *)
TradedQuantityLast(item) == IF item.exec_type = "trade" THEN item.cum_qty ELSE 0

TradedQuantity(item) == IF item.cum_qty = NaN THEN 0 ELSE item.cum_qty

Minus(quantity, traded) == IF quantity = NaN THEN NaN ELSE quantity - traded

(* Faulty variant: what remains is the quantity of the order. *)
OrderUpdateAllRemains(item) ==
    [side |-> RoqSide(item.side),
     order_type |-> RoqOrderType(item.order_type),
     time_in_force |-> RoqTimeInForce2(item.time_in_force),
     order_status |-> RoqOrderStatus(item.order_status),
     quantity |-> item.order_qty,
     price |-> item.limit_price,
     traded_quantity |-> TradedQuantity(item),
     remaining_quantity |-> item.order_qty]

OrderUpdate(item) ==
    [side |-> RoqSide(item.side),
     order_type |-> RoqOrderType(item.order_type),
     time_in_force |-> RoqTimeInForce2(item.time_in_force),
     order_status |-> RoqOrderStatus(item.order_status),
     quantity |-> item.order_qty,
     price |-> item.limit_price,
     traded_quantity |-> TradedQuantity(item),
     remaining_quantity |-> Minus(item.order_qty, TradedQuantity(item))]

(* An update of the executions channel; none of them is discarded. *)
Receive ==
    /\ downstream # <<>>
    /\ downstream' = Tail(downstream)
    /\ update' = OrderUpdate(Head(downstream))
    /\ truth' = Head(downstream).order
    /\ UNCHANGED <<request, amends, canceled, upstream, exchange, wanted>>

----------------------------------------------------------------------------
Init ==
    /\ request = None
    /\ amends = 0
    /\ canceled = FALSE
    /\ upstream = <<>>
    /\ downstream = <<>>
    /\ exchange = None
    /\ wanted = None
    /\ update = None
    /\ truth = None

Next ==
    \/ CreateOrder
    \/ ModifyOrder
    \/ CancelOrder
    \/ Take
    \/ Trade
    \/ Expire
    \/ Receive

Spec == Init /\ [][Next]_vars

(* The connection carries what was sent. *)
FairSpec == Spec /\ WF_vars(Receive)

----------------------------------------------------------------------------
(* Properties *)

(* The order at the exchange is the one the client asked for, and after an *)
(* amendment what the client asked to change is changed and nothing else:  *)
(* a time in force, a side or a type the exchange does not have never      *)
(* becomes another one, and a missing price or quantity never a value.     *)
PlacedAsAsked ==
    exchange # None =>
        /\ RoqSide(exchange.side) = wanted.side
        /\ RoqOrderType(exchange.order_type) = wanted.order_type
        /\ ReportedTimeInForce[exchange.time_in_force] =
             IF wanted.time_in_force = "UNDEFINED" THEN "GTC" ELSE wanted.time_in_force
        /\ exchange.order_qty = wanted.quantity
        /\ exchange.limit_price = wanted.price

(* An update never says anything that was not true of the order when the   *)
(* report was made: each of its fields is unknown or right, the remaining  *)
(* quantity, which is computed, too.                                       *)
UpdatesNeverWrong ==
    update # None =>
        /\ update.side \in {"UNDEFINED", RoqSide(truth.side)}
        /\ update.order_type \in {"UNDEFINED", RoqOrderType(truth.order_type)}
        /\ update.time_in_force \in {"UNDEFINED", ReportedTimeInForce[truth.time_in_force]}
        /\ update.quantity \in {NaN, truth.order_qty}
        /\ update.price \in {NaN, truth.limit_price}
        /\ update.traded_quantity = truth.cum_qty
        /\ update.remaining_quantity \in {NaN, truth.order_qty - truth.cum_qty}
        /\ update.order_status \in {"COMPLETED", "CANCELED", "EXPIRED"} <=>
             truth.status # "open"

(* The traded quantity of the successive updates of an order never falls   *)
(* although most reports lack the one or the other quantity.               *)
TradedNeverFalls ==
    [][update # None => update'.traded_quantity >= update.traded_quantity]_vars

(* The end of an order, by a trade, a cancel or by itself, reaches the     *)
(* client with the final status and the final traded quantity.             *)
FinalReported ==
    \A status \in {"filled", "canceled", "expired"} :
        exchange # None /\ exchange.status = status ~>
            /\ update # None
            /\ update.order_status =
                 [filled |-> "COMPLETED", canceled |-> "CANCELED", expired |-> "EXPIRED"][status]
            /\ update.traded_quantity = exchange.cum_qty

====
