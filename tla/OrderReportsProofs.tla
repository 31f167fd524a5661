---- MODULE OrderReportsProofs ----
(***************************************************************************)
(* Proofs about OrderReports: what a request asks for is what is placed,   *)
(* and no report says anything wrong, for every set of quantities, prices  *)
(* and times in force a client may use.                                    *)
(***************************************************************************)
EXTENDS OrderReports, TLAPS

(* What may be on its way to the exchange ... *)
Requests ==
    {add_order_json(r) : r \in CreateOrders}
    \cup {amend_order_json(a) : a \in ModifyOrders}
    \cup {[method |-> "cancel_order"]}

(* ... and from it. *)
Untouched == {o \in Orders : o.status = "open" /\ o.cum_qty = 0}
Open == {o \in Orders : o.status = "open"}
Ended == {o \in Orders : o.status # "open"}

Reports ==
    {PendingNew(o) : o \in Untouched}
    \cup {New(o) : o \in Untouched}
    \cup {Amended(o) : o \in Open}
    \cup {Traded(o) : o \in Open}
    \cup {Closed(o) : o \in Ended}

(* What an update may say of the order it is about. *)
NeverWrong(u, o) ==
    /\ u.side \in {"UNDEFINED", RoqSide(o.side)}
    /\ u.order_type \in {"UNDEFINED", RoqOrderType(o.order_type)}
    /\ u.time_in_force \in {"UNDEFINED", ReportedTimeInForce[o.time_in_force]}
    /\ u.quantity \in {NaN, o.order_qty}
    /\ u.price \in {NaN, o.limit_price}
    /\ u.traded_quantity = o.cum_qty
    /\ u.remaining_quantity \in {NaN, o.order_qty - o.cum_qty}
    /\ u.order_status \in {"COMPLETED", "CANCELED", "EXPIRED"} <=> o.status # "open"

QueueInv ==
    /\ upstream \in Seq(Requests)
    /\ downstream \in Seq(Reports)

ExchangeInv ==
    IF exchange = None
    THEN downstream = <<>> /\ update = None
    ELSE exchange \in Orders /\ wanted \in CreateOrders

(* The traded quantity grows along the way from the last update over the   *)
(* reports in flight to the exchange.                                      *)
GrowthInv ==
    /\ \A i, j \in 1 .. Len(downstream) :
         i < j => downstream[i].order.cum_qty <= downstream[j].order.cum_qty
    /\ \A i \in 1 .. Len(downstream) : downstream[i].order.cum_qty <= exchange.cum_qty
    /\ update # None =>
         /\ truth \in Orders
         /\ truth.cum_qty <= exchange.cum_qty
         /\ \A i \in 1 .. Len(downstream) : truth.cum_qty <= downstream[i].order.cum_qty

(* The inductive invariant. *)
IInv ==
    /\ QueueInv
    /\ ExchangeInv
    /\ GrowthInv
    /\ PlacedAsAsked
    /\ UpdatesNeverWrong

USE DEF NaN

----------------------------------------------------------------------------
LEMMA Spelling ==
  /\ ReportedTimeInForce["gtc"] = "GTC"
  /\ ReportedTimeInForce["gtd"] = "GTD"
  /\ ReportedTimeInForce["ioc"] = "IOC"
  BY DEF ReportedTimeInForce

(* A valid request is decoded to what was asked for. *)
LEMMA RoundTrip ==
  ASSUME NEW r \in CreateOrders, Valid(add_order_json(r))
  PROVE  LET o == Placed(add_order_json(r))
         IN /\ o \in Untouched
            /\ RoqSide(o.side) = r.side
            /\ RoqOrderType(o.order_type) = r.order_type
            /\ ReportedTimeInForce[o.time_in_force] =
                 IF r.time_in_force = "UNDEFINED" THEN "GTC" ELSE r.time_in_force
            /\ o.order_qty = r.quantity
            /\ o.limit_price = r.price
  <1> DEFINE m == add_order_json(r)
             o == Placed(m)
  <1>1. /\ r.side \in {"BUY", "SELL"}
        /\ r.order_type \in {"UNDEFINED", "MARKET", "LIMIT"}
        /\ r.time_in_force \in RoqTimeInForce
        /\ r.quantity \in Quantities
        /\ r.price \in Prices \cup {NaN}
    BY FieldAssumption DEF CreateOrders
  <1>2. /\ m.side = JsonSide(r.side)
        /\ m.order_type = JsonOrderType(r.order_type)
        /\ m.time_in_force = IF r.time_in_force = "UNDEFINED"
                             THEN "absent" ELSE JsonTimeInForce(r.time_in_force)
        /\ m.order_qty = r.quantity
        /\ m.limit_price = r.price
    BY DEF add_order_json
  <1>3. /\ o.side = m.side
        /\ o.order_type = m.order_type
        /\ o.time_in_force = IF m.time_in_force = "absent" THEN "gtc" ELSE m.time_in_force
        /\ o.order_qty = m.order_qty
        /\ o.limit_price = m.limit_price
        /\ o.cum_qty = 0
        /\ o.status = "open"
    BY DEF Placed
  <1>4. /\ m.side \in {"buy", "sell"}
        /\ m.order_type \in {"market", "limit"}
        /\ m.time_in_force \in {"absent", "gtc", "gtd", "ioc"}
    BY DEF Valid
  <1>5. RoqSide(o.side) = r.side
    BY <1>1, <1>2, <1>3 DEF RoqSide, JsonSide
  <1>6. RoqOrderType(o.order_type) = r.order_type
    BY <1>1, <1>2, <1>3, <1>4 DEF RoqOrderType, JsonOrderType
  <1>7. /\ o.time_in_force \in {"gtc", "gtd", "ioc"}
        /\ ReportedTimeInForce[o.time_in_force] =
             IF r.time_in_force = "UNDEFINED" THEN "GTC" ELSE r.time_in_force
    BY <1>1, <1>2, <1>3, <1>4, Spelling DEF JsonTimeInForce
  <1>8. o \in Orders
    BY <1>1, <1>2, <1>3, <1>4, <1>7 DEF Placed, Orders
  <1> QED
    BY <1>2, <1>3, <1>5, <1>6, <1>7, <1>8 DEF Untouched

(* Every report leads to an update that is right about its order. *)
LEMMA UpdateRight ==
  ASSUME NEW item \in Reports
  PROVE  item.order \in Orders /\ NeverWrong(OrderUpdate(item), item.order)
  <1> DEFINE u == OrderUpdate(item)
             o == item.order
  <1>0. /\ u.side = RoqSide(item.side)
        /\ u.order_type = RoqOrderType(item.order_type)
        /\ u.time_in_force = RoqTimeInForce2(item.time_in_force)
        /\ u.order_status = RoqOrderStatus(item.order_status)
        /\ u.quantity = item.order_qty
        /\ u.price = item.limit_price
        /\ u.traded_quantity = TradedQuantity(item)
        /\ u.remaining_quantity = Minus(item.order_qty, TradedQuantity(item))
    BY DEF OrderUpdate
  <1> USE DEF Report, TradedQuantity, Minus
  <1>1. /\ o \in Orders
        /\ item.side \in {"absent", o.side}
        /\ item.order_type \in {"absent", o.order_type}
        /\ item.time_in_force \in {"absent", ReportedTimeInForce[o.time_in_force]}
        /\ item.order_qty \in {NaN, o.order_qty}
        /\ item.limit_price \in {NaN, o.limit_price}
        /\ item.cum_qty \in {NaN, o.cum_qty}
        /\ item.cum_qty = NaN => o.cum_qty = 0
        /\ item.order_status \in {"filled", "canceled", "expired"} <=> o.status # "open"
        /\ item.order_status \in {"pending_new", "new", "partially_filled", "filled",
                                  "canceled", "expired"}
    <2>1. CASE \E x \in Untouched : item = PendingNew(x)
      BY <2>1 DEF PendingNew, Untouched, Orders
    <2>2. CASE \E x \in Untouched : item = New(x)
      BY <2>2 DEF New, Untouched, Orders
    <2>3. CASE \E x \in Open : item = Amended(x)
      BY <2>3 DEF Amended, Open, Orders
    <2>4. CASE \E x \in Open : item = Traded(x)
      BY <2>4 DEF Traded, Open, Orders
    <2>5. CASE \E x \in Ended : item = Closed(x)
      BY <2>5 DEF Closed, Ended, Orders
    <2> QED
      BY <2>1, <2>2, <2>3, <2>4, <2>5 DEF Reports
  <1>2. /\ o.cum_qty \in Nat
        /\ o.order_qty \in Nat \ {0}
        /\ o.time_in_force \in {"gtc", "gtd", "ioc"}
    BY <1>1, FieldAssumption DEF Orders
  <1>3. u.side \in {"UNDEFINED", RoqSide(o.side)}
    BY <1>0, <1>1 DEF RoqSide
  <1>4. u.order_type \in {"UNDEFINED", RoqOrderType(o.order_type)}
    BY <1>0, <1>1 DEF RoqOrderType
  <1>5. u.time_in_force \in {"UNDEFINED", ReportedTimeInForce[o.time_in_force]}
    BY <1>0, <1>1, <1>2, Spelling DEF RoqTimeInForce2
  <1>6. u.quantity \in {NaN, o.order_qty} /\ u.price \in {NaN, o.limit_price}
    BY <1>0, <1>1
  <1>7. u.traded_quantity = o.cum_qty
    BY <1>0, <1>1, <1>2
  <1>8. u.remaining_quantity \in {NaN, o.order_qty - o.cum_qty}
    BY <1>0, <1>1, <1>2, <1>7
  <1>9. u.order_status \in {"COMPLETED", "CANCELED", "EXPIRED"} <=> o.status # "open"
    BY <1>0, <1>1 DEF RoqOrderStatus
  <1> QED
    BY <1>1, <1>3, <1>4, <1>5, <1>6, <1>7, <1>8, <1>9 DEF NeverWrong

----------------------------------------------------------------------------
LEMMA InitIInv == Init => IInv
  <1> SUFFICES ASSUME Init PROVE IInv
    OBVIOUS
  <1> QED
    BY DEF Init, IInv, QueueInv, ExchangeInv, GrowthInv, PlacedAsAsked, UpdatesNeverWrong

(* UpdatesNeverWrong says this of the last update. *)
LEMMA NeverWrongMeans == UpdatesNeverWrong <=> (update # None => NeverWrong(update, truth))
  BY DEF UpdatesNeverWrong, NeverWrong

(* The order at the exchange has changed, and reports about it, each with  *)
(* no less traded than before it, were sent.                               *)
LEMMA Reported ==
  ASSUME IInv, exchange # None,
         NEW o \in Orders, o.cum_qty >= exchange.cum_qty,
         NEW new \in Seq(Reports),
         \A i \in 1 .. Len(new) : /\ new[i].order.cum_qty = o.cum_qty
                                  /\ new[i].order \in Orders,
         exchange' = o, downstream' = downstream \o new,
         UNCHANGED <<update, truth>>
  PROVE  downstream' \in Seq(Reports) /\ GrowthInv'
  <1>1. downstream \in Seq(Reports) /\ exchange \in Orders
    BY DEF IInv, QueueInv, ExchangeInv
  <1>2. downstream' \in Seq(Reports)
    BY <1>1
  <1>3. \A i \in 1 .. Len(downstream') :
           \/ i \in 1 .. Len(downstream) /\ downstream'[i] = downstream[i]
           \/ /\ i > Len(downstream)
              /\ i - Len(downstream) \in 1 .. Len(new)
              /\ downstream'[i] = new[i - Len(downstream)]
    BY <1>1
  <1>4. \A i \in 1 .. Len(downstream) :
           /\ downstream[i].order.cum_qty <= exchange.cum_qty
           /\ downstream[i].order.cum_qty \in Nat
    <2>1. \A i \in 1 .. Len(downstream) : downstream[i] \in Reports
      BY <1>1
    <2> QED
      BY <2>1, UpdateRight DEF IInv, GrowthInv, Orders
  <1>5. exchange.cum_qty \in Nat /\ o.cum_qty \in Nat
    BY <1>1 DEF Orders
  <1>6. \A i \in 1 .. Len(downstream') : downstream'[i].order.cum_qty <= exchange'.cum_qty
    BY <1>3, <1>4, <1>5
  <1>7. \A i, j \in 1 .. Len(downstream') :
           i < j => downstream'[i].order.cum_qty <= downstream'[j].order.cum_qty
    <2> SUFFICES ASSUME NEW i \in 1 .. Len(downstream'), NEW j \in 1 .. Len(downstream'),
                        i < j
                 PROVE  downstream'[i].order.cum_qty <= downstream'[j].order.cum_qty
      OBVIOUS
    <2>0. i \in Nat /\ j \in Nat /\ Len(downstream) \in Nat
      BY <1>1, <1>2
    <2>1. CASE j \in 1 .. Len(downstream)
      <3>1. i \in 1 .. Len(downstream)
        BY <2>0, <2>1
      <3> QED
        BY <1>3, <2>0, <2>1, <3>1 DEF IInv, GrowthInv
    <2>2. CASE j > Len(downstream)
      <3>1. downstream'[j].order.cum_qty = o.cum_qty
        BY <1>3, <2>0, <2>2
      <3> QED
        BY <1>6, <3>1
    <2> QED
      BY <1>3, <2>0, <2>1, <2>2
  <1>8. update' # None =>
          /\ truth' \in Orders
          /\ truth'.cum_qty <= exchange'.cum_qty
          /\ \A i \in 1 .. Len(downstream') : truth'.cum_qty <= downstream'[i].order.cum_qty
    <2> SUFFICES ASSUME update # None
                 PROVE  /\ truth \in Orders
                        /\ truth.cum_qty <= o.cum_qty
                        /\ \A i \in 1 .. Len(downstream') :
                             truth.cum_qty <= downstream'[i].order.cum_qty
      OBVIOUS
    <2>1. truth \in Orders /\ truth.cum_qty \in Nat /\ truth.cum_qty <= exchange.cum_qty
      BY DEF IInv, GrowthInv, Orders
    <2>2. truth.cum_qty <= o.cum_qty
      BY <1>5, <2>1
    <2> QED
      BY <1>3, <2>1, <2>2 DEF IInv, GrowthInv
  <1> QED
    BY <1>2, <1>6, <1>7, <1>8 DEF GrowthInv

(* The client's requests only lengthen the queue. *)
LEMMA AskIInv ==
  ASSUME IInv, NEW m \in Requests, upstream' = Append(upstream, m),
         UNCHANGED <<downstream, exchange, wanted, update, truth>>
  PROVE  IInv'
  <1>1. QueueInv'
    BY DEF IInv, QueueInv
  <1>2. ExchangeInv' /\ GrowthInv'
    BY DEF IInv, ExchangeInv, GrowthInv
  <1>3. PlacedAsAsked' /\ UpdatesNeverWrong'
    BY DEF IInv, PlacedAsAsked, UpdatesNeverWrong
  <1> QED
    BY <1>1, <1>2, <1>3 DEF IInv

LEMMA TakeAddIInv ==
  ASSUME IInv, NEW m \in Requests, TakeAdd(m), upstream' \in Seq(Requests),
         UNCHANGED <<update, truth>>
  PROVE  IInv'
  <1>1. PICK r \in CreateOrders : m = add_order_json(r)
    BY DEF TakeAdd, Requests, amend_order_json
  <1>2. m.asked = r
    BY <1>1 DEF add_order_json
  <1> DEFINE o == Placed(m)
  <1>3. /\ o \in Untouched
        /\ RoqSide(o.side) = r.side
        /\ RoqOrderType(o.order_type) = r.order_type
        /\ ReportedTimeInForce[o.time_in_force] =
             IF r.time_in_force = "UNDEFINED" THEN "GTC" ELSE r.time_in_force
        /\ o.order_qty = r.quantity
        /\ o.limit_price = r.price
    BY <1>1, RoundTrip DEF TakeAdd
  <1>4. /\ exchange = None /\ downstream = <<>> /\ update = None
        /\ exchange' = o /\ wanted' = r
        /\ downstream' = <<>> \o <<PendingNew(o), New(o)>>
    BY <1>2 DEF TakeAdd, IInv, ExchangeInv
  <1>5. downstream' = <<PendingNew(o), New(o)>>
    BY <1>4
  <1>6. PendingNew(o) \in Reports /\ New(o) \in Reports
    BY <1>3 DEF Reports
  <1>7. QueueInv'
    BY <1>5, <1>6 DEF QueueInv
  <1>8. o \in Orders /\ o # None /\ o.cum_qty = 0
    BY <1>3, NoneAssumption DEF Untouched
  <1>9. ExchangeInv'
    BY <1>4, <1>8 DEF ExchangeInv
  <1>10. PendingNew(o).order = o /\ New(o).order = o
    BY DEF PendingNew, New, Report
  <1>11. GrowthInv'
    <2>1. \A i \in 1 .. Len(downstream') : downstream'[i].order = o
      BY <1>5, <1>10
    <2>2. update' = None /\ exchange' = o
      BY <1>4
    <2> QED
      BY <1>8, <2>1, <2>2 DEF GrowthInv
  <1>12. PlacedAsAsked'
    BY <1>3, <1>4 DEF PlacedAsAsked
  <1>13. UpdatesNeverWrong'
    BY <1>4 DEF UpdatesNeverWrong
  <1> QED
    BY <1>7, <1>9, <1>11, <1>12, <1>13 DEF IInv

LEMMA TakeAmendIInv ==
  ASSUME IInv, NEW m \in Requests, TakeAmend(m), upstream' \in Seq(Requests),
         UNCHANGED <<update, truth>>
  PROVE  IInv'
  <1>1. PICK a \in ModifyOrders : m = amend_order_json(a)
    BY DEF TakeAmend, Requests, add_order_json
  <1>2. /\ m.order_qty = a.quantity /\ m.limit_price = a.price /\ m.asked = a
        /\ a.quantity \in Quantities \cup {NaN} /\ a.price \in Prices \cup {NaN}
    BY <1>1 DEF amend_order_json, ModifyOrders
  <1>3. /\ exchange # None /\ exchange \in Orders /\ wanted \in CreateOrders
        /\ exchange.status = "open"
    BY DEF TakeAmend, Amendable, IInv, ExchangeInv
  <1> DEFINE o == [exchange EXCEPT !.order_qty = Given(a.quantity, exchange.order_qty),
                                   !.limit_price = Given(a.price, exchange.limit_price)]
             w == [wanted EXCEPT !.quantity = Given(a.quantity, wanted.quantity),
                                 !.price = Given(a.price, wanted.price)]
  <1>4. /\ exchange' = o /\ wanted' = w
        /\ downstream' = Append(downstream, Amended(o))
    BY <1>2 DEF TakeAmend
  <1>5. o \in Open /\ o.cum_qty = exchange.cum_qty
    BY <1>2, <1>3 DEF Open, Orders, Given
  <1>6. w \in CreateOrders
    BY <1>2, <1>3 DEF CreateOrders, Given
  <1>7. Amended(o) \in Reports /\ Amended(o).order = o
    BY <1>5 DEF Reports, Amended, Report
  <1>8. downstream' = downstream \o <<Amended(o)>>
    <2> HIDE DEF o
    <2> QED
      BY <1>4, <1>7 DEF IInv, QueueInv
  <1>9. downstream' \in Seq(Reports) /\ GrowthInv'
    <2>1. o \in Orders /\ o.cum_qty >= exchange.cum_qty
      BY <1>3, <1>5 DEF Open, Orders
    <2>2. <<Amended(o)>> \in Seq(Reports)
      BY <1>7
    <2> HIDE DEF o
    <2>3. \A i \in 1 .. Len(<<Amended(o)>>) :
            /\ <<Amended(o)>>[i].order.cum_qty = o.cum_qty
            /\ <<Amended(o)>>[i].order \in Orders
      BY <1>7, <2>1
    <2> QED
      BY <1>3, <1>4, <1>8, <2>1, <2>2, <2>3, Reported
  <1>10. ExchangeInv'
    BY <1>4, <1>5, <1>6, NoneAssumption DEF ExchangeInv, Open
  <1>11. PlacedAsAsked'
    <2>1. /\ RoqSide(exchange.side) = wanted.side
          /\ RoqOrderType(exchange.order_type) = wanted.order_type
          /\ ReportedTimeInForce[exchange.time_in_force] =
               IF wanted.time_in_force = "UNDEFINED" THEN "GTC" ELSE wanted.time_in_force
          /\ exchange.order_qty = wanted.quantity
          /\ exchange.limit_price = wanted.price
      BY <1>3 DEF IInv, PlacedAsAsked
    <2>2. /\ o.side = exchange.side /\ o.order_type = exchange.order_type
          /\ o.time_in_force = exchange.time_in_force
          /\ o.order_qty = Given(a.quantity, exchange.order_qty)
          /\ o.limit_price = Given(a.price, exchange.limit_price)
      BY <1>3 DEF Orders
    <2>3. /\ w.side = wanted.side /\ w.order_type = wanted.order_type
          /\ w.time_in_force = wanted.time_in_force
          /\ w.quantity = Given(a.quantity, wanted.quantity)
          /\ w.price = Given(a.price, wanted.price)
      BY <1>3 DEF CreateOrders
    <2> HIDE DEF o, w
    <2> QED
      BY <1>4, <2>1, <2>2, <2>3 DEF PlacedAsAsked
  <1>12. UpdatesNeverWrong'
    BY DEF IInv, UpdatesNeverWrong
  <1> QED
    BY <1>9, <1>10, <1>11, <1>12 DEF IInv, QueueInv

LEMMA CloseIInv ==
  ASSUME IInv, NEW status \in {"canceled", "expired"}, Close(status),
         upstream' \in Seq(Requests), UNCHANGED <<wanted, update, truth>>
  PROVE  IInv'
  <1>1. /\ exchange # None /\ exchange \in Orders /\ wanted \in CreateOrders
    BY DEF Close, IInv, ExchangeInv
  <1> DEFINE o == [exchange EXCEPT !.status = status]
  <1>2. exchange' = o /\ downstream' = Append(downstream, Closed(o))
    BY DEF Close
  <1>3. o \in Ended /\ o.cum_qty = exchange.cum_qty
    BY <1>1 DEF Ended, Orders
  <1>4. Closed(o) \in Reports /\ Closed(o).order = o
    BY <1>3 DEF Reports, Closed, Report
  <1>5. downstream' = downstream \o <<Closed(o)>>
    <2> HIDE DEF o
    <2> QED
      BY <1>2, <1>4 DEF IInv, QueueInv
  <1>6. downstream' \in Seq(Reports) /\ GrowthInv'
    <2>1. o \in Orders /\ o.cum_qty >= exchange.cum_qty
      BY <1>1, <1>3 DEF Ended, Orders
    <2>2. <<Closed(o)>> \in Seq(Reports)
      BY <1>4
    <2> HIDE DEF o
    <2>3. \A i \in 1 .. Len(<<Closed(o)>>) :
            /\ <<Closed(o)>>[i].order.cum_qty = o.cum_qty
            /\ <<Closed(o)>>[i].order \in Orders
      BY <1>4, <2>1
    <2> QED
      BY <1>1, <1>2, <1>5, <2>1, <2>2, <2>3, Reported
  <1>7. ExchangeInv'
    BY <1>1, <1>2, <1>3, NoneAssumption DEF ExchangeInv, Ended
  <1>8. PlacedAsAsked'
    BY <1>1, <1>2 DEF IInv, PlacedAsAsked, Orders
  <1>9. UpdatesNeverWrong'
    BY DEF IInv, UpdatesNeverWrong
  <1> QED
    BY <1>6, <1>7, <1>8, <1>9 DEF IInv, QueueInv

LEMMA TakeIInv == IInv /\ Take => IInv'
  <1> SUFFICES ASSUME IInv, Take PROVE IInv'
    OBVIOUS
  <1> DEFINE m == Head(upstream)
  <1>1. upstream' \in Seq(Requests) /\ m \in Requests
    BY DEF Take, IInv, QueueInv
  <1>2. UNCHANGED <<update, truth>>
    BY DEF Take
  <1>3. TakeAdd(m) \/ TakeAmend(m) \/ TakeCancel(m) \/ Refuse
    BY DEF Take
  <1> HIDE DEF m
  <1>4. CASE TakeAdd(m)
    BY <1>1, <1>2, <1>4, TakeAddIInv
  <1>5. CASE TakeAmend(m)
    BY <1>1, <1>2, <1>5, TakeAmendIInv
  <1>6. CASE TakeCancel(m)
    BY <1>1, <1>2, <1>6, CloseIInv DEF TakeCancel
  <1>7. CASE Refuse
    BY <1>1, <1>2, <1>7
    DEF Refuse, IInv, QueueInv, ExchangeInv, GrowthInv, PlacedAsAsked, UpdatesNeverWrong
  <1> QED
    BY <1>3, <1>4, <1>5, <1>6, <1>7

LEMMA TradeIInv == IInv /\ Trade => IInv'
  <1> SUFFICES ASSUME IInv, Trade PROVE IInv'
    OBVIOUS
  <1>1. /\ exchange # None /\ exchange \in Orders /\ wanted \in CreateOrders
        /\ exchange.status = "open"
    BY DEF Trade, IInv, ExchangeInv
  <1>2. PICK n \in 1 .. exchange.order_qty - exchange.cum_qty :
          LET cum == exchange.cum_qty + n
              done == cum = exchange.order_qty
              traded == [exchange EXCEPT !.cum_qty = cum]
          IN /\ exchange' = [traded EXCEPT !.status = IF done THEN "filled" ELSE "open"]
             /\ downstream' = downstream \o
                  IF done THEN <<Traded(traded), Closed(exchange')>> ELSE <<Traded(traded)>>
    BY DEF Trade
  <1> DEFINE t == [exchange EXCEPT !.cum_qty = exchange.cum_qty + n]
             o == exchange'
             new == IF exchange.cum_qty + n = exchange.order_qty
                    THEN <<Traded(t), Closed(o)>> ELSE <<Traded(t)>>
  <1>3. t \in Open /\ t.cum_qty = exchange.cum_qty + n /\ n \in Nat
    BY <1>1, FieldAssumption DEF Open, Orders
  <1>4. /\ o = [t EXCEPT !.status = IF exchange.cum_qty + n = exchange.order_qty
                                    THEN "filled" ELSE "open"]
        /\ downstream' = downstream \o new
    BY <1>2
  <1>5. /\ o \in Orders
        /\ o.cum_qty = exchange.cum_qty + n
        /\ exchange.cum_qty + n = exchange.order_qty => o \in Ended
    BY <1>3, <1>4 DEF Open, Ended, Orders
  <1>6. /\ Traded(t) \in Reports /\ Traded(t).order = t
        /\ Closed(o).order = o
        /\ exchange.cum_qty + n = exchange.order_qty => Closed(o) \in Reports
    BY <1>3, <1>5 DEF Reports, Traded, Closed, Report
  <1>7. /\ new \in Seq(Reports)
        /\ \A i \in 1 .. Len(new) : /\ new[i].order.cum_qty = o.cum_qty
                                    /\ new[i].order \in Orders
    <2> HIDE DEF t, o
    <2>1. CASE exchange.cum_qty + n = exchange.order_qty
      <3>1. new = <<Traded(t), Closed(o)>>
        BY <2>1
      <3> QED
        BY <1>3, <1>5, <1>6, <2>1, <3>1 DEF Open
    <2>2. CASE exchange.cum_qty + n # exchange.order_qty
      <3>1. new = <<Traded(t)>>
        BY <2>2
      <3> QED
        BY <1>3, <1>5, <1>6, <2>2, <3>1 DEF Open
    <2> QED
      BY <2>1, <2>2
  <1>8. o.cum_qty >= exchange.cum_qty
    BY <1>1, <1>3, <1>5 DEF Orders
  <1>9. UNCHANGED <<upstream, wanted, update, truth>>
    BY DEF Trade
  <1>10. downstream' \in Seq(Reports) /\ GrowthInv'
    <2> HIDE DEF t, new
    <2> QED
      BY <1>1, <1>4, <1>5, <1>7, <1>8, <1>9, Reported
  <1>11. ExchangeInv'
    BY <1>1, <1>5, <1>9, NoneAssumption DEF ExchangeInv
  <1>12. PlacedAsAsked'
    <2>1. /\ o.side = exchange.side /\ o.order_type = exchange.order_type
          /\ o.time_in_force = exchange.time_in_force
          /\ o.order_qty = exchange.order_qty /\ o.limit_price = exchange.limit_price
      BY <1>1, <1>4 DEF Orders
    <2> QED
      BY <1>1, <1>9, <2>1 DEF IInv, PlacedAsAsked
  <1>13. UpdatesNeverWrong'
    BY <1>9 DEF IInv, UpdatesNeverWrong
  <1> QED
    BY <1>9, <1>10, <1>11, <1>12, <1>13 DEF IInv, QueueInv

(* A report is taken: it is about an order with no less traded than the    *)
(* last one, and no more than the reports behind it.                       *)
LEMMA ReceiveIInv == IInv /\ Receive => IInv'
  <1> SUFFICES ASSUME IInv, Receive PROVE IInv'
    OBVIOUS
  <1> DEFINE item == Head(downstream)
  <1>1. /\ downstream \in Seq(Reports) /\ downstream # <<>>
        /\ exchange # None /\ exchange \in Orders /\ wanted \in CreateOrders
    BY DEF IInv, QueueInv, ExchangeInv, Receive
  <1>2. /\ downstream' = Tail(downstream)
        /\ update' = OrderUpdate(item) /\ truth' = item.order
        /\ UNCHANGED <<upstream, exchange, wanted>>
    BY DEF Receive
  <1>3. /\ Len(downstream) \in Nat \ {0}
        /\ item \in Reports /\ item = downstream[1]
        /\ downstream' \in Seq(Reports)
        /\ Len(downstream') = Len(downstream) - 1
        /\ \A i \in 1 .. Len(downstream') :
             i + 1 \in 1 .. Len(downstream) /\ downstream'[i] = downstream[i + 1]
    BY <1>1, <1>2
  <1>4. item.order \in Orders /\ NeverWrong(OrderUpdate(item), item.order)
    BY <1>3, UpdateRight
  <1>5. QueueInv' /\ ExchangeInv' /\ PlacedAsAsked'
    BY <1>1, <1>2, <1>3 DEF IInv, QueueInv, ExchangeInv, PlacedAsAsked
  <1>6. GrowthInv'
    <2>1. \A i, j \in 1 .. Len(downstream') :
             i < j => downstream'[i].order.cum_qty <= downstream'[j].order.cum_qty
      BY <1>3 DEF IInv, GrowthInv
    <2>2. \A i \in 1 .. Len(downstream') : downstream'[i].order.cum_qty <= exchange'.cum_qty
      BY <1>2, <1>3 DEF IInv, GrowthInv
    <2>3. truth' \in Orders /\ truth'.cum_qty <= exchange'.cum_qty
      BY <1>2, <1>3, <1>4 DEF IInv, GrowthInv
    <2>4. \A i \in 1 .. Len(downstream') : truth'.cum_qty <= downstream'[i].order.cum_qty
      <3> SUFFICES ASSUME NEW i \in 1 .. Len(downstream')
                   PROVE  truth'.cum_qty <= downstream'[i].order.cum_qty
        OBVIOUS
      <3>1. 1 \in 1 .. Len(downstream) /\ i + 1 \in 1 .. Len(downstream) /\ 1 < i + 1
        BY <1>3
      <3>2. downstream[1].order.cum_qty <= downstream[i + 1].order.cum_qty
        BY <3>1 DEF IInv, GrowthInv
      <3> QED
        BY <1>2, <1>3, <3>2
    <2> QED
      BY <2>1, <2>2, <2>3, <2>4 DEF GrowthInv
  <1>7. UpdatesNeverWrong'
    BY <1>2, <1>4 DEF UpdatesNeverWrong, NeverWrong
  <1> QED
    BY <1>5, <1>6, <1>7 DEF IInv

LEMMA NextIInv == IInv /\ [Next]_vars => IInv'
  <1> SUFFICES ASSUME IInv, [Next]_vars PROVE IInv'
    OBVIOUS
  <1>1. CASE CreateOrder
    <2>1. PICK r \in CreateOrders : upstream' = Append(upstream, add_order_json(r))
      BY <1>1 DEF CreateOrder
    <2>2. add_order_json(r) \in Requests
      BY DEF Requests
    <2> QED
      BY <1>1, <2>1, <2>2, AskIInv DEF CreateOrder
  <1>2. CASE ModifyOrder
    <2>1. PICK a \in ModifyOrders : upstream' = Append(upstream, amend_order_json(a))
      BY <1>2 DEF ModifyOrder
    <2>2. amend_order_json(a) \in Requests
      BY DEF Requests
    <2> QED
      BY <1>2, <2>1, <2>2, AskIInv DEF ModifyOrder
  <1>3. CASE CancelOrder
    <2>1. [method |-> "cancel_order"] \in Requests
      BY DEF Requests
    <2> QED
      BY <1>3, <2>1, AskIInv DEF CancelOrder
  <1>4. CASE Take
    BY <1>4, TakeIInv
  <1>5. CASE Trade
    BY <1>5, TradeIInv
  <1>6. CASE Expire
    <2>1. upstream' \in Seq(Requests)
      BY <1>6 DEF Expire, IInv, QueueInv
    <2> QED
      BY <1>6, <2>1, CloseIInv DEF Expire
  <1>7. CASE Receive
    BY <1>7, ReceiveIInv
  <1>8. CASE UNCHANGED vars
    BY <1>8 DEF vars, IInv, QueueInv, ExchangeInv, GrowthInv, PlacedAsAsked, UpdatesNeverWrong
  <1> QED
    BY <1>1, <1>2, <1>3, <1>4, <1>5, <1>6, <1>7, <1>8 DEF Next

----------------------------------------------------------------------------
(* The invariant holds of every behaviour. *)
THEOREM Inductive == Spec => []IInv
  <1> QED
    BY InitIInv, NextIInv, PTL DEF Spec

(* The order at the exchange is the one asked for (PlacedAsAsked). *)
THEOREM PlacedCorrect == Spec => []PlacedAsAsked
  <1>1. IInv => PlacedAsAsked
    BY DEF IInv
  <1> QED
    BY <1>1, Inductive, PTL

(* An update never says anything that was not true (UpdatesNeverWrong). *)
THEOREM UpdatesCorrect == Spec => []UpdatesNeverWrong
  <1>1. IInv => UpdatesNeverWrong
    BY DEF IInv
  <1> QED
    BY <1>1, Inductive, PTL

(* The reported traded quantity never falls (TradedNeverFalls). *)
THEOREM TradedCorrect == Spec => TradedNeverFalls
  <1>1. IInv /\ IInv' /\ [Next]_vars
        => [update # None => update'.traded_quantity >= update.traded_quantity]_vars
    <2> SUFFICES ASSUME IInv, IInv', Next, update # None
                 PROVE  update'.traded_quantity >= update.traded_quantity
      OBVIOUS
    <2>1. update.traded_quantity = truth.cum_qty /\ truth \in Orders
      BY DEF IInv, GrowthInv, UpdatesNeverWrong
    <2>2. truth.cum_qty \in Nat
      BY <2>1 DEF Orders
    <2>3. CASE Receive
      <3>1. /\ downstream \in Seq(Reports) /\ downstream # <<>>
            /\ update' = OrderUpdate(Head(downstream))
        BY <2>3 DEF IInv, QueueInv, Receive
      <3>2. Head(downstream) \in Reports /\ Head(downstream) = downstream[1]
            /\ 1 \in 1 .. Len(downstream)
        BY <3>1
      <3>3. update'.traded_quantity = downstream[1].order.cum_qty
        BY <3>1, <3>2, UpdateRight DEF NeverWrong
      <3>4. truth.cum_qty <= downstream[1].order.cum_qty
        BY <3>2 DEF IInv, GrowthInv
      <3>5. downstream[1].order.cum_qty \in Nat
        BY <3>2, UpdateRight DEF Orders
      <3> QED
        BY <2>1, <2>2, <3>3, <3>4, <3>5
    <2>4. CASE ~Receive
      <3>1. update' = update
        BY <2>4 DEF Next, CreateOrder, ModifyOrder, CancelOrder, Take, Trade, Expire
      <3> QED
        BY <2>1, <2>2, <3>1
    <2> QED
      BY <2>3, <2>4
  <1> QED
    BY <1>1, Inductive, PTL DEF Spec, TradedNeverFalls

====
