---- MODULE DropCopy ----
(***************************************************************************)
(* The private stream: gateway::DropCopy, with the req_id of               *)
(* protocol::json::Encoder.                                                *)
(*                                                                         *)
(* Order requests go out, and execution reports and refusals come back, on *)
(* one websocket.  A new connection subscribes when the exchange reports   *)
(* its status; the exchange answers with a snapshot of the open orders and *)
(* the recent trades, and then streams every change.  Losing the           *)
(* connection loses what is in flight both ways, and what happens until    *)
(* the next subscription is never streamed.                                *)
(*                                                                         *)
(* The exchange and the web socket are modelled from how this stream uses  *)
(* them and from the messages of test/json_executions.cpp.  What the order *)
(* management system does with the updates is not: `view' is what the      *)
(* stream last told it about each order.                                   *)
(***************************************************************************)
EXTENDS Naturals, SequencesExt

CONSTANTS
    Own,            \* orders of this gateway's users, pairs <<user_id, order_id>>
    Foreign,        \* orders on the account that were placed elsewhere
    Quantity,       \* the quantity of every order
    OrderIdLimit,   \* order ids that survive unpack_req_id (2^48)
    MaxDisconnects, \* bound: connections lost
    MaxStatus,      \* bound: status messages per connection
    MaxDownstream   \* bound: messages not yet read when the exchange acts

UserIdLimit == 256

ASSUME OwnAssumption ==
    /\ Own \subseteq (0 .. UserIdLimit - 1) \X (0 .. OrderIdLimit - 1)
    /\ Own \cap Foreign = {}
    /\ IsFiniteSet(Foreign)
ASSUME NumberAssumption ==
    /\ Quantity \in Nat \ {0}
    /\ OrderIdLimit \in Nat \ {0}
    /\ MaxDisconnects \in Nat
    /\ MaxStatus \in Nat \ {0}
    /\ MaxDownstream \in Nat \ {0}

Order == Own \cup Foreign

ConnectionStatus == {"DISCONNECTED", "DOWNLOADING", "READY"}

VARIABLES
    connection_status,  \* DropCopy::connection_status_
    statuses,           \* status messages on this connection
    disconnects,        \* counter_.disconnect
    view,               \* what was last dispatched about each order, and the
                        \* sum of the fills dispatched for it
    rejects,            \* <<request type, order>> of every Response dispatched
    sent,               \* <<method, order>> of every request sent
    upstream,           \* messages on their way to the exchange
    downstream,         \* messages on their way from the exchange
    subscribed,         \* the exchange streams executions to this connection
    exchange,           \* the orders at the exchange
    refused,            \* <<method, order>> of what the exchange refused
    unseen,             \* what the connection will not carry: the orders with
                        \* a lost last change, and lost trades by order
    untold              \* the orders with fills that the snapshot did not tell
                        \* of, nor any report since

gateway == <<connection_status, statuses, disconnects, view, rejects, sent>>
vars == <<connection_status, statuses, disconnects, view, rejects, sent,
          upstream, downstream, subscribed, exchange, refused, unseen, untold>>

----------------------------------------------------------------------------
(* Request ids *)

(* The order id has 56 bits on the way out ... *)
pack_req_id(order) == order[1] * (UserIdLimit * OrderIdLimit) + order[2]

(* Faulty variant: the user id is taken from where the mask ends. *)
unpack_req_id_shift(req_id) ==
    <<(req_id \div OrderIdLimit) % UserIdLimit, req_id % OrderIdLimit>>

(* ... and 48 on the way back. *)
unpack_req_id(req_id) ==
    <<(req_id \div (UserIdLimit * OrderIdLimit)) % UserIdLimit,
      req_id % OrderIdLimit>>

----------------------------------------------------------------------------
(* Messages from the exchange *)

NaN == Quantity + 1     \* a field the message does not have

Item(order, exec_type, order_status, cum_qty, last_qty) ==
    [order |-> order, exec_type |-> exec_type, order_status |-> order_status,
     cum_qty |-> cum_qty, last_qty |-> last_qty]

Executions(type, data) == [channel |-> "executions", type |-> type, data |-> data]

Update(order, exec_type, order_status, cum_qty, last_qty) ==
    Executions("update", <<Item(order, exec_type, order_status, cum_qty, last_qty)>>)

(* The answer to a request that failed. *)
Failed(method, order) == [channel |-> method, req_id |-> pack_req_id(order)]

IsExecutions(m) == m.channel = "executions"

OpenStatus(o) ==
    IF exchange[o].cum = 0 THEN "new" ELSE "partially_filled"

LastStatus(o) ==
    IF exchange[o].status = "open" THEN OpenStatus(o) ELSE exchange[o].status

(* snap_orders and snap_trades: a row for every open order, which may have *)
(* its cum_qty or not (no row of an open order is known), and one for      *)
(* every trade of any order, which has none.                               *)
Snapshot(silent) ==
    LET open == {o \in Order : exchange[o].status = "open"}
        trades == {t \in Order \X (1 .. Quantity) : t[2] <= exchange[t[1]].cum}
    IN Executions("snapshot",
         SetToSeq({Item(o, "new", OpenStatus(o),
                        IF o \in silent THEN NaN ELSE exchange[o].cum, NaN) : o \in open})
         \o [i \in 1 .. Cardinality(trades) |->
               LET o == SetToSeq(trades)[i][1]
               IN Item(o, "trade", LastStatus(o), NaN, 1)])

(* What becomes of the reports of a change at the exchange. *)
Emit(messages) ==
    LET items == UNION {ToSet(m.data) : m \in ToSet(messages)}
        reported == {i.order : i \in items}
        traded(o) == Cardinality({i \in items : i.order = o /\ i.exec_type = "trade"})
    IN /\ untold' = untold \ reported
       /\ IF subscribed
          THEN /\ downstream' = downstream \o messages
               /\ UNCHANGED unseen
          ELSE /\ unseen' = [stale |-> unseen.stale \cup reported,
                             trades |-> [o \in Order |-> unseen.trades[o] + traded(o)]]
               /\ UNCHANGED downstream

----------------------------------------------------------------------------
Init ==
    /\ connection_status = "DISCONNECTED"
    /\ statuses = 0
    /\ disconnects = 0
    /\ view = [o \in Order |-> [order_status |-> "UNDEFINED", traded_quantity |-> 0, fills |-> 0]]
    /\ rejects = {}
    /\ sent = {}
    /\ upstream = <<>>
    /\ downstream = <<>>
    /\ subscribed = FALSE
    /\ exchange = [o \in Order |-> [status |-> "none", cum |-> 0]]
    /\ refused = {}
    /\ unseen = [stale |-> {}, trades |-> [o \in Order |-> 0]]
    /\ untold = {}

----------------------------------------------------------------------------
(* The connection *)

(* The websocket is up: wait for the status message. *)
SocketReady ==
    /\ connection_status = "DISCONNECTED"
    /\ connection_status' = "DOWNLOADING"
    /\ statuses' = 0
    /\ UNCHANGED <<disconnects, view, rejects, sent, upstream, downstream,
                   subscribed, exchange, refused, unseen, untold>>

(* subscribe(): ask for the executions, with the open orders and the recent *)
(* trades.  The balances, asked for with them, are not modelled.            *)
Subscribe == upstream' = Append(upstream, [method |-> "subscribe"])

(* A status message: ready, and subscribe, whether or not this connection  *)
(* has done so before.                                                     *)
Status ==
    /\ connection_status # "DISCONNECTED"
    /\ statuses < MaxStatus
    /\ statuses' = statuses + 1
    /\ connection_status' = "READY"
    /\ Subscribe
    /\ UNCHANGED <<disconnects, view, rejects, sent, downstream, subscribed,
                   exchange, refused, unseen, untold>>

LostTrades(o) ==
    Cardinality({i \in DOMAIN downstream :
                   /\ IsExecutions(downstream[i])
                   /\ downstream[i].type = "update"
                   /\ downstream[i].data[1].order = o
                   /\ downstream[i].data[1].exec_type = "trade"})

LostOrders ==
    UNION {{i.order : i \in ToSet(m.data)} : m \in {d \in ToSet(downstream) : IsExecutions(d)}}

(* The connection is lost, with everything in flight. *)
Disconnected ==
    /\ connection_status # "DISCONNECTED"
    /\ disconnects < MaxDisconnects
    /\ disconnects' = disconnects + 1
    /\ connection_status' = "DISCONNECTED"
    /\ upstream' = <<>>
    /\ downstream' = <<>>
    /\ subscribed' = FALSE
    /\ unseen' = [stale |-> unseen.stale \cup LostOrders,
                  trades |-> [o \in Order |-> unseen.trades[o] + LostTrades(o)]]
    /\ UNCHANGED <<statuses, view, rejects, sent, exchange, refused, untold>>

----------------------------------------------------------------------------
(* Requests.  The Controller passes them to the DropCopy of the account    *)
(* (ws_api), which sends them whenever the socket is up, before it is      *)
(* ready too; each is made at most once for an order.                      *)

(* The message: the order is named in the parameters, and by the req_id in *)
(* what comes back.                                                        *)
Request(method, order) == [method |-> method, order |-> order]

Send(method, order) ==
    /\ connection_status # "DISCONNECTED"
    /\ <<method, order>> \notin sent
    /\ sent' = sent \cup {<<method, order>>}
    /\ upstream' = Append(upstream, Request(method, order))
    /\ UNCHANGED <<connection_status, statuses, disconnects, view, rejects,
                   downstream, subscribed, exchange, refused, unseen, untold>>

CreateOrder(o) == Send("add_order", o)

ModifyOrder(o) ==
    /\ view[o].order_status = "WORKING"
    /\ Send("amend_order", o)

(* Identified by the exchange's id of the order when that is known, by the *)
(* client's otherwise: an order can be canceled before it was reported.    *)
CancelOrder(o) ==
    /\ <<"add_order", o>> \in sent
    /\ Send("cancel_order", o)

(* One request for all orders of the account, with a constant req_id. *)
CancelAllOrders ==
    /\ connection_status # "DISCONNECTED"
    /\ <<"cancel_all">> \notin sent
    /\ sent' = sent \cup {<<"cancel_all">>}
    /\ upstream' = Append(upstream, [method |-> "cancel_all"])
    /\ UNCHANGED <<connection_status, statuses, disconnects, view, rejects,
                   downstream, subscribed, exchange, refused, unseen, untold>>

----------------------------------------------------------------------------
(* Messages to the order management system *)

(* protocol::json::OrderStatus => roq::OrderStatus *)
OrderStatus(order_status) ==
    CASE order_status = "pending_new" -> "ACCEPTED"
      [] order_status = "new" -> "WORKING"
      [] order_status = "partially_filled" -> "WORKING"
      [] order_status = "filled" -> "COMPLETED"
      [] order_status = "canceled" -> "CANCELED"
      [] order_status = "expired" -> "EXPIRED"
      [] OTHER -> "UNDEFINED"

(* Faulty variants: nothing of a snapshot is left out; all of it is. *)
DiscardNothing(type, item) == FALSE
DiscardSnapshot(type, item) == type = "snapshot"

(* A snapshot is good for the open orders only: it repeats old trades. *)
Discard(type, item) ==
    /\ item.exec_type \notin {"pending_new", "new"}
    /\ type = "snapshot"

(* An OrderUpdate and, for a trade of an order of ours, a TradeUpdate. *)
Publish(v, item) ==
    [v EXCEPT ![item.order] =
       [order_status |-> OrderStatus(item.order_status),
        traded_quantity |-> IF item.cum_qty = NaN THEN 0 ELSE item.cum_qty,
        fills |-> IF item.exec_type = "trade" /\ item.order \in Own
                  THEN @.fills + item.last_qty
                  ELSE @.fills]]

OnExecutions(m) ==
    /\ view' = FoldLeft(LAMBDA v, item : IF Discard(m.type, item) THEN v ELSE Publish(v, item),
                        view, m.data)
    /\ UNCHANGED rejects

(* AddOrder, AmendOrder and CancelOrder with an error are a Response to    *)
(* the request of the order in the req_id.                                 *)
RequestType(channel) ==
    CASE channel = "add_order" -> "CREATE_ORDER"
      [] channel = "amend_order" -> "MODIFY_ORDER"
      [] channel = "cancel_order" -> "CANCEL_ORDER"

OnFailed(m) ==
    /\ rejects' = rejects \cup {<<RequestType(m.channel), unpack_req_id(m.req_id)>>}
    /\ UNCHANGED view

(* A message arrives.  The answer to cancel_all, and any message of the    *)
(* method "error", is only logged.                                         *)
Receive ==
    /\ connection_status # "DISCONNECTED"
    /\ downstream # <<>>
    /\ downstream' = Tail(downstream)
    /\ LET m == Head(downstream)
       IN \/ IsExecutions(m) /\ OnExecutions(m)
          \/ m.channel \in {"add_order", "amend_order", "cancel_order"} /\ OnFailed(m)
          \/ m.channel \in {"cancel_all", "error"} /\ UNCHANGED <<view, rejects>>
    /\ UNCHANGED <<connection_status, statuses, disconnects, sent, upstream,
                   subscribed, exchange, refused, unseen, untold>>

----------------------------------------------------------------------------
(* The exchange *)

(* The first subscription of a connection is answered with the snapshot    *)
(* and the changes from there on; another one is refused.                  *)
TakeSubscribe ==
    /\ subscribed' = TRUE
    /\ IF subscribed
       THEN UNCHANGED <<downstream, unseen, untold>>
       ELSE LET open == {o \in Order : exchange[o].status = "open"}
            IN \E silent \in SUBSET {o \in open : exchange[o].cum > 0} :
                 /\ downstream' = Append(downstream, Snapshot(silent))
                 /\ unseen' = [unseen EXCEPT !.stale = @ \ open]
                 /\ untold' = silent
    /\ UNCHANGED <<exchange, refused>>

TakeAdd(o) ==
    /\ exchange[o].status = "none"
    /\ exchange' = [exchange EXCEPT ![o].status = "open"]
    /\ Emit(<<Update(o, "pending_new", "pending_new", NaN, NaN),
              Update(o, "new", "new", NaN, NaN)>>)
    /\ UNCHANGED <<subscribed, refused>>

TakeAmend(o) ==
    /\ exchange[o].status = "open"
    /\ Emit(<<Update(o, "amended", OpenStatus(o), exchange[o].cum, NaN)>>)
    /\ UNCHANGED <<subscribed, exchange, refused>>

Canceled(o) == Update(o, "canceled", "canceled", exchange[o].cum, NaN)

Cancel(orders) ==
    /\ exchange' = [o \in Order |-> IF o \in orders
                                    THEN [exchange[o] EXCEPT !.status = "canceled"]
                                    ELSE exchange[o]]
    /\ Emit(SetToSeq({Canceled(o) : o \in orders}))

TakeCancel(o) ==
    /\ exchange[o].status = "open"
    /\ Cancel({o})
    /\ UNCHANGED <<subscribed, refused>>

TakeCancelAll ==
    /\ Cancel({o \in Order : exchange[o].status = "open"})
    /\ UNCHANGED <<subscribed, refused>>

(* Any request may be refused, by its own answer or by one of the method   *)
(* "error"; a cancel or amend of an order that is not open must be.        *)
Refuse(method, o) ==
    /\ \/ downstream' = Append(downstream, Failed(method, o))
       \/ downstream' = Append(downstream, [channel |-> "error"])
    /\ refused' = refused \cup {<<method, o>>}
    /\ UNCHANGED <<subscribed, exchange, unseen, untold>>

Take ==
    /\ Len(downstream) < MaxDownstream
    /\ upstream # <<>>
    /\ upstream' = Tail(upstream)
    /\ LET m == Head(upstream)
       IN \/ m.method = "subscribe" /\ TakeSubscribe
          \/ m.method = "add_order" /\ TakeAdd(m.order)
          \/ m.method = "amend_order" /\ TakeAmend(m.order)
          \/ m.method = "cancel_order" /\ TakeCancel(m.order)
          \/ m.method = "cancel_all" /\ TakeCancelAll
          \/ m.method \notin {"subscribe", "cancel_all"} /\ Refuse(m.method, m.order)
    /\ UNCHANGED gateway

(* An order trades.  The report of its last trade is followed by another   *)
(* that it is filled.                                                      *)
Trade(o) ==
    /\ Len(downstream) < MaxDownstream
    /\ exchange[o].status = "open"
    /\ LET cum == exchange[o].cum + 1
           trade == Update(o, "trade", "partially_filled", cum, 1)
       IN IF cum < Quantity
          THEN /\ exchange' = [exchange EXCEPT ![o].cum = cum]
               /\ Emit(<<trade>>)
          ELSE /\ exchange' = [exchange EXCEPT ![o] = [status |-> "filled", cum |-> cum]]
               /\ Emit(<<trade, Update(o, "filled", "filled", cum, NaN)>>)
    /\ UNCHANGED <<upstream, subscribed, refused>>
    /\ UNCHANGED gateway

(* An order is placed by somebody else. *)
AddForeign(o) ==
    /\ Len(downstream) < MaxDownstream
    /\ TakeAdd(o)
    /\ UNCHANGED upstream
    /\ UNCHANGED gateway

----------------------------------------------------------------------------
Next ==
    \/ SocketReady
    \/ Status
    \/ Disconnected
    \/ Receive
    \/ \E o \in Own : CreateOrder(o)
    \/ \E o \in Own : ModifyOrder(o)
    \/ \E o \in Own : CancelOrder(o)
    \/ CancelAllOrders
    \/ Take
    \/ \E o \in Order : Trade(o)
    \/ \E o \in Foreign : AddForeign(o)

Spec == Init /\ [][Next]_vars

----------------------------------------------------------------------------
(* Properties *)

(* Every trade of an own order is dispatched as a fill exactly once, over  *)
(* any number of connections, except those that happen while no            *)
(* subscription is active or are lost in flight: the trades a snapshot     *)
(* repeats are never fills again.  Orders placed elsewhere have no fills.  *)
EveryTradeOnce ==
    /\ \A o \in Own :
         view[o].fills + LostTrades(o) + unseen.trades[o] = exchange[o].cum
    /\ \A o \in Foreign : view[o].fills = 0

(* The traded quantity of an order that the connection has told.  *)
Told(o) == IF o \in untold THEN 0 ELSE exchange[o].cum

(* Whenever everything the exchange has sent to a subscribed connection is *)
(* processed, what was last dispatched about an order is its state at the  *)
(* exchange: for every order that is still open there, whatever was lost   *)
(* by earlier connections, and for every other order unless its last       *)
(* change was lost.  The traded quantity is wrong for those orders only    *)
(* whose row in the snapshot had no cum_qty and that were not reported     *)
(* since: it is 0 for them, whatever was dispatched before.                *)
ViewFollowsExchange ==
    subscribed /\ downstream = <<>> =>
        \A o \in Order :
            exchange[o].status # "none" /\ o \notin unseen.stale =>
                /\ view[o].order_status = OrderStatus(LastStatus(o))
                /\ view[o].traded_quantity = Told(o)

(* A REJECTED response goes to the order, and has the type, of a request   *)
(* that the exchange did refuse: the req_id identifies the order uniquely  *)
(* although it carries neither the request nor its version.                *)
RejectsReachTheirRequest ==
    \A r \in rejects :
        \E m \in {"add_order", "amend_order", "cancel_order"} :
            r[1] = RequestType(m) /\ <<m, r[2]>> \in refused

(* The fills of the own orders are a log of their trades, over reconnects: *)
(* a trade becomes a fill at most once, and one that was lost never does.  *)
TL == INSTANCE TradeLog WITH
        Order <- Own,
        trades <- [o \in Own |-> exchange[o].cum],
        fills <- [o \in Own |-> view[o].fills],
        lost <- [o \in Own |-> unseen.trades[o]]

ImplementsTradeLog == TL!Spec

====
