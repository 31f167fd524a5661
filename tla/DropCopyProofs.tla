---- MODULE DropCopyProofs ----
(***************************************************************************)
(* Proofs about DropCopy, for any number of users, orders and connections. *)
(*                                                                         *)
(* The request ids survive the way to the exchange and back, and a refusal *)
(* reaches the request it answers.  Every trade is a fill once, is in      *)
(* flight or is lost, what was last dispatched about an order is its state *)
(* at the exchange when all is read, and the fills implement the log of    *)
(* TradeLog.                                                               *)
(***************************************************************************)
EXTENDS DropCopy, FoldLemmas

Method == {"add_order", "amend_order", "cancel_order"}

(* What may be on its way to the exchange. *)
Requests ==
    {Request(method, o) : method \in Method, o \in Own}
    \cup {[method |-> "subscribe"], [method |-> "cancel_all"]}

(* What may be on its way from it: a report, an answer that names no       *)
(* request, or the refusal of a request that was refused.                  *)
Legitimate(m, refusals) ==
    \/ m.channel \in {"executions", "cancel_all", "error"}
    \/ \E method \in Method, o \in Own :
         m = Failed(method, o) /\ <<method, o>> \in refusals

(* The inductive invariant. *)
IInv ==
    /\ upstream \in Seq(Requests)
    /\ \E S : downstream \in Seq(S)
    /\ \A i \in 1 .. Len(downstream) : Legitimate(downstream[i], refused)
    /\ RejectsReachTheirRequest

----------------------------------------------------------------------------
LEMMA DivideOut ==
  ASSUME NEW k \in Nat \ {0}, NEW a \in Nat, NEW b \in 0 .. k - 1
  PROVE  (a * k + b) \div k = a /\ (a * k + b) % k = b
  OBVIOUS

(* An order is what the req_id of its requests says. *)
LEMMA ReqIdRoundTrip ==
  ASSUME NEW o \in Own
  PROVE  unpack_req_id(pack_req_id(o)) = o
  <1> DEFINE L == OrderIdLimit
             k == UserIdLimit * L
  <1>1. /\ L \in Nat \ {0}
        /\ o = <<o[1], o[2]>>
        /\ o[1] \in 0 .. 255 /\ o[2] \in 0 .. L - 1
    BY OwnAssumption, NumberAssumption DEF UserIdLimit
  <1>2. k \in Nat \ {0} /\ o[2] \in 0 .. k - 1 /\ k = L * 256
    BY <1>1 DEF UserIdLimit
  <1>3. pack_req_id(o) = o[1] * k + o[2]
    BY DEF pack_req_id
  <1>4. (o[1] * k + o[2]) \div k = o[1]
    <2> HIDE DEF k
    <2>1. o[1] \in Nat
      BY <1>1
    <2> QED
      BY <1>2, <2>1, DivideOut
  <1>5. o[1] % 256 = o[1]
    BY <1>1
  <1>6. o[1] * k + o[2] = (o[1] * 256) * L + o[2]
    BY <1>1, <1>2
  <1>7. o[1] * 256 \in Nat
    BY <1>1
  <1>8. ((o[1] * 256) * L + o[2]) % L = o[2]
    BY <1>1, <1>7, DivideOut
  <1>9. unpack_req_id(pack_req_id(o)) = <<o[1] % 256, o[2]>>
    BY <1>3, <1>4, <1>6, <1>8 DEF unpack_req_id, UserIdLimit
  <1> QED
    BY <1>1, <1>5, <1>9

LEMMA OrderFinite == IsFiniteSet(Order)
  <1>1. IsFiniteSet(0 .. UserIdLimit - 1) /\ IsFiniteSet(0 .. OrderIdLimit - 1)
    <2>1. 0 \in Int /\ UserIdLimit - 1 \in Int /\ OrderIdLimit - 1 \in Int
      BY NumberAssumption DEF UserIdLimit
    <2> QED
      BY <2>1, FS_Interval
  <1>2. IsFiniteSet((0 .. UserIdLimit - 1) \X (0 .. OrderIdLimit - 1))
    BY <1>1, FS_Product
  <1>3. IsFiniteSet(Own)
    BY <1>2, FS_Subset, OwnAssumption
  <1> QED
    BY <1>3, FS_Union, OwnAssumption DEF Order

(* The reports of canceled orders. *)
LEMMA CanceledReports ==
  ASSUME NEW orders \in SUBSET Order
  PROVE  /\ IsFiniteSet({Canceled(o) : o \in orders})
         /\ SetToSeq({Canceled(o) : o \in orders}) \in Seq({Canceled(o) : o \in orders})
  <1> DEFINE T == {Canceled(o) : o \in orders}
             f == [o \in orders |-> Canceled(o)]
  <1>1. IsFiniteSet(orders)
    BY OrderFinite, FS_Subset
  <1>2. f \in Surjection(orders, T)
    BY DEF Surjection
  <1>3. IsFiniteSet(T)
    BY <1>1, <1>2, FS_Surjection
  <1> QED
    BY <1>3, SetToSeqRange

----------------------------------------------------------------------------
(* Messages are added that are no refusals. *)
LEMMA ReportIInv ==
  ASSUME IInv, NEW T, NEW messages \in Seq(T),
         \A i \in 1 .. Len(messages) : messages[i].channel = "executions",
         downstream' = downstream \o messages \/ UNCHANGED downstream,
         upstream' \in Seq(Requests), UNCHANGED <<refused, rejects>>
  PROVE  IInv'
  <1>1. PICK S : downstream \in Seq(S)
    BY DEF IInv
  <1>2. RejectsReachTheirRequest'
    BY DEF IInv, RejectsReachTheirRequest
  <1>3. CASE UNCHANGED downstream
    BY <1>2, <1>3 DEF IInv, Legitimate
  <1>4. CASE downstream' = downstream \o messages
    <2>1. downstream' \in Seq(S \cup T)
      <3>1. downstream \in Seq(S \cup T) /\ messages \in Seq(S \cup T)
        BY <1>1
      <3> QED
        BY <1>4, <3>1
    <2>2. \A i \in 1 .. Len(downstream') :
             \/ i \in 1 .. Len(downstream) /\ downstream'[i] = downstream[i]
             \/ /\ i - Len(downstream) \in 1 .. Len(messages)
                /\ downstream'[i] = messages[i - Len(downstream)]
      BY <1>1, <1>4
    <2>3. \A i \in 1 .. Len(downstream') : Legitimate(downstream'[i], refused')
      BY <2>2 DEF IInv, Legitimate
    <2> QED
      BY <1>2, <2>1, <2>3 DEF IInv
  <1> QED
    BY <1>3, <1>4

----------------------------------------------------------------------------
LEMMA InitIInv == Init => IInv
  <1> SUFFICES ASSUME Init PROVE IInv
    OBVIOUS
  <1>1. upstream \in Seq(Requests)
    BY DEF Init
  <1>2. downstream \in Seq({}) /\ Len(downstream) = 0
    BY DEF Init
  <1>3. RejectsReachTheirRequest
    BY DEF Init, RejectsReachTheirRequest
  <1> QED
    BY <1>1, <1>2, <1>3 DEF IInv

(* Nothing but the requests in flight changes. *)
LEMMA UpstreamIInv ==
  ASSUME IInv, upstream' \in Seq(Requests), UNCHANGED <<downstream, refused, rejects>>
  PROVE  IInv'
  BY DEF IInv, Legitimate, RejectsReachTheirRequest

(* The requests of the gateway. *)
LEMMA GatewayIInv ==
  ASSUME IInv,
         \/ SocketReady
         \/ Status
         \/ \E o \in Own : CreateOrder(o) \/ ModifyOrder(o) \/ CancelOrder(o)
         \/ CancelAllOrders
  PROVE  IInv'
  <1>1. CASE SocketReady
    BY <1>1, UpstreamIInv DEF SocketReady, IInv
  <1>2. CASE Status
    <2>1. [method |-> "subscribe"] \in Requests
      BY DEF Requests
    <2>2. upstream' \in Seq(Requests)
      BY <1>2, <2>1 DEF Status, Subscribe, IInv
    <2> QED
      BY <1>2, <2>2, UpstreamIInv DEF Status
  <1>3. ASSUME NEW o \in Own, NEW method \in Method, Send(method, o)
        PROVE  IInv'
    <2>1. Request(method, o) \in Requests
      BY DEF Requests
    <2>2. upstream' \in Seq(Requests)
      BY <1>3, <2>1 DEF Send, IInv
    <2> QED
      BY <1>3, <2>2, UpstreamIInv DEF Send
  <1>4. CASE \E o \in Own : CreateOrder(o) \/ ModifyOrder(o) \/ CancelOrder(o)
    BY <1>3, <1>4 DEF CreateOrder, ModifyOrder, CancelOrder, Method
  <1>5. CASE CancelAllOrders
    <2>1. [method |-> "cancel_all"] \in Requests
      BY DEF Requests
    <2>2. upstream' \in Seq(Requests)
      BY <1>5, <2>1 DEF CancelAllOrders, IInv
    <2> QED
      BY <1>5, <2>2, UpstreamIInv DEF CancelAllOrders
  <1> QED
    BY <1>1, <1>2, <1>4, <1>5

(* A lost connection takes all messages with it. *)
LEMMA DisconnectedIInv ==
  ASSUME IInv, Disconnected
  PROVE  IInv'
  <1>1. upstream' \in Seq(Requests)
    BY DEF Disconnected
  <1>2. downstream' \in Seq({}) /\ Len(downstream') = 0
    BY DEF Disconnected
  <1>3. RejectsReachTheirRequest'
    BY DEF Disconnected, IInv, RejectsReachTheirRequest
  <1> QED
    BY <1>1, <1>2, <1>3 DEF IInv

(* A message is read: the request that a refusal names was refused. *)
LEMMA ReceiveIInv ==
  ASSUME IInv, Receive
  PROVE  IInv'
  <1> DEFINE m == Head(downstream)
  <1>1. PICK S : downstream \in Seq(S)
    BY DEF IInv
  <1>2. /\ downstream # <<>>
        /\ downstream' = Tail(downstream)
        /\ UNCHANGED <<upstream, refused>>
    BY DEF Receive
  <1>3. /\ downstream' \in Seq(S)
        /\ \A i \in 1 .. Len(downstream') :
             i + 1 \in 1 .. Len(downstream) /\ downstream'[i] = downstream[i + 1]
        /\ 1 \in 1 .. Len(downstream) /\ m = downstream[1]
    BY <1>1, <1>2
  <1>4. \A i \in 1 .. Len(downstream') : Legitimate(downstream'[i], refused')
    BY <1>2, <1>3 DEF IInv
  <1>5. Legitimate(m, refused)
    BY <1>3 DEF IInv
  <1>6. RejectsReachTheirRequest'
    <2>1. CASE UNCHANGED rejects
      BY <1>2, <2>1 DEF IInv, RejectsReachTheirRequest
    <2>2. CASE m.channel \in Method /\ OnFailed(m)
      <3>1. PICK method \in Method, o \in Own :
              m = Failed(method, o) /\ <<method, o>> \in refused
        BY <1>5, <2>2 DEF Legitimate, Method
      <3>2. m.channel = method /\ m.req_id = pack_req_id(o)
        BY <3>1 DEF Failed
      <3>3. unpack_req_id(m.req_id) = o
        BY <3>2, ReqIdRoundTrip
      <3>4. rejects' = rejects \cup {<<RequestType(method), o>>}
        BY <2>2, <3>2, <3>3 DEF OnFailed
      <3>5. ASSUME NEW r \in rejects'
            PROVE  \E k \in Method : r[1] = RequestType(k) /\ <<k, r[2]>> \in refused
        <4>1. CASE r \in rejects
          BY <4>1 DEF IInv, RejectsReachTheirRequest, Method
        <4>2. CASE r = <<RequestType(method), o>>
          <5>1. r[1] = RequestType(method) /\ r[2] = o
            BY <4>2
          <5> QED
            BY <3>1, <5>1
        <4> QED
          BY <3>4, <4>1, <4>2
      <3> QED
        BY <1>2, <3>5 DEF RejectsReachTheirRequest, Method
    <2> QED
      BY <2>1, <2>2 DEF Receive, OnExecutions, Method
  <1> QED
    BY <1>2, <1>3, <1>4, <1>6 DEF IInv

----------------------------------------------------------------------------
(* The exchange reports: the reports are streamed, or lost. *)
LEMMA EmitIInv ==
  ASSUME IInv, NEW T, NEW messages \in Seq(T), Emit(messages),
         \A x \in T : x.channel = "executions",
         upstream' \in Seq(Requests), UNCHANGED <<refused, rejects>>
  PROVE  IInv'
  <1>1. \A i \in 1 .. Len(messages) : messages[i].channel = "executions"
    OBVIOUS
  <1>2. downstream' = downstream \o messages \/ UNCHANGED downstream
    BY DEF Emit
  <1> QED
    BY <1>1, <1>2, ReportIInv

LEMMA UpdateChannel ==
  ASSUME NEW o, NEW e, NEW s, NEW c, NEW l
  PROVE  Update(o, e, s, c, l).channel = "executions"
  BY DEF Update, Executions

LEMMA AddIInv ==
  ASSUME IInv, NEW o, TakeAdd(o), upstream' \in Seq(Requests), UNCHANGED rejects
  PROVE  IInv'
  <1> DEFINE a == Update(o, "pending_new", "pending_new", NaN, NaN)
             b == Update(o, "new", "new", NaN, NaN)
  <1>1. Emit(<<a, b>>) /\ UNCHANGED refused
    BY DEF TakeAdd
  <1>2. a.channel = "executions" /\ b.channel = "executions"
    BY UpdateChannel
  <1> HIDE DEF a, b
  <1> DEFINE T == {a, b}
             messages == <<a, b>>
  <1>3. messages \in Seq(T) /\ \A x \in T : x.channel = "executions"
    BY <1>2
  <1>4. Emit(messages) /\ UNCHANGED refused
    BY <1>1
  <1> HIDE DEF T, messages
  <1> QED
    BY <1>3, <1>4, EmitIInv

LEMMA CancelIInv ==
  ASSUME IInv, NEW orders \in SUBSET Order, Cancel(orders),
         upstream' \in Seq(Requests), UNCHANGED <<refused, rejects>>
  PROVE  IInv'
  <1> DEFINE T == {Canceled(o) : o \in orders}
             messages == SetToSeq(T)
  <1>1. messages \in Seq(T)
    BY CanceledReports
  <1>2. \A x \in T : x.channel = "executions"
    BY UpdateChannel DEF Canceled
  <1>3. Emit(messages)
    BY DEF Cancel
  <1> HIDE DEF T, messages
  <1> QED
    BY <1>1, <1>2, <1>3, EmitIInv

LEMMA TradeIInv ==
  ASSUME IInv, NEW o \in Order, Trade(o)
  PROVE  IInv'
  <1> DEFINE cum == exchange[o].cum + 1
             a == Update(o, "trade", "partially_filled", cum, 1)
             b == Update(o, "filled", "filled", cum, NaN)
  <1>1. /\ Emit(<<a>>) \/ Emit(<<a, b>>)
        /\ UNCHANGED <<refused, rejects, upstream>>
    BY DEF Trade, gateway
  <1>2. a.channel = "executions" /\ b.channel = "executions"
    BY UpdateChannel
  <1> HIDE DEF a, b
  <1> DEFINE T == {a, b}
             partly == <<a>>
             fully == <<a, b>>
  <1>3. /\ partly \in Seq(T) /\ fully \in Seq(T)
        /\ \A x \in T : x.channel = "executions"
    BY <1>2
  <1>4. upstream' \in Seq(Requests)
    BY <1>1 DEF IInv
  <1>5. Emit(partly) \/ Emit(fully)
    BY <1>1
  <1> HIDE DEF T, partly, fully
  <1>6. CASE Emit(partly)
    BY <1>1, <1>3, <1>4, <1>6, EmitIInv
  <1>7. CASE Emit(fully)
    BY <1>1, <1>3, <1>4, <1>7, EmitIInv
  <1> QED
    BY <1>5, <1>6, <1>7

(* The exchange answers a subscription. *)
LEMMA SubscribeIInv ==
  ASSUME IInv, TakeSubscribe, upstream' \in Seq(Requests), UNCHANGED rejects
  PROVE  IInv'
  <1>1. PICK silent : \/ UNCHANGED downstream
                     \/ downstream' = Append(downstream, Snapshot(silent))
    BY DEF TakeSubscribe
  <1> DEFINE s == Snapshot(silent)
  <1>2. s.channel = "executions"
    BY DEF Snapshot, Executions
  <1>3. /\ UNCHANGED downstream \/ downstream' = Append(downstream, s)
        /\ UNCHANGED refused
    BY <1>1 DEF TakeSubscribe
  <1> HIDE DEF s
  <1> DEFINE T == {s}
             messages == <<s>>
  <1>4. /\ messages \in Seq(T)
        /\ \A i \in 1 .. Len(messages) : messages[i].channel = "executions"
    BY <1>2
  <1>5. UNCHANGED downstream \/ downstream' = downstream \o messages
    <2>1. PICK S : downstream \in Seq(S)
      BY DEF IInv
    <2>2. Append(downstream, s) = downstream \o <<s>>
      BY <2>1
    <2> QED
      BY <1>3, <2>2
  <1> HIDE DEF T, messages
  <1> QED
    BY <1>3, <1>4, <1>5, ReportIInv

(* It refuses a request. *)
LEMMA RefuseIInv ==
  ASSUME IInv, NEW method \in Method, NEW o \in Own, Refuse(method, o),
         upstream' \in Seq(Requests), UNCHANGED rejects
  PROVE  IInv'
  <1>1. PICK S : downstream \in Seq(S)
    BY DEF IInv
  <1>2. PICK m : /\ m = Failed(method, o) \/ m = [channel |-> "error"]
                 /\ downstream' = Append(downstream, m)
    BY DEF Refuse
  <1>3. refused' = refused \cup {<<method, o>>}
    BY DEF Refuse
  <1>4. Legitimate(m, refused')
    BY <1>2, <1>3 DEF Legitimate
  <1>5. \A x : Legitimate(x, refused) => Legitimate(x, refused')
    BY <1>3 DEF Legitimate
  <1>6. /\ downstream' \in Seq(S \cup {m})
        /\ \A i \in 1 .. Len(downstream') :
             \/ i \in 1 .. Len(downstream) /\ downstream'[i] = downstream[i]
             \/ downstream'[i] = m
    <2>1. downstream \in Seq(S \cup {m})
      BY <1>1
    <2> QED
      BY <1>2, <2>1
  <1>7. \A i \in 1 .. Len(downstream') : Legitimate(downstream'[i], refused')
    BY <1>4, <1>5, <1>6 DEF IInv
  <1>8. RejectsReachTheirRequest'
    BY <1>3 DEF IInv, RejectsReachTheirRequest
  <1> QED
    BY <1>6, <1>7, <1>8 DEF IInv

(* It takes a request. *)
LEMMA TakeIInv ==
  ASSUME IInv, Take
  PROVE  IInv'
  <1> DEFINE m == Head(upstream)
  <1>1. /\ upstream # <<>> /\ upstream' = Tail(upstream)
        /\ UNCHANGED rejects
    BY DEF Take, gateway
  <1>2. upstream' \in Seq(Requests) /\ m \in Requests
    BY <1>1 DEF IInv
  <1>3. CASE m.method = "subscribe" /\ TakeSubscribe
    BY <1>1, <1>2, <1>3, SubscribeIInv
  <1>4. CASE TakeAdd(m.order)
    BY <1>1, <1>2, <1>4, AddIInv
  <1>5. CASE m.method = "amend_order" /\ TakeAmend(m.order)
    <2> DEFINE a == Update(m.order, "amended", OpenStatus(m.order),
                           exchange[m.order].cum, NaN)
    <2>1. Emit(<<a>>) /\ UNCHANGED refused
      BY <1>5 DEF TakeAmend
    <2>2. a.channel = "executions"
      BY UpdateChannel
    <2> HIDE DEF a
    <2> DEFINE T == {a}
               messages == <<a>>
    <2>3. messages \in Seq(T) /\ \A x \in T : x.channel = "executions"
      BY <2>2
    <2>4. Emit(messages)
      BY <2>1
    <2> HIDE DEF T, messages
    <2> QED
      BY <1>1, <1>2, <2>1, <2>3, <2>4, EmitIInv
  <1>6. CASE m.method = "cancel_order" /\ TakeCancel(m.order)
    <2>1. m.order \in Order
      BY <1>2, <1>6 DEF Requests, Request, Order
    <2>2. Cancel({m.order}) /\ UNCHANGED refused
      BY <1>6 DEF TakeCancel
    <2> QED
      BY <1>1, <1>2, <2>1, <2>2, CancelIInv
  <1>7. CASE m.method = "cancel_all" /\ TakeCancelAll
    <2> DEFINE orders == {o \in Order : exchange[o].status = "open"}
    <2>1. Cancel(orders) /\ UNCHANGED refused
      BY <1>7 DEF TakeCancelAll
    <2>2. orders \in SUBSET Order
      OBVIOUS
    <2> HIDE DEF orders
    <2> QED
      BY <1>1, <1>2, <2>1, <2>2, CancelIInv
  <1>8. CASE m.method \notin {"subscribe", "cancel_all"} /\ Refuse(m.method, m.order)
    <2>1. PICK method \in Method, o \in Own : m = Request(method, o)
      BY <1>2, <1>8 DEF Requests
    <2>2. Refuse(method, o)
      BY <1>8, <2>1 DEF Request
    <2> QED
      BY <1>1, <1>2, <2>2, RefuseIInv
  <1> QED
    BY <1>3, <1>4, <1>5, <1>6, <1>7, <1>8 DEF Take

----------------------------------------------------------------------------
LEMMA NextIInv == IInv /\ [Next]_vars => IInv'
  <1> SUFFICES ASSUME IInv, [Next]_vars PROVE IInv'
    OBVIOUS
  <1>1. CASE \/ SocketReady
             \/ Status
             \/ \E o \in Own : CreateOrder(o) \/ ModifyOrder(o) \/ CancelOrder(o)
             \/ CancelAllOrders
    BY <1>1, GatewayIInv
  <1>2. CASE Disconnected
    BY <1>2, DisconnectedIInv
  <1>3. CASE Receive
    BY <1>3, ReceiveIInv
  <1>4. CASE Take
    BY <1>4, TakeIInv
  <1>5. CASE \E o \in Order : Trade(o)
    BY <1>5, TradeIInv
  <1>6. CASE \E o \in Foreign : AddForeign(o)
    <2>1. PICK o \in Foreign : AddForeign(o)
      BY <1>6
    <2>2. TakeAdd(o) /\ UNCHANGED <<upstream, rejects>>
      BY <2>1 DEF AddForeign, gateway
    <2>3. upstream' \in Seq(Requests)
      BY <2>2 DEF IInv
    <2> QED
      BY <2>2, <2>3, AddIInv
  <1>7. CASE UNCHANGED vars
    BY <1>7, UpstreamIInv DEF vars, IInv
  <1> QED
    BY <1>1, <1>2, <1>3, <1>4, <1>5, <1>6, <1>7 DEF Next

THEOREM Inductive == Spec => []IInv
  BY InitIInv, NextIInv, PTL DEF Spec

(* A rejection is of a request, and of the order, that the exchange did    *)
(* refuse: Encoder::pack_req_id and unpack_req_id, and what AddOrder,      *)
(* AmendOrder and CancelOrder make of an error.                            *)
THEOREM RejectsCorrect == Spec => []RejectsReachTheirRequest
  <1>1. IInv => RejectsReachTheirRequest
    BY DEF IInv
  <1> QED
    BY Inductive, <1>1, PTL

----------------------------------------------------------------------------
(* The orders, and what was told about them. *)

OrderStatuses == {"pending_new", "new", "partially_filled", "filled", "canceled"}

Views ==
    [Order -> [order_status : {"ACCEPTED", "WORKING", "COMPLETED", "CANCELED", "EXPIRED",
                               "UNDEFINED"},
               traded_quantity : Nat,
               fills : Nat]]

ExchangeInv ==
    /\ exchange \in [Order -> [status : {"none", "open", "filled", "canceled"},
                               cum : 0 .. Quantity]]
    /\ \A o \in Order : /\ exchange[o].status = "none" => exchange[o].cum = 0
                        /\ exchange[o].status = "open" => exchange[o].cum < Quantity

(* An order that was not told of is open. *)
UntoldInv == \A o \in untold : o \in Order /\ exchange[o].status = "open"

StateInv ==
    /\ ExchangeInv
    /\ view \in Views
    /\ unseen \in [stale : SUBSET Order, trades : [Order -> Nat]]
    /\ UntoldInv
    /\ subscribed \in BOOLEAN

Items ==
    [order : Order,
     exec_type : {"pending_new", "new", "trade", "amended", "filled", "canceled"},
     order_status : OrderStatuses,
     cum_qty : 0 .. Quantity + 1,
     last_qty : 0 .. Quantity + 1]

(* A change: one report, and a trade is of the quantity 1. *)
Reports == {m \in [channel : {"executions"}, type : {"update"}, data : Seq(Items)] :
              /\ Len(m.data) = 1
              /\ m.data[1].exec_type = "trade" => m.data[1].last_qty = 1}

(* A snapshot: a row for an order, or for a trade. *)
Snapshots == {m \in [channel : {"executions"}, type : {"snapshot"}, data : Seq(Items)] :
                \A k \in 1 .. Len(m.data) : m.data[k].exec_type \in {"new", "trade"}}

(* Reports of a connection that subscribed, only. *)
ExecutionsInv ==
    \A i \in 1 .. Len(downstream) :
        IsExecutions(downstream[i]) => subscribed /\ downstream[i] \in Reports \cup Snapshots

(* A message that changes what is told about an order ... *)
Names(m, o) ==
    /\ IsExecutions(m)
    /\ \E k \in 1 .. Len(m.data) : m.data[k].order = o /\ ~Discard(m.type, m.data[k])

TradedQuantity(item) == IF item.cum_qty = NaN THEN 0 ELSE item.cum_qty

(* ... to this status and traded quantity. *)
Tells(m, o, status, quantity) ==
    \A k \in 1 .. Len(m.data) :
        m.data[k].order = o /\ ~Discard(m.type, m.data[k]) =>
            /\ OrderStatus(m.data[k].order_status) = status
            /\ TradedQuantity(m.data[k]) = quantity

(* When a queue is read, what is told of an order will have become this:   *)
(* the last message that names it says so, or none does and it is so.      *)
Follows(queue, o, told, status, quantity) ==
    \/ \E i \in 1 .. Len(queue) :
         /\ Names(queue[i], o) /\ Tells(queue[i], o, status, quantity)
         /\ \A j \in i + 1 .. Len(queue) : ~Names(queue[j], o)
    \/ /\ \A i \in 1 .. Len(queue) : ~Names(queue[i], o)
       /\ told.order_status = status
       /\ told.traded_quantity = quantity

(* ViewFollowsExchange while messages are on their way. *)
ViewInv ==
    \A o \in Order :
        exchange[o].status # "none" /\ o \notin unseen.stale =>
            Follows(downstream, o, view[o], OrderStatus(LastStatus(o)), Told(o))

----------------------------------------------------------------------------
(* The messages of a list are dispatched one after the other. *)
LEMMA ExecutionsSteps ==
  ASSUME NEW m, m.data \in Seq(Items), view \in Views, OnExecutions(m)
  PROVE  \E acc \in [0 .. Len(m.data) -> Views] :
           /\ acc[0] = view
           /\ \A i \in 1 .. Len(m.data) :
                acc[i] = IF Discard(m.type, m.data[i]) THEN acc[i - 1]
                         ELSE Publish(acc[i - 1], m.data[i])
           /\ view' = acc[Len(m.data)]
  <1> DEFINE n == Len(m.data)
             data == m.data
             D == 1 .. n
             Step(v, i) == IF Discard(m.type, data[i]) THEN v ELSE Publish(v, data[i])
             iter == CHOOSE g : g = [s \in SUBSET (DOMAIN data) |->
                        IF s = {} THEN view
                        ELSE LET x == Max(s)
                             IN  IF Discard(m.type, data[x]) THEN g[s \ {x}]
                                 ELSE Publish(g[s \ {x}], data[x])]
  <1>1. view' = iter[DOMAIN data]
    BY DEF OnExecutions, FoldLeft, MapThenFoldSet
  <1>2. n \in Nat /\ DOMAIN data = D /\ \A i \in D : data[i] \in Items
    OBVIOUS
  <1>3. \A v \in Views : \A i \in D : Step(v, i) \in Views
    <2> SUFFICES ASSUME NEW v \in Views, NEW item \in Items
                 PROVE  Publish(v, item) \in Views
      BY <1>2
    <2>1. OrderStatus(item.order_status) \in
             {"ACCEPTED", "WORKING", "COMPLETED", "CANCELED", "EXPIRED", "UNDEFINED"}
      BY DEF OrderStatus
    <2>2. /\ item.order \in Order /\ item.cum_qty \in Nat /\ item.last_qty \in Nat
      BY NumberAssumption DEF Items
    <2> QED
      BY <2>1, <2>2 DEF Publish, Views
  <1> DEFINE step == [p \in Views \X D |-> Step(p[1], p[2])]
  <1>4. step \in [Views \X D -> Views]
    <2> HIDE DEF Step
    <2> QED
      BY <1>3
  <1>5. \A v \in Views : \A i \in D : step[<<v, i>>] = Step(v, i)
    <2> HIDE DEF Step
    <2> QED
      OBVIOUS
  <1>6. PICK f \in [SUBSET D -> Views] : IsFold(f, n, view, step)
    <2>1. n \in Nat /\ view \in Views
      BY <1>2
    <2> HIDE DEF step, n, iter, D
    <2>2. step \in [Views \X D -> Views] /\ D = 1 .. n
      BY <1>4 DEF D
    <2> QED
      BY <2>1, <2>2, FoldExists
  <1>7. \A s \in SUBSET D : s # {} => Max(s) \in D /\ s \ {Max(s)} \in SUBSET D
    <2> HIDE DEF n
    <2> QED
      BY <1>2, MaxExists
  <1> HIDE DEF step
  <1>8. f = [s \in SUBSET D |-> IF s = {} THEN view ELSE Step(f[s \ {Max(s)}], Max(s))]
    <2> HIDE DEF Step
    <2>1. \A s \in SUBSET D : s # {} =>
             step[<<f[s \ {Max(s)}], Max(s)>>] = Step(f[s \ {Max(s)}], Max(s))
      BY <1>5, <1>7
    <2> QED
      BY <1>6, <2>1 DEF IsFold
  <1>9. iter = [s \in SUBSET D |-> IF s = {} THEN view ELSE Step(iter[s \ {Max(s)}], Max(s))]
    BY <1>2, <1>8
  <1> HIDE DEF iter
  <1>10. Folds(iter, n, Views, view, step)
    <2>1. iter[{}] = view
      BY <1>9
    <2>2. \A s \in SUBSET (1 .. n) :
             s # {} /\ iter[s \ {Max(s)}] \in Views =>
                iter[s] = step[<<iter[s \ {Max(s)}], Max(s)>>]
      <3> HIDE DEF Step
      <3> QED
        BY <1>5, <1>7, <1>9
    <2> QED
      BY <2>1, <2>2 DEF Folds
  <1>11. PICK acc \in [0 .. n -> Views] : Run(acc, n, view, step, iter[1 .. n])
    <2>1. n \in Nat /\ view \in Views
      BY <1>2
    <2> HIDE DEF n, D
    <2>2. step \in [Views \X (1 .. n) -> Views]
      BY <1>4 DEF D
    <2> QED
      BY <1>10, <2>1, <2>2, FoldSteps
  <1>12. acc[0] = view /\ view' = acc[n]
    BY <1>1, <1>2, <1>11 DEF Run
  <1>13. \A i \in D : acc[i] = Step(acc[i - 1], i)
    <2> HIDE DEF Step
    <2>1. \A i \in D : i - 1 \in 0 .. n /\ acc[i] = step[<<acc[i - 1], i>>]
      BY <1>2, <1>11 DEF Run
    <2> QED
      BY <1>5, <1>11, <2>1
  <1> QED
    BY <1>11, <1>12, <1>13

(* A report of a change. *)
IsTrade(m, o) ==
    /\ IsExecutions(m)
    /\ m.type = "update"
    /\ m.data[1].order = o
    /\ m.data[1].exec_type = "trade"

(* One report is dispatched as it is. *)
LEMMA ReportDispatched ==
  ASSUME NEW m \in Reports, view \in Views, OnExecutions(m)
  PROVE  /\ m.data[1] \in Items
         /\ \A item \in Items : ~Discard(m.type, item)
         /\ view' = Publish(view, m.data[1])
         /\ view' \in Views
  <1>1. m.data \in Seq(Items) /\ Len(m.data) = 1 /\ m.type = "update"
    BY DEF Reports
  <1>2. \A item \in Items : ~Discard(m.type, item)
    BY <1>1 DEF Discard
  <1>3. PICK acc \in [0 .. Len(m.data) -> Views] :
           /\ acc[0] = view
           /\ \A i \in 1 .. Len(m.data) :
                acc[i] = IF Discard(m.type, m.data[i]) THEN acc[i - 1]
                         ELSE Publish(acc[i - 1], m.data[i])
           /\ view' = acc[Len(m.data)]
    BY <1>1, ExecutionsSteps
  <1>4. m.data[1] \in Items
    BY <1>1
  <1>5. 1 \in 1 .. Len(m.data) /\ 1 - 1 = 0 /\ 1 \in 0 .. Len(m.data)
    BY <1>1
  <1>6. view' = acc[1] /\ acc[1] = Publish(acc[0], m.data[1])
    BY <1>1, <1>2, <1>3, <1>4, <1>5
  <1>7. view' \in Views
    BY <1>3, <1>5, <1>6
  <1> QED
    BY <1>2, <1>3, <1>4, <1>6, <1>7

(* The rows of a snapshot for an order agree, and are dispatched; its rows *)
(* for trades are not.                                                     *)
LEMMA SnapshotDispatched ==
  ASSUME NEW m \in Snapshots, view \in Views, OnExecutions(m), NEW o \in Order, NEW s, NEW c
  PROVE  /\ view' \in Views
         /\ view'[o].fills = view[o].fills
         /\ ~Names(m, o) => view'[o] = view[o]
         /\ Names(m, o) /\ Tells(m, o, s, c) =>
               view'[o].order_status = s /\ view'[o].traded_quantity = c
  <1> DEFINE n == Len(m.data)
  <1>1. /\ m.data \in Seq(Items) /\ m.type = "snapshot" /\ m.channel = "executions"
        /\ n \in Nat /\ \A k \in 1 .. n : m.data[k] \in Items
        /\ \A k \in 1 .. n : m.data[k].exec_type \in {"new", "trade"}
    BY DEF Snapshots
  <1>2. PICK acc \in [0 .. Len(m.data) -> Views] :
           /\ acc[0] = view
           /\ \A i \in 1 .. Len(m.data) :
                acc[i] = IF Discard(m.type, m.data[i]) THEN acc[i - 1]
                         ELSE Publish(acc[i - 1], m.data[i])
           /\ view' = acc[Len(m.data)]
    BY <1>1, ExecutionsSteps
  <1> DEFINE Row(k) == m.data[k].order = o /\ ~Discard(m.type, m.data[k])
             Right(v) == v.order_status = s /\ v.traded_quantity = c
             Good(i) == /\ acc[i][o].fills = view[o].fills
                        /\ (\A k \in 1 .. i : ~Row(k)) => acc[i][o] = view[o]
                        /\ (\E k \in 1 .. i : Row(k)) /\ Tells(m, o, s, c) => Right(acc[i][o])
             K == {i \in Nat : i <= n => Good(i)}
  <1>3. 0 \in K
    BY <1>2
  <1>4. \A i \in Nat : i \in K => i + 1 \in K
    <2> SUFFICES ASSUME NEW i \in Nat, Good(i), i + 1 <= n
                 PROVE  Good(i + 1)
      BY <1>1
    <2>1. /\ i + 1 \in 1 .. n /\ i \in 0 .. n /\ i + 1 \in 0 .. n /\ (i + 1) - 1 = i
          /\ \A k : k \in 1 .. i + 1 <=> k \in 1 .. i \/ k = i + 1
      BY <1>1
    <2> DEFINE item == m.data[i + 1]
    <2>2. acc[i + 1] = IF Discard(m.type, item) THEN acc[i] ELSE Publish(acc[i], item)
      BY <1>2, <2>1
    <2>3. acc[i] \in Views /\ item \in Items
      BY <1>1, <1>2, <2>1
    <2> HIDE DEF n
    <2>4. CASE Discard(m.type, item)
      <3>1. acc[i + 1] = acc[i] /\ ~Row(i + 1)
        BY <2>2, <2>4
      <3>2. /\ (\A k \in 1 .. i + 1 : ~Row(k)) => \A k \in 1 .. i : ~Row(k)
            /\ (\E k \in 1 .. i + 1 : Row(k)) => \E k \in 1 .. i : Row(k)
        BY <2>1, <3>1
      <3> HIDE DEF Row, Right
      <3> QED
        BY <3>1, <3>2
    <2>5. CASE ~Discard(m.type, item) /\ item.order # o
      <3>1. acc[i + 1][o] = acc[i][o]
        BY <2>2, <2>3, <2>5 DEF Publish, Views, Items
      <3>2. ~Row(i + 1)
        BY <2>5
      <3>3. /\ (\A k \in 1 .. i + 1 : ~Row(k)) => \A k \in 1 .. i : ~Row(k)
            /\ (\E k \in 1 .. i + 1 : Row(k)) => \E k \in 1 .. i : Row(k)
        BY <2>1, <3>2
      <3> HIDE DEF Row, Right
      <3> QED
        BY <3>1, <3>3
    <2>6. CASE ~Discard(m.type, item) /\ item.order = o
      <3>1. item.exec_type # "trade"
        BY <1>1, <2>1, <2>6 DEF Discard
      <3>2. /\ acc[i + 1][o].order_status = OrderStatus(item.order_status)
            /\ acc[i + 1][o].traded_quantity = TradedQuantity(item)
            /\ acc[i + 1][o].fills = acc[i][o].fills
        BY <2>2, <2>3, <2>6, <3>1 DEF Publish, Views, TradedQuantity
      <3>3. Row(i + 1)
        BY <2>6
      <3>4. Tells(m, o, s, c) => /\ OrderStatus(item.order_status) = s
                          /\ TradedQuantity(item) = c
        BY <2>1, <2>6 DEF Tells, n
      <3> HIDE DEF Row
      <3> QED
        BY <2>1, <3>2, <3>3, <3>4
    <2> QED
      BY <2>4, <2>5, <2>6
  <1>5. n \in K
    <2> HIDE DEF K
    <2> QED
      BY <1>1, <1>3, <1>4, NatSetInduction
  <1>6. Good(n)
    BY <1>1, <1>5
  <1>7. Names(m, o) <=> \E k \in 1 .. n : Row(k)
    BY <1>1 DEF Names, IsExecutions
  <1>8. view' \in Views
    BY <1>1, <1>2
  <1> QED
    BY <1>2, <1>6, <1>7, <1>8

(* What a message changes: the orders it names, and the fills of a trade. *)
LEMMA MessageDispatched ==
  ASSUME NEW m \in Reports \cup Snapshots, view \in Views, OnExecutions(m), NEW o \in Order,
         NEW s, NEW c
  PROVE  /\ view' \in Views
         /\ view'[o].fills = view[o].fills + (IF IsTrade(m, o) /\ o \in Own THEN 1 ELSE 0)
         /\ ~Names(m, o) => view'[o] = view[o]
         /\ Names(m, o) /\ Tells(m, o, s, c) =>
               view'[o].order_status = s /\ view'[o].traded_quantity = c
  <1>1. view[o].fills \in Nat
    BY DEF Views
  <1>2. CASE m \in Reports
    <2> DEFINE item == m.data[1]
    <2>1. /\ item \in Items /\ ~Discard(m.type, item)
          /\ view' = Publish(view, item) /\ view' \in Views
      BY <1>2, ReportDispatched
    <2>2. /\ m.type = "update" /\ m.channel = "executions" /\ Len(m.data) = 1
          /\ item.exec_type = "trade" => item.last_qty = 1
      BY <1>2 DEF Reports
    <2>3. /\ Names(m, o) <=> item.order = o
          /\ IsTrade(m, o) <=> item.order = o /\ item.exec_type = "trade"
      BY <2>1, <2>2 DEF Names, IsTrade, IsExecutions
    <2>4. Names(m, o) /\ Tells(m, o, s, c) =>
             /\ OrderStatus(item.order_status) = s
             /\ TradedQuantity(item) = c
      BY <2>1, <2>2, <2>3 DEF Tells
    <2> HIDE DEF item
    <2>5. CASE item.order # o
      <3>1. view'[o] = view[o]
        BY <2>1, <2>5 DEF Publish, Views
      <3> QED
        BY <1>1, <2>1, <2>3, <2>5, <3>1
    <2>6. CASE item.order = o
      <3>1. /\ view'[o].order_status = OrderStatus(item.order_status)
            /\ view'[o].traded_quantity = TradedQuantity(item)
            /\ view'[o].fills = IF item.exec_type = "trade" /\ o \in Own
                                THEN view[o].fills + item.last_qty ELSE view[o].fills
        BY <2>1, <2>6 DEF Publish, Views, TradedQuantity
      <3> QED
        BY <1>1, <2>1, <2>2, <2>3, <2>4, <2>6, <3>1
    <2> QED
      BY <2>5, <2>6
  <1>3. CASE m \in Snapshots
    <2>1. ~IsTrade(m, o)
      BY <1>3 DEF Snapshots, IsTrade
    <2> QED
      BY <1>1, <1>3, <2>1, SnapshotDispatched
  <1> QED
    BY <1>2, <1>3

----------------------------------------------------------------------------
(* Counting in a queue. *)

(* R are the positions A of a queue and B of another one behind it. *)
Concatenated(n, k, A, B, R) ==
    /\ A \in SUBSET (1 .. n) /\ B \in SUBSET (1 .. k) /\ R \in SUBSET (1 .. n + k)
    /\ \A i \in 1 .. n + k : i \in R <=> i \in A \/ i - n \in B

LEMMA CountConcat ==
  ASSUME NEW n \in Nat, NEW k \in Nat, NEW A, NEW B, NEW R, Concatenated(n, k, A, B, R)
  PROVE  Cardinality(R) = Cardinality(A) + Cardinality(B)
  <1> USE DEF Concatenated
  <1> DEFINE C == {n + b : b \in B}
             f == [b \in B |-> n + b]
  <1>1. IsFiniteSet(1 .. n) /\ IsFiniteSet(1 .. k)
    BY FS_Interval
  <1>2. /\ IsFiniteSet(A) /\ IsFiniteSet(B)
        /\ Cardinality(A) \in Nat /\ Cardinality(B) \in Nat
    BY <1>1, FS_Subset, FS_CardinalityType
  <1>3. \A a, b \in B : n + a = n + b => a = b
    OBVIOUS
  <1>4. f \in Bijection(B, C)
    BY <1>3 DEF Bijection, Injection, Surjection, IsInjective
  <1>5. ExistsBijection(B, C)
    BY <1>4 DEF ExistsBijection
  <1>6. A \cap C = {}
    OBVIOUS
  <1>7. R = A \cup C
    <2>1. ASSUME NEW i \in R PROVE i \in A \cup C
      <3>1. i \in A \/ i - n \in B
        OBVIOUS
      <3>2. i = n + (i - n)
        OBVIOUS
      <3> QED
        BY <3>1, <3>2
    <2>2. ASSUME NEW b \in B PROVE n + b \in R
      <3>1. n + b \in 1 .. n + k /\ (n + b) - n = b
        OBVIOUS
      <3> QED
        BY <3>1
    <2>3. ASSUME NEW a \in A PROVE a \in R
      OBVIOUS
    <2> QED
      BY <2>1, <2>2, <2>3
  <1> HIDE DEF C
  <1>8. IsFiniteSet(C) /\ Cardinality(C) = Cardinality(B)
    BY <1>2, <1>5, FS_Bijection
  <1>9. Cardinality(A \cup C) = Cardinality(A) + Cardinality(C) - Cardinality({})
    BY <1>2, <1>6, <1>8, FS_Union
  <1>10. Cardinality({}) = 0
    BY FS_EmptySet
  <1> QED
    BY <1>2, <1>7, <1>8, <1>9, <1>10

Trades(q, o) == {i \in 1 .. Len(q) : IsTrade(q[i], o)}

LEMMA LostTradesCount ==
  ASSUME NEW S, downstream \in Seq(S), NEW o
  PROVE  LostTrades(o) = Cardinality(Trades(downstream, o)) /\ LostTrades(o) \in Nat
  <1>1. Len(downstream) \in Nat /\ DOMAIN downstream = 1 .. Len(downstream)
    OBVIOUS
  <1>2. LostTrades(o) = Cardinality(Trades(downstream, o))
    BY <1>1 DEF LostTrades, Trades, IsTrade
  <1>3. Trades(downstream, o) \in SUBSET (1 .. Len(downstream))
    BY DEF Trades
  <1>4. IsFiniteSet(1 .. Len(downstream))
    BY <1>1, FS_Interval
  <1>5. Cardinality(Trades(downstream, o)) \in Nat
    BY <1>3, <1>4, FS_Subset, FS_CardinalityType
  <1> QED
    BY <1>2, <1>5

(* Messages behind a queue. *)
LEMMA TradesConcat ==
  ASSUME NEW S, NEW p \in Seq(S), NEW q \in Seq(S), NEW o
  PROVE  Cardinality(Trades(p \o q, o)) =
            Cardinality(Trades(p, o)) + Cardinality(Trades(q, o))
  <1> DEFINE n == Len(p)
             k == Len(q)
             r == p \o q
  <1>1. /\ n \in Nat /\ k \in Nat /\ Len(r) = n + k
        /\ \A i \in 1 .. n : r[i] = p[i]
        /\ \A i \in 1 .. k : r[n + i] = q[i]
    OBVIOUS
  <1> HIDE DEF r, n, k
  <1> DEFINE A == Trades(p, o)
             B == Trades(q, o)
             R == Trades(r, o)
  <1>2. /\ A \in SUBSET (1 .. n) /\ B \in SUBSET (1 .. k) /\ R \in SUBSET (1 .. n + k)
        /\ \A i \in 1 .. n : i \in A <=> IsTrade(p[i], o)
        /\ \A i \in 1 .. k : i \in B <=> IsTrade(q[i], o)
        /\ \A i \in 1 .. n + k : i \in R <=> IsTrade(r[i], o)
    BY <1>1 DEF Trades, n, k
  <1> HIDE DEF A, B, R
  <1>3. \A i \in 1 .. n + k : i \in R <=> i \in A \/ i - n \in B
    <2> SUFFICES ASSUME NEW i \in 1 .. n + k PROVE i \in R <=> i \in A \/ i - n \in B
      OBVIOUS
    <2>1. CASE i <= n
      <3>1. i \in 1 .. n /\ i - n \notin B
        BY <1>1, <1>2, <2>1
      <3> QED
        BY <1>1, <1>2, <3>1
    <2>2. CASE ~ i <= n
      <3>1. i \notin A /\ i - n \in 1 .. k /\ n + (i - n) = i
        BY <1>1, <1>2, <2>2
      <3> QED
        BY <1>1, <1>2, <3>1
    <2> QED
      BY <2>1, <2>2
  <1>4. Cardinality(R) = Cardinality(A) + Cardinality(B)
    <2>1. n \in Nat /\ k \in Nat
      BY <1>1
    <2>2. Concatenated(n, k, A, B, R)
      BY <1>2, <1>3 DEF Concatenated
    <2> QED
      BY <2>1, <2>2, CountConcat
  <1> QED
    BY <1>4 DEF r, A, B, R

(* A queue with no trade of an order, and one with one. *)
LEMMA TradesFew ==
  ASSUME NEW q, NEW o
  PROVE  /\ (\A i \in 1 .. Len(q) : ~IsTrade(q[i], o)) => Cardinality(Trades(q, o)) = 0
         /\ \A i \in 1 .. Len(q) :
              IsTrade(q[i], o) /\ (\A j \in 1 .. Len(q) : IsTrade(q[j], o) => j = i)
                 => Cardinality(Trades(q, o)) = 1
  <1>1. ASSUME \A i \in 1 .. Len(q) : ~IsTrade(q[i], o)
        PROVE  Cardinality(Trades(q, o)) = 0
    <2>1. Trades(q, o) = {}
      BY <1>1 DEF Trades
    <2> QED
      BY <2>1, FS_EmptySet
  <1>2. ASSUME NEW i \in 1 .. Len(q), IsTrade(q[i], o),
               \A j \in 1 .. Len(q) : IsTrade(q[j], o) => j = i
        PROVE  Cardinality(Trades(q, o)) = 1
    <2>1. Trades(q, o) = {i}
      BY <1>2 DEF Trades
    <2> QED
      BY <2>1, FS_Singleton
  <1> QED
    BY <1>1, <1>2

----------------------------------------------------------------------------
(* The snapshot *)

(* The rows of the snapshot: one for every open order, as it is at the     *)
(* exchange, and no other that is dispatched.                              *)
LEMMA SnapshotRows ==
  ASSUME ExchangeInv, NEW silent
  PROVE  /\ Snapshot(silent) \in Snapshots
         /\ \A o \in Order : Names(Snapshot(silent), o) <=> exchange[o].status = "open"
         /\ \A o \in Order : Tells(Snapshot(silent), o, OrderStatus(LastStatus(o)),
                                  IF o \in silent THEN 0 ELSE exchange[o].cum)
         /\ \A o : ~IsTrade(Snapshot(silent), o)
  <1> DEFINE open == {o \in Order : exchange[o].status = "open"}
             trades == {t \in Order \X (1 .. Quantity) : t[2] <= exchange[t[1]].cum}
             cum(o) == IF o \in silent THEN NaN ELSE exchange[o].cum
             row(o) == Item(o, "new", OpenStatus(o), cum(o), NaN)
             rows == {row(o) : o \in open}
             orders == SetToSeq(rows)
             last == [i \in 1 .. Cardinality(trades) |->
                        LET o == SetToSeq(trades)[i][1]
                        IN Item(o, "trade", LastStatus(o), NaN, 1)]
             data == orders \o last
             x == Snapshot(silent)
  <1>1. x = Executions("snapshot", data)
    BY DEF Snapshot
  <1>2. /\ Quantity \in Nat \ {0} /\ NaN = Quantity + 1
        /\ NaN \in 0 .. Quantity + 1 /\ 1 \in 0 .. Quantity + 1
    BY NumberAssumption DEF NaN
  <1>3. \A o \in Order : /\ OpenStatus(o) \in OrderStatuses
                         /\ exchange[o].status \in {"open", "filled", "canceled"}
                               => LastStatus(o) \in OrderStatuses
                         /\ exchange[o].cum \in 0 .. Quantity
    BY DEF ExchangeInv, OpenStatus, LastStatus, OrderStatuses
  <1>4. rows \in SUBSET Items
    <2>1. \A o \in open : row(o) \in Items
      <3> SUFFICES ASSUME NEW o \in open PROVE row(o) \in Items
        OBVIOUS
      <3>1. o \in Order /\ OpenStatus(o) \in OrderStatuses /\ cum(o) \in 0 .. Quantity + 1
        BY <1>2, <1>3
      <3> HIDE DEF cum
      <3> QED
        BY <1>2, <3>1 DEF Item, Items
    <2> HIDE DEF row
    <2> QED
      BY <2>1
  <1>5. IsFiniteSet(rows)
    <2> DEFINE f == [o \in open |-> row(o)]
    <2>1. f \in Surjection(open, rows)
      <3> HIDE DEF row
      <3> QED
        BY DEF Surjection
    <2>2. IsFiniteSet(open)
      BY OrderFinite, FS_Subset
    <2> HIDE DEF f, rows
    <2> QED
      BY <2>1, <2>2, FS_Surjection
  <1>6. /\ orders \in Seq(rows)
        /\ \A r \in rows : \E i \in 1 .. Len(orders) : orders[i] = r
    <2> HIDE DEF rows
    <2> QED
      BY <1>5, SetToSeqRange
  <1>7. /\ last \in Seq(Items)
        /\ \A i \in 1 .. Len(last) : last[i].exec_type = "trade"
    <2>1. IsFiniteSet(trades)
      <3>1. IsFiniteSet(1 .. Quantity)
        BY <1>2, FS_Interval
      <3>2. IsFiniteSet(Order \X (1 .. Quantity))
        BY <3>1, OrderFinite, FS_Product
      <3> QED
        BY <3>2, FS_Subset
    <2>2. \A t \in trades : /\ t[1] \in Order
                            /\ exchange[t[1]].status \in {"open", "filled", "canceled"}
      <3> SUFFICES ASSUME NEW t \in trades
                   PROVE  /\ t[1] \in Order
                          /\ exchange[t[1]].status \in {"open", "filled", "canceled"}
        OBVIOUS
      <3>1. t[1] \in Order /\ t[2] \in Nat /\ t[2] >= 1 /\ t[2] <= exchange[t[1]].cum
        BY <1>2
      <3> QED
        BY <1>2, <1>3, <3>1 DEF ExchangeInv
    <2> DEFINE seq == SetToSeq(trades)
               k == Cardinality(trades)
    <2>3. seq \in Seq(trades) /\ Len(seq) = k /\ k \in Nat
      <3> HIDE DEF trades
      <3> QED
        BY <2>1, SetToSeqRange
    <2>4. \A i \in 1 .. k : seq[i] \in trades
      <3> HIDE DEF trades, seq
      <3> QED
        BY <2>3
    <2> DEFINE item(i) == Item(seq[i][1], "trade", LastStatus(seq[i][1]), NaN, 1)
    <2>5. \A i \in 1 .. k : item(i) \in Items /\ item(i).exec_type = "trade"
      <3> SUFFICES ASSUME NEW i \in 1 .. k
                   PROVE  item(i) \in Items /\ item(i).exec_type = "trade"
        OBVIOUS
      <3> DEFINE o == seq[i][1]
      <3>1. o \in Order /\ LastStatus(o) \in OrderStatuses
        BY <1>3, <2>2, <2>4
      <3> HIDE DEF o
      <3> QED
        BY <1>2, <3>1 DEF Item, Items, o
    <2>6. last = [i \in 1 .. k |-> item(i)]
      OBVIOUS
    <2> HIDE DEF item, k, last
    <2> QED
      BY <2>3, <2>5, <2>6
  <1> HIDE DEF orders, last
  <1>8. /\ data \in Seq(Items) /\ Len(data) \in Nat
        /\ \A k \in 1 .. Len(data) :
             \/ k \in 1 .. Len(orders) /\ data[k] = orders[k]
             \/ k - Len(orders) \in 1 .. Len(last) /\ data[k] = last[k - Len(orders)]
        /\ \A k \in 1 .. Len(orders) : k \in 1 .. Len(data) /\ data[k] = orders[k]
    <2>1. orders \in Seq(Items)
      <3> HIDE DEF rows
      <3> QED
        BY <1>4, <1>6
    <2> QED
      BY <1>7, <2>1
  <1> HIDE DEF data
  <1>9. \A k \in 1 .. Len(data) :
           (\E o \in open : data[k] = row(o)) \/ data[k].exec_type = "trade"
    <2>1. \A k \in 1 .. Len(orders) : \E o \in open : orders[k] = row(o)
      BY <1>6
    <2> QED
      BY <1>7, <1>8, <2>1
  <1>10. \A o \in open : row(o).exec_type = "new" /\ row(o).order = o
    BY DEF Item
  <1>11. /\ x.channel = "executions" /\ x.type = "snapshot"
         /\ x.data = data
         /\ x = [channel |-> "executions", type |-> "snapshot", data |-> data]
    BY <1>1 DEF Executions
  <1>12. x \in Snapshots
    <2>1. \A k \in 1 .. Len(data) : data[k].exec_type \in {"new", "trade"}
      BY <1>9, <1>10
    <2> QED
      BY <1>8, <1>11, <2>1 DEF Snapshots
  <1>13. \A k \in 1 .. Len(data) :
            Discard("snapshot", data[k]) <=> data[k].exec_type = "trade"
    BY <1>9, <1>10 DEF Discard
  <1>14. \A o \in Order : Names(x, o) <=> o \in open
    <2>1. ASSUME NEW o \in Order, Names(x, o) PROVE o \in open
      <3>1. PICK k \in 1 .. Len(data) : data[k].order = o /\ data[k].exec_type # "trade"
        BY <1>11, <1>13, <2>1 DEF Names
      <3> QED
        BY <1>9, <1>10, <3>1
    <2>2. ASSUME NEW o \in open PROVE Names(x, o)
      <3>1. row(o) \in rows
        OBVIOUS
      <3>2. PICK k \in 1 .. Len(orders) : orders[k] = row(o)
        BY <1>6, <3>1
      <3>3. k \in 1 .. Len(data) /\ data[k].order = o /\ data[k].exec_type = "new"
        BY <1>8, <1>10, <3>2
      <3> QED
        BY <1>11, <1>13, <3>3 DEF Names, IsExecutions
    <2> QED
      BY <2>1, <2>2
  <1>15. \A o \in Order : Tells(x, o, OrderStatus(LastStatus(o)),
                                IF o \in silent THEN 0 ELSE exchange[o].cum)
    <2> SUFFICES ASSUME NEW o \in Order, NEW k \in 1 .. Len(data), data[k].order = o,
                        data[k].exec_type # "trade"
                 PROVE  /\ OrderStatus(data[k].order_status) = OrderStatus(LastStatus(o))
                        /\ TradedQuantity(data[k]) = IF o \in silent THEN 0 ELSE exchange[o].cum
      BY <1>11, <1>13 DEF Tells
    <2>1. o \in open /\ data[k] = row(o)
      BY <1>9, <1>10
    <2>2. data[k].order_status = OpenStatus(o) /\ data[k].cum_qty = cum(o)
      BY <2>1 DEF Item
    <2>3. exchange[o].cum # NaN
      BY <1>2, <1>3
    <2>4. LastStatus(o) = OpenStatus(o)
      BY <2>1 DEF LastStatus
    <2> QED
      BY <2>2, <2>3, <2>4 DEF TradedQuantity
  <1>16. \A o : ~IsTrade(x, o)
    BY <1>11 DEF IsTrade
  <1> QED
    BY <1>12, <1>14, <1>15, <1>16

----------------------------------------------------------------------------
(* The inductive invariant of the executions, next to that of the queues. *)
StreamInv == StateInv /\ ExecutionsInv /\ ViewInv /\ EveryTradeOnce

LEMMA ReportFacts ==
  ASSUME NEW m \in Reports
  PROVE  /\ IsExecutions(m) /\ m.type = "update" /\ Len(m.data) = 1
         /\ m.data \in Seq(Items) /\ m.data[1] \in Items /\ m.data[1].order \in Order
         /\ ToSet(m.data) = {m.data[1]}
         /\ \A o : Names(m, o) <=> m.data[1].order = o
         /\ \A o : IsTrade(m, o) <=> m.data[1].order = o /\ m.data[1].exec_type = "trade"
  <1>1. /\ m.channel = "executions" /\ m.type = "update" /\ Len(m.data) = 1
        /\ m.data \in Seq(Items)
    BY DEF Reports
  <1>2. m.data[1] \in Items /\ m.data[1].order \in Order
    <2>1. m.data[1] \in Items
      BY <1>1
    <2> QED
      BY <2>1 DEF Items
  <1>3. ToSet(m.data) = {m.data[1]}
    BY <1>1 DEF ToSet
  <1>4. \A item : ~Discard(m.type, item)
    BY <1>1 DEF Discard
  <1> QED
    BY <1>1, <1>2, <1>3, <1>4 DEF IsExecutions, Names, IsTrade

(* What follows from a queue follows when messages are put behind it that  *)
(* do not name the order, and when one is that says so.                    *)
LEMMA FollowsConcat ==
  ASSUME NEW S, NEW p \in Seq(S), NEW q \in Seq(S), NEW o, NEW told, NEW s, NEW c
  PROVE  /\ (\A i \in 1 .. Len(q) : ~Names(q[i], o)) /\ Follows(p, o, told, s, c)
               => Follows(p \o q, o, told, s, c)
         /\ (\E i \in 1 .. Len(q) : /\ Names(q[i], o) /\ Tells(q[i], o, s, c)
                                    /\ \A j \in i + 1 .. Len(q) : ~Names(q[j], o))
               => Follows(p \o q, o, told, s, c)
  <1> DEFINE n == Len(p)
             k == Len(q)
             r == p \o q
  <1>1. /\ n \in Nat /\ k \in Nat /\ Len(r) = n + k
        /\ \A i \in 1 .. n : r[i] = p[i]
        /\ \A i \in 1 .. k : r[n + i] = q[i]
    OBVIOUS
  <1> HIDE DEF r, n, k
  <1>2. \A i \in 1 .. n + k :
           \/ i \in 1 .. n /\ r[i] = p[i]
           \/ i - n \in 1 .. k /\ r[i] = q[i - n] /\ i \notin 1 .. n
    <2> SUFFICES ASSUME NEW i \in 1 .. n + k
                 PROVE  \/ i \in 1 .. n /\ r[i] = p[i]
                        \/ i - n \in 1 .. k /\ r[i] = q[i - n] /\ i \notin 1 .. n
      OBVIOUS
    <2>1. CASE i <= n
      BY <1>1, <2>1
    <2>2. CASE ~ i <= n
      <3>1. i - n \in 1 .. k /\ n + (i - n) = i
        BY <1>1, <2>2
      <3> QED
        BY <1>1, <2>2, <3>1
    <2> QED
      BY <2>1, <2>2
  <1>3. ASSUME \A i \in 1 .. k : ~Names(q[i], o), Follows(p, o, told, s, c)
        PROVE  Follows(r, o, told, s, c)
    <2>1. CASE \E i \in 1 .. n : /\ Names(p[i], o) /\ Tells(p[i], o, s, c)
                                 /\ \A j \in i + 1 .. n : ~Names(p[j], o)
      <3>1. PICK i \in 1 .. n : /\ Names(p[i], o) /\ Tells(p[i], o, s, c)
                                /\ \A j \in i + 1 .. n : ~Names(p[j], o)
        BY <2>1
      <3>2. i \in 1 .. n + k /\ r[i] = p[i]
        BY <1>1
      <3>3. ASSUME NEW j \in i + 1 .. n + k PROVE ~Names(r[j], o)
        <4>1. j \in 1 .. n + k /\ (j \in 1 .. n => j \in i + 1 .. n)
          BY <1>1
        <4> QED
          BY <1>2, <1>3, <3>1, <4>1
      <3> QED
        BY <1>1, <3>1, <3>2, <3>3 DEF Follows
    <2>2. CASE /\ \A i \in 1 .. n : ~Names(p[i], o)
               /\ told.order_status = s /\ told.traded_quantity = c
      <3>1. \A i \in 1 .. n + k : ~Names(r[i], o)
        BY <1>2, <1>3, <2>2
      <3> QED
        BY <1>1, <2>2, <3>1 DEF Follows
    <2> QED
      BY <1>3, <2>1, <2>2 DEF Follows, n
  <1>4. ASSUME NEW i \in 1 .. k, Names(q[i], o), Tells(q[i], o, s, c),
               \A j \in i + 1 .. k : ~Names(q[j], o)
        PROVE  Follows(r, o, told, s, c)
    <2>1. n + i \in 1 .. n + k /\ r[n + i] = q[i]
      BY <1>1
    <2>2. ASSUME NEW j \in (n + i) + 1 .. n + k PROVE ~Names(r[j], o)
      <3>1. j \in 1 .. n + k /\ j \notin 1 .. n /\ j - n \in i + 1 .. k
        BY <1>1
      <3> QED
        BY <1>2, <1>4, <3>1
    <2> QED
      BY <1>1, <1>4, <2>1, <2>2 DEF Follows
  <1> QED
    BY <1>3, <1>4 DEF r, k

(* What follows from a queue follows from the rest once the first message  *)
(* is read.                                                                *)
LEMMA FollowsTail ==
  ASSUME NEW S, NEW q \in Seq(S), q # <<>>, NEW o, NEW told, NEW after, NEW s, NEW c,
         Follows(q, o, told, s, c),
         ~Names(Head(q), o) => after = told,
         Names(Head(q), o) /\ Tells(Head(q), o, s, c) =>
            after.order_status = s /\ after.traded_quantity = c
  PROVE  Follows(Tail(q), o, after, s, c)
  <1> DEFINE n == Len(q)
             r == Tail(q)
             h == Head(q)
  <1>1. /\ n \in Nat /\ n >= 1 /\ Len(r) = n - 1 /\ h = q[1]
        /\ \A i \in 1 .. n - 1 : r[i] = q[i + 1]
    OBVIOUS
  <1> HIDE DEF r, n, h
  <1>2. CASE \A i \in 1 .. n : ~Names(q[i], o)
    <2>1. told.order_status = s /\ told.traded_quantity = c
      BY <1>2 DEF Follows, n
    <2>2. after = told
      BY <1>1, <1>2 DEF h
    <2>3. \A i \in 1 .. n - 1 : ~Names(r[i], o)
      <3> SUFFICES ASSUME NEW i \in 1 .. n - 1 PROVE ~Names(r[i], o)
        OBVIOUS
      <3>1. i + 1 \in 1 .. n /\ r[i] = q[i + 1]
        BY <1>1
      <3> QED
        BY <1>2, <3>1
    <2> QED
      BY <1>1, <2>1, <2>2, <2>3 DEF Follows, r
  <1>3. CASE ~ \A i \in 1 .. n : ~Names(q[i], o)
    <2>1. PICK i \in 1 .. n : /\ Names(q[i], o) /\ Tells(q[i], o, s, c)
                              /\ \A j \in i + 1 .. n : ~Names(q[j], o)
      BY <1>3 DEF Follows, n
    <2>2. ASSUME NEW j \in 1 .. n - 1, j >= i PROVE ~Names(r[j], o)
      <3>1. j + 1 \in i + 1 .. n /\ r[j] = q[j + 1]
        BY <1>1, <2>2
      <3> QED
        BY <2>1, <3>1
    <2>3. CASE i = 1
      <3>1. after.order_status = s /\ after.traded_quantity = c
        BY <1>1, <2>1, <2>3 DEF h
      <3>2. \A j \in 1 .. n - 1 : ~Names(r[j], o)
        BY <2>2, <2>3
      <3> QED
        BY <1>1, <3>1, <3>2 DEF Follows, r
    <2>4. CASE i # 1
      <3>1. i - 1 \in 1 .. n - 1 /\ r[i - 1] = q[i]
        <4>1. i - 1 \in 1 .. n - 1 /\ (i - 1) + 1 = i
          BY <1>1, <2>4
        <4> QED
          BY <1>1, <4>1
      <3>2. \A j \in (i - 1) + 1 .. n - 1 : ~Names(r[j], o)
        BY <1>1, <2>2
      <3> QED
        BY <1>1, <2>1, <3>1, <3>2 DEF Follows, r
    <2> QED
      BY <2>3, <2>4
  <1> QED
    BY <1>2, <1>3

(* What is reported to nobody. *)
LEMMA EmitUnseen ==
  ASSUME StateInv, NEW messages \in Seq(Reports), Emit(messages), ~subscribed
  PROVE  /\ downstream' = downstream
         /\ unseen' \in [stale : SUBSET Order, trades : [Order -> Nat]]
         /\ unseen.stale \subseteq unseen'.stale
         /\ \A i \in 1 .. Len(messages) : messages[i].data[1].order \in unseen'.stale
         /\ \A o \in Order :
              unseen'.trades[o] = unseen.trades[o]
                + Cardinality({item \in {messages[i].data[1] : i \in 1 .. Len(messages)} :
                                 item.order = o /\ item.exec_type = "trade"})
  <1> DEFINE k == Len(messages)
             items == UNION {ToSet(m.data) : m \in ToSet(messages)}
             data == {messages[i].data[1] : i \in 1 .. k}
             traded(o) == Cardinality({i \in items : i.order = o /\ i.exec_type = "trade"})
  <1>1. /\ k \in Nat /\ DOMAIN messages = 1 .. k
        /\ \A i \in 1 .. k : messages[i] \in Reports
    OBVIOUS
  <1>2. /\ downstream' = downstream
        /\ unseen' = [stale |-> unseen.stale \cup {i.order : i \in items},
                      trades |-> [o \in Order |-> unseen.trades[o] + traded(o)]]
    BY DEF Emit
  <1>3. items = data
    <2>1. \A m : m \in ToSet(messages) <=> \E i \in 1 .. k : m = messages[i]
      BY <1>1 DEF ToSet
    <2>2. \A i \in 1 .. k : ToSet(messages[i].data) = {messages[i].data[1]}
      BY <1>1, ReportFacts
    <2>3. ASSUME NEW x \in items PROVE x \in data
      <3>1. PICK m \in ToSet(messages) : x \in ToSet(m.data)
        OBVIOUS
      <3> QED
        BY <2>1, <2>2, <3>1
    <2>4. ASSUME NEW i \in 1 .. k PROVE messages[i].data[1] \in items
      BY <2>1, <2>2
    <2> HIDE DEF items
    <2> QED
      BY <2>3, <2>4
  <1>4. IsFiniteSet(data)
    <2> DEFINE f == [i \in 1 .. k |-> messages[i].data[1]]
    <2>1. IsFiniteSet(1 .. k)
      BY <1>1, FS_Interval
    <2>2. f \in Surjection(1 .. k, data)
      BY DEF Surjection
    <2> HIDE DEF f, data
    <2> QED
      BY <2>1, <2>2, FS_Surjection
  <1>5. \A i \in 1 .. k : messages[i].data[1].order \in Order
    BY <1>1, ReportFacts
  <1>6. \A item \in data : item.order \in Order
    BY <1>5
  <1>7. \A i \in 1 .. k : messages[i].data[1] \in items
    BY <1>3
  <1> HIDE DEF data, items
  <1>8. \A o \in Order : traded(o) \in Nat
    BY <1>3, <1>4, FS_Subset, FS_CardinalityType
  <1> HIDE DEF traded
  <1>9. /\ unseen'.stale = unseen.stale \cup {i.order : i \in items}
        /\ unseen'.trades = [o \in Order |-> unseen.trades[o] + traded(o)]
        /\ unseen' = [stale |-> unseen'.stale, trades |-> unseen'.trades]
    BY <1>2
  <1>10. unseen.stale \in SUBSET Order /\ \A o \in Order : unseen.trades[o] \in Nat
    BY DEF StateInv
  <1>11. unseen'.stale \in SUBSET Order
    BY <1>3, <1>6, <1>9, <1>10
  <1>12. unseen'.trades \in [Order -> Nat]
    BY <1>8, <1>9, <1>10
  <1>13. unseen' \in [stale : SUBSET Order, trades : [Order -> Nat]]
    BY <1>9, <1>11, <1>12
  <1>14. \A i \in 1 .. k : messages[i].data[1].order \in unseen'.stale
    BY <1>7, <1>9
  <1> QED
    BY <1>2, <1>3, <1>9, <1>13, <1>14 DEF traded, data

(* A change of orders at the exchange is reported: the last message about  *)
(* each of them says what it is now.                                       *)
Reported(messages, orders) ==
    /\ messages \in Seq(Reports) /\ orders \in SUBSET Order
    /\ Emit(messages)
    /\ \A i \in 1 .. Len(messages) : messages[i].data[1].order \in orders
    /\ \A o \in Order \ orders : exchange'[o] = exchange[o]
    /\ \A o \in orders : \E i \in 1 .. Len(messages) :
          /\ messages[i].data[1].order = o
          /\ OrderStatus(messages[i].data[1].order_status) = OrderStatus(LastStatus(o)')
          /\ TradedQuantity(messages[i].data[1]) = exchange'[o].cum
          /\ \A j \in i + 1 .. Len(messages) : messages[j].data[1].order # o

(* What is told of their quantity is right again; of the others it stays. *)
LEMMA EmitTold ==
  ASSUME StateInv, NEW messages, NEW orders, Reported(messages, orders)
  PROVE  /\ UntoldInv'
         /\ \A o \in orders : Told(o)' = exchange'[o].cum
         /\ \A o \in Order \ orders : Told(o)' = Told(o)
  <1> DEFINE k == Len(messages)
             items == UNION {ToSet(m.data) : m \in ToSet(messages)}
             reported == {i.order : i \in items}
  <1>1. /\ messages \in Seq(Reports) /\ orders \in SUBSET Order
        /\ \A i \in 1 .. k : messages[i].data[1].order \in orders
        /\ \A o \in Order \ orders : exchange'[o] = exchange[o]
        /\ \A o \in orders : \E i \in 1 .. k : messages[i].data[1].order = o
    BY DEF Reported
  <1>2. /\ k \in Nat /\ DOMAIN messages = 1 .. k
        /\ \A i \in 1 .. k : messages[i] \in Reports
    BY <1>1
  <1>3. untold' = untold \ reported
    BY DEF Reported, Emit
  <1>4. \A x : x \in items <=> \E i \in 1 .. k : x = messages[i].data[1]
    <2>1. \A m : m \in ToSet(messages) <=> \E i \in 1 .. k : m = messages[i]
      BY <1>2 DEF ToSet
    <2>2. \A i \in 1 .. k : ToSet(messages[i].data) = {messages[i].data[1]}
      BY <1>2, ReportFacts
    <2>3. ASSUME NEW x \in items PROVE \E i \in 1 .. k : x = messages[i].data[1]
      <3>1. PICK m \in ToSet(messages) : x \in ToSet(m.data)
        OBVIOUS
      <3>2. PICK i \in 1 .. k : m = messages[i]
        BY <2>1, <3>1
      <3> QED
        BY <2>2, <3>1, <3>2
    <2>4. ASSUME NEW i \in 1 .. k PROVE messages[i].data[1] \in items
      <3>1. messages[i] \in ToSet(messages)
        BY <2>1
      <3>2. messages[i].data[1] \in ToSet(messages[i].data)
        BY <2>2
      <3> QED
        BY <3>1, <3>2
    <2> HIDE DEF items
    <2> QED
      BY <2>3, <2>4
  <1> HIDE DEF items
  <1>5. \A o \in orders : o \in reported
    BY <1>1, <1>4
  <1>6. \A o \in reported : o \in orders
    BY <1>1, <1>4
  <1> HIDE DEF reported
  <1>7. \A o \in orders : o \notin untold'
    BY <1>3, <1>5
  <1>8. \A o \in Order \ orders : (o \in untold' <=> o \in untold) /\ exchange'[o] = exchange[o]
    BY <1>1, <1>3, <1>6
  <1>9. UntoldInv'
    BY <1>1, <1>3, <1>7, <1>8 DEF StateInv, UntoldInv
  <1>10. \A o \in orders : Told(o)' = exchange'[o].cum
    BY <1>7 DEF Told
  <1>11. \A o \in Order \ orders : Told(o)' = Told(o)
    BY <1>8 DEF Told
  <1> QED
    BY <1>9, <1>10, <1>11

(* It is on its way to the stream then, or its orders are stale. *)
LEMMA EmitView ==
  ASSUME IInv, StateInv, ExecutionsInv, ViewInv, NEW messages, NEW orders,
         Reported(messages, orders), ExchangeInv', UNCHANGED <<view, subscribed>>
  PROVE  StateInv' /\ ExecutionsInv' /\ ViewInv'
  <1> USE DEF Reported
  <1> DEFINE k == Len(messages)
  <1>1. PICK S : downstream \in Seq(S)
    BY DEF IInv
  <1>2. /\ k \in Nat /\ \A i \in 1 .. k : messages[i] \in Reports
        /\ Len(downstream) \in Nat
    BY <1>1
  <1>3. ASSUME NEW o \in Order \ orders
        PROVE  /\ exchange'[o] = exchange[o] /\ LastStatus(o)' = LastStatus(o)
               /\ Told(o)' = Told(o)
    <2>1. exchange'[o] = exchange[o] /\ LastStatus(o)' = LastStatus(o)
      BY DEF LastStatus, OpenStatus
    <2> QED
      BY <2>1, EmitTold
  <1>4. UntoldInv' /\ \A o \in orders : Told(o)' = exchange'[o].cum
    BY EmitTold
  <1>5. CASE subscribed
    <2>1. downstream' = downstream \o messages /\ unseen' = unseen
      BY <1>5 DEF Emit
    <2>2. downstream \in Seq(S \cup Reports) /\ messages \in Seq(S \cup Reports)
      BY <1>1
    <2>3. StateInv'
      BY <1>4, <2>1 DEF StateInv
    <2>4. ExecutionsInv'
      <3>1. \A i \in 1 .. Len(downstream') :
               \/ i \in 1 .. Len(downstream) /\ downstream'[i] = downstream[i]
               \/ i - Len(downstream) \in 1 .. k
                  /\ downstream'[i] = messages[i - Len(downstream)]
        BY <2>1, <2>2
      <3> HIDE DEF k
      <3>2. \A i \in 1 .. Len(downstream') :
               IsExecutions(downstream'[i]) =>
                  downstream'[i] \in Reports \cup Snapshots
        BY <1>2, <3>1 DEF ExecutionsInv
      <3>3. subscribed'
        BY <1>5
      <3> QED
        BY <3>2, <3>3 DEF ExecutionsInv, IsExecutions, Reports, Snapshots, Items
    <2>5. ASSUME NEW o \in Order, exchange'[o].status # "none", o \notin unseen'.stale
          PROVE  Follows(downstream', o, view'[o], OrderStatus(LastStatus(o)'),
                         Told(o)')
      <3> DEFINE s == OrderStatus(LastStatus(o)')
                 c == Told(o)'
      <3>1. CASE o \in orders
        <4>1. PICK i \in 1 .. k :
                /\ messages[i].data[1].order = o
                /\ OrderStatus(messages[i].data[1].order_status) = s
                /\ TradedQuantity(messages[i].data[1]) = c
                /\ \A j \in i + 1 .. k : messages[j].data[1].order # o
          BY <1>4, <3>1
        <4>2. Names(messages[i], o)
          BY <1>2, <4>1, ReportFacts
        <4>3. Tells(messages[i], o, s, c)
          BY <1>2, <4>1, ReportFacts DEF Tells
        <4>4. \A j \in i + 1 .. k : ~Names(messages[j], o)
          <5>1. \A j \in i + 1 .. k : j \in 1 .. k
            BY <1>2
          <5> QED
            BY <1>2, <4>1, <5>1, ReportFacts
        <4> HIDE DEF s, c
        <4>5. Follows(downstream \o messages, o, view'[o], s, c)
          BY <2>2, <4>2, <4>3, <4>4, FollowsConcat
        <4> QED
          BY <2>1, <4>5 DEF s, c
      <3>2. CASE o \notin orders
        <4>1. /\ exchange'[o] = exchange[o] /\ LastStatus(o)' = LastStatus(o)
              /\ Told(o)' = Told(o)
          BY <1>3, <3>2
        <4>2. \A i \in 1 .. k : ~Names(messages[i], o)
          BY <1>2, <3>2, ReportFacts
        <4>3. Follows(downstream, o, view[o], s, c)
          BY <2>1, <2>5, <4>1 DEF ViewInv
        <4>4. view'[o] = view[o]
          OBVIOUS
        <4> HIDE DEF s, c
        <4>5. Follows(downstream \o messages, o, view[o], s, c)
          BY <2>2, <4>2, <4>3, FollowsConcat
        <4> QED
          BY <2>1, <4>4, <4>5 DEF s, c
      <3> QED
        BY <3>1, <3>2
    <2> QED
      BY <2>3, <2>4, <2>5 DEF ViewInv
  <1>6. CASE ~subscribed
    <2>1. /\ downstream' = downstream
          /\ unseen' \in [stale : SUBSET Order, trades : [Order -> Nat]]
          /\ unseen.stale \subseteq unseen'.stale
          /\ \A i \in 1 .. k : messages[i].data[1].order \in unseen'.stale
      BY <1>6, EmitUnseen
    <2>2. StateInv'
      BY <1>4, <2>1 DEF StateInv
    <2>3. ExecutionsInv'
      BY <2>1 DEF ExecutionsInv, IsExecutions, Reports, Snapshots, Items
    <2>4. ASSUME NEW o \in Order, exchange'[o].status # "none", o \notin unseen'.stale
          PROVE  Follows(downstream', o, view'[o], OrderStatus(LastStatus(o)'),
                         Told(o)')
      <3>1. o \notin orders /\ o \notin unseen.stale
        BY <2>1, <2>4
      <3>2. /\ exchange'[o] = exchange[o] /\ LastStatus(o)' = LastStatus(o)
            /\ Told(o)' = Told(o)
        BY <1>3, <3>1
      <3> QED
        BY <2>1, <2>4, <3>1, <3>2 DEF ViewInv
    <2> QED
      BY <2>2, <2>3, <2>4 DEF ViewInv
  <1> QED
    BY <1>5, <1>6

(* Its trades are in flight or unseen: none of them, or one. *)
LEMMA EmitTrades ==
  ASSUME IInv, StateInv, NEW messages \in Seq(Reports), Emit(messages), NEW o \in Order
  PROVE  /\ (\A i \in 1 .. Len(messages) : ~IsTrade(messages[i], o)) =>
               LostTrades(o)' = LostTrades(o) /\ unseen'.trades[o] = unseen.trades[o]
         /\ (\E i \in 1 .. Len(messages) :
               IsTrade(messages[i], o)
               /\ \A j \in 1 .. Len(messages) : IsTrade(messages[j], o) => j = i) =>
               IF subscribed
               THEN LostTrades(o)' = LostTrades(o) + 1 /\ UNCHANGED unseen
               ELSE /\ LostTrades(o)' = LostTrades(o)
                    /\ unseen'.trades[o] = unseen.trades[o] + 1
         /\ LostTrades(o) \in Nat
  <1> DEFINE k == Len(messages)
  <1>1. PICK S : downstream \in Seq(S)
    BY DEF IInv
  <1>2. /\ k \in Nat /\ \A i \in 1 .. k : messages[i] \in Reports
    OBVIOUS
  <1>3. LostTrades(o) = Cardinality(Trades(downstream, o)) /\ LostTrades(o) \in Nat
    BY <1>1, LostTradesCount
  <1>4. CASE subscribed
    <2>1. downstream' = downstream \o messages /\ unseen' = unseen
      BY <1>4 DEF Emit
    <2>2. downstream \in Seq(S \cup Reports) /\ messages \in Seq(S \cup Reports)
      BY <1>1
    <2>3. downstream' \in Seq(S \cup Reports)
      BY <2>1, <2>2
    <2>4. LostTrades(o)' = Cardinality(Trades(downstream', o))
      <3>1. DOMAIN downstream' = 1 .. Len(downstream')
        BY <2>3
      <3> QED
        BY <3>1 DEF LostTrades, Trades, IsTrade
    <2>5. Cardinality(Trades(downstream', o)) =
             Cardinality(Trades(downstream, o)) + Cardinality(Trades(messages, o))
      BY <2>1, <2>2, TradesConcat
    <2>6. /\ (\A i \in 1 .. k : ~IsTrade(messages[i], o))
               => Cardinality(Trades(messages, o)) = 0
          /\ \A i \in 1 .. k :
                IsTrade(messages[i], o)
                /\ (\A j \in 1 .. k : IsTrade(messages[j], o) => j = i)
                  => Cardinality(Trades(messages, o)) = 1
      BY TradesFew
    <2>7. Cardinality(Trades(downstream, o)) \in Nat
      BY <1>3
    <2> HIDE DEF k
    <2>8. ASSUME \A i \in 1 .. k : ~IsTrade(messages[i], o)
          PROVE  LostTrades(o)' = LostTrades(o) /\ unseen'.trades[o] = unseen.trades[o]
      BY <1>3, <2>1, <2>4, <2>5, <2>6, <2>7, <2>8
    <2>9. ASSUME NEW i \in 1 .. k,
                 IsTrade(messages[i], o),
                 \A j \in 1 .. k : IsTrade(messages[j], o) => j = i
          PROVE  LostTrades(o)' = LostTrades(o) + 1 /\ UNCHANGED unseen
      BY <1>3, <2>1, <2>4, <2>5, <2>6, <2>7, <2>9
    <2> USE DEF k
    <2> QED
      BY <1>3, <1>4, <2>8, <2>9
  <1>5. CASE ~subscribed
    <2> DEFINE data == {messages[i].data[1] : i \in 1 .. k}
               traded == {item \in data : item.order = o /\ item.exec_type = "trade"}
    <2>1. downstream' = downstream /\ unseen'.trades[o] = unseen.trades[o] + Cardinality(traded)
      BY <1>5, EmitUnseen
    <2>2. LostTrades(o)' = LostTrades(o)
      BY <2>1 DEF LostTrades
    <2>3. \A i \in 1 .. k : IsTrade(messages[i], o) <=>
             messages[i].data[1].order = o /\ messages[i].data[1].exec_type = "trade"
      BY <1>2, ReportFacts
    <2>4. unseen.trades[o] \in Nat
      BY DEF StateInv
    <2>5. ASSUME \A i \in 1 .. k : ~IsTrade(messages[i], o)
          PROVE  unseen'.trades[o] = unseen.trades[o]
      <3>1. traded = {}
        BY <2>3, <2>5
      <3>2. Cardinality(traded) = 0
        BY <3>1, FS_EmptySet
      <3> HIDE DEF traded
      <3> QED
        BY <2>1, <2>4, <3>2
    <2>6. ASSUME NEW i \in 1 .. k, IsTrade(messages[i], o),
                 \A j \in 1 .. k : IsTrade(messages[j], o) => j = i
          PROVE  unseen'.trades[o] = unseen.trades[o] + 1
      <3>1. traded = {messages[i].data[1]}
        BY <2>3, <2>6
      <3> HIDE DEF traded
      <3>2. Cardinality(traded) = 1
        BY <3>1, FS_Singleton
      <3> QED
        BY <2>1, <3>2
    <2> QED
      BY <1>3, <1>5, <2>2, <2>5, <2>6
  <1> QED
    BY <1>4, <1>5

----------------------------------------------------------------------------
(* The steps.  Each of them preserves the invariant, and is a step of the  *)
(* log of trades or changes nothing of it.                                 *)
Step == StreamInv' /\ [TL!Next]_(TL!vars)

(* The log is unchanged. *)
LEMMA SameLog ==
  ASSUME \A o \in Own : /\ exchange'[o].cum = exchange[o].cum
                        /\ view'[o].fills = view[o].fills
                        /\ unseen'.trades[o] = unseen.trades[o]
  PROVE  [TL!Next]_(TL!vars)
  BY DEF TL!vars

LEMMA UpdateReport ==
  ASSUME NEW o \in Order, NEW e, NEW s \in OrderStatuses, NEW c \in 0 .. Quantity + 1,
         NEW l \in {1, NaN},
         e \in {"pending_new", "new", "trade", "amended", "filled", "canceled"},
         e = "trade" => l = 1
  PROVE  /\ Update(o, e, s, c, l) \in Reports
         /\ Update(o, e, s, c, l).data[1].order = o
         /\ Update(o, e, s, c, l).data[1].exec_type = e
         /\ Update(o, e, s, c, l).data[1].order_status = s
         /\ Update(o, e, s, c, l).data[1].cum_qty = c
  <1> DEFINE item == Item(o, e, s, c, l)
             m == Update(o, e, s, c, l)
             data == <<item>>
  <1>1. l \in 0 .. Quantity + 1
    BY NumberAssumption DEF NaN
  <1>2. /\ item \in Items /\ item.order = o /\ item.exec_type = e /\ item.order_status = s
        /\ item.cum_qty = c /\ item.last_qty = l
    BY <1>1 DEF Item, Items
  <1> HIDE DEF item
  <1>3. data \in Seq(Items) /\ Len(data) = 1 /\ data[1] = item
    BY <1>2
  <1>4. m = [channel |-> "executions", type |-> "update", data |-> data]
    BY DEF Update, Executions, item
  <1> HIDE DEF data, m
  <1>5. m \in Reports
    BY <1>2, <1>3, <1>4 DEF Reports
  <1> QED
    BY <1>2, <1>3, <1>4, <1>5 DEF m

LEMMA StateFacts ==
  ASSUME StateInv
  PROVE  /\ \A o \in Order :
              /\ exchange[o].cum \in Nat /\ exchange[o].cum <= Quantity
              /\ exchange[o].cum \in 0 .. Quantity + 1 /\ exchange[o].cum # NaN
              /\ exchange[o].status \in {"none", "open", "filled", "canceled"}
              /\ exchange[o] = [status |-> exchange[o].status, cum |-> exchange[o].cum]
              /\ exchange[o].status = "none" => exchange[o].cum = 0
              /\ exchange[o].status = "open" => exchange[o].cum < Quantity
              /\ view[o].fills \in Nat /\ unseen.trades[o] \in Nat
         /\ exchange = [o \in Order |-> exchange[o]]
         /\ Quantity \in Nat /\ Quantity >= 1
         /\ NaN = Quantity + 1 /\ NaN \in 0 .. Quantity + 1 /\ 1 # NaN
         /\ Own \subseteq Order
  <1>1. Quantity \in Nat /\ Quantity >= 1 /\ NaN = Quantity + 1
    BY NumberAssumption DEF NaN
  <1> QED
    BY <1>1 DEF StateInv, ExchangeInv, Views, Order

(* A change that is no trade. *)
Quiet(messages) ==
    /\ \A i \in 1 .. Len(messages) : messages[i].data[1].exec_type # "trade"
    /\ \A o \in Order : exchange'[o].cum = exchange[o].cum

LEMMA QuietStep ==
  ASSUME IInv, StreamInv, NEW messages, NEW orders, Reported(messages, orders),
         Quiet(messages), ExchangeInv', UNCHANGED <<view, subscribed>>
  PROVE  Step
  <1>1. StateInv' /\ ExecutionsInv' /\ ViewInv'
    BY EmitView DEF StreamInv
  <1>2. /\ messages \in Seq(Reports) /\ Emit(messages)
        /\ \A i \in 1 .. Len(messages) : messages[i] \in Reports
    BY DEF Reported
  <1>3. \A o : \A i \in 1 .. Len(messages) : ~IsTrade(messages[i], o)
    BY <1>2, ReportFacts DEF Quiet
  <1>4. \A o \in Order : /\ LostTrades(o)' = LostTrades(o)
                         /\ unseen'.trades[o] = unseen.trades[o]
    BY <1>2, <1>3, EmitTrades DEF StreamInv
  <1>5. \A o \in Order : exchange'[o].cum = exchange[o].cum
    BY DEF Quiet
  <1>6. Own \subseteq Order
    BY DEF Order
  <1>7. EveryTradeOnce'
    BY <1>4, <1>5, <1>6 DEF StreamInv, EveryTradeOnce
  <1>8. [TL!Next]_(TL!vars)
    BY <1>4, <1>5, <1>6, SameLog
  <1> QED
    BY <1>1, <1>7, <1>8 DEF Step, StreamInv

LEMMA AddStep ==
  ASSUME IInv, StreamInv, NEW o \in Order, TakeAdd(o), UNCHANGED view
  PROVE  Step
  <1> DEFINE a == Update(o, "pending_new", "pending_new", NaN, NaN)
             b == Update(o, "new", "new", NaN, NaN)
  <1>1. /\ exchange[o].status = "none"
        /\ exchange' = [exchange EXCEPT ![o].status = "open"]
        /\ Emit(<<a, b>>) /\ UNCHANGED subscribed
    BY DEF TakeAdd
  <1>2. StateInv
    BY DEF StreamInv
  <1>3. /\ a \in Reports /\ a.data[1].order = o /\ a.data[1].exec_type = "pending_new"
        /\ b \in Reports /\ b.data[1].order = o /\ b.data[1].exec_type = "new"
        /\ b.data[1].order_status = "new" /\ b.data[1].cum_qty = NaN
    <2>1. NaN \in 0 .. Quantity + 1 /\ NaN \in {1, NaN}
      BY <1>2, StateFacts
    <2>2. "pending_new" \in OrderStatuses /\ "new" \in OrderStatuses
      BY DEF OrderStatuses
    <2>3. /\ a \in Reports /\ a.data[1].order = o /\ a.data[1].exec_type = "pending_new"
      BY <2>1, <2>2, UpdateReport
    <2>4. /\ b \in Reports /\ b.data[1].order = o /\ b.data[1].exec_type = "new"
          /\ b.data[1].order_status = "new" /\ b.data[1].cum_qty = NaN
      BY <2>1, <2>2, UpdateReport
    <2> HIDE DEF a, b
    <2> QED
      BY <2>3, <2>4
  <1> HIDE DEF a, b
  <1>4. /\ exchange'[o] = [status |-> "open", cum |-> 0]
        /\ \A p \in Order \ {o} : exchange'[p] = exchange[p]
        /\ exchange[o].cum = 0
        /\ exchange' \in [Order -> [status : {"none", "open", "filled", "canceled"},
                                   cum : 0 .. Quantity]]
    BY <1>1, <1>2 DEF StateInv, ExchangeInv
  <1>5. ExchangeInv'
    <2>1. 0 < Quantity
      BY <1>2, StateFacts
    <2> QED
      BY <1>2, <1>4, <2>1 DEF StateInv, ExchangeInv
  <1>6. LastStatus(o)' = "new"
    BY <1>4 DEF LastStatus, OpenStatus
  <1>7. TradedQuantity(b.data[1]) = 0
    BY <1>3 DEF TradedQuantity
  <1> DEFINE messages == <<a, b>>
  <1>8. /\ messages \in Seq(Reports) /\ Len(messages) = 2
        /\ messages[1] = a /\ messages[2] = b
        /\ \A i \in 1 .. 2 : i = 1 \/ i = 2
        /\ 2 \in 1 .. 2 /\ \A j \in 2 + 1 .. 2 : FALSE
    BY <1>3
  <1>9. Emit(messages)
    BY <1>1
  <1> HIDE DEF messages
  <1>10. \A i \in 1 .. Len(messages) : /\ messages[i].data[1].order \in {o}
                                       /\ messages[i].data[1].exec_type # "trade"
    BY <1>3, <1>8
  <1>11. /\ messages[2].data[1].order = o
         /\ OrderStatus(messages[2].data[1].order_status) = OrderStatus(LastStatus(o)')
         /\ TradedQuantity(messages[2].data[1]) = exchange'[o].cum
    BY <1>3, <1>4, <1>6, <1>7, <1>8
  <1>12. \A p \in {o} : \E i \in 1 .. Len(messages) :
            /\ messages[i].data[1].order = p
            /\ OrderStatus(messages[i].data[1].order_status) = OrderStatus(LastStatus(p)')
            /\ TradedQuantity(messages[i].data[1]) = exchange'[p].cum
            /\ \A j \in i + 1 .. Len(messages) : messages[j].data[1].order # p
    BY <1>8, <1>11
  <1>13. \A p \in Order : exchange'[p].cum = exchange[p].cum
    BY <1>4
  <1>14. Reported(messages, {o})
    BY <1>4, <1>8, <1>9, <1>10, <1>12 DEF Reported
  <1>15. Quiet(messages)
    BY <1>10, <1>13 DEF Quiet
  <1> QED
    BY <1>1, <1>5, <1>14, <1>15, QuietStep

LEMMA AmendStep ==
  ASSUME IInv, StreamInv, NEW o \in Order, TakeAmend(o), UNCHANGED view
  PROVE  Step
  <1> DEFINE a == Update(o, "amended", OpenStatus(o), exchange[o].cum, NaN)
  <1>1. /\ exchange[o].status = "open"
        /\ Emit(<<a>>) /\ UNCHANGED <<subscribed, exchange>>
    BY DEF TakeAmend
  <1>2. StateInv
    BY DEF StreamInv
  <1>3. /\ a \in Reports /\ a.data[1].order = o /\ a.data[1].exec_type = "amended"
        /\ a.data[1].order_status = OpenStatus(o) /\ a.data[1].cum_qty = exchange[o].cum
    <2>1. OpenStatus(o) \in OrderStatuses
      BY DEF OpenStatus, OrderStatuses
    <2> QED
      BY <1>2, <2>1, StateFacts, UpdateReport
  <1> HIDE DEF a
  <1>4. ExchangeInv'
    BY <1>1, <1>2 DEF StateInv, ExchangeInv
  <1>5. LastStatus(o)' = OpenStatus(o)
    BY <1>1 DEF LastStatus, OpenStatus
  <1>6. TradedQuantity(a.data[1]) = exchange[o].cum
    BY <1>2, <1>3, StateFacts DEF TradedQuantity
  <1> DEFINE messages == <<a>>
  <1>7. /\ messages \in Seq(Reports) /\ Len(messages) = 1 /\ messages[1] = a
        /\ \A i \in 1 .. 1 : i = 1
        /\ 1 \in 1 .. 1 /\ \A j \in 1 + 1 .. 1 : FALSE
    BY <1>3
  <1>8. Emit(messages)
    BY <1>1
  <1> HIDE DEF messages
  <1>9. \A i \in 1 .. Len(messages) : /\ messages[i].data[1].order \in {o}
                                      /\ messages[i].data[1].exec_type # "trade"
    BY <1>3, <1>7
  <1>10. \A p \in {o} : \E i \in 1 .. Len(messages) :
            /\ messages[i].data[1].order = p
            /\ OrderStatus(messages[i].data[1].order_status) = OrderStatus(LastStatus(p)')
            /\ TradedQuantity(messages[i].data[1]) = exchange'[p].cum
            /\ \A j \in i + 1 .. Len(messages) : messages[j].data[1].order # p
    BY <1>1, <1>3, <1>5, <1>6, <1>7
  <1>11. Reported(messages, {o})
    BY <1>1, <1>7, <1>8, <1>9, <1>10 DEF Reported
  <1>12. Quiet(messages)
    BY <1>1, <1>9 DEF Quiet
  <1> QED
    BY <1>1, <1>4, <1>11, <1>12, QuietStep

LEMMA CancelStep ==
  ASSUME IInv, StreamInv, NEW orders \in SUBSET Order, Cancel(orders),
         \A o \in orders : exchange[o].status = "open", UNCHANGED <<view, subscribed>>
  PROVE  Step
  <1> DEFINE T == {Canceled(o) : o \in orders}
             messages == SetToSeq(T)
  <1>1. StateInv
    BY DEF StreamInv
  <1>2. /\ Emit(messages)
        /\ \A o \in Order : exchange'[o] = IF o \in orders
                                           THEN [exchange[o] EXCEPT !.status = "canceled"]
                                           ELSE exchange[o]
        /\ exchange' = [o \in Order |-> exchange'[o]]
    BY DEF Cancel
  <1>3. \A o \in orders : exchange'[o] = [status |-> "canceled", cum |-> exchange[o].cum]
    BY <1>1, <1>2, StateFacts
  <1>4. \A o \in orders :
           /\ Canceled(o) \in Reports /\ Canceled(o).data[1].order = o
           /\ Canceled(o).data[1].exec_type = "canceled"
           /\ Canceled(o).data[1].order_status = "canceled"
           /\ Canceled(o).data[1].cum_qty = exchange[o].cum
    <2> SUFFICES ASSUME NEW o \in orders
                 PROVE  /\ Canceled(o) \in Reports /\ Canceled(o).data[1].order = o
                        /\ Canceled(o).data[1].exec_type = "canceled"
                        /\ Canceled(o).data[1].order_status = "canceled"
                        /\ Canceled(o).data[1].cum_qty = exchange[o].cum
      OBVIOUS
    <2>1. /\ o \in Order /\ exchange[o].cum \in 0 .. Quantity + 1 /\ NaN \in {1, NaN}
          /\ "canceled" \in OrderStatuses
      BY <1>1, StateFacts DEF OrderStatuses
    <2> QED
      BY <2>1, UpdateReport DEF Canceled
  <1>5. IsFiniteSet(T)
    BY CanceledReports
  <1>6. /\ messages \in Seq(T)
        /\ \A x \in T : \E i \in 1 .. Len(messages) : messages[i] = x
        /\ \A i, j \in 1 .. Len(messages) : messages[i] = messages[j] => i = j
    <2> HIDE DEF T
    <2> QED
      BY <1>5, SetToSeqRange
  <1>7. T \subseteq Reports
    BY <1>4
  <1> HIDE DEF messages
  <1>8. messages \in Seq(Reports) /\ Len(messages) \in Nat
    <2> HIDE DEF T
    <2> QED
      BY <1>6, <1>7
  <1>9. \A i \in 1 .. Len(messages) : \E o \in orders : messages[i] = Canceled(o)
    <2>1. \A i \in 1 .. Len(messages) : messages[i] \in T
      <3> HIDE DEF T
      <3> QED
        BY <1>6
    <2> QED
      BY <2>1
  <1>10. \A i \in 1 .. Len(messages) : /\ messages[i].data[1].order \in orders
                                       /\ messages[i].data[1].exec_type # "trade"
    BY <1>4, <1>9
  <1>11. ASSUME NEW o \in orders
         PROVE  \E i \in 1 .. Len(messages) :
                  /\ messages[i].data[1].order = o
                  /\ OrderStatus(messages[i].data[1].order_status) = OrderStatus(LastStatus(o)')
                  /\ TradedQuantity(messages[i].data[1]) = exchange'[o].cum
                  /\ \A j \in i + 1 .. Len(messages) : messages[j].data[1].order # o
    <2>1. PICK i \in 1 .. Len(messages) : messages[i] = Canceled(o)
      BY <1>6
    <2>2. /\ o \in Order /\ exchange'[o].status = "canceled"
          /\ exchange'[o].cum = exchange[o].cum /\ exchange[o].cum # NaN
      <3>1. o \in Order
        OBVIOUS
      <3>2. exchange[o].cum # NaN
        BY <1>1, <3>1, StateFacts
      <3>3. exchange'[o] = [status |-> "canceled", cum |-> exchange[o].cum]
        BY <1>3
      <3> QED
        BY <3>1, <3>2, <3>3
    <2>3. /\ LastStatus(o)' = "canceled"
          /\ TradedQuantity(Canceled(o).data[1]) = exchange'[o].cum
      BY <1>4, <2>2 DEF LastStatus, TradedQuantity
    <2>4. ASSUME NEW j \in i + 1 .. Len(messages), messages[j].data[1].order = o
          PROVE  FALSE
      <3>1. j \in 1 .. Len(messages) /\ j # i
        BY <1>8
      <3>2. messages[j] = Canceled(o)
        BY <1>4, <1>9, <2>4, <3>1
      <3> QED
        BY <1>6, <2>1, <3>1, <3>2
    <2> QED
      <3>1. Canceled(o).data[1].order = o /\ Canceled(o).data[1].order_status = "canceled"
        BY <1>4
      <3> QED
        BY <2>1, <2>3, <2>4, <3>1
  <1>12. ExchangeInv'
    BY <1>1, <1>2, <1>3, StateFacts DEF ExchangeInv
  <1>13. Reported(messages, orders)
    BY <1>2, <1>8, <1>10, <1>11 DEF Reported
  <1>14. Quiet(messages)
    BY <1>2, <1>3, <1>10 DEF Quiet
  <1> QED
    BY <1>12, <1>13, <1>14, QuietStep

(* A trade. *)
LEMMA TradeStep ==
  ASSUME IInv, StreamInv, NEW o \in Order, Trade(o)
  PROVE  Step
  <1> DEFINE cum == exchange[o].cum + 1
             a == Update(o, "trade", "partially_filled", cum, 1)
             b == Update(o, "filled", "filled", cum, NaN)
             messages == IF cum < Quantity THEN <<a>> ELSE <<a, b>>
             after == IF cum < Quantity THEN [status |-> "open", cum |-> cum]
                      ELSE [status |-> "filled", cum |-> cum]
  <1>1. StateInv
    BY DEF StreamInv
  <1>2. /\ exchange[o].cum \in Nat /\ exchange[o].cum < Quantity /\ Quantity \in Nat
        /\ exchange[o].status = "open" /\ NaN = Quantity + 1 /\ o \in Order
    BY <1>1, StateFacts DEF Trade
  <1>3. cum \in 1 .. Quantity /\ cum \in 0 .. Quantity + 1 /\ cum # NaN
    BY <1>2
  <1>4. /\ Emit(messages) /\ UNCHANGED <<view, subscribed>>
        /\ exchange'[o] = after
        /\ \A p \in Order \ {o} : exchange'[p] = exchange[p]
        /\ exchange' \in [Order -> [status : {"none", "open", "filled", "canceled"},
                                    cum : 0 .. Quantity]]
    <2>1. exchange \in [Order -> [status : {"none", "open", "filled", "canceled"},
                                  cum : 0 .. Quantity]]
      BY <1>1 DEF StateInv, ExchangeInv
    <2>2. UNCHANGED <<view, subscribed>>
      BY DEF Trade, gateway
    <2>3. CASE cum < Quantity
      <3>1. Emit(messages) /\ exchange' = [exchange EXCEPT ![o].cum = cum]
        BY <2>3 DEF Trade
      <3> HIDE DEF messages
      <3> QED
        BY <1>2, <1>3, <2>1, <2>2, <2>3, <3>1
    <2>4. CASE ~ cum < Quantity
      <3>1. Emit(messages) /\ exchange' = [exchange EXCEPT ![o] = after]
        BY <2>4 DEF Trade
      <3> HIDE DEF messages
      <3> QED
        BY <1>2, <1>3, <2>1, <2>2, <2>4, <3>1
    <2> QED
      BY <2>3, <2>4
  <1>5. /\ a \in Reports /\ a.data[1].order = o /\ a.data[1].exec_type = "trade"
        /\ a.data[1].order_status = "partially_filled" /\ a.data[1].cum_qty = cum
    <2>1. "partially_filled" \in OrderStatuses
      BY DEF OrderStatuses
    <2> HIDE DEF cum
    <2> QED
      BY <1>3, <2>1, UpdateReport
  <1>6. /\ b \in Reports /\ b.data[1].order = o /\ b.data[1].exec_type = "filled"
        /\ b.data[1].order_status = "filled" /\ b.data[1].cum_qty = cum
    <2>1. "filled" \in OrderStatuses
      BY DEF OrderStatuses
    <2> HIDE DEF cum
    <2> QED
      BY <1>3, <2>1, UpdateReport
  <1> HIDE DEF a, b
  <1>7. IsTrade(a, o) /\ ~IsTrade(b, o) /\ \A p : p # o => ~IsTrade(a, p) /\ ~IsTrade(b, p)
    BY <1>5, <1>6, ReportFacts
  <1>8. ExchangeInv'
    <2>1. ASSUME NEW p \in Order
          PROVE  /\ exchange'[p].status = "none" => exchange'[p].cum = 0
                 /\ exchange'[p].status = "open" => exchange'[p].cum < Quantity
      <3>1. CASE p = o
        BY <1>4, <3>1
      <3>2. CASE p # o
        BY <1>1, <1>4, <3>2 DEF StateInv, ExchangeInv
      <3> QED
        BY <3>1, <3>2
    <2> QED
      BY <1>4, <2>1 DEF ExchangeInv
  <1>9. /\ LastStatus(o)' = IF cum < Quantity THEN "partially_filled" ELSE "filled"
        /\ exchange'[o].cum = cum
    BY <1>3, <1>4 DEF LastStatus, OpenStatus
  <1>10. TradedQuantity(a.data[1]) = cum /\ TradedQuantity(b.data[1]) = cum
    BY <1>3, <1>5, <1>6 DEF TradedQuantity
  <1>11. /\ messages \in Seq(Reports)
         /\ \A i \in 1 .. Len(messages) : messages[i] = a \/ messages[i] = b
         /\ 1 \in 1 .. Len(messages) /\ messages[1] = a
         /\ \A i \in 1 .. Len(messages) : i # 1 => messages[i] = b
         /\ Len(messages) \in Nat /\ Len(messages) \in 1 .. Len(messages)
         /\ messages[Len(messages)] = IF cum < Quantity THEN a ELSE b
    <2>1. CASE cum < Quantity
      BY <1>5, <2>1
    <2>2. CASE ~ cum < Quantity
      BY <1>5, <1>6, <2>2
    <2> QED
      BY <2>1, <2>2
  <1> HIDE DEF messages, after, cum
  <1>12. Reported(messages, {o})
    <2>1. \A i \in 1 .. Len(messages) : messages[i].data[1].order \in {o}
      BY <1>5, <1>6, <1>11
    <2>2. /\ messages[Len(messages)].data[1].order = o
          /\ OrderStatus(messages[Len(messages)].data[1].order_status)
               = OrderStatus(LastStatus(o)')
          /\ TradedQuantity(messages[Len(messages)].data[1]) = exchange'[o].cum
      BY <1>5, <1>6, <1>9, <1>10, <1>11
    <2>3. \A j \in Len(messages) + 1 .. Len(messages) : FALSE
      BY <1>11
    <2> QED
      BY <1>4, <1>11, <2>1, <2>2, <2>3 DEF Reported
  <1>13. StateInv' /\ ExecutionsInv' /\ ViewInv'
    BY <1>4, <1>8, <1>12, EmitView DEF StreamInv
  <1>14. \A p \in Order \ {o} :
            /\ LostTrades(p)' = LostTrades(p) /\ unseen'.trades[p] = unseen.trades[p]
            /\ exchange'[p].cum = exchange[p].cum
    <2> SUFFICES ASSUME NEW p \in Order, p # o
                 PROVE  /\ LostTrades(p)' = LostTrades(p)
                        /\ unseen'.trades[p] = unseen.trades[p]
                        /\ exchange'[p].cum = exchange[p].cum
      OBVIOUS
    <2>1. \A i \in 1 .. Len(messages) : ~IsTrade(messages[i], p)
      BY <1>7, <1>11
    <2>2. LostTrades(p)' = LostTrades(p) /\ unseen'.trades[p] = unseen.trades[p]
      BY <1>1, <1>4, <1>11, <2>1, EmitTrades
    <2> QED
      BY <1>4, <2>2
  <1>15. /\ IF subscribed
            THEN LostTrades(o)' = LostTrades(o) + 1 /\ UNCHANGED unseen
            ELSE /\ LostTrades(o)' = LostTrades(o)
                 /\ unseen'.trades[o] = unseen.trades[o] + 1
         /\ LostTrades(o) \in Nat
    <2>1. /\ IsTrade(messages[1], o)
          /\ \A j \in 1 .. Len(messages) : IsTrade(messages[j], o) => j = 1
      BY <1>7, <1>11
    <2> QED
      BY <1>1, <1>4, <1>11, <2>1, EmitTrades
  <1>16. exchange'[o].cum = exchange[o].cum + 1 /\ view' = view
    BY <1>4, <1>9 DEF cum
  <1>17. view[o].fills \in Nat /\ unseen.trades[o] \in Nat
    BY <1>1, StateFacts
  <1>18. EveryTradeOnce'
    <2>1. ASSUME NEW p \in Own
          PROVE  view'[p].fills + LostTrades(p)' + unseen'.trades[p] = exchange'[p].cum
      <3>1. view[p].fills + LostTrades(p) + unseen.trades[p] = exchange[p].cum
        BY DEF StreamInv, EveryTradeOnce
      <3>2. CASE p = o
        BY <1>15, <1>16, <1>17, <3>1, <3>2
      <3>3. CASE p # o
        BY <1>14, <1>16, <3>1, <3>3 DEF Order
      <3> QED
        BY <3>2, <3>3
    <2>2. \A p \in Foreign : view'[p].fills = 0
      BY <1>16 DEF StreamInv, EveryTradeOnce
    <2> QED
      BY <2>1, <2>2 DEF EveryTradeOnce
  <1>19. [TL!Next]_(TL!vars)
    <2>1. CASE o \in Own
      <3> DEFINE trades == [p \in Own |-> exchange[p].cum]
                 lost == [p \in Own |-> unseen.trades[p]]
      <3>1. [p \in Own |-> exchange'[p].cum] = [trades EXCEPT ![o] = @ + 1]
        BY <1>14, <1>16, <2>1 DEF Order
      <3>2. \/ [p \in Own |-> unseen'.trades[p]] = lost
            \/ [p \in Own |-> unseen'.trades[p]] = [lost EXCEPT ![o] = @ + 1]
        <4>1. CASE subscribed
          BY <1>15, <4>1
        <4>2. CASE ~subscribed
          BY <1>14, <1>15, <2>1, <4>2 DEF Order
        <4> QED
          BY <4>1, <4>2
      <3>3. [p \in Own |-> view'[p].fills] = [p \in Own |-> view[p].fills]
        BY <1>16
      <3>4. TL!Trade(o)
        BY <3>1, <3>2, <3>3 DEF TL!Trade
      <3> QED
        BY <2>1, <3>4 DEF TL!Next
    <2>2. CASE o \notin Own
      <3>1. \A p \in Own : /\ exchange'[p].cum = exchange[p].cum
                           /\ view'[p].fills = view[p].fills
                           /\ unseen'.trades[p] = unseen.trades[p]
        BY <1>14, <1>16, <2>2 DEF Order
      <3> QED
        BY <3>1, SameLog
    <2> QED
      BY <2>1, <2>2
  <1> QED
    BY <1>13, <1>18, <1>19 DEF Step, StreamInv

----------------------------------------------------------------------------
(* Nothing happens that the executions depend on. *)
LEMMA IdleStep ==
  ASSUME StreamInv, UNCHANGED <<view, downstream, subscribed, exchange, unseen, untold>>
  PROVE  Step
  <1>1. /\ \A o : LostTrades(o)' = LostTrades(o)
        /\ \A o : LastStatus(o)' = LastStatus(o)
        /\ \A o : Told(o)' = Told(o)
    BY DEF LostTrades, LastStatus, OpenStatus, Told
  <1>2. StateInv' /\ ExchangeInv'
    BY DEF StreamInv, StateInv, ExchangeInv, UntoldInv
  <1>3. ExecutionsInv'
    BY DEF StreamInv, ExecutionsInv, IsExecutions, Reports, Snapshots, Items
  <1>4. ViewInv'
    BY <1>1 DEF StreamInv, ViewInv
  <1>5. EveryTradeOnce'
    BY <1>1 DEF StreamInv, EveryTradeOnce
  <1>6. [TL!Next]_(TL!vars)
    BY SameLog
  <1> QED
    BY <1>2, <1>3, <1>4, <1>5, <1>6 DEF Step, StreamInv

LEMMA ExecutionsNext ==
  ASSUME \A i \in 1 .. Len(downstream') : IsExecutions(downstream'[i]) =>
            subscribed' /\ downstream'[i] \in Reports \cup Snapshots
  PROVE  ExecutionsInv'
  BY DEF ExecutionsInv, IsExecutions, Reports, Snapshots, Items

LEMMA LostTradesNext ==
  ASSUME NEW S, downstream' \in Seq(S), NEW o
  PROVE  LostTrades(o)' = Cardinality(Trades(downstream', o))
  <1>1. DOMAIN downstream' = 1 .. Len(downstream')
    OBVIOUS
  <1> QED
    BY <1>1 DEF LostTrades, Trades, IsTrade

(* A message is put behind the others that is no report of a trade. *)
LEMMA AppendTrades ==
  ASSUME NEW S, downstream \in Seq(S), NEW x, downstream' = Append(downstream, x),
         NEW o, ~IsTrade(x, o)
  PROVE  LostTrades(o)' = LostTrades(o)
  <1> DEFINE q == <<x>>
  <1>1. /\ downstream \in Seq(S \cup {x}) /\ q \in Seq(S \cup {x})
        /\ Len(q) = 1 /\ q[1] = x /\ downstream' = downstream \o q
    OBVIOUS
  <1> HIDE DEF q
  <1>2. downstream' \in Seq(S \cup {x})
    BY <1>1
  <1>3. \A i \in 1 .. Len(q) : ~IsTrade(q[i], o)
    BY <1>1
  <1>4. Cardinality(Trades(q, o)) = 0
    BY <1>3, TradesFew
  <1>5. Cardinality(Trades(downstream \o q, o)) =
           Cardinality(Trades(downstream, o)) + Cardinality(Trades(q, o))
    BY <1>1, TradesConcat
  <1>6. LostTrades(o) = Cardinality(Trades(downstream, o)) /\ LostTrades(o) \in Nat
    BY LostTradesCount
  <1>7. LostTrades(o)' = Cardinality(Trades(downstream', o))
    BY <1>2, LostTradesNext
  <1> QED
    BY <1>1, <1>4, <1>5, <1>6, <1>7

(* What follows from a queue follows when a message is put behind it that  *)
(* does not name the order, and when one is that says so.                  *)
LEMMA FollowsAppend ==
  ASSUME NEW S, NEW p \in Seq(S), NEW x, NEW o, NEW told, NEW s, NEW c,
         \/ ~Names(x, o) /\ Follows(p, o, told, s, c)
         \/ Names(x, o) /\ Tells(x, o, s, c)
  PROVE  Follows(Append(p, x), o, told, s, c)
  <1> DEFINE q == <<x>>
  <1>1. /\ p \in Seq(S \cup {x}) /\ q \in Seq(S \cup {x})
        /\ Len(q) = 1 /\ q[1] = x /\ Append(p, x) = p \o q
        /\ \A i \in 1 .. 1 : i = 1
        /\ 1 \in 1 .. 1 /\ \A j \in 1 + 1 .. 1 : FALSE
    OBVIOUS
  <1> HIDE DEF q
  <1>2. CASE ~Names(x, o) /\ Follows(p, o, told, s, c)
    <2>1. \A i \in 1 .. Len(q) : ~Names(q[i], o)
      BY <1>1, <1>2
    <2>2. Follows(p \o q, o, told, s, c)
      BY <1>1, <1>2, <2>1, FollowsConcat
    <2> QED
      BY <1>1, <2>2
  <1>3. CASE Names(x, o) /\ Tells(x, o, s, c)
    <2>1. \E i \in 1 .. Len(q) : /\ Names(q[i], o) /\ Tells(q[i], o, s, c)
                                 /\ \A j \in i + 1 .. Len(q) : ~Names(q[j], o)
      BY <1>1, <1>3
    <2>2. Follows(p \o q, o, told, s, c)
      BY <1>1, <2>1, FollowsConcat
    <2> QED
      BY <1>1, <2>2
  <1> QED
    BY <1>2, <1>3

(* An answer that is no report. *)
LEMMA AnswerStep ==
  ASSUME IInv, StreamInv, NEW x, ~IsExecutions(x), downstream' = Append(downstream, x),
         UNCHANGED <<view, subscribed, exchange, unseen, untold>>
  PROVE  Step
  <1>1. PICK S : downstream \in Seq(S)
    BY DEF IInv
  <1>2. \A o : ~IsTrade(x, o) /\ ~Names(x, o)
    BY DEF IsTrade, Names
  <1>3. \A o : /\ LostTrades(o)' = LostTrades(o) /\ LastStatus(o)' = LastStatus(o)
               /\ Told(o)' = Told(o)
    <2>1. \A o : LostTrades(o)' = LostTrades(o)
      BY <1>1, <1>2, AppendTrades
    <2> QED
      BY <2>1 DEF LastStatus, OpenStatus, Told
  <1>4. StateInv'
    BY DEF StreamInv, StateInv, ExchangeInv, UntoldInv
  <1>5. ExecutionsInv'
    <2>1. \A i \in 1 .. Len(downstream') :
             \/ i \in 1 .. Len(downstream) /\ downstream'[i] = downstream[i]
             \/ downstream'[i] = x
      BY <1>1
    <2>2. \A i \in 1 .. Len(downstream') : IsExecutions(downstream'[i]) =>
             subscribed' /\ downstream'[i] \in Reports \cup Snapshots
      BY <2>1 DEF StreamInv, ExecutionsInv
    <2> QED
      BY <2>2, ExecutionsNext
  <1>6. ViewInv'
    <2> SUFFICES ASSUME NEW o \in Order, exchange'[o].status # "none", o \notin unseen'.stale
                 PROVE  Follows(downstream', o, view'[o], OrderStatus(LastStatus(o)'),
                                Told(o)')
      BY DEF ViewInv
    <2> DEFINE s == OrderStatus(LastStatus(o))
               c == Told(o)
    <2>1. Follows(downstream, o, view[o], s, c)
      BY DEF StreamInv, ViewInv
    <2> HIDE DEF s, c
    <2>2. Follows(Append(downstream, x), o, view[o], s, c)
      BY <1>1, <1>2, <2>1, FollowsAppend
    <2> QED
      BY <1>3, <2>2 DEF s, c
  <1>7. EveryTradeOnce'
    BY <1>3 DEF StreamInv, EveryTradeOnce
  <1>8. [TL!Next]_(TL!vars)
    BY SameLog
  <1> QED
    BY <1>4, <1>5, <1>6, <1>7, <1>8 DEF Step, StreamInv

(* The first subscription of a connection clears the open orders. *)
LEMMA SubscribeStep ==
  ASSUME IInv, StreamInv, TakeSubscribe, UNCHANGED view
  PROVE  Step
  <1>1. CASE subscribed
    <2>1. UNCHANGED <<view, downstream, subscribed, exchange, unseen, untold>>
      BY <1>1 DEF TakeSubscribe, StreamInv, StateInv
    <2> QED
      BY <2>1, IdleStep
  <1>2. CASE ~subscribed
    <2> DEFINE open == {o \in Order : exchange[o].status = "open"}
    <2>1. /\ downstream' = Append(downstream, Snapshot(untold')) /\ subscribed' = TRUE
          /\ unseen' = [unseen EXCEPT !.stale = @ \ open]
          /\ \A o \in untold' : o \in Order /\ exchange[o].status = "open"
          /\ UNCHANGED <<view, exchange>>
      BY <1>2 DEF TakeSubscribe
    <2>2. PICK S : downstream \in Seq(S)
      BY DEF IInv
    <2>3. \A o : Told(o)' = IF o \in untold' THEN 0 ELSE exchange[o].cum
      BY <2>1 DEF Told
    <2> DEFINE x == Snapshot(untold')
    <2>4. /\ x \in Snapshots
          /\ \A o \in Order : Names(x, o) <=> exchange[o].status = "open"
          /\ \A o \in Order : Tells(x, o, OrderStatus(LastStatus(o)),
                                   IF o \in untold' THEN 0 ELSE exchange[o].cum)
          /\ \A o : ~IsTrade(x, o)
      BY SnapshotRows DEF StreamInv, StateInv
    <2> HIDE DEF x
    <2>5. downstream' = Append(downstream, x)
      BY <2>1 DEF x
    <2>6. /\ x \in Snapshots
          /\ \A o \in Order : Names(x, o) <=> exchange[o].status = "open"
          /\ \A o \in Order : Tells(x, o, OrderStatus(LastStatus(o)), Told(o)')
          /\ \A o : ~IsTrade(x, o)
      BY <2>4, <2>3
    <2>7. \A o : LostTrades(o)' = LostTrades(o) /\ LastStatus(o)' = LastStatus(o)
      <3>1. \A o : LostTrades(o)' = LostTrades(o)
        BY <2>2, <2>5, <2>6, AppendTrades
      <3> QED
        BY <2>1, <3>1 DEF LastStatus, OpenStatus
    <2>8. /\ unseen' \in [stale : SUBSET Order, trades : [Order -> Nat]]
          /\ unseen'.trades = unseen.trades
          /\ unseen'.stale = unseen.stale \ open
      BY <2>1 DEF StreamInv, StateInv
    <2>9. StateInv'
      BY <2>1, <2>8 DEF StreamInv, StateInv, ExchangeInv, UntoldInv
    <2>10. ExecutionsInv'
      <3>1. \A i \in 1 .. Len(downstream') :
               \/ i \in 1 .. Len(downstream) /\ downstream'[i] = downstream[i]
               \/ downstream'[i] = x
        BY <2>2, <2>5
      <3>2. \A i \in 1 .. Len(downstream') :
               IsExecutions(downstream'[i]) =>
                  subscribed' /\ downstream'[i] \in Reports \cup Snapshots
        BY <2>1, <2>6, <3>1 DEF StreamInv, ExecutionsInv
      <3> QED
        BY <3>2, ExecutionsNext
    <2>11. ViewInv'
      <3> SUFFICES ASSUME NEW o \in Order, exchange'[o].status # "none",
                          o \notin unseen'.stale
                   PROVE  Follows(downstream', o, view'[o], OrderStatus(LastStatus(o)'),
                                  Told(o)')
        BY DEF ViewInv
      <3> DEFINE s == OrderStatus(LastStatus(o))
                 c == Told(o)'
      <3>1. \/ ~Names(x, o) /\ Follows(downstream, o, view[o], s, c)
            \/ Names(x, o) /\ Tells(x, o, s, c)
        <4>1. CASE exchange[o].status = "open"
          BY <2>6, <4>1
        <4>2. CASE exchange[o].status # "open"
          <5>1. o \notin unseen.stale /\ exchange[o].status # "none"
            BY <2>1, <2>8, <4>2
          <5>2. o \notin untold /\ o \notin untold'
            BY <2>1, <4>2 DEF StreamInv, StateInv, UntoldInv
          <5>3. Told(o)' = Told(o)
            BY <2>3, <5>2 DEF Told
          <5> QED
            BY <2>6, <4>2, <5>1, <5>3 DEF StreamInv, ViewInv
        <4> QED
          BY <4>1, <4>2
      <3> HIDE DEF s, c
      <3>2. Follows(Append(downstream, x), o, view[o], s, c)
        BY <2>2, <3>1, FollowsAppend
      <3> QED
        BY <2>1, <2>5, <2>7, <3>2 DEF s, c
    <2>12. EveryTradeOnce'
      BY <2>1, <2>7, <2>8 DEF StreamInv, EveryTradeOnce
    <2>13. [TL!Next]_(TL!vars)
      BY <2>1, <2>8, SameLog
    <2> QED
      BY <2>9, <2>10, <2>11, <2>12, <2>13 DEF Step, StreamInv
  <1> QED
    BY <1>1, <1>2 DEF StreamInv, StateInv

(* The trades in a queue that is read. *)
LEMMA TradesTail ==
  ASSUME NEW S, NEW q \in Seq(S), q # <<>>, NEW o
  PROVE  /\ Cardinality(Trades(q, o)) =
               Cardinality(Trades(Tail(q), o)) + (IF IsTrade(Head(q), o) THEN 1 ELSE 0)
         /\ Cardinality(Trades(Tail(q), o)) \in Nat
  <1> DEFINE h == <<Head(q)>>
             r == Tail(q)
  <1>1. /\ h \in Seq(S) /\ r \in Seq(S) /\ q = h \o r /\ Len(h) = 1 /\ h[1] = Head(q)
        /\ Len(r) \in Nat /\ \A i \in 1 .. 1 : i = 1 /\ 1 \in 1 .. 1
    OBVIOUS
  <1> HIDE DEF h, r
  <1>2. Cardinality(Trades(h \o r, o)) = Cardinality(Trades(h, o)) + Cardinality(Trades(r, o))
    BY <1>1, TradesConcat
  <1>3. Cardinality(Trades(r, o)) \in Nat
    <2>1. IsFiniteSet(1 .. Len(r))
      BY <1>1, FS_Interval
    <2> QED
      BY <2>1, FS_Subset, FS_CardinalityType DEF Trades
  <1>4. Cardinality(Trades(q, o)) = Cardinality(Trades(h, o)) + Cardinality(Trades(r, o))
    BY <1>1, <1>2
  <1>5. Cardinality(Trades(h, o)) = IF IsTrade(Head(q), o) THEN 1 ELSE 0
    <2>1. CASE IsTrade(Head(q), o)
      <3>1. /\ 1 \in 1 .. Len(h) /\ IsTrade(h[1], o)
            /\ \A j \in 1 .. Len(h) : IsTrade(h[j], o) => j = 1
        BY <1>1, <2>1
      <3>2. Cardinality(Trades(h, o)) = 1
        BY <3>1, TradesFew
      <3> QED
        BY <2>1, <3>2
    <2>2. CASE ~IsTrade(Head(q), o)
      <3>1. \A j \in 1 .. Len(h) : ~IsTrade(h[j], o)
        BY <1>1, <2>2
      <3>2. Cardinality(Trades(h, o)) = 0
        BY <3>1, TradesFew
      <3> QED
        BY <2>2, <3>2
    <2> QED
      BY <2>1, <2>2
  <1>6. Cardinality(Trades(q, o)) =
           Cardinality(Trades(r, o)) + (IF IsTrade(Head(q), o) THEN 1 ELSE 0)
    BY <1>3, <1>4, <1>5
  <1> QED
    BY <1>3, <1>6 DEF r

LEMMA ReceiveType ==
  ASSUME IInv, StreamInv, Receive
  PROVE  view' \in Views
  <1> DEFINE m == Head(downstream)
  <1>1. view \in Views
    BY DEF StreamInv, StateInv
  <1>2. CASE IsExecutions(m)
    <2>1. PICK S : downstream \in Seq(S)
      BY DEF IInv
    <2>2. 1 \in 1 .. Len(downstream) /\ m = downstream[1]
      BY <2>1 DEF Receive
    <2>3. m \in Reports \cup Snapshots
      BY <1>2, <2>2 DEF StreamInv, ExecutionsInv
    <2>4. OnExecutions(m)
      BY <1>2 DEF Receive, IsExecutions
    <2>5. m.data \in Seq(Items)
      BY <2>3 DEF Reports, Snapshots
    <2> HIDE DEF m
    <2>6. PICK acc \in [0 .. Len(m.data) -> Views] : view' = acc[Len(m.data)]
      BY <1>1, <2>4, <2>5, ExecutionsSteps
    <2>7. Len(m.data) \in 0 .. Len(m.data)
      BY <2>5
    <2> QED
      BY <2>6, <2>7
  <1>3. CASE ~IsExecutions(m)
    BY <1>1, <1>3 DEF Receive, OnFailed, Views
  <1> QED
    BY <1>2, <1>3

(* What a message received changes. *)
LEMMA ReceiveFacts ==
  ASSUME IInv, StreamInv, Receive, NEW o \in Order, NEW s, NEW c
  PROVE  LET m == Head(downstream)
         IN /\ view' \in Views
            /\ view'[o].fills = view[o].fills + (IF IsTrade(m, o) /\ o \in Own THEN 1 ELSE 0)
            /\ ~Names(m, o) => view'[o] = view[o]
            /\ Names(m, o) /\ Tells(m, o, s, c) =>
                  view'[o].order_status = s /\ view'[o].traded_quantity = c
  <1> DEFINE m == Head(downstream)
  <1>1. view \in Views /\ view[o].fills \in Nat
    BY DEF StreamInv, StateInv, Views
  <1>2. CASE IsExecutions(m)
    <2>1. PICK S : downstream \in Seq(S)
      BY DEF IInv
    <2>2. 1 \in 1 .. Len(downstream) /\ m = downstream[1]
      BY <2>1 DEF Receive
    <2>3. m \in Reports \cup Snapshots
      BY <1>2, <2>2 DEF StreamInv, ExecutionsInv
    <2>4. OnExecutions(m)
      BY <1>2 DEF Receive, IsExecutions
    <2> HIDE DEF m
    <2>5. /\ view' \in Views
          /\ view'[o].fills = view[o].fills + (IF IsTrade(m, o) /\ o \in Own THEN 1 ELSE 0)
          /\ ~Names(m, o) => view'[o] = view[o]
          /\ Names(m, o) /\ Tells(m, o, s, c) =>
                view'[o].order_status = s /\ view'[o].traded_quantity = c
      BY <1>1, <2>3, <2>4, MessageDispatched
    <2> QED
      BY <2>5 DEF m
  <1>3. CASE ~IsExecutions(m)
    <2>1. view' = view
      BY <1>3 DEF Receive, OnFailed
    <2>2. ~IsTrade(m, o) /\ ~Names(m, o)
      BY <1>3 DEF IsTrade, Names
    <2> HIDE DEF m
    <2>3. /\ view' \in Views
          /\ view'[o].fills = view[o].fills + (IF IsTrade(m, o) /\ o \in Own THEN 1 ELSE 0)
          /\ ~Names(m, o) => view'[o] = view[o]
          /\ ~Names(m, o)
      BY <1>1, <2>1, <2>2
    <2> QED
      BY <2>3 DEF m
  <1> QED
    BY <1>2, <1>3

LEMMA ReceiveStep ==
  ASSUME IInv, StreamInv, Receive
  PROVE  Step
  <1> DEFINE m == Head(downstream)
  <1>1. PICK S : downstream \in Seq(S)
    BY DEF IInv
  <1>2. /\ downstream # <<>> /\ downstream' = Tail(downstream)
        /\ UNCHANGED <<subscribed, exchange, unseen, untold>>
    BY DEF Receive
  <1>3. \A o \in Order : \A s, c :
           /\ view' \in Views
           /\ view'[o].fills = view[o].fills + (IF IsTrade(m, o) /\ o \in Own THEN 1 ELSE 0)
           /\ ~Names(m, o) => view'[o] = view[o]
           /\ Names(m, o) /\ Tells(m, o, s, c) =>
                 view'[o].order_status = s /\ view'[o].traded_quantity = c
    BY ReceiveFacts
  <1> HIDE DEF m
  <1>4. \A o : /\ LostTrades(o) = LostTrades(o)' + (IF IsTrade(m, o) THEN 1 ELSE 0)
               /\ LostTrades(o)' \in Nat
    <2> SUFFICES ASSUME NEW o
                 PROVE  /\ LostTrades(o) = LostTrades(o)' + (IF IsTrade(m, o) THEN 1 ELSE 0)
                        /\ LostTrades(o)' \in Nat
      OBVIOUS
    <2>1. /\ Cardinality(Trades(downstream, o)) =
                Cardinality(Trades(Tail(downstream), o)) + (IF IsTrade(m, o) THEN 1 ELSE 0)
          /\ Cardinality(Trades(Tail(downstream), o)) \in Nat
      BY <1>1, <1>2, TradesTail DEF m
    <2>2. LostTrades(o) = Cardinality(Trades(downstream, o))
      BY <1>1, LostTradesCount
    <2>3. downstream' \in Seq(S)
      BY <1>1, <1>2
    <2>4. LostTrades(o)' = Cardinality(Trades(downstream', o))
      BY <2>3, LostTradesNext
    <2> QED
      BY <1>2, <2>1, <2>2, <2>4
  <1>5. \A o : LastStatus(o)' = LastStatus(o) /\ Told(o)' = Told(o)
    BY <1>2 DEF LastStatus, OpenStatus, Told
  <1>6. view' \in Views
    BY ReceiveType
  <1>7. StateInv'
    BY <1>2, <1>6 DEF StreamInv, StateInv, ExchangeInv, UntoldInv, Views
  <1>8. ExecutionsInv'
    <2>1. ASSUME NEW i \in 1 .. Len(downstream'), IsExecutions(downstream'[i])
          PROVE  subscribed' /\ downstream'[i] \in Reports \cup Snapshots
      <3>1. i + 1 \in 1 .. Len(downstream) /\ downstream'[i] = downstream[i + 1]
        BY <1>1, <1>2
      <3> QED
        BY <1>2, <2>1, <3>1 DEF StreamInv, ExecutionsInv
    <2> QED
      BY <2>1, ExecutionsNext
  <1>9. ViewInv'
    <2> SUFFICES ASSUME NEW o \in Order, exchange'[o].status # "none", o \notin unseen'.stale
                 PROVE  Follows(downstream', o, view'[o], OrderStatus(LastStatus(o)'),
                                Told(o)')
      BY DEF ViewInv
    <2> DEFINE s == OrderStatus(LastStatus(o))
               c == Told(o)
               told == view[o]
               after == view'[o]
    <2>1. Follows(downstream, o, told, s, c)
      BY <1>2 DEF StreamInv, ViewInv
    <2> HIDE DEF s, c, told, after
    <2>2. /\ ~Names(m, o) => after = told
          /\ Names(m, o) /\ Tells(m, o, s, c) =>
                after.order_status = s /\ after.traded_quantity = c
      BY <1>3 DEF told, after
    <2>3. Follows(Tail(downstream), o, after, s, c)
      BY <1>1, <1>2, <2>1, <2>2, FollowsTail DEF m
    <2> QED
      BY <1>2, <1>5, <2>3 DEF s, c, after
  <1>10. \A o \in Order : view[o].fills \in Nat /\ unseen.trades[o] \in Nat
    BY StateFacts DEF StreamInv
  <1>11. /\ Own \subseteq Order /\ Foreign \subseteq Order /\ \A o \in Foreign : o \notin Own
    BY OwnAssumption DEF Order
  <1>12. EveryTradeOnce'
    <2>1. ASSUME NEW o \in Own
          PROVE  view'[o].fills + LostTrades(o)' + unseen'.trades[o] = exchange'[o].cum
      <3>1. view[o].fills + LostTrades(o) + unseen.trades[o] = exchange[o].cum
        BY DEF StreamInv, EveryTradeOnce
      <3>2. /\ view'[o].fills = view[o].fills + (IF IsTrade(m, o) THEN 1 ELSE 0)
            /\ view[o].fills \in Nat /\ unseen.trades[o] \in Nat
        BY <1>3, <1>10, <1>11
      <3>3. /\ LostTrades(o) = LostTrades(o)' + (IF IsTrade(m, o) THEN 1 ELSE 0)
            /\ LostTrades(o)' \in Nat
        BY <1>4
      <3>4. unseen'.trades[o] = unseen.trades[o] /\ exchange'[o].cum = exchange[o].cum
        BY <1>2
      <3>5. CASE IsTrade(m, o)
        BY <3>1, <3>2, <3>3, <3>4, <3>5
      <3>6. CASE ~IsTrade(m, o)
        BY <3>1, <3>2, <3>3, <3>4, <3>6
      <3> QED
        BY <3>5, <3>6
    <2>2. ASSUME NEW o \in Foreign PROVE view'[o].fills = 0
      <3>1. view[o].fills = 0
        BY DEF StreamInv, EveryTradeOnce
      <3> QED
        BY <1>3, <1>11, <3>1
    <2> QED
      BY <2>1, <2>2 DEF EveryTradeOnce
  <1>13. [TL!Next]_(TL!vars)
    <2>1. CASE \A o \in Own : ~IsTrade(m, o)
      <3>1. \A o \in Own : view'[o].fills = view[o].fills
        BY <1>3, <1>10, <1>11, <2>1
      <3> QED
        BY <1>2, <3>1, SameLog
    <2>2. ASSUME NEW o \in Own, IsTrade(m, o)
          PROVE  [TL!Next]_(TL!vars)
      <3>1. \A p \in Own \ {o} : ~IsTrade(m, p)
        BY <2>2 DEF IsTrade
      <3>2. /\ view'[o].fills = view[o].fills + 1
            /\ \A p \in Own \ {o} : view'[p].fills = view[p].fills
        BY <1>3, <1>10, <1>11, <2>2, <3>1
      <3>3. [p \in Own |-> view'[p].fills]
              = [[p \in Own |-> view[p].fills] EXCEPT ![o] = @ + 1]
        BY <3>2
      <3>4. exchange[o].cum - view[o].fills - unseen.trades[o] > 0
        <4>1. view[o].fills + LostTrades(o) + unseen.trades[o] = exchange[o].cum
          BY DEF StreamInv, EveryTradeOnce
        <4>2. /\ view[o].fills \in Nat /\ unseen.trades[o] \in Nat
              /\ LostTrades(o)' \in Nat /\ LostTrades(o) = LostTrades(o)' + 1
          BY <1>4, <1>10, <1>11, <2>2
        <4> QED
          BY <4>1, <4>2
      <3>5. TL!Fill(o)
        BY <1>2, <3>3, <3>4 DEF TL!Fill, TL!Pending
      <3> QED
        BY <3>5 DEF TL!Next
    <2> QED
      BY <2>1, <2>2
  <1> QED
    BY <1>7, <1>8, <1>9, <1>12, <1>13 DEF Step, StreamInv

(* What is lost with the connection will not be made up for. *)
LEMMA DisconnectedStep ==
  ASSUME IInv, StreamInv, Disconnected
  PROVE  Step
  <1>1. PICK S : downstream \in Seq(S)
    BY DEF IInv
  <1>2. /\ downstream' = <<>> /\ subscribed' = FALSE
        /\ unseen'.stale = unseen.stale \cup LostOrders
        /\ unseen'.trades = [o \in Order |-> unseen.trades[o] + LostTrades(o)]
        /\ unseen' = [stale |-> unseen'.stale, trades |-> unseen'.trades]
        /\ UNCHANGED <<view, exchange, untold>>
    BY DEF Disconnected
  <1>3. \A o \in Order :
           /\ LostTrades(o) \in Nat /\ LostTrades(o)' = 0
           /\ view[o].fills \in Nat /\ unseen.trades[o] \in Nat /\ exchange[o].cum \in Nat
    <2>1. \A o : LostTrades(o) \in Nat
      BY <1>1, LostTradesCount
    <2>2. \A o : LostTrades(o)' = 0
      <3> SUFFICES ASSUME NEW o PROVE LostTrades(o)' = 0
        OBVIOUS
      <3>1. downstream' \in Seq({}) /\ \A i \in 1 .. Len(downstream') : FALSE
        BY <1>2
      <3>2. LostTrades(o)' = Cardinality(Trades(downstream', o))
        BY <3>1, LostTradesNext
      <3>3. Cardinality(Trades(downstream', o)) = 0
        BY <3>1, TradesFew
      <3> QED
        BY <3>2, <3>3
    <2> QED
      BY <2>1, <2>2, StateFacts DEF StreamInv
  <1>4. ASSUME NEW i \in 1 .. Len(downstream), IsExecutions(downstream[i])
        PROVE  /\ downstream[i].data \in Seq(Items)
               /\ \A k \in 1 .. Len(downstream[i].data) :
                    downstream[i].data[k].order \in Order
    <2>1. downstream[i] \in Reports \cup Snapshots
      BY <1>4 DEF StreamInv, ExecutionsInv
    <2>2. downstream[i].data \in Seq(Items)
      BY <2>1 DEF Reports, Snapshots
    <2> DEFINE data == downstream[i].data
    <2> HIDE DEF data
    <2>3. data \in Seq(Items)
      BY <2>2 DEF data
    <2>4. \A k \in 1 .. Len(data) : data[k] \in Items
      BY <2>3
    <2> QED
      BY <2>2, <2>4 DEF Items, data
  <1>5. \A x : x \in LostOrders <=>
           \E i \in 1 .. Len(downstream) :
              /\ IsExecutions(downstream[i])
              /\ \E k \in 1 .. Len(downstream[i].data) : x = downstream[i].data[k].order
    <2>1. \A d : d \in ToSet(downstream) <=> \E i \in 1 .. Len(downstream) : d = downstream[i]
      BY <1>1 DEF ToSet
    <2>2. ASSUME NEW i \in 1 .. Len(downstream), IsExecutions(downstream[i]), NEW x
          PROVE  x \in {item.order : item \in ToSet(downstream[i].data)} <=>
                   \E k \in 1 .. Len(downstream[i].data) : x = downstream[i].data[k].order
      <3>1. DOMAIN downstream[i].data = 1 .. Len(downstream[i].data)
        BY <1>4, <2>2
      <3> QED
        BY <3>1 DEF ToSet
    <2>3. \A x : x \in LostOrders <=>
             \E d \in ToSet(downstream) :
                IsExecutions(d) /\ x \in {item.order : item \in ToSet(d.data)}
      BY DEF LostOrders
    <2>4. ASSUME NEW x \in LostOrders
          PROVE  \E i \in 1 .. Len(downstream) :
                    /\ IsExecutions(downstream[i])
                    /\ \E k \in 1 .. Len(downstream[i].data) : x = downstream[i].data[k].order
      <3>1. PICK d \in ToSet(downstream) :
               IsExecutions(d) /\ x \in {item.order : item \in ToSet(d.data)}
        BY <2>3
      <3>2. PICK i \in 1 .. Len(downstream) : d = downstream[i]
        BY <2>1, <3>1
      <3>3. IsExecutions(downstream[i])
        BY <3>1, <3>2
      <3>4. x \in {item.order : item \in ToSet(downstream[i].data)}
        BY <3>1, <3>2
      <3>5. \E k \in 1 .. Len(downstream[i].data) : x = downstream[i].data[k].order
        BY <2>2, <3>3, <3>4
      <3> QED
        BY <3>3, <3>5
    <2>5. ASSUME NEW x, NEW i \in 1 .. Len(downstream), IsExecutions(downstream[i]),
                 \E k \in 1 .. Len(downstream[i].data) : x = downstream[i].data[k].order
          PROVE  x \in LostOrders
      BY <2>1, <2>2, <2>3, <2>5
    <2> QED
      BY <2>4, <2>5
  <1>6. StateInv'
    <2>1. LostOrders \in SUBSET Order
      BY <1>4, <1>5
    <2>2. unseen'.stale \in SUBSET Order
      BY <1>2, <2>1 DEF StreamInv, StateInv
    <2>3. unseen'.trades \in [Order -> Nat]
      BY <1>2, <1>3
    <2>4. unseen' \in [stale : SUBSET Order, trades : [Order -> Nat]]
      BY <1>2, <2>2, <2>3
    <2> QED
      BY <1>2, <2>4 DEF StreamInv, StateInv, ExchangeInv, UntoldInv
  <1>7. ExecutionsInv'
    <2>1. \A i \in 1 .. Len(downstream') : FALSE
      BY <1>2
    <2> QED
      BY <2>1, ExecutionsNext
  <1>8. ViewInv'
    <2> SUFFICES ASSUME NEW o \in Order, exchange'[o].status # "none", o \notin unseen'.stale
                 PROVE  Follows(downstream', o, view'[o], OrderStatus(LastStatus(o)'),
                                Told(o)')
      BY DEF ViewInv
    <2> DEFINE s == OrderStatus(LastStatus(o))
               c == Told(o)
    <2>1. o \notin LostOrders /\ o \notin unseen.stale
      BY <1>2
    <2>2. Follows(downstream, o, view[o], s, c)
      BY <1>2, <2>1 DEF StreamInv, ViewInv
    <2>3. \A i \in 1 .. Len(downstream) : ~Names(downstream[i], o)
      BY <1>5, <2>1 DEF Names
    <2>4. LastStatus(o)' = LastStatus(o) /\ Told(o)' = Told(o)
      BY <1>2 DEF LastStatus, OpenStatus, Told
    <2> HIDE DEF s, c
    <2>5. view[o].order_status = s /\ view[o].traded_quantity = c
      BY <2>2, <2>3 DEF Follows
    <2>6. \A i \in 1 .. Len(downstream') : ~Names(downstream'[i], o)
      BY <1>2
    <2>7. Follows(downstream', o, view[o], s, c)
      BY <2>5, <2>6 DEF Follows
    <2> QED
      BY <1>2, <2>4, <2>7 DEF s, c
  <1>9. \A o \in Own :
           /\ o \in Order
           /\ view[o].fills + LostTrades(o) + unseen.trades[o] = exchange[o].cum
    BY DEF Order, StreamInv, EveryTradeOnce
  <1>10. EveryTradeOnce'
    <2>1. \A o \in Own :
             view'[o].fills + LostTrades(o)' + unseen'.trades[o] = exchange'[o].cum
      BY <1>2, <1>3, <1>9
    <2>2. \A o \in Foreign : view'[o].fills = 0
      BY <1>2 DEF StreamInv, EveryTradeOnce
    <2> QED
      BY <2>1, <2>2 DEF EveryTradeOnce
  <1>11. [TL!Next]_(TL!vars)
    <2>1. \A o \in Own : unseen'.trades[o] = unseen.trades[o]
                           + (exchange[o].cum - view[o].fills - unseen.trades[o])
      BY <1>2, <1>3, <1>9
    <2>2. TL!Lose
      BY <1>2, <2>1 DEF TL!Lose, TL!Pending
    <2> QED
      BY <2>2 DEF TL!Next
  <1> QED
    BY <1>6, <1>7, <1>8, <1>10, <1>11 DEF Step, StreamInv

(* The exchange takes a request. *)
LEMMA TakeStep ==
  ASSUME IInv, StreamInv, Take
  PROVE  Step
  <1> DEFINE m == Head(upstream)
  <1>1. m \in Requests
    BY DEF Take, IInv
  <1>2. UNCHANGED view
    BY DEF Take, gateway
  <1>3. m.method \notin {"subscribe", "cancel_all"} => m.order \in Order /\ m.method \in Method
    BY <1>1 DEF Requests, Request, Order
  <1>4. CASE m.method = "subscribe" /\ TakeSubscribe
    BY <1>2, <1>4, SubscribeStep
  <1>5. CASE m.method = "add_order" /\ TakeAdd(m.order)
    <2>1. m.order \in Order
      BY <1>3, <1>5
    <2> QED
      BY <1>2, <1>5, <2>1, AddStep
  <1>6. CASE m.method = "amend_order" /\ TakeAmend(m.order)
    <2>1. m.order \in Order
      BY <1>3, <1>6
    <2> QED
      BY <1>2, <1>6, <2>1, AmendStep
  <1>7. CASE m.method = "cancel_order" /\ TakeCancel(m.order)
    <2> DEFINE orders == {m.order}
    <2>1. m.order \in Order
      BY <1>3, <1>7
    <2>2. /\ orders \in SUBSET Order /\ Cancel(orders) /\ UNCHANGED <<view, subscribed>>
          /\ \A o \in orders : exchange[o].status = "open"
      BY <1>2, <1>7, <2>1 DEF TakeCancel
    <2> HIDE DEF orders
    <2> QED
      BY <2>2, CancelStep
  <1>8. CASE m.method = "cancel_all" /\ TakeCancelAll
    <2> DEFINE orders == {o \in Order : exchange[o].status = "open"}
    <2>1. /\ orders \in SUBSET Order /\ Cancel(orders) /\ UNCHANGED <<view, subscribed>>
          /\ \A o \in orders : exchange[o].status = "open"
      BY <1>2, <1>8 DEF TakeCancelAll
    <2> HIDE DEF orders
    <2> QED
      BY <2>1, CancelStep
  <1>9. CASE m.method \notin {"subscribe", "cancel_all"} /\ Refuse(m.method, m.order)
    <2>1. /\ \E x \in {Failed(m.method, m.order), [channel |-> "error"]} :
                downstream' = Append(downstream, x)
          /\ UNCHANGED <<view, subscribed, exchange, unseen, untold>>
      BY <1>2, <1>9 DEF Refuse
    <2>2. m.method # "executions"
      BY <1>3, <1>9 DEF Method
    <2>3. \A x \in {Failed(m.method, m.order), [channel |-> "error"]} : ~IsExecutions(x)
      BY <2>2 DEF Failed, IsExecutions
    <2> QED
      BY <2>1, <2>3, AnswerStep
  <1> QED
    BY <1>4, <1>5, <1>6, <1>7, <1>8, <1>9 DEF Take

LEMMA NextStep ==
  ASSUME IInv, StreamInv, [Next]_vars
  PROVE  Step
  <1>1. ASSUME \/ SocketReady
               \/ Status
               \/ \E o \in Own : CreateOrder(o) \/ ModifyOrder(o) \/ CancelOrder(o)
               \/ CancelAllOrders
               \/ UNCHANGED vars
        PROVE  Step
    <2>1. UNCHANGED <<view, downstream, subscribed, exchange, unseen, untold>>
      BY <1>1 DEF SocketReady, Status, CreateOrder, ModifyOrder, CancelOrder, Send,
                  CancelAllOrders, vars
    <2> QED
      BY <2>1, IdleStep
  <1>2. ASSUME NEW o \in Foreign, AddForeign(o)
        PROVE  Step
    <2>1. o \in Order /\ TakeAdd(o) /\ UNCHANGED view
      BY <1>2 DEF AddForeign, gateway, Order
    <2> QED
      BY <2>1, AddStep
  <1> QED
    BY <1>1, <1>2, DisconnectedStep, ReceiveStep, TakeStep, TradeStep DEF Next

LEMMA InitStream ==
  ASSUME Init
  PROVE  StreamInv /\ TL!Init
  <1>1. ExchangeInv
    BY NumberAssumption DEF Init, ExchangeInv
  <1>2. StateInv
    BY <1>1 DEF Init, StateInv, UntoldInv, Views
  <1>3. downstream \in Seq({}) /\ \A i \in 1 .. Len(downstream) : FALSE
    BY DEF Init
  <1>4. ExecutionsInv
    BY <1>3 DEF ExecutionsInv
  <1>5. ViewInv
    BY DEF Init, ViewInv
  <1>6. \A o : LostTrades(o) = 0
    BY <1>3, LostTradesCount, TradesFew
  <1>7. EveryTradeOnce
    BY <1>6 DEF Init, EveryTradeOnce, Order
  <1>8. TL!Init
    BY DEF Init, TL!Init, Order
  <1> QED
    BY <1>2, <1>4, <1>5, <1>7, <1>8 DEF StreamInv

(* What is told about the orders, what is on its way and what the exchange *)
(* knows fit together, whatever is lost.                                   *)
THEOREM StreamInductive == Spec => []StreamInv
  <1>1. Init => StreamInv
    BY InitStream
  <1>2. IInv /\ StreamInv /\ [Next]_vars => StreamInv'
    BY NextStep DEF Step
  <1> QED
    BY <1>1, <1>2, Inductive, PTL DEF Spec

(* A trade of an own order is dispatched as one fill, is in flight, or is  *)
(* lost with a connection; an order placed elsewhere has no fills.         *)
THEOREM TradesCounted == Spec => []EveryTradeOnce
  <1>1. StreamInv => EveryTradeOnce
    BY DEF StreamInv
  <1> QED
    BY <1>1, StreamInductive, PTL

(* When all is read, an order is as it was last dispatched, unless its     *)
(* last change was lost and it is not open any more.                       *)
THEOREM ViewCorrect == Spec => []ViewFollowsExchange
  <1>1. StreamInv => ViewFollowsExchange
    <2> SUFFICES ASSUME StreamInv, downstream = <<>>, NEW o \in Order,
                        exchange[o].status # "none", o \notin unseen.stale
                 PROVE  /\ view[o].order_status = OrderStatus(LastStatus(o))
                        /\ view[o].traded_quantity = Told(o)
      BY DEF ViewFollowsExchange
    <2> DEFINE s == OrderStatus(LastStatus(o))
               c == Told(o)
    <2>1. Follows(downstream, o, view[o], s, c)
      BY DEF StreamInv, ViewInv
    <2>2. \A i \in 1 .. Len(downstream) : FALSE
      OBVIOUS
    <2> HIDE DEF s, c
    <2>3. view[o].order_status = s /\ view[o].traded_quantity = c
      BY <2>1, <2>2 DEF Follows
    <2> QED
      BY <2>3 DEF s, c
  <1> QED
    BY <1>1, StreamInductive, PTL

(* The fills that are dispatched are a log of the trades: each step of the *)
(* stream or of the exchange is a trade, a fill or a loss of that log, or  *)
(* none of it.                                                             *)
THEOREM Implementation == Spec => ImplementsTradeLog
  <1>1. Init => TL!Init
    BY InitStream
  <1>2. IInv /\ StreamInv /\ [Next]_vars => [TL!Next]_(TL!vars)
    BY NextStep DEF Step
  <1>3. Spec => TL!Init /\ [][TL!Next]_(TL!vars)
    BY <1>1, <1>2, Inductive, StreamInductive, PTL DEF Spec
  <1> QED
    BY <1>3 DEF ImplementsTradeLog, TL!Spec

====
