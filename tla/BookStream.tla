---- MODULE BookStream ----
(***************************************************************************)
(* The order book of one symbol on a public stream: what the exchange      *)
(* streams of it, what gateway::MarketData makes of that, and the book     *)
(* that results from the settings gateway::Config gives the server.        *)
(*                                                                         *)
(* The exchange streams the best levels only, as many as were subscribed   *)
(* to.  A level that a better one pushes out of these is not removed from  *)
(* the stream; the receiver has to drop it.  A new connection starts with  *)
(* a snapshot.                                                             *)
(*                                                                         *)
(* A depth of 0 is left out (NumberAssumption): no depth is sent then, and *)
(* what the exchange streams and how the server's book reads a maximum of  *)
(* 0 are not in the repository.  The flag has the default 10.              *)
(*                                                                         *)
(* The exchange, and the server's book that applies the updates, are       *)
(* modelled from how the gateway uses them and from test/json_book.cpp.    *)
(***************************************************************************)
EXTENDS Naturals, Sequences, FiniteSets, SequencesExt

CONSTANTS
    BidPrice,       \* the prices there are bids at
    AskPrice,       \* the prices there are asks at
    MaxQuantity,    \* the quantities of a level are 1 .. MaxQuantity
    Depth,          \* public_subscribe_book_depth
    MaxInFlight,    \* bound: messages on their way
    MaxDisconnects, \* bound: connections lost
    MaxStatus       \* bound: status messages per connection

ASSUME NumberAssumption ==
    /\ BidPrice \subseteq Nat /\ IsFiniteSet(BidPrice)
    /\ AskPrice \subseteq Nat /\ IsFiniteSet(AskPrice)
    /\ MaxQuantity \in Nat \ {0}
    /\ Depth \in Nat \ {0}
    /\ MaxInFlight \in Nat /\ MaxDisconnects \in Nat /\ MaxStatus \in Nat

Side == {"bids", "asks"}
Price == [bids |-> BidPrice, asks |-> AskPrice]

(* A level without a quantity is not in the book. *)
Empty == [side \in Side |-> [p \in Price[side] |-> 0]]

VARIABLES
    connection_status,  \* MarketData::connection_status_
    statuses,           \* status messages on this connection
    disconnects,        \* counter_.disconnect
    upstream,           \* subscriptions on their way
    downstream,         \* messages of the book channel on their way
    subscribed,         \* the exchange streams to this connection
    exchange,           \* the book at the exchange
    book,               \* the book at the server
    missed,             \* the last snapshot was empty and the book was not
    unknown             \* since the last snapshot, a level was removed that the
                        \* book did not have

vars == <<connection_status, statuses, disconnects, upstream, downstream,
          subscribed, exchange, book, missed, unknown>>

----------------------------------------------------------------------------
(* Books *)

Better(side, p, q) == IF side = "bids" THEN p > q ELSE p < q

(* The best levels of a book, up to a depth. *)
Best(b, depth) ==
    [side \in Side |-> [p \in Price[side] |->
       IF Cardinality({q \in Price[side] : b[side][q] > 0 /\ Better(side, q, p)}) < depth
       THEN b[side][p]
       ELSE 0]]

Level(p, quantity) == [price |-> p, quantity |-> quantity]

Message(type, bids, asks) == [type |-> type, bids |-> bids, asks |-> asks]

Levels(b, side) ==
    SetToSeq({Level(p, b[side][p]) : p \in {q \in Price[side] : b[side][q] > 0}})

(* What the exchange streams when a book becomes another one: the best     *)
(* levels that are new or have another quantity, and those that are gone.  *)
Changes(old, new, side) ==
    LET before == Best(old, Depth)[side]
        after == Best(new, Depth)[side]
    IN SetToSeq(
         {Level(p, after[p]) : p \in {q \in Price[side] : after[q] > 0 /\ after[q] # before[q]}}
         \cup {Level(p, 0) : p \in {q \in Price[side] : before[q] > 0 /\ new[side][q] = 0}})

----------------------------------------------------------------------------
Init ==
    /\ connection_status = "DISCONNECTED"
    /\ statuses = 0
    /\ disconnects = 0
    /\ upstream = 0
    /\ downstream = <<>>
    /\ subscribed = FALSE
    /\ exchange = Empty
    /\ book = Empty
    /\ missed = FALSE
    /\ unknown = FALSE

(* The websocket is up: wait for the status message. *)
SocketReady ==
    /\ connection_status = "DISCONNECTED"
    /\ connection_status' = "DOWNLOADING"
    /\ statuses' = 0
    /\ UNCHANGED <<disconnects, upstream, downstream, subscribed, exchange, book,
                   missed, unknown>>

(* Ask for a snapshot and the changes, with the depth of the settings,     *)
(* which is not 0.                                                         *)
Subscribe == upstream' = upstream + 1

(* A status message: ready, and subscribe, whether or not this connection  *)
(* has done so before.                                                     *)
Status ==
    /\ connection_status # "DISCONNECTED"
    /\ statuses < MaxStatus
    /\ statuses' = statuses + 1
    /\ connection_status' = "READY"
    /\ Subscribe
    /\ UNCHANGED <<disconnects, downstream, subscribed, exchange, book, missed,
                   unknown>>

(* The connection is lost; the book stays. *)
Disconnected ==
    /\ connection_status # "DISCONNECTED"
    /\ disconnects < MaxDisconnects
    /\ disconnects' = disconnects + 1
    /\ connection_status' = "DISCONNECTED"
    /\ upstream' = 0
    /\ downstream' = <<>>
    /\ subscribed' = FALSE
    /\ UNCHANGED <<statuses, exchange, book, missed, unknown>>

----------------------------------------------------------------------------
(* The exchange *)

(* The first subscription of a connection is answered with a snapshot and  *)
(* the changes from there on; another one is refused.                      *)
TakeSubscribe ==
    /\ upstream > 0
    /\ upstream' = upstream - 1
    /\ subscribed' = TRUE
    /\ LET best == Best(exchange, Depth)
       IN downstream' = IF subscribed THEN downstream
                        ELSE Append(downstream, Message("snapshot", Levels(best, "bids"),
                                                                    Levels(best, "asks")))
    /\ UNCHANGED <<connection_status, statuses, disconnects, exchange, book, missed,
                   unknown>>

(* A level changes, once or twice: a message may have a level twice. *)
Change(side, p, quantities) ==
    LET step(b, quantity) == [b EXCEPT ![side][p] = quantity]
        between == step(exchange, quantities[1])
        changes(s) == Changes(exchange, between, s)
                      \o IF Len(quantities) = 2
                         THEN Changes(between, step(between, quantities[2]), s)
                         ELSE <<>>
        m == Message("update", changes("bids"), changes("asks"))
    IN /\ exchange' = step(exchange, Last(quantities))
       /\ IF subscribed /\ m.bids \o m.asks # <<>>
          THEN /\ Len(downstream) < MaxInFlight
               /\ downstream' = Append(downstream, m)
          ELSE UNCHANGED downstream
       /\ UNCHANGED <<connection_status, statuses, disconnects, upstream, subscribed,
                      book, missed, unknown>>

----------------------------------------------------------------------------
(* The gateway *)

(* protocol::json::Type => roq::UpdateType *)
UpdateType(type) ==
    CASE type = "snapshot" -> "SNAPSHOT"
      [] type = "update" -> "INCREMENTAL"

(* Faulty variants: levels the exchange no longer reports on are kept; one *)
(* level less than subscribed to.                                          *)
mbp_max_depthNone == Cardinality(BidPrice \cup AskPrice)
mbp_max_depthLess == Depth - 1

(* The depth of the server's book is the depth of the subscription. *)
mbp_max_depth == Depth

(* The server's book: of two updates of a level the last wins. *)
Apply(levels, b) ==
    FoldLeft(LAMBDA l, u : [l EXCEPT ![u.price] = u.quantity], b, levels)

Removed(levels, b) ==
    \E i \in DOMAIN levels :
        /\ levels[i].quantity = 0
        /\ Apply(SubSeq(levels, 1, i - 1), b)[levels[i].price] = 0

(* A MarketByPriceUpdate, unless neither side has an update. *)
Receive ==
    /\ downstream # <<>>
    /\ downstream' = Tail(downstream)
    /\ LET m == Head(downstream)
           from == IF UpdateType(m.type) = "SNAPSHOT" THEN Empty ELSE book
       IN IF m.bids = <<>> /\ m.asks = <<>>
          THEN /\ missed' = (book # Empty)
               /\ unknown' = FALSE
               /\ UNCHANGED book
          ELSE /\ book' = Best([side \in Side |-> Apply(m[side], from[side])],
                               mbp_max_depth)
               /\ missed' = (missed /\ m.type = "update")
               /\ unknown' = \/ unknown /\ m.type = "update"
                             \/ \E side \in Side : Removed(m[side], from[side])
    /\ UNCHANGED <<connection_status, statuses, disconnects, upstream, subscribed,
                   exchange>>

----------------------------------------------------------------------------
Next ==
    \/ SocketReady
    \/ Status
    \/ Disconnected
    \/ TakeSubscribe
    \/ Receive
    \/ \E side \in Side : \E p \in Price[side],
          quantities \in UNION {[1 .. n -> 0 .. MaxQuantity] : n \in 1 .. 2} :
            Change(side, p, quantities)

Spec == Init /\ [][Next]_vars

----------------------------------------------------------------------------
(* Properties *)

(* Whenever everything streamed to a subscribed connection is processed,   *)
(* the book is the best part of the exchange's, whatever an earlier        *)
(* connection left: unless the snapshot was empty.  Then nothing is        *)
(* dispatched, and the book of the earlier connection stays under the      *)
(* updates that follow.                                                    *)
BookFollowsExchange ==
    subscribed /\ downstream = <<>> /\ ~missed => book = Best(exchange, Depth)

(* No level is removed that the book does not have, which the gateway      *)
(* settings do not allow (mbp_allow_remove_non_existing), as long as no    *)
(* empty snapshot was missed.                                              *)
RemovesKnownLevels == unknown => missed

====
