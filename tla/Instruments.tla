---- MODULE Instruments ----
(***************************************************************************)
(* What clients are told of the pairs of the exchange: the instrument      *)
(* channel of the first public stream (gateway::MarketData, Instrument),   *)
(* with the trading status, and the subscriptions that follow from it.     *)
(*                                                                         *)
(* A new connection gets a snapshot of the pairs that are listed and then  *)
(* the changes.  What happens between two connections is not streamed.     *)
(* A client may name a symbol before the exchange does, or one that the    *)
(* exchange does not have.  All symbols are in the slice of this stream    *)
(* (MarketData has the slices).  The exchange is modelled from             *)
(* test/json_instrument.cpp and from how the stream uses it.               *)
(***************************************************************************)
EXTENDS Naturals, Sequences, FiniteSets

CONSTANTS
    Symbol,         \* the pairs the exchange may list
    Discarded,      \* those the dispatcher discards (discard_symbol)
    PairsStatus,    \* the states a pair may be in
    MaxInFlight,    \* bound: messages on their way
    MaxDisconnects, \* bound: connections lost
    MaxStatus       \* bound: status messages per connection

(* protocol::json::PairsStatus *)
AllPairsStatus ==
    {"cancel_only", "delisted", "limit_only", "maintenance", "online",
     "post_only", "reduce_only", "work_in_progress"}

ASSUME SymbolAssumption == Discarded \subseteq Symbol
ASSUME StatusAssumption == PairsStatus \subseteq AllPairsStatus
ASSUME BoundsAssumption ==
    MaxInFlight \in Nat /\ MaxDisconnects \in Nat /\ MaxStatus \in Nat

VARIABLES
    connection_status,  \* MarketData::connection_status_
    disconnects,        \* counter_.disconnect
    statuses,           \* status messages on this connection
    upstream,           \* subscriptions on their way
    downstream,         \* instrument messages on their way: statuses by symbol
    streaming,          \* the exchange streams instruments to this connection
    subscribed,         \* the symbols it streams to this connection
    refused,            \* those it refused to this connection
    exchange,           \* the status of the pairs, "unlisted" of the others
    all_symbols,        \* Shared::all_symbols
    reference_data,     \* ReferenceData last dispatched: "keep" or "discard"
    market_status       \* MarketStatus last dispatched

vars == <<connection_status, disconnects, statuses, upstream, downstream,
          streaming, subscribed, refused, exchange, all_symbols, reference_data,
          market_status>>

Init ==
    /\ connection_status = "DISCONNECTED"
    /\ disconnects = 0
    /\ statuses = 0
    /\ upstream = <<>>
    /\ downstream = <<>>
    /\ streaming = FALSE
    /\ subscribed = {}
    /\ refused = {}
    /\ exchange \in [Symbol -> PairsStatus \cup {"unlisted"}]
    /\ all_symbols = {}
    /\ reference_data = [s \in Symbol |-> "none"]
    /\ market_status = [s \in Symbol |-> "UNDEFINED"]

----------------------------------------------------------------------------
(* The connection *)

Instruments == [channel |-> "instrument"]
MarketDataOf(symbols) == [channel |-> "market data", symbols |-> symbols]

(* Nothing is asked for when there are no symbols. *)
Ask(symbols) == IF symbols = {} THEN <<>> ELSE <<MarketDataOf(symbols)>>

SocketReady ==
    /\ connection_status = "DISCONNECTED"
    /\ connection_status' = "DOWNLOADING"
    /\ UNCHANGED <<disconnects, statuses, upstream, downstream, streaming,
                   subscribed, refused, exchange, all_symbols, reference_data,
                   market_status>>

(* A status message: ready, subscribe to the instruments and to every      *)
(* symbol known so far, whether or not this connection has done so before. *)
Status ==
    /\ connection_status # "DISCONNECTED"
    /\ statuses < MaxStatus
    /\ statuses' = statuses + 1
    /\ connection_status' = "READY"
    /\ upstream' = upstream \o <<Instruments>> \o Ask(all_symbols)
    /\ UNCHANGED <<disconnects, downstream, streaming, subscribed, refused,
                   exchange, all_symbols, reference_data, market_status>>

Disconnected ==
    /\ connection_status # "DISCONNECTED"
    /\ disconnects < MaxDisconnects
    /\ disconnects' = disconnects + 1
    /\ connection_status' = "DISCONNECTED"
    /\ statuses' = 0
    /\ upstream' = <<>>
    /\ downstream' = <<>>
    /\ streaming' = FALSE
    /\ subscribed' = {}
    /\ refused' = {}
    /\ UNCHANGED <<exchange, all_symbols, reference_data, market_status>>

----------------------------------------------------------------------------
(* The exchange *)

Listed == {s \in Symbol : exchange[s] # "unlisted"}

(* It streams the pairs to a connection that asked for them, refuses to    *)
(* do so twice, and streams every pair that is listed and not delisted.    *)
Take ==
    /\ upstream # <<>>
    /\ upstream' = Tail(upstream)
    /\ LET m == Head(upstream)
           accepted == {s \in Listed : exchange[s] # "delisted"}
       IN IF m = Instruments
          THEN /\ streaming' = TRUE
               /\ downstream' = IF streaming THEN downstream
                                ELSE Append(downstream, [s \in Listed |-> exchange[s]])
               /\ UNCHANGED <<subscribed, refused>>
          ELSE /\ subscribed' = subscribed \cup (m.symbols \cap accepted)
               /\ refused' = refused \cup (m.symbols \ accepted)
               /\ UNCHANGED <<streaming, downstream>>
    /\ UNCHANGED <<connection_status, disconnects, statuses, exchange,
                   all_symbols, reference_data, market_status>>

(* A pair changes its status; a delisted one may go without a word. *)
Change(s) ==
    /\ \E status \in (PairsStatus \cup {"unlisted"}) \ {exchange[s]} :
         /\ status = "unlisted" => exchange[s] = "delisted"
         /\ exchange' = [exchange EXCEPT ![s] = status]
         /\ IF streaming /\ status # "unlisted"
            THEN /\ Len(downstream) < MaxInFlight
                 /\ downstream' = Append(downstream, [t \in {s} |-> status])
            ELSE UNCHANGED downstream
    /\ UNCHANGED <<connection_status, disconnects, statuses, upstream, streaming,
                   subscribed, refused, all_symbols, reference_data, market_status>>

----------------------------------------------------------------------------
(* The gateway *)

(* Faulty variant: whatever takes orders is open. *)
TradingStatusOrders(status) ==
    CASE status \in {"online", "limit_only", "post_only", "reduce_only"} -> "OPEN"
      [] OTHER -> "CLOSE"

(* protocol::json::PairsStatus => roq::TradingStatus *)
TradingStatus(status) == IF status = "online" THEN "OPEN" ELSE "CLOSE"

Discard(s, status) == status = "delisted" \/ s \in Discarded

(* Faulty variant: a pair that is not online is not asked for. *)
NewSymbolsOnline(m) ==
    {s \in DOMAIN m : m[s] = "online" /\ s \notin all_symbols}

(* Controller, SymbolsUpdate: the symbols are added, and the stream asks   *)
(* for the new ones if it is ready.                                        *)
SymbolsUpdate(symbols, new) ==
    /\ all_symbols' = all_symbols \cup symbols
    /\ upstream' = IF connection_status = "READY" THEN upstream \o Ask(new)
                   ELSE upstream

(* A client subscribes to any symbols. *)
Subscribe(symbols) ==
    /\ SymbolsUpdate(symbols, symbols \ all_symbols)
    /\ UNCHANGED <<connection_status, disconnects, statuses, downstream, streaming,
                   subscribed, refused, exchange, reference_data, market_status>>

(* The pairs that were not known before. *)
NewSymbols(m) ==
    {s \in DOMAIN m : ~Discard(s, m[s]) /\ s \notin all_symbols}

(* An instrument message: the reference data of every pair, and the status *)
(* of those that are not discarded.  New symbols go to the Controller,     *)
(* which makes the stream ask for them.                                    *)
Receive ==
    /\ downstream # <<>>
    /\ downstream' = Tail(downstream)
    /\ LET m == Head(downstream)
           kept == {s \in DOMAIN m : ~Discard(s, m[s])}
       IN /\ reference_data' = [s \in Symbol |->
                                  IF s \in DOMAIN m
                                  THEN IF s \in kept THEN "keep" ELSE "discard"
                                  ELSE reference_data[s]]
          /\ market_status' = [s \in Symbol |->
                                  IF s \in kept THEN TradingStatus(m[s])
                                  ELSE market_status[s]]
          /\ SymbolsUpdate(kept, NewSymbols(m))
    /\ UNCHANGED <<connection_status, disconnects, statuses, streaming, subscribed,
                   refused, exchange>>

Next ==
    \/ SocketReady
    \/ Status
    \/ Disconnected
    \/ Take
    \/ \E s \in Symbol : Change(s)
    \/ \E symbols \in SUBSET Symbol : Subscribe(symbols)
    \/ Receive

Spec == Init /\ [][Next]_vars

----------------------------------------------------------------------------
(* Properties *)

CaughtUp == streaming /\ downstream = <<>>

(* Whenever everything streamed on a connection is processed, a pair is    *)
(* kept and open if and only if it is online at the exchange and not       *)
(* discarded by the configuration, whatever happened while there was no    *)
(* connection.  A delisted pair keeps its last market status: only its     *)
(* reference data says that it is gone.  A pair that was taken off the     *)
(* list is not reported at all.                                            *)
PairsFollowExchange ==
    CaughtUp =>
        \A s \in Listed \ Discarded :
            /\ (reference_data[s] = "keep" /\ market_status[s] = "OPEN")
                 <=> exchange[s] = "online"
            /\ reference_data[s] = "discard" <=> exchange[s] = "delisted"

(* A ready stream that has nothing in flight is subscribed to every pair   *)
(* that is listed and kept, unless the exchange refused it on this very    *)
(* connection: then it is not asked for again when it comes online, until  *)
(* the connection is lost.                                                 *)
SubscribedUnlessRefused ==
    CaughtUp /\ upstream = <<>> =>
        \A s \in Listed \ Discarded :
            exchange[s] # "delisted" => s \in subscribed \cup refused

====
