---- MODULE MarketData ----
(***************************************************************************)
(* The public streams: gateway::MarketData and the part of                 *)
(* gateway::Controller and gateway::Shared that distributes the symbols.   *)
(*                                                                         *)
(* Symbols become known when a client subscribes or when the exchange      *)
(* announces its instruments on the first stream.  They are kept in one    *)
(* list, in the order they became known.  Stream i serves the i-th slice   *)
(* of the list; when the list outgrows the streams the Controller creates  *)
(* more.  Each stream connects, and loses its connection, on its own: it   *)
(* asks for its whole slice when the exchange reports its status, and for  *)
(* what is new in its slice when the list grows while it is ready.         *)
(*                                                                         *)
(* core::Symbols and web::socket::Client are libraries, modelled from how  *)
(* the streams use them.                                                   *)
(***************************************************************************)
EXTENDS Naturals, SequencesExt

CONSTANTS
    Symbol,             \* the symbols clients and the exchange may name
    Discarded,          \* those the dispatcher discards (discard_symbol)
    MaxSubscriptions,   \* public_max_subscriptions_per_stream
    MaxDisconnects,     \* bound: connections lost per stream
    MaxStatus           \* bound: status messages per connection

ASSUME SymbolAssumption == IsFiniteSet(Symbol) /\ Discarded \subseteq Symbol
ASSUME MaxSubscriptionsAssumption == MaxSubscriptions \in Nat \ {0}
ASSUME BoundsAssumption == MaxDisconnects \in Nat /\ MaxStatus \in Nat

(* One symbol per stream is the most streams there can be. *)
Index == 0 .. Cardinality(Symbol)

(* What is reported of a stream. *)
ConnectionStatus == {"DISCONNECTED", "DOWNLOADING", "READY"}

VARIABLES
    all_symbols,        \* Shared::all_symbols, to tell new symbols from known
    symbols,            \* Shared::symbols, the list
    size,               \* size(Controller::market_data_); stream i exists if i < size
    connection_status,  \* MarketData::connection_status_ of every stream
    disconnects,        \* counter_.disconnect of every stream
    statuses,           \* status messages on the current connection (history)
    requests            \* how often the current connection of a stream was
                        \* asked for a symbol (history)

vars == <<all_symbols, symbols, size, connection_status, disconnects,
          statuses, requests>>

----------------------------------------------------------------------------
(* core::Symbols *)

(* The number of slices the list needs. *)
NumberOfSlices(list) ==
    (Len(list) + MaxSubscriptions - 1) \div MaxSubscriptions

(* get_slice(index, start_from): the symbols of the slice from a position  *)
(* of the list on, which counts from 0.                                    *)
Slice(list, i, start_from) ==
    {list[p] : p \in {q \in 1 .. Len(list) :
                        /\ q > start_from
                        /\ q > i * MaxSubscriptions
                        /\ q <= (i + 1) * MaxSubscriptions}}

----------------------------------------------------------------------------

Init ==
    /\ all_symbols = {}
    /\ symbols = <<>>
    /\ size = 1
    /\ connection_status = [i \in Index |-> "DISCONNECTED"]
    /\ disconnects = [i \in Index |-> 0]
    /\ statuses = [i \in Index |-> 0]
    /\ requests = [i \in Index |-> [s \in Symbol |-> 0]]

Ready(i) == connection_status[i] = "READY"

(* MarketData::subscribe(span): ask the connection for a set of symbols. *)
Ask(asked, set) == [s \in Symbol |-> asked[s] + IF s \in set THEN 1 ELSE 0]

(* Faulty variants: the position of the new symbols is taken after they    *)
(* were appended; the whole slice is asked for again; every stream asks    *)
(* for all new symbols; no stream is created.                              *)
SymbolsUpdateLate(new) ==
    LET list == symbols \o new IN
    /\ symbols' = list
    /\ size' = IF size < NumberOfSlices(list) THEN NumberOfSlices(list)
                                              ELSE size
    /\ requests' = [i \in Index |->
                      IF i < size' /\ Ready(i)
                      THEN Ask(requests[i], Slice(list, i, Len(list)))
                      ELSE requests[i]]

SymbolsUpdateFromStart(new) ==
    LET list == symbols \o new IN
    /\ symbols' = list
    /\ size' = IF size < NumberOfSlices(list) THEN NumberOfSlices(list)
                                              ELSE size
    /\ requests' = [i \in Index |->
                      IF i < size' /\ Ready(i)
                      THEN Ask(requests[i], Slice(list, i, 0))
                      ELSE requests[i]]

SymbolsUpdateToAll(new) ==
    LET list == symbols \o new IN
    /\ symbols' = list
    /\ size' = IF size < NumberOfSlices(list) THEN NumberOfSlices(list)
                                              ELSE size
    /\ requests' = [i \in Index |->
                      IF i < size' /\ Ready(i)
                      THEN Ask(requests[i], {new[p] : p \in 1 .. Len(new)})
                      ELSE requests[i]]

SymbolsUpdateSameSize(new) ==
    LET list == symbols \o new
        start_from == Len(symbols)
    IN  /\ symbols' = list
        /\ UNCHANGED size
        /\ requests' = [i \in Index |->
                          IF i < size /\ Ready(i)
                          THEN Ask(requests[i], Slice(list, i, start_from))
                          ELSE requests[i]]

(* Controller, SymbolsUpdate: the new symbols are appended, the missing    *)
(* streams are created (they connect later), and every stream that is      *)
(* ready asks for what is new in its slice.                                *)
SymbolsUpdate(new) ==
    LET list == symbols \o new
        start_from == Len(symbols)
    IN  /\ symbols' = list
        /\ size' = IF size < NumberOfSlices(list) THEN NumberOfSlices(list)
                                                  ELSE size
        /\ requests' = [i \in Index |->
                          IF i < size' /\ Ready(i)
                          THEN Ask(requests[i], Slice(list, i, start_from))
                          ELSE requests[i]]

(* The symbols of a set that are not known yet, in the order they come. *)
NewSymbols(set) == SetToSeqs(set \ all_symbols)

(* Controller, Event<Subscribe>: a client subscribes to a set of symbols,  *)
(* known or not; the update is sent even if none of them is new.           *)
Subscribe(set) ==
    /\ all_symbols' = all_symbols \cup set
    /\ \E new \in NewSymbols(set) : SymbolsUpdate(new)
    /\ UNCHANGED <<connection_status, disconnects, statuses>>

(* The pairs of an instrument message that the stream keeps. *)
Kept(pairs, delisted) == (pairs \ delisted) \ Discarded

(* MarketData, Instrument: the exchange announces pairs, some of them      *)
(* delisted, on the stream that subscribed to its instruments.             *)
Instrument(pairs, delisted) ==
    /\ Ready(0)
    /\ Kept(pairs, delisted) \ all_symbols # {}
    /\ all_symbols' = all_symbols \cup Kept(pairs, delisted)
    /\ \E new \in NewSymbols(Kept(pairs, delisted)) : SymbolsUpdate(new)
    /\ UNCHANGED <<connection_status, disconnects, statuses>>

(* MarketData, web::socket::Ready: the connection is up; wait for status. *)
SocketReady(i) ==
    /\ i < size
    /\ connection_status[i] = "DISCONNECTED"
    /\ connection_status' = [connection_status EXCEPT ![i] = "DOWNLOADING"]
    /\ UNCHANGED <<all_symbols, symbols, size, disconnects, statuses, requests>>

(* MarketData, Status: the exchange reports its status, when the stream    *)
(* has connected and again whenever it changes; the whole slice is asked   *)
(* for each time.                                                          *)
Status(i) ==
    /\ connection_status[i] # "DISCONNECTED"
    /\ statuses[i] < MaxStatus
    /\ connection_status' = [connection_status EXCEPT ![i] = "READY"]
    /\ statuses' = [statuses EXCEPT ![i] = @ + 1]
    /\ requests' = [requests EXCEPT ![i] = Ask(@, Slice(symbols, i, 0))]
    /\ UNCHANGED <<all_symbols, symbols, size, disconnects>>

(* MarketData, web::socket::Disconnected: with the connection go the       *)
(* subscriptions made over it.                                             *)
Disconnected(i) ==
    /\ connection_status[i] # "DISCONNECTED"
    /\ disconnects[i] < MaxDisconnects
    /\ connection_status' = [connection_status EXCEPT ![i] = "DISCONNECTED"]
    /\ disconnects' = [disconnects EXCEPT ![i] = @ + 1]
    /\ statuses' = [statuses EXCEPT ![i] = 0]
    /\ requests' = [requests EXCEPT ![i] = [s \in Symbol |-> 0]]
    /\ UNCHANGED <<all_symbols, symbols, size>>

----------------------------------------------------------------------------

Next ==
    \/ \E set \in SUBSET Symbol : Subscribe(set)
    \/ \E pairs \in SUBSET Symbol : \E delisted \in SUBSET pairs :
            Instrument(pairs, delisted)
    \/ \E i \in Index : SocketReady(i)
    \/ \E i \in Index : Status(i)
    \/ \E i \in Index : Disconnected(i)

Spec == Init /\ [][Next]_vars

(* The client always reconnects, and the exchange reports its status at    *)
(* least once on every connection.  Clients may never subscribe, pairs may *)
(* never be announced and connections need not be lost.                    *)
FairSpec ==
    /\ Spec
    /\ \A i \in Index : WF_vars(SocketReady(i)) /\ WF_vars(Status(i))

----------------------------------------------------------------------------
(* Properties *)

(* What the current connection of a stream is subscribed to. *)
Subscribed(i) == {s \in Symbol : requests[i][s] > 0}

Stream == {i \in Index : i < size}

(* The type of every variable. *)
TypeOK ==
    /\ all_symbols \subseteq Symbol
    /\ symbols \in Seq(Symbol)
    /\ size \in Nat \ {0}
    /\ connection_status \in [Index -> ConnectionStatus]
    /\ disconnects \in [Index -> Nat]
    /\ statuses \in [Index -> Nat]
    /\ requests \in [Index -> [Symbol -> Nat]]

(* A stream that is ready is subscribed to its slice of the list, all of   *)
(* it and nothing else, whether the symbols came before the connection,    *)
(* while it was being established, or since; another has no subscription.  *)
ReadyStreamsCovered ==
    \A i \in Index :
        Subscribed(i) = IF Ready(i) THEN Slice(symbols, i, 0) ELSE {}

(* There is a stream for every known symbol, exactly one: nothing that a   *)
(* client or the exchange named is left without a stream or served twice.  *)
OneStreamPerSymbol ==
    \A s \in all_symbols :
        \E i \in Stream :
            /\ s \in Slice(symbols, i, 0)
            /\ \A j \in Stream \ {i} : s \notin Subscribed(j)

(* No stream is subscribed to more symbols than the exchange allows. *)
StreamLimit == \A i \in Index : Cardinality(Subscribed(i)) <= MaxSubscriptions

(* A connection is asked for a symbol again only by another status message:*)
(* growing the list never repeats a subscription that was already made.    *)
AskedOncePerStatus ==
    \A i \in Index, s \in Symbol : requests[i][s] <= statuses[i]

(* All known symbols come to be subscribed to together, although streams   *)
(* are created for them, connect and lose their connections.               *)
EventuallySubscribed ==
    []<>(\A s \in all_symbols : \E i \in Index : s \in Subscribed(i))

====
