---- MODULE Feed ----
(***************************************************************************)
(* What gateway::MarketData makes of the trade and the book messages of a  *)
(* public stream.                                                          *)
(*                                                                         *)
(* A trade message is a list of trades of any of the stream's symbols,     *)
(* which goes out as one summary for every run of trades of one symbol; a  *)
(* book message is a list of books, each of which goes out as one update.  *)
(* Both handlers collect in buffers shared by all streams.  They are       *)
(* functions of the message, folds over its items as in the code; the      *)
(* behaviours of this module enumerate the messages.                       *)
(***************************************************************************)
EXTENDS Naturals, SequencesExt

CONSTANTS
    Symbol,     \* the symbols of the stream
    NoSymbol,   \* an empty string_view
    MaxTime,    \* bound: timestamps
    MaxTrades,  \* bound: trades in a message
    MaxBooks,   \* bound: books in a message
    MaxLevels   \* bound: levels on one side of a book

ASSUME SymbolAssumption == NoSymbol \notin Symbol
ASSUME FeedBounds ==
    /\ MaxTime \in Nat
    /\ MaxTrades \in Nat
    /\ MaxBooks \in Nat
    /\ MaxLevels \in Nat

VARIABLES
    trades,     \* the items of a trade message, or none
    books       \* the items of a book message, a side by its number of levels,
                \* or none

feedVars == <<trades, books>>

TradeItem == [symbol : Symbol, timestamp : 0 .. MaxTime]
BookItem == [symbol : Symbol, bids : 0 .. MaxLevels, asks : 0 .. MaxLevels]

FeedInit ==
    /\ trades = <<>>
    /\ books = <<>>

MoreTrades ==
    /\ books = <<>>
    /\ Len(trades) < MaxTrades
    /\ \E item \in TradeItem : trades' = Append(trades, item)
    /\ UNCHANGED books

MoreBooks ==
    /\ trades = <<>>
    /\ Len(books) < MaxBooks
    /\ \E item \in BookItem : books' = Append(books, item)
    /\ UNCHANGED trades

FeedNext == MoreTrades \/ MoreBooks

FeedSpec == FeedInit /\ [][FeedNext]_feedVars

----------------------------------------------------------------------------
(* The trade message *)

(* The state of the handler: shared_.trades, previous, exchange_time_utc,  *)
(* and the summaries dispatched so far.                                    *)
NoTrades == [trades |-> <<>>, previous |-> NoSymbol, exchange_time_utc |-> 0,
             out |-> <<>>]

Summary(h) == [symbol |-> h.previous, trades |-> h.trades,
               exchange_time_utc |-> h.exchange_time_utc]

(* Faulty variant: the trades stay in the buffer. *)
DispatchOnly(h) == IF h.trades = <<>> THEN h ELSE [h EXCEPT !.out = Append(@, Summary(h))]

(* The trades collected so far go out under the symbol seen last. *)
Dispatch(h) ==
    IF h.trades = <<>> THEN h
    ELSE [h EXCEPT !.out = Append(@, Summary(h)), !.trades = <<>>]

Later(s, t) == IF s < t THEN t ELSE s

(* Faulty variant: the time of the last trade. *)
CollectLast(h, item) ==
    LET g == IF item.symbol # h.previous THEN Dispatch(h) ELSE h
    IN [g EXCEPT !.trades = Append(@, item),
                 !.previous = item.symbol,
                 !.exchange_time_utc = item.timestamp]

(* One trade: a change of symbol sends what was collected before it. *)
Collect(h, item) ==
    LET g == IF item.symbol # h.previous THEN Dispatch(h) ELSE h
    IN [g EXCEPT !.trades = Append(@, item),
                 !.previous = item.symbol,
                 !.exchange_time_utc = Later(@, item.timestamp)]

TradeSummaries(data) == Dispatch(FoldLeft(Collect, NoTrades, data)).out

----------------------------------------------------------------------------
(* The book message *)

(* shared_.bids, shared_.asks as the price levels they contain, and the    *)
(* counter price_level, which runs through the whole message.              *)
NoBook == [bids |-> <<>>, asks |-> <<>>, price_level |-> 0, out |-> <<>>]

PriceLevels(from, n) == [i \in 1 .. n |-> from + i]

(* Faulty variant: the asks stay in the buffer. *)
UpdateKeepsAsks(h, item) ==
    IF item.bids + item.asks = 0 THEN h
    ELSE LET bids == h.bids \o PriceLevels(h.price_level, item.bids)
             asks == h.asks \o PriceLevels(h.price_level + item.bids, item.asks)
         IN [bids |-> <<>>, asks |-> asks,
             price_level |-> h.price_level + item.bids + item.asks,
             out |-> Append(h.out, [symbol |-> item.symbol, bids |-> bids, asks |-> asks])]

(* One book: both sides are collected and, unless both are empty, sent. *)
Update(h, item) ==
    LET bids == h.bids \o PriceLevels(h.price_level, item.bids)
        asks == h.asks \o PriceLevels(h.price_level + item.bids, item.asks)
        price_level == h.price_level + item.bids + item.asks
    IN IF bids = <<>> /\ asks = <<>> THEN h
       ELSE [bids |-> <<>>, asks |-> <<>>, price_level |-> price_level,
             out |-> Append(h.out, [symbol |-> item.symbol, bids |-> bids, asks |-> asks])]

BookUpdates(data) == FoldLeft(Update, NoBook, data).out

----------------------------------------------------------------------------
(* Properties *)

(* A message goes out complete and in order: the summaries contain each    *)
(* trade once, each summary the trades of the one symbol it names, and two *)
(* in a row are of different symbols.                                      *)
TradesComplete ==
    LET out == TradeSummaries(trades)
    IN /\ FlattenSeq([i \in DOMAIN out |-> out[i].trades]) = trades
       /\ \A i \in DOMAIN out :
            /\ out[i].trades # <<>>
            /\ \A t \in ToSet(out[i].trades) : t.symbol = out[i].symbol
            /\ i > 1 => out[i].symbol # out[i - 1].symbol

(* A summary is dated like the latest trade of the message up to its end:  *)
(* not before any trade it contains, and never before an earlier summary.  *)
(* (It may be dated after all of its own trades.)                          *)
TimesNeverReversed ==
    LET out == TradeSummaries(trades)
    IN \A i \in DOMAIN out :
         /\ \A t \in ToSet(out[i].trades) : t.timestamp <= out[i].exchange_time_utc
         /\ i > 1 => out[i - 1].exchange_time_utc <= out[i].exchange_time_utc

(* Every book that has levels goes out once, in order, with its symbol and *)
(* its own levels only, and no price level number is used twice within the *)
(* message.                                                                *)
BooksComplete ==
    LET out == BookUpdates(books)
        select(s, b) == IF b.bids + b.asks > 0 THEN Append(s, b) ELSE s
        sent == FoldLeft(select, <<>>, books)
    IN /\ [i \in DOMAIN out |-> [symbol |-> out[i].symbol,
                                 bids |-> Len(out[i].bids),
                                 asks |-> Len(out[i].asks)]] = sent
       /\ LET all == FlattenSeq([i \in DOMAIN out |-> out[i].bids \o out[i].asks])
          IN \A p \in DOMAIN all : all[p] = p

====
