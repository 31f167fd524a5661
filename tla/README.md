# A TLA+ verification of roq-kraken

roq-kraken is a gateway between clients of the roq trading framework and the
Kraken exchange. This directory holds TLA+ modules of its components, TLC
configurations that check them on small instances, and TLAPS proofs of their
main properties for every value of their constants.

## The system

Everything runs on one thread: the framework calls the `Controller`, the
network libraries call the streams, and every handler runs to completion. What
is concurrent is the outside: the exchange, the network, the clients and the
clock. The hard behaviours are therefore orders of events, not data races.

| Component (source, under `src/src/roq/kraken`) | State | Operations | Talks to |
|---|---|---|---|
| `gateway::Controller` | streams by account or index, next stream id | Start/Stop/Timer, client Subscribe, order actions, SymbolsUpdate, TokenUpdate | creates and calls all streams |
| `gateway::OrderEntry`, one per account | `connection_status_`, `download_` (`core::Download2`) | Connected, Disconnected, `download`, `get_*`, `get_*_ack`, `process_response` | REST; TokenUpdate to Controller |
| `gateway::DropCopy`, one per account, created by the first token | `connection_status_`, `token_` | Ready, Status, Disconnected, order requests, Executions, AddOrder/AmendOrder/CancelOrder | private websocket; order updates to the framework |
| `gateway::MarketData`, one per slice of symbols | `connection_status_`, `index_` | Ready, Status, Disconnected, Instrument, Ticker, Trade, Book, `subscribe` | public websocket; SymbolsUpdate to Controller |
| `gateway::Shared` | `symbols`, `all_symbols`, scratch buffers, throttle | used by all streams | |
| `tools::Crypto`, one per account | `nonce_` | `create_body`, `create_headers` | signs every REST request |
| `tools::Throttle` | `suspend_until_`, header values | header and end of every REST response | all clients |
| `protocol::json` | none | `Encoder`, `Parser`, enum maps | streams |
| config, flags, `bridge`, `fix_bridge`, `main` | read once | start-up | |

What makes each correct, and where that could go wrong, is under `hazards` in
`PROJECT.json`. In short:

* **OrderEntry**: READY only after every stage; each stage handed on once per
  download although answers may be late, doubled or refused; never waiting for
  an answer that cannot come; the private stream exists before a client sees
  progress.
* **MarketData/Controller**: every known symbol on exactly one stream; nothing
  missed by a stream that is connecting while the list grows; the limit per
  connection respected.
* **DropCopy**: each trade a fill once, over any number of snapshots; the view
  follows the exchange again once a reconnected stream has read its snapshot;
  a refusal reaches the request it answers.
* **Controller**: stream ids unique over everything that creates a stream;
  order actions find a private stream; every stream that exists comes up;
  nothing runs on after a stop.
* **Orders and their reports**: what is placed and amended at the exchange is
  what was asked for; no report says anything untrue of the order; the end of
  an order is reported.
* **Books, instruments**: the book is the best part of the exchange's; pairs
  are open exactly while they are online; every pair is subscribed to.
* **Crypto**: nonces in order over restarts; the process not ended by a clock
  that runs normally.
* **Throttle**: exhaustion respected whatever the order of headers; a ban ended
  early by nothing but the one condition the code states.

## Modules

| Module | Models | Correspondence |
|---|---|---|
| `Gateway` | `controller.cpp`: constructor, Start, Stop, Timer, Connected, SymbolsUpdate, TokenUpdate, order actions; of the streams only start, stop, refresh, connection status and download progress | `id` and `stream_id` are the ids given out of `stream_id_`; `token` says which DropCopy exists and with which token; `Dispatch` is what `dispatch` reaches. `seen` (accounts a client has seen connected) and `crashed` (a null stream was used) are history. |
| `OrderEntry` | `order_entry.cpp` and `Controller` TokenUpdate | `state`, `sequence`, `retrying` are `download_`; `inflight` the requests whose callback has not run; `Response` is `process_response` with the `_ack` of the stage; `Connected`/`Disconnected` call begin, bump or reset; `drop_copy` is the token the account's DropCopy was made with. `session`, `answered`, `errors` are history. |
| `Download` | the promise of that session | three actions over the stream status and the number of completed stages. |
| `MarketData` | the public streams, client Subscribe, SymbolsUpdate, `ensure_symbol_slices` | one entry of each function per stream index; `Slice`, `NumberOfSlices` are `core::Symbols`; `requests` counts what the current connection was asked for. |
| `Instruments` | Instrument and Status of `market_data.cpp`, `PairsStatus` of `map.cpp`, client Subscribe | `reference_data` and `market_status` are what was last dispatched about each pair; `upstream`/`downstream` the websocket; `exchange` the status of the pairs. |
| `BookStream` | Book of `market_data.cpp`, the depth in `config.cpp` | `book` is the server's book under `mbp_max_depth`; `exchange` the full book, of which the best `Depth` levels are streamed. |
| `Feed` | the Trade and Book handlers of `market_data.cpp` | the handlers as folds over the items of a message, the behaviours enumerate messages. |
| `DropCopy` | `drop_copy.cpp`, `req_id` of `encoder.cpp` and `parser.cpp`, order status map | `view` is what was last dispatched about each order, `upstream`/`downstream` the two directions of the websocket, `exchange` the orders at the exchange. `unseen` (what no connection brought) and `untold` (orders with fills whose snapshot row had no `cum_qty`) are history. |
| `TradeLog` | the promise of the private stream about trades | trades, those that became a fill, and those that were lost, by order. |
| `OrderReports` | the fields of the requests in `encoder.cpp` and of the reports in `drop_copy.cpp`, with the maps of `map.cpp` between the two vocabularies | one order: `wanted` is what the client asked for (history), `exchange` what the exchange made of it, each report carries the order it was made of (history), `update` is the last OrderUpdate. |
| `Funds` | BalanceAck of `order_entry.cpp`, Balances of `drop_copy.cpp` | one currency: `ledger` at the exchange, `rest` and `stream` the last FundsUpdate of either connection. |
| `Nonce` | `Crypto::create_body` | `nonce` is `nonce_`; a process is ended by `log::fatal` and replaced by `Restart`. `last`, `peak`, `stepped` and `restarted` are history. |
| `Throttle` | `throttle.cpp` | one action per header and per status that matters; `blocked_until` (the end of the last ban, which nothing but the next 403 changes) is history. |
| `MCDropCopy` | | the own order of the TLC instance. |
| `GatewayProofs`, `MarketDataProofs`, `InstrumentsProofs`, `DropCopyProofs`, `OrderReportsProofs` | | theorems about the module of that name. |
| `OrderEntryProofs` | | theorems about `OrderEntry`, `Nonce` and `Throttle`: the requests of an account. |
| `PublicStreamProofs` | | theorems about `Feed` and `BookStream`: the data of a public stream. |
| `FoldLemmas` | | lemmas about the folds, lists and sequences of sets that these modules use. |

How they compose. `Gateway` is the composition of all streams under one
Controller, with each stream reduced to what the Controller and the clients see
of it. Its sessions are written as what `Download` promises; that the code
keeps this promise is shown where its detail is, in `OrderEntry`. `MarketData` and
`OrderEntry` each contain the part of the Controller they interact with.
`DropCopy` has the connection and its losses with orders reduced to a status
and lots; `OrderReports` has the fields of one order on a connection that is
not lost. `Instruments` has the messages of one public stream, `MarketData` the
slices of all of them.

Each module also defines a few faulty variants of its operators, which no
specification uses: they show that the properties depend on the code being what
it is.

### External code

`core::Download2`, `core::Symbols`, `web::rest::Client`, `web::socket::Client`,
the dispatcher with its book, and the exchange are not in the repository. They
are modelled from how the code uses them, with these choices:

* `Download2`: an answer is skipped unless it is for the current stage *and*
  has the latest sequence; `retry` marks the current stage, and the mark may or
  may not be acted on (`Reissue` has no fairness); `bump` requests the current
  stage again; `reset` keeps an unfinished download.
* The REST client answers or fails every request, in any order, also after the
  connection it was made on is gone (then only with an error).
* The websocket loses everything in flight, both ways, with the connection. A
  connection attempt is only made by `refresh`, that is by the Timer.
* The exchange answers the first subscription of a connection with a snapshot:
  of the open orders and the past trades; of the best levels of a book; of the
  listed pairs; of the balances. A repeated subscription is refused. The rows
  of trades carry no `cum_qty` (`test/json_executions.cpp`, `snapshot_trade`).
  No test has the row of an open order, so that each may carry it or not.
  `new` and `pending_new` updates carry no `cum_qty`, the others do.
* The exchange places an order with a side, type or time in force it does not
  know not at all, and fills in `gtc` for one that is absent.
* The server's book keeps the best `mbp_max_depth` levels of each side and
  drops what is pushed out of them.
* The framework delivers Start to the Controller before, and Stop after,
  everything else: no Timer, Subscribe or order action comes once it is
  stopped. The Controller does not check this, and a subscription after Stop
  would create and start a stream; `StoppedIsSilent` rests on it.
* The depth of the book is not 0 (the flag's default is 10): for 0 no depth is
  sent, and what the exchange and the server's book take it for is not in the
  repository.

The realtime and the system clock are one clock in `Throttle`; remaining
requests are not negative. In `Gateway` there are fewer streams than stream ids
(`StreamIdAssumption`), so that the 16-bit counter does not wrap.

## Runs

| Run | Bounds | States | Shows |
|---|---|---|---|
| `gateway` | two accounts, two slices, downloads of two stages, one lost connection, two tokens per account | 194k | unique and constant ids, a private stream for every client that may act, silence after Stop, all websocket streams come up |
| `order_entry` | 7 requests | 290k | the seven properties of the session, liveness included, and that it implements `Download` |
| `order_entry_errors` (violation) | 6 requests | | an error list in a 2xx body is accepted as data |
| `market_data` | 5 symbols (one discarded), 2 per stream, one lost connection per stream, 2 status messages | 136k | the distribution of symbols, and that all of them are subscribed to in the end |
| `instruments` | 2 pairs (one discarded) in 3 states or not listed, 3 messages in flight, two lost connections, 2 status messages | 1.6M | clients know which pairs are open; nothing is left without a subscription unless refused |
| `book_stream` | 3 bid and 1 ask prices, depth 2, 2 messages in flight, one lost connection, 2 status messages | 50k | the book follows the exchange although levels are pushed out of its depth |
| `feed` | 4 trades of 3 symbols at 3 times, or 3 books of up to one level a side | 9k | messages go out complete |
| `drop_copy` | one own and one foreign order of two lots, one lost connection, 2 status messages, requests and trades while fewer than 5 messages are in flight | 3.6M | fills and order states against the exchange, refusals reach their request, and that the fills implement `TradeLog` |
| `order_reports` | quantities 1 and 2, 4 times in force, 2 amendments | 256k | requests and reports say what they should |
| `funds_balances` (violation) | 2 ledger entries, 2 lost connections | | an amount is reported as a balance |
| `nonce` | threshold 2, clock to 6, 4 requests | 1.3k | nonce order, with and without clock steps and restarts |
| `throttle` | backoffs 1 and 3, clock to 5 | 1.1k | exhaustion suspends; what may end a ban early |

Why the bounds suffice: a download makes five requests, so seven allow two
repetitions, by reconnect or retry, at every stage, and a second download to
begin. Five symbols with two per stream give full and partial slices and the
creation of two further streams while others are connected. Two accounts give
every order in which two tokens and a second slice take ids from the counter;
the second token is the one that must not replace the first. Two lots give an
order that is partially filled at a reconnect; the foreign order stands for the
orders of other sessions. Up to six messages are in flight then, which are a
snapshot, the pair of reports of a placed order and more behind it. The own
order's user and order id differ, so that a wrong split of `req_id` shows.
Three bids with a depth of two give a level that is pushed out and comes back.
Two amendments give one that changes what the other left.
Four trades give every pattern of runs up to `a b a b`.

`CHECK_DEADLOCK FALSE` is set where only a bound stops the system: in
`OrderEntry` (no more sequence numbers), in `Gateway` (stopped), in `DropCopy`
(each order request is made once, trades are finite), in `OrderReports` (the
order has ended), in `BookStream`, `Instruments` and `Funds` (no more
connections, messages or entries), and in `Feed` (the message has its full
length).

### Fairness

`OrderEntry!FairSpec` has weak fairness of `Answer`: the REST client has a
`request_timeout`, so every request is answered or fails. There is none on
`Reissue`, `Connected` or `Disconnected`; `DownloadEnds` therefore says that a
download ends unless the connection is lost or a retry is pending.
`MarketData!FairSpec` has weak fairness of `SocketReady` (clients are
configured with `always_reconnect`) and of `Status` (the exchange reports its
status on every new connection, which the code relies on: "wait for status").
`Gateway!FairSpec` has the same for every websocket stream, and weak fairness
of `Timer`, which the framework keeps calling: a stream that lost its
connection, or was created after the start, only connects by the Timer. The
REST sessions have none there.
`OrderReports!FairSpec` has weak fairness of `Receive` only: what has arrived
is read. Clients and the exchange's announcements have none anywhere.

## Proofs

Every theorem is proved for all constants satisfying the named assumptions of
the module; the bounds are constants and so arbitrary.

* **Gateway.** `OrderActionsFindStream` depends on who has been told what. `IInv` adds `IdInv` (the counter is the number of streams
  that exist, counted by the slices, the accounts and the private streams, and
  every id is at most the counter: with `StreamIdAssumption` it never wraps),
  `RunningInv` (only existing streams run, only running ones connect, and only
  between Start and Stop), `DownloadInv` (which status goes with how many
  completed stages) and `TokenInv` (there is a private stream as soon as the
  first stage is complete or a client has seen the account).
* **OrderEntry.** `ReadyMeansComplete` and `DropCopyBeforeStatus` are not
  inductive. `IInv` adds `StatusInv` (which status goes with which state of the
  download), `InflightInv` (every request in flight has a sequence not above
  the current one, and the request with the current sequence is of the current
  session unless the connection is down) and `TokenInv` (a DropCopy exists once
  TOKEN has been passed). `ExactlyOnce` determines `answered` from the state.
  `FreshAnswers` follows from `InflightInv`; `Implementation` shows that each
  action is `Complete`, `Lose`, `Resume` or a stutter of `Download`.
* **MarketData.** `IInv` adds `ListInv` (the list has each known symbol once),
  `SizeInv` (there are at least as many streams as slices) and `StatusInv`
  (a stream that is ready had a status message; a missing stream is
  disconnected and asked for nothing). `OneStreamCorrect` finds a symbol's
  stream by dividing its position by the limit; `LimitCorrect` maps a slice
  injectively to an interval.
* **Instruments.** Neither property is inductive while messages are in flight.
  `PairsInv` generalises `PairsFollowExchange`: for every listed pair, the last
  message in flight that names it has its status at the exchange, or no message
  names it and what was dispatched is right. `KnownInv` generalises
  `SubscribedUnlessRefused`: every known pair of a ready stream is subscribed
  to, refused, or asked for in a message on its way, whether the exchange or a client named it
  first.
* **DropCopy.** `RejectsReachTheirRequest` rests on the round trip of `req_id`
  (`ReqIdRoundTrip`, which needs order ids below `OrderIdLimit` and user ids
  below 256) and on an invariant of the queue: every answer in flight is a
  refusal the exchange has made (`IInv`). The queue has no upper bound in the
  theorem.

  `EveryTradeOnce` and `ViewFollowsExchange` need `StreamInv`: `StateInv` (the
  types, and what an order's status says of its trades), `ExecutionsInv` (only
  a subscribed connection has executions in flight, each one report of one
  change or a snapshot) and `ViewInv`, which says while messages are on their
  way what `ViewFollowsExchange` says of the empty queue: the last message that
  names an order tells its state at the exchange, or none does and its view is
  that state; the traded quantity of that state is `Told`, which is 0 for the
  orders in `untold`. `Step` puts the invariant and the refinement together: every
  action preserves `StreamInv` and is a `Trade`, a `Fill` or a `Lose` of
  `TradeLog`, or a stutter (`QuietStep`, `TradeStep`, `ReceiveStep`,
  `DisconnectedStep`, `SubscribeStep`, `AnswerStep`, `IdleStep`).

  The handler folds over the rows of a message and the snapshot is built from
  sets, so the proof has to look into folds: `ExecutionsSteps` shows that
  `OnExecutions` applies the rows one after another (see *Folds* below).
  `SnapshotRows` says what the rows of a snapshot name and tell, and
  `TradesConcat` and `TradesTail` count the trades in a queue.
* **OrderReports.** `IInv` adds what is in the queues (`QueueInv`: requests
  the encoder can make, reports about orders the exchange can have),
  `ExchangeInv`, and `GrowthInv`: the traded quantity grows along the way from
  the last update over the reports in flight to the exchange, which is what
  makes `TradedNeverFalls` inductive.
* **Feed.** What a handler makes of a message is a fold over its items. The
  proof goes by induction on the items handled: `Collected` says of the state
  of the trade handler that the trades sent and collected are those of the
  message so far, in order, and that the summaries are of one symbol each,
  alternate and are dated; `Updated` says of the state of the book handler
  which books have been sent and which level numbers are used.
* **BookStream.** Neither property is inductive while messages are in flight.
  `IInv` says that there is a chain of books `e`: each message on its way makes
  `e[i]` of `e[i - 1]` and removes nothing that is not there (`Carries`), the
  last is the best part of the exchange's book, and the first is the server's,
  unless a snapshot was missed or comes first (`Follow`). The work is to show
  that a change of one level, or two of the same level in one message, carries
  the best part of the old book to that of the new one, although the message
  does not mention the levels that are pushed out. `Covers` relates a book to a
  receiver that has at least its best part; `CoversCut` shows that the cut to
  `mbp_max_depth` then gives the same levels, and `ChangeCovers` that the
  message of a change preserves the relation (`CoversAt`, at all levels but the
  one that changes).
* **Folds.** `NatSetInduction` is induction over the numbers with the property
  as a set, from the well-foundedness of `<`, so that no operator is passed to
  a theorem. `FoldExists` shows with it that the function the folds of the
  library choose exists, `FoldSteps` that it takes the items one after another,
  `FlattenJoined` and `JoinedAppend` what `FlattenSeq` puts together, and
  `SetToSeqRange` that `SetToSeq` lists each element once.
* **Nonce.** `NonceIInv` is the type invariant, `SteadyClockSafe`, that a clock
  never stepped back is at its peak, and that a process never restarted has
  sent the nonce it holds. `NoncesInOrder` needs both: without a restart the
  next nonce is past the one held, without a step the clock is past the last.
* **Throttle.** The types and `ExhaustedSuspends` are inductive together;
  `BanHolds` goes through the five actions.

## Only model-checked

Liveness (`DownloadEnds`, `EventuallySubscribed`, `StreamsComeUp`,
`FinalReported`), which is out of the prover's reach. `Funds` has no passing
property.

## Disagreements with the code's own comments, assertions and tests

* `gateway/order_entry.cpp:364` asserts that the error list of a balance answer
  is empty. Nothing before it checks that, and a build without asserts accepts
  the answer and goes on to READY (`order_entry_errors`).
* `gateway/drop_copy.cpp:298` dispatches the `amount` of a ledger entry as the
  balance. `test/json_balances.cpp:128,130` parses an update with an amount of
  9.005 and a balance of 99.89293, and the snapshot of the same test has a
  balance and no amount (`funds_balances`).
* `tools/crypto.cpp:51` asks "shouldn't this be <= ?". As it is, two requests
  within one millisecond carry the same nonce (`NextNonce` takes the clock when
  it stands still). Whether the exchange accepts that depends on the window of
  the API key, which is not in the repository.
* `index.rst` lists CreateOrder, CancelOrder and CancelAllOrders as "Not
  implemented" and ModifyOrder and Statistics as "Unavailable", and says that
  reference data and market status are not streamed. The code does all of
  these, and the modules model what it does.

## Not modelled

Contents of messages beyond what the properties tell apart, URL and JSON
formatting, HMAC, metrics, latencies and pings, top of book and statistics
(field-by-field translations of the ticker without state), `guess_error`, the
flags and settings other than the depth of the book, the bridges and the
process's start-up. The message types are generated by a tool that is not in
the repository.

What the framework's order management does with an update is not in the
repository either, so `DropCopy` states what is dispatched and not what a
client sees. Known
limits of the code that no property contradicts:

* an order that is filled or canceled while the private stream is down is not
  reported afterwards (the snapshot's `trade`, `filled` and `canceled` items
  are discarded);
* an open order whose row in a snapshot has no `cum_qty` is reported with a
  traded quantity of 0, whatever was reported before, until its next report
  (`drop_copy.cpp:342`; `ViewFollowsExchange` says of which orders). `index.rst`
  lists a wrong `traded_quantity` as unresolved, which this may be;
* a header that says that no requests remain, but not until when, counts as one
  that allows them, and ends even the ban of a 403 (`throttle.cpp:83`;
  `BanHolds` names the condition);
* the summary of trades is dated by the latest trade of its message, of
  whatever symbol;
* a subscription after Stop would start a stream (see *External code*);
* a token received after a reconnect is ignored (`IdsNeverChange` holds because
  of it);
* a 429 does not suspend again once an earlier suspension is over;
* an empty snapshot of a book is not dispatched, so that the book of the
  previous connection stays (`BookFollowsExchange` excludes this case by
  `missed`);
* a subscription to a pair that the exchange refuses is not made again on the
  same connection (`SubscribedUnlessRefused`);
* a pair that is delisted keeps its last market status, only its reference data
  says that it is gone;
* a request answered by a message of the method `error`, and a refused
  `cancel_all`, are never answered towards the client;
* the REST session and the private stream name some currencies differently.

## Plan

Done, in this order: OrderEntry with Download and its proofs, MarketData and
its proofs, Nonce, DropCopy, Throttle, Feed; then Gateway and its proofs,
OrderReports and its proofs, TradeLog, BookStream, Instruments and its proofs,
Funds, the proof about `req_id`, the proofs about the executions of the
private stream, and those about `Feed` and `BookStream`. What could come next:

1. The data of both kinds of stream in one model: a stream of several symbols
   under the book, so that what one symbol's messages do to another's book is
   seen.
2. A reconnect in `OrderReports`: snapshot rows with and without `cum_qty`.
