---- MODULE PublicStreamProofs ----
(***************************************************************************)
(* Proofs about the data of a public stream: what gateway::MarketData      *)
(* makes of its trade and book messages (Feed), and the book that results  *)
(* at the server (BookStream).                                             *)
(***************************************************************************)
EXTENDS BookStream, Feed, FoldLemmas, SequenceTheorems

----------------------------------------------------------------------------
(* The trade messages *)

(* The types. *)
Summaries == [symbol : Symbol \cup {NoSymbol}, trades : Seq(TradeItem), exchange_time_utc : Nat]

Handlers == [trades : Seq(TradeItem), previous : Symbol \cup {NoSymbol},
             exchange_time_utc : Nat, out : Seq(Summaries)]

(* What is collected goes out as one summary, or nothing does. *)
LEMMA DispatchType ==
  ASSUME NEW h \in Handlers
  PROVE  /\ Dispatch(h) \in Handlers
         /\ Dispatch(h).trades = <<>>
         /\ Dispatch(h).previous = h.previous
         /\ Dispatch(h).exchange_time_utc = h.exchange_time_utc
         /\ Dispatch(h).out = IF h.trades = <<>> THEN h.out ELSE Append(h.out, Summary(h))
         /\ Summary(h) \in Summaries
  <1>1. Summary(h) \in Summaries
    BY DEF Summary, Summaries, Handlers
  <1>2. Append(h.out, Summary(h)) \in Seq(Summaries)
    BY <1>1 DEF Handlers
  <1>3. /\ h = [trades |-> h.trades, previous |-> h.previous,
               exchange_time_utc |-> h.exchange_time_utc, out |-> h.out]
        /\ h.previous \in Symbol \cup {NoSymbol} /\ h.exchange_time_utc \in Nat
        /\ <<>> \in Seq(TradeItem)
    BY DEF Handlers
  <1>4. CASE h.trades = <<>>
    BY <1>1, <1>4 DEF Dispatch
  <1>5. CASE h.trades # <<>>
    <2>1. Dispatch(h) = [trades |-> <<>>, previous |-> h.previous,
                         exchange_time_utc |-> h.exchange_time_utc,
                         out |-> Append(h.out, Summary(h))]
      BY <1>3, <1>5 DEF Dispatch
    <2> QED
      BY <1>1, <1>2, <1>3, <1>5, <2>1 DEF Handlers
  <1> QED
    BY <1>4, <1>5

(* A trade is the last of those collected, and dates them if it is         *)
(* later.                                                                  *)
LEMMA CollectType ==
  ASSUME NEW h \in Handlers, NEW item \in TradeItem
  PROVE  /\ Collect(h, item) \in Handlers
         /\ Collect(h, item).previous = item.symbol
         /\ Collect(h, item).exchange_time_utc = Later(h.exchange_time_utc, item.timestamp)
         /\ item.symbol = h.previous =>
               /\ Collect(h, item).trades = Append(h.trades, item)
               /\ Collect(h, item).out = h.out
         /\ item.symbol # h.previous =>
               /\ Collect(h, item).trades = <<item>>
               /\ Collect(h, item).out = Dispatch(h).out
         /\ item.symbol \in Symbol /\ item.timestamp \in Nat
  <1>1. item.symbol \in Symbol /\ item.timestamp \in Nat
    BY FeedBounds DEF TradeItem
  <1> DEFINE g == IF item.symbol # h.previous THEN Dispatch(h) ELSE h
  <1>2. /\ g \in Handlers /\ g.previous = h.previous
        /\ g.exchange_time_utc = h.exchange_time_utc
        /\ item.symbol = h.previous => g = h
        /\ item.symbol # h.previous => g.trades = <<>> /\ g.out = Dispatch(h).out
    BY DispatchType
  <1>3. Collect(h, item) = [g EXCEPT !.trades = Append(@, item),
                                     !.previous = item.symbol,
                                     !.exchange_time_utc = Later(@, item.timestamp)]
    BY DEF Collect
  <1> HIDE DEF g
  <1>4. /\ Append(g.trades, item) \in Seq(TradeItem)
        /\ Later(g.exchange_time_utc, item.timestamp) \in Nat
    BY <1>1, <1>2 DEF Handlers, Later
  <1>5. g = [trades |-> g.trades, previous |-> g.previous,
             exchange_time_utc |-> g.exchange_time_utc, out |-> g.out]
    BY <1>2 DEF Handlers
  <1>6. Collect(h, item) = [trades |-> Append(g.trades, item), previous |-> item.symbol,
                            exchange_time_utc |-> Later(g.exchange_time_utc, item.timestamp),
                            out |-> g.out]
    BY <1>3, <1>5
  <1>7. Collect(h, item) \in Handlers
    BY <1>1, <1>2, <1>4, <1>6 DEF Handlers
  <1>8. g.trades = <<>> => Append(g.trades, item) = <<item>>
    OBVIOUS
  <1> QED
    BY <1>1, <1>2, <1>6, <1>7, <1>8

(* The trades of a message are collected one after the other. *)
LEMMA CollectSteps ==
  ASSUME NEW data \in Seq(TradeItem)
  PROVE  \E acc \in [0 .. Len(data) -> Handlers] :
           /\ acc[0] = NoTrades
           /\ \A i \in 1 .. Len(data) : acc[i] = Collect(acc[i - 1], data[i])
           /\ TradeSummaries(data) = Dispatch(acc[Len(data)]).out
  <1> DEFINE n == Len(data)
             step == [p \in Handlers \X (1 .. n) |-> Collect(p[1], data[p[2]])]
             iter == CHOOSE g : g = [s \in SUBSET (DOMAIN data) |->
                        IF s = {} THEN NoTrades
                        ELSE LET x == Max(s) IN Collect(g[s \ {x}], data[x])]
  <1>1. TradeSummaries(data) = Dispatch(iter[DOMAIN data]).out
    BY DEF TradeSummaries, FoldLeft, MapThenFoldSet
  <1>2. n \in Nat /\ DOMAIN data = 1 .. n /\ \A i \in 1 .. n : data[i] \in TradeItem
    OBVIOUS
  <1>3. NoTrades \in Handlers
    BY DEF NoTrades, Handlers
  <1> HIDE DEF n
  <1>4. step \in [Handlers \X (1 .. n) -> Handlers]
    BY <1>2, CollectType
  <1>5. \A v \in Handlers : \A i \in 1 .. n : step[<<v, i>>] = Collect(v, data[i])
    OBVIOUS
  <1> HIDE DEF step
  <1>6. PICK f \in [SUBSET (1 .. n) -> Handlers] : IsFold(f, n, NoTrades, step)
    BY <1>2, <1>3, <1>4, FoldExists
  <1>7. \A s \in SUBSET (1 .. n) : s # {} => Max(s) \in 1 .. n /\ s \ {Max(s)} \in SUBSET (1 .. n)
    BY <1>2, MaxExists
  <1>8. \A s \in SUBSET (1 .. n) : s # {} =>
           step[<<f[s \ {Max(s)}], Max(s)>>] = Collect(f[s \ {Max(s)}], data[Max(s)])
    BY <1>5, <1>6, <1>7
  <1>9. f = [s \in SUBSET (1 .. n) |->
               IF s = {} THEN NoTrades ELSE Collect(f[s \ {Max(s)}], data[Max(s)])]
    BY <1>6, <1>8 DEF IsFold
  <1>10. iter = [s \in SUBSET (1 .. n) |->
                   IF s = {} THEN NoTrades ELSE Collect(iter[s \ {Max(s)}], data[Max(s)])]
    BY <1>2, <1>9
  <1> HIDE DEF iter
  <1>11. Folds(iter, n, Handlers, NoTrades, step)
    <2>1. iter[{}] = NoTrades
      BY <1>10
    <2>2. \A s \in SUBSET (1 .. n) :
             s # {} /\ iter[s \ {Max(s)}] \in Handlers =>
                iter[s] = step[<<iter[s \ {Max(s)}], Max(s)>>]
      BY <1>5, <1>7, <1>10
    <2> QED
      BY <2>1, <2>2 DEF Folds
  <1>12. PICK acc \in [0 .. n -> Handlers] : Run(acc, n, NoTrades, step, iter[1 .. n])
    BY <1>2, <1>3, <1>4, <1>11, FoldSteps
  <1>13. /\ acc[0] = NoTrades
         /\ \A i \in 1 .. n : acc[i] = step[<<acc[i - 1], i>>]
         /\ acc[n] = iter[1 .. n]
    BY <1>12 DEF Run
  <1>14. \A i \in 1 .. n : acc[i] = Collect(acc[i - 1], data[i])
    <2>1. \A i \in 1 .. n : i - 1 \in 0 .. n
      BY <1>2
    <2> QED
      BY <1>5, <1>13, <2>1
  <1> QED
    BY <1>1, <1>2, <1>13, <1>14 DEF n

----------------------------------------------------------------------------
(* The trades of a summary are of its symbol, and not after it. *)
Dated(list, symbol, time) ==
    \A k \in 1 .. Len(list) : list[k].symbol = symbol /\ list[k].timestamp <= time

(* The summaries sent: these trades, complete and in order. *)
TradesOf(out) == [j \in 1 .. Len(out) |-> out[j].trades]

Ordered(out) ==
    /\ \A j \in 1 .. Len(out) :
          out[j].trades # <<>> /\ Dated(out[j].trades, out[j].symbol, out[j].exchange_time_utc)
    /\ \A j \in 2 .. Len(out) :
          /\ out[j].symbol # out[j - 1].symbol
          /\ out[j - 1].exchange_time_utc <= out[j].exchange_time_utc

Follows(out, symbol, time) ==
    out # <<>> => /\ out[Len(out)].symbol # symbol
                  /\ out[Len(out)].exchange_time_utc <= time

LEMMA SummaryTrades ==
  ASSUME NEW out \in Seq(Summaries), NEW i \in 1 .. Len(out)
  PROVE  out[i].trades \in Seq(TradeItem)
  <1>1. out[i] \in Summaries
    OBVIOUS
  <1> QED
    BY <1>1 DEF Summaries

LEMMA TradesOfAppend ==
  ASSUME NEW out \in Seq(Summaries), NEW s \in Summaries
  PROVE  /\ TradesOf(out) \in Seq(Seq(TradeItem))
         /\ s.trades \in Seq(TradeItem)
         /\ TradesOf(Append(out, s)) = Append(TradesOf(out), s.trades)
  <1>1. \A i \in 1 .. Len(out) : out[i].trades \in Seq(TradeItem)
    BY SummaryTrades
  <1>2. TradesOf(out) \in Seq(Seq(TradeItem)) /\ Len(TradesOf(out)) = Len(out)
    BY <1>1 DEF TradesOf
  <1>3. s.trades \in Seq(TradeItem)
    BY DEF Summaries
  <1>4. Append(TradesOf(out), s.trades)
          = [j \in 1 .. Len(out) + 1 |-> Append(out, s)[j].trades]
    BY <1>2 DEF TradesOf
  <1> QED
    BY <1>2, <1>3, <1>4 DEF TradesOf

LEMMA OrderedAppend ==
  ASSUME NEW out \in Seq(Summaries), Ordered(out), NEW s \in Summaries,
         s.trades # <<>>, Dated(s.trades, s.symbol, s.exchange_time_utc),
         Follows(out, s.symbol, s.exchange_time_utc)
  PROVE  Ordered(Append(out, s))
  <1> DEFINE next == Append(out, s)
             n == Len(out)
  <1>1. /\ n \in Nat /\ Len(next) = n + 1 /\ next[n + 1] = s
        /\ \A j \in 1 .. n : next[j] = out[j]
        /\ out # <<>> <=> n > 0
    OBVIOUS
  <1> HIDE DEF n, next
  <1>2. ASSUME NEW j \in 1 .. n + 1
        PROVE  next[j].trades # <<>>
               /\ Dated(next[j].trades, next[j].symbol, next[j].exchange_time_utc)
    <2>1. CASE j = n + 1
      BY <1>1, <2>1
    <2>2. CASE j # n + 1
      <3>1. j \in 1 .. n
        BY <1>1, <2>2
      <3> QED
        BY <1>1, <3>1 DEF Ordered, n
    <2> QED
      BY <2>1, <2>2
  <1>3. ASSUME NEW j \in 2 .. n + 1
        PROVE  /\ next[j].symbol # next[j - 1].symbol
               /\ next[j - 1].exchange_time_utc <= next[j].exchange_time_utc
    <2>1. CASE j = n + 1
      <3>1. j - 1 = n /\ n \in 1 .. n /\ out # <<>>
        BY <1>1, <2>1
      <3>2. next[j - 1] = out[n] /\ next[j] = s
        BY <1>1, <2>1, <3>1
      <3> QED
        BY <3>1, <3>2 DEF Follows, n
    <2>2. CASE j # n + 1
      <3>1. j \in 2 .. n /\ j \in 1 .. n /\ j - 1 \in 1 .. n
        BY <1>1, <2>2
      <3> QED
        BY <1>1, <3>1 DEF Ordered, n
    <2> QED
      BY <2>1, <2>2
  <1> QED
    BY <1>1, <1>2, <1>3 DEF Ordered, next

(* The state of the handler after these trades. *)
Collected(h, all) ==
    /\ \E sent \in Seq(TradeItem) : Joined(TradeItem, TradesOf(h.out), sent) /\ sent \o h.trades = all
    /\ Ordered(h.out)
    /\ Dated(h.trades, h.previous, h.exchange_time_utc)
    /\ Follows(h.out, h.previous, h.exchange_time_utc)
    /\ h.trades = <<>> => h.out = <<>>

(* Sending a buffer leaves no trade out. *)
LEMMA DispatchCollected ==
  ASSUME NEW h \in Handlers, NEW all \in Seq(TradeItem), Collected(h, all)
  PROVE  /\ Joined(TradeItem, TradesOf(Dispatch(h).out), all)
         /\ Ordered(Dispatch(h).out)
         /\ Dispatch(h).out # <<>> =>
               /\ Dispatch(h).out[Len(Dispatch(h).out)].symbol = h.previous
               /\ Dispatch(h).out[Len(Dispatch(h).out)].exchange_time_utc
                     = h.exchange_time_utc
  <1>1. PICK sent \in Seq(TradeItem) : Joined(TradeItem, TradesOf(h.out), sent) /\ sent \o h.trades = all
    BY DEF Collected
  <1>2. /\ h.out \in Seq(Summaries) /\ Summary(h) \in Summaries
        /\ Dispatch(h).out = IF h.trades = <<>> THEN h.out ELSE Append(h.out, Summary(h))
        /\ h.trades \in Seq(TradeItem)
    BY DispatchType DEF Handlers
  <1>3. CASE h.trades = <<>>
    <2>1. sent = all
      BY <1>1, <1>3
    <2>2. h.out = <<>> /\ Ordered(h.out)
      BY <1>3 DEF Collected
    <2> QED
      BY <1>1, <1>2, <1>3, <2>1, <2>2
  <1>4. CASE h.trades # <<>>
    <2>1. /\ Summary(h).trades = h.trades /\ Summary(h).symbol = h.previous
          /\ Summary(h).exchange_time_utc = h.exchange_time_utc
      BY DEF Summary
    <2>2. Joined(TradeItem, TradesOf(Append(h.out, Summary(h))), all)
      BY <1>1, <1>2, <2>1, JoinedAppend, TradesOfAppend
    <2>3. Ordered(Append(h.out, Summary(h)))
      BY <1>2, <1>4, <2>1, OrderedAppend DEF Collected
    <2>4. Append(h.out, Summary(h))[Len(Append(h.out, Summary(h)))] = Summary(h)
      BY <1>2
    <2> QED
      BY <1>2, <1>4, <2>1, <2>2, <2>3, <2>4
  <1> QED
    BY <1>3, <1>4

(* A trade is added to those sent and collected, behind them. *)
LEMMA CollectCollected ==
  ASSUME NEW h \in Handlers, NEW all \in Seq(TradeItem), Collected(h, all),
         NEW item \in TradeItem
  PROVE  Collected(Collect(h, item), Append(all, item))
  <1> DEFINE g == Collect(h, item)
  <1>1. /\ g \in Handlers
        /\ g.previous = item.symbol
        /\ g.exchange_time_utc = Later(h.exchange_time_utc, item.timestamp)
        /\ item.symbol = h.previous => g.trades = Append(h.trades, item) /\ g.out = h.out
        /\ item.symbol # h.previous => g.trades = <<item>> /\ g.out = Dispatch(h).out
        /\ item.timestamp \in Nat
    BY CollectType
  <1>2. /\ h.exchange_time_utc \in Nat /\ g.exchange_time_utc \in Nat
        /\ h.exchange_time_utc <= g.exchange_time_utc
        /\ item.timestamp <= g.exchange_time_utc
    BY <1>1 DEF Handlers, Later
  <1>3. h.trades \in Seq(TradeItem) /\ h.out \in Seq(Summaries)
    BY DEF Handlers
  <1> HIDE DEF g
  <1>4. CASE item.symbol = h.previous
    <2>1. PICK sent \in Seq(TradeItem) : Joined(TradeItem, TradesOf(h.out), sent) /\ sent \o h.trades = all
      BY DEF Collected
    <2>2. sent \o g.trades = Append(all, item)
      <3>1. \A l, m \in Seq(TradeItem) : l \o Append(m, item) = Append(l \o m, item)
        OBVIOUS
      <3>2. sent \o Append(h.trades, item) = Append(sent \o h.trades, item)
        BY <1>3, <3>1
      <3> QED
        BY <1>1, <1>4, <2>1, <3>2
    <2>3. Dated(g.trades, g.previous, g.exchange_time_utc)
      <3> SUFFICES ASSUME NEW k \in 1 .. Len(g.trades)
                   PROVE  /\ g.trades[k].symbol = g.previous
                          /\ g.trades[k].timestamp <= g.exchange_time_utc
        BY DEF Dated
      <3>1. CASE k = Len(h.trades) + 1
        BY <1>1, <1>2, <1>3, <1>4, <3>1
      <3>2. CASE k # Len(h.trades) + 1
        <4>1. k \in 1 .. Len(h.trades) /\ g.trades[k] = h.trades[k]
          BY <1>1, <1>3, <1>4, <3>2
        <4>2. /\ h.trades[k].symbol = h.previous
              /\ h.trades[k].timestamp <= h.exchange_time_utc
          BY <4>1 DEF Collected, Dated
        <4>3. h.trades[k].timestamp \in Nat
          <5>1. h.trades[k] \in TradeItem
            BY <1>3, <4>1
          <5> QED
            BY <5>1, FeedBounds DEF TradeItem
        <4> QED
          BY <1>1, <1>2, <1>4, <4>1, <4>2, <4>3
      <3> QED
        BY <3>1, <3>2
    <2>4. Follows(g.out, g.previous, g.exchange_time_utc)
      <3>1. h.out # <<>> => h.out[Len(h.out)].exchange_time_utc \in Nat
        <4>1. h.out # <<>> => h.out[Len(h.out)] \in Summaries
          BY <1>3
        <4> QED
          BY <4>1 DEF Summaries
      <3> QED
        BY <1>1, <1>2, <1>4, <3>1 DEF Collected, Follows
    <2>5. g.trades # <<>> /\ Ordered(g.out)
      BY <1>1, <1>3, <1>4 DEF Collected
    <2> QED
      BY <1>1, <1>4, <2>1, <2>2, <2>3, <2>4, <2>5 DEF Collected, g
  <1>5. CASE item.symbol # h.previous
    <2>1. /\ Joined(TradeItem, TradesOf(g.out), all) /\ Ordered(g.out)
          /\ g.out # <<>> => /\ g.out[Len(g.out)].symbol = h.previous
                             /\ g.out[Len(g.out)].exchange_time_utc = h.exchange_time_utc
      BY <1>1, <1>5, DispatchCollected
    <2>2. all \o g.trades = Append(all, item)
      <3>1. all \o <<item>> = Append(all, item)
        OBVIOUS
      <3> QED
        BY <1>1, <1>5, <3>1
    <2>3. Dated(g.trades, g.previous, g.exchange_time_utc)
      BY <1>1, <1>2, <1>5 DEF Dated
    <2>4. Follows(g.out, g.previous, g.exchange_time_utc)
      BY <1>1, <1>2, <1>5, <2>1 DEF Follows
    <2>5. g.trades # <<>>
      <3>1. <<item>> # <<>>
        OBVIOUS
      <3> QED
        BY <1>1, <1>5, <3>1
    <2> QED
      BY <2>1, <2>2, <2>3, <2>4, <2>5 DEF Collected, g
  <1> QED
    BY <1>4, <1>5

LEMMA InitCollected == Collected(NoTrades, <<>>)
  <1>1. TradesOf(<<>>) = <<>>
    BY DEF TradesOf
  <1>2. Joined(TradeItem, TradesOf(<<>>), <<>>)
    BY <1>1, JoinedNothing
  <1>3. Ordered(<<>>) /\ Dated(<<>>, NoSymbol, 0)
    BY DEF Ordered, Dated
  <1>4. /\ <<>> \in Seq(TradeItem) /\ <<>> \o <<>> = <<>>
        /\ NoTrades.out = <<>> /\ NoTrades.trades = <<>>
        /\ NoTrades.previous = NoSymbol /\ NoTrades.exchange_time_utc = 0
    BY DEF NoTrades
  <1>5. \E sent \in Seq(TradeItem) :
           Joined(TradeItem, TradesOf(<<>>), sent) /\ sent \o <<>> = <<>>
    BY <1>2, <1>4
  <1> QED
    BY <1>3, <1>4, <1>5 DEF Collected, Follows

(* Every message goes out complete and in order. *)
LEMMA SummariesSent ==
  ASSUME NEW data \in Seq(TradeItem)
  PROVE  /\ TradeSummaries(data) \in Seq(Summaries)
         /\ Joined(TradeItem, TradesOf(TradeSummaries(data)), data)
         /\ Ordered(TradeSummaries(data))
  <1>1. PICK acc \in [0 .. Len(data) -> Handlers] :
           /\ acc[0] = NoTrades
           /\ \A i \in 1 .. Len(data) : acc[i] = Collect(acc[i - 1], data[i])
           /\ TradeSummaries(data) = Dispatch(acc[Len(data)]).out
    BY CollectSteps
  <1> DEFINE n == Len(data)
             K == {k \in Nat : k <= n => Collected(acc[k], SubSeq(data, 1, k))}
  <1>2. 0 \in K
    <2>1. SubSeq(data, 1, 0) = <<>>
      OBVIOUS
    <2> QED
      BY <1>1, <2>1, InitCollected
  <1>3. ASSUME NEW k \in Nat, k \in K
        PROVE  k + 1 \in K
    <2> SUFFICES ASSUME k + 1 <= n
                 PROVE  Collected(acc[k + 1], SubSeq(data, 1, k + 1))
      OBVIOUS
    <2>1. /\ k + 1 \in 1 .. n /\ (k + 1) - 1 = k /\ k \in 0 .. n
          /\ acc[k] \in Handlers /\ data[k + 1] \in TradeItem
          /\ SubSeq(data, 1, k) \in Seq(TradeItem)
      OBVIOUS
    <2>2. Collected(acc[k], SubSeq(data, 1, k))
      BY <1>3, <2>1
    <2>3. acc[k + 1] = Collect(acc[k], data[k + 1])
      BY <1>1, <2>1
    <2>4. SubSeq(data, 1, k + 1) = Append(SubSeq(data, 1, k), data[k + 1])
      BY <2>1
    <2> QED
      BY <2>1, <2>2, <2>3, <2>4, CollectCollected
  <1>4. Nat \subseteq K
    <2>1. \A k \in Nat : k \in K => k + 1 \in K
      BY <1>3
    <2> HIDE DEF K
    <2> QED
      BY <1>2, <2>1, NatSetInduction
  <1>5. Collected(acc[n], data) /\ acc[n] \in Handlers
    <2>1. n \in Nat /\ SubSeq(data, 1, n) = data /\ n \in 0 .. n
      OBVIOUS
    <2> QED
      BY <1>4, <2>1
  <1>6. Dispatch(acc[n]).out \in Seq(Summaries)
    BY <1>5, DispatchType DEF Handlers
  <1> QED
    BY <1>1, <1>5, <1>6, DispatchCollected

----------------------------------------------------------------------------
(* The book messages *)

(* The books that are sent, and the state of the handler. *)
Updates == [symbol : Symbol, bids : Seq(Nat), asks : Seq(Nat)]

BookHandlers == [bids : {<<>>}, asks : {<<>>}, price_level : Nat, out : Seq(Updates)]

Identity(m) == [i \in 1 .. m |-> i]

LEMMA PriceLevelsType ==
  ASSUME NEW from \in Nat, NEW n \in Nat
  PROVE  /\ PriceLevels(from, n) \in Seq(Nat)
         /\ Len(PriceLevels(from, n)) = n
         /\ \A i \in 1 .. n : PriceLevels(from, n)[i] = from + i
         /\ PriceLevels(from, n) = <<>> <=> n = 0
  <1>1. PriceLevels(from, n) \in [1 .. n -> Nat]
    BY DEF PriceLevels
  <1>2. PriceLevels(from, n) \in Seq(Nat) /\ Len(PriceLevels(from, n)) = n
    BY <1>1
  <1>3. \A i \in 1 .. n : PriceLevels(from, n)[i] = from + i
    BY DEF PriceLevels
  <1> QED
    BY <1>2, <1>3

(* The numbers of a book's levels follow those before. *)
LEMMA NumbersFollow ==
  ASSUME NEW m \in Nat, NEW b \in Nat, NEW a \in Nat
  PROVE  /\ Identity(m) \in Seq(Nat)
         /\ PriceLevels(m, b) \o PriceLevels(m + b, a) \in Seq(Nat)
         /\ Identity(m) \o (PriceLevels(m, b) \o PriceLevels(m + b, a))
               = Identity(m + b + a)
  <1> DEFINE B == PriceLevels(m, b)
             A == PriceLevels(m + b, a)
             I == Identity(m)
             J == Identity(m + b + a)
  <1>1. m + b \in Nat /\ m + b + a \in Nat
    OBVIOUS
  <1>2. /\ B \in Seq(Nat) /\ Len(B) = b
        /\ \A i \in 1 .. b : B[i] = m + i
    BY PriceLevelsType
  <1>3. /\ A \in Seq(Nat) /\ Len(A) = a
        /\ \A i \in 1 .. a : A[i] = (m + b) + i
    BY <1>1, PriceLevelsType
  <1>4. /\ I \in Seq(Nat) /\ Len(I) = m
        /\ \A i \in 1 .. m : I[i] = i
    BY DEF Identity
  <1>5. /\ J \in Seq(Nat) /\ Len(J) = m + b + a
        /\ \A i \in 1 .. m + b + a : J[i] = i
    BY <1>1 DEF Identity
  <1> DEFINE R == B \o A
             L == I \o R
  <1> HIDE DEF A, B, I, J
  <1>6. /\ R \in Seq(Nat) /\ Len(R) = b + a
        /\ \A i \in 1 .. b + a : R[i] = IF i <= b THEN B[i] ELSE A[i - b]
    <2>1. R \in Seq(Nat) /\ Len(R) = Len(B) + Len(A)
      BY <1>2, <1>3, ConcatProperties
    <2>2. \A i \in 1 .. Len(B) + Len(A) : R[i] = IF i <= Len(B) THEN B[i] ELSE A[i - Len(B)]
      BY <1>2, <1>3, ConcatProperties
    <2> HIDE DEF R
    <2> QED
      BY <1>2, <1>3, <2>1, <2>2
  <1> HIDE DEF R
  <1>7. /\ L \in Seq(Nat) /\ Len(L) = m + (b + a)
        /\ \A i \in 1 .. m + (b + a) : L[i] = IF i <= m THEN I[i] ELSE R[i - m]
    BY <1>4, <1>6
  <1> HIDE DEF L
  <1>8. ASSUME NEW i \in 1 .. m + b + a
        PROVE  L[i] = i
    <2>1. i \in 1 .. m + (b + a)
      OBVIOUS
    <2>2. CASE i <= m
      BY <1>4, <1>7, <2>1, <2>2
    <2>3. CASE m < i /\ i <= m + b
      <3>1. i - m \in 1 .. b /\ i - m \in 1 .. b + a /\ i - m <= b /\ m + (i - m) = i
        BY <2>3
      <3>2. R[i - m] = B[i - m] /\ B[i - m] = i
        BY <1>2, <1>6, <3>1
      <3> QED
        BY <1>7, <2>1, <2>3, <3>2
    <2>4. CASE m + b < i
      <3>1. /\ i - m \in 1 .. b + a /\ ~ i - m <= b /\ (i - m) - b \in 1 .. a
            /\ (m + b) + ((i - m) - b) = i
        BY <2>4
      <3>2. R[i - m] = A[(i - m) - b] /\ A[(i - m) - b] = i
        BY <1>3, <1>6, <3>1
      <3> QED
        BY <1>7, <2>1, <2>4, <3>2
    <2> QED
      BY <2>2, <2>3, <2>4
  <1>9. L = J
    <2>1. m + (b + a) = m + b + a
      OBVIOUS
    <2>2. Len(L) = Len(J) /\ \A i \in 1 .. Len(L) : L[i] = J[i]
      BY <1>5, <1>7, <1>8, <2>1
    <2> QED
      BY <1>5, <1>7, <2>2, SeqEqual
  <1> QED
    BY <1>4, <1>6, <1>9 DEF A, B, I, J, R, L

(* A book goes out as one update, or has no levels. *)
LEMMA UpdateTyped ==
  ASSUME NEW h \in BookHandlers, NEW item \in BookItem
  PROVE  /\ item.bids \in Nat /\ item.asks \in Nat
         /\ Update(h, item) \in BookHandlers
         /\ item.bids + item.asks = 0 => Update(h, item) = h
         /\ item.bids + item.asks > 0 =>
               /\ Update(h, item).price_level = h.price_level + item.bids + item.asks
               /\ Update(h, item).out =
                     Append(h.out, [symbol |-> item.symbol,
                                    bids |-> PriceLevels(h.price_level, item.bids),
                                    asks |-> PriceLevels(h.price_level + item.bids, item.asks)])
  <1>1. item.symbol \in Symbol /\ item.bids \in Nat /\ item.asks \in Nat
    BY FeedBounds DEF BookItem
  <1>2. /\ h.bids = <<>> /\ h.asks = <<>> /\ h.price_level \in Nat
        /\ h.out \in Seq(Updates)
    BY DEF BookHandlers
  <1> DEFINE bids == PriceLevels(h.price_level, item.bids)
             asks == PriceLevels(h.price_level + item.bids, item.asks)
             s == [symbol |-> item.symbol, bids |-> bids, asks |-> asks]
  <1>3. /\ bids \in Seq(Nat) /\ asks \in Seq(Nat)
        /\ bids = <<>> <=> item.bids = 0
        /\ asks = <<>> <=> item.asks = 0
    <2>1. h.price_level + item.bids \in Nat
      BY <1>1, <1>2
    <2> QED
      BY <1>1, <1>2, <2>1, PriceLevelsType
  <1>4. h.bids \o bids = bids /\ h.asks \o asks = asks
    BY <1>2, <1>3
  <1> HIDE DEF bids, asks
  <1>5. Update(h, item) =
          IF bids = <<>> /\ asks = <<>> THEN h
          ELSE [bids |-> <<>>, asks |-> <<>>,
                price_level |-> h.price_level + item.bids + item.asks,
                out |-> Append(h.out, s)]
    BY <1>4 DEF Update, bids, asks
  <1>6. s \in Updates
    BY <1>1, <1>3 DEF Updates
  <1> HIDE DEF s
  <1>7. /\ Append(h.out, s) \in Seq(Updates)
        /\ h.price_level + item.bids + item.asks \in Nat
    BY <1>1, <1>2, <1>6
  <1>8. CASE item.bids + item.asks = 0
    <2>1. bids = <<>> /\ asks = <<>>
      BY <1>1, <1>3, <1>8
    <2>2. Update(h, item) = h
      BY <1>5, <2>1
    <2> QED
      BY <1>1, <1>8, <2>2
  <1>9. CASE item.bids + item.asks > 0
    <2>1. ~ (bids = <<>> /\ asks = <<>>)
      BY <1>1, <1>3, <1>9
    <2>2. Update(h, item) = [bids |-> <<>>, asks |-> <<>>,
                             price_level |-> h.price_level + item.bids + item.asks,
                             out |-> Append(h.out, s)]
      BY <1>5, <2>1
    <2>3. Update(h, item) \in BookHandlers
      BY <1>7, <2>2 DEF BookHandlers
    <2> QED
      BY <1>1, <1>9, <2>2, <2>3 DEF s, bids, asks
  <1> QED
    BY <1>1, <1>8, <1>9

(* The books of a message are updated one after the other. *)
LEMMA UpdateSteps ==
  ASSUME NEW data \in Seq(BookItem)
  PROVE  \E acc \in [0 .. Len(data) -> BookHandlers] :
           /\ acc[0] = NoBook
           /\ \A i \in 1 .. Len(data) : acc[i] = Update(acc[i - 1], data[i])
           /\ BookUpdates(data) = acc[Len(data)].out
  <1> DEFINE n == Len(data)
             step == [p \in BookHandlers \X (1 .. n) |-> Update(p[1], data[p[2]])]
             iter == CHOOSE g : g = [s \in SUBSET (DOMAIN data) |->
                        IF s = {} THEN NoBook
                        ELSE LET x == Max(s) IN Update(g[s \ {x}], data[x])]
  <1>1. BookUpdates(data) = iter[DOMAIN data].out
    BY DEF BookUpdates, FoldLeft, MapThenFoldSet
  <1>2. n \in Nat /\ DOMAIN data = 1 .. n /\ \A i \in 1 .. n : data[i] \in BookItem
    OBVIOUS
  <1>3. NoBook \in BookHandlers
    BY DEF NoBook, BookHandlers
  <1> HIDE DEF n
  <1>4. step \in [BookHandlers \X (1 .. n) -> BookHandlers]
    BY <1>2, UpdateTyped
  <1>5. \A v \in BookHandlers : \A i \in 1 .. n : step[<<v, i>>] = Update(v, data[i])
    OBVIOUS
  <1> HIDE DEF step
  <1>6. PICK f \in [SUBSET (1 .. n) -> BookHandlers] : IsFold(f, n, NoBook, step)
    BY <1>2, <1>3, <1>4, FoldExists
  <1>7. \A s \in SUBSET (1 .. n) : s # {} => Max(s) \in 1 .. n /\ s \ {Max(s)} \in SUBSET (1 .. n)
    BY <1>2, MaxExists
  <1>8. \A s \in SUBSET (1 .. n) : s # {} =>
           step[<<f[s \ {Max(s)}], Max(s)>>] = Update(f[s \ {Max(s)}], data[Max(s)])
    BY <1>5, <1>6, <1>7
  <1>9. f = [s \in SUBSET (1 .. n) |->
               IF s = {} THEN NoBook ELSE Update(f[s \ {Max(s)}], data[Max(s)])]
    BY <1>6, <1>8 DEF IsFold
  <1>10. iter = [s \in SUBSET (1 .. n) |->
                   IF s = {} THEN NoBook ELSE Update(iter[s \ {Max(s)}], data[Max(s)])]
    BY <1>2, <1>9
  <1> HIDE DEF iter
  <1>11. Folds(iter, n, BookHandlers, NoBook, step)
    <2>1. iter[{}] = NoBook
      BY <1>10
    <2>2. \A s \in SUBSET (1 .. n) :
             s # {} /\ iter[s \ {Max(s)}] \in BookHandlers =>
                iter[s] = step[<<iter[s \ {Max(s)}], Max(s)>>]
      BY <1>5, <1>7, <1>10
    <2> QED
      BY <2>1, <2>2 DEF Folds
  <1>12. PICK acc \in [0 .. n -> BookHandlers] : Run(acc, n, NoBook, step, iter[1 .. n])
    BY <1>2, <1>3, <1>4, <1>11, FoldSteps
  <1>13. /\ acc[0] = NoBook
         /\ \A i \in 1 .. n : acc[i] = step[<<acc[i - 1], i>>]
         /\ acc[n] = iter[1 .. n]
    BY <1>12 DEF Run
  <1>14. \A i \in 1 .. n : acc[i] = Update(acc[i - 1], data[i])
    <2>1. \A i \in 1 .. n : i - 1 \in 0 .. n
      BY <1>2
    <2> QED
      BY <1>5, <1>13, <2>1
  <1> QED
    BY <1>1, <1>2, <1>13, <1>14 DEF n

(* The books that have levels. *)
Select(s, b) == IF b.bids + b.asks > 0 THEN Append(s, b) ELSE s

LEMMA SelectType ==
  ASSUME NEW s \in Seq(BookItem), NEW b \in BookItem
  PROVE  Select(s, b) \in Seq(BookItem)
  BY DEF Select

(* They are selected one after the other. *)
LEMMA SelectSteps ==
  ASSUME NEW data \in Seq(BookItem)
  PROVE  \E acc \in [0 .. Len(data) -> Seq(BookItem)] :
           /\ acc[0] = <<>>
           /\ \A i \in 1 .. Len(data) : acc[i] = Select(acc[i - 1], data[i])
           /\ FoldLeft(Select, <<>>, data) = acc[Len(data)]
  <1> DEFINE n == Len(data)
             step == [p \in Seq(BookItem) \X (1 .. n) |-> Select(p[1], data[p[2]])]
             iter == CHOOSE g : g = [s \in SUBSET (DOMAIN data) |->
                        IF s = {} THEN <<>>
                        ELSE LET x == Max(s) IN Select(g[s \ {x}], data[x])]
  <1>1. FoldLeft(Select, <<>>, data) = iter[DOMAIN data]
    BY DEF FoldLeft, MapThenFoldSet
  <1>2. n \in Nat /\ DOMAIN data = 1 .. n /\ \A i \in 1 .. n : data[i] \in BookItem
    OBVIOUS
  <1>3. <<>> \in Seq(BookItem)
    OBVIOUS
  <1> HIDE DEF n
  <1>4. step \in [Seq(BookItem) \X (1 .. n) -> Seq(BookItem)]
    BY <1>2, SelectType
  <1>5. \A v \in Seq(BookItem) : \A i \in 1 .. n : step[<<v, i>>] = Select(v, data[i])
    OBVIOUS
  <1> HIDE DEF step
  <1>6. PICK f \in [SUBSET (1 .. n) -> Seq(BookItem)] : IsFold(f, n, <<>>, step)
    BY <1>2, <1>3, <1>4, FoldExists
  <1>7. \A s \in SUBSET (1 .. n) : s # {} => Max(s) \in 1 .. n /\ s \ {Max(s)} \in SUBSET (1 .. n)
    BY <1>2, MaxExists
  <1>8. \A s \in SUBSET (1 .. n) : s # {} =>
           step[<<f[s \ {Max(s)}], Max(s)>>] = Select(f[s \ {Max(s)}], data[Max(s)])
    BY <1>5, <1>6, <1>7
  <1>9. f = [s \in SUBSET (1 .. n) |->
               IF s = {} THEN <<>> ELSE Select(f[s \ {Max(s)}], data[Max(s)])]
    BY <1>6, <1>8 DEF IsFold
  <1>10. iter = [s \in SUBSET (1 .. n) |->
                   IF s = {} THEN <<>> ELSE Select(iter[s \ {Max(s)}], data[Max(s)])]
    BY <1>2, <1>9
  <1> HIDE DEF iter
  <1>11. Folds(iter, n, Seq(BookItem), <<>>, step)
    <2>1. iter[{}] = <<>>
      BY <1>10
    <2>2. \A s \in SUBSET (1 .. n) :
             s # {} /\ iter[s \ {Max(s)}] \in Seq(BookItem) =>
                iter[s] = step[<<iter[s \ {Max(s)}], Max(s)>>]
      BY <1>5, <1>7, <1>10
    <2> QED
      BY <2>1, <2>2 DEF Folds
  <1>12. PICK acc \in [0 .. n -> Seq(BookItem)] : Run(acc, n, <<>>, step, iter[1 .. n])
    BY <1>2, <1>3, <1>4, <1>11, FoldSteps
  <1>13. /\ acc[0] = <<>>
         /\ \A i \in 1 .. n : acc[i] = step[<<acc[i - 1], i>>]
         /\ acc[n] = iter[1 .. n]
    BY <1>12 DEF Run
  <1>14. \A i \in 1 .. n : acc[i] = Select(acc[i - 1], data[i])
    <2>1. \A i \in 1 .. n : i - 1 \in 0 .. n
      BY <1>2
    <2> QED
      BY <1>5, <1>13, <2>1
  <1> QED
    BY <1>1, <1>2, <1>13, <1>14 DEF n

(* The updates sent: the sizes of each, and the numbers of its levels. *)
SizesOf(out) == [j \in 1 .. Len(out) |-> [symbol |-> out[j].symbol,
                                         bids |-> Len(out[j].bids),
                                         asks |-> Len(out[j].asks)]]

LevelsOf(out) == [j \in 1 .. Len(out) |-> out[j].bids \o out[j].asks]

LEMMA LevelsOfType ==
  ASSUME NEW out \in Seq(Updates)
  PROVE  LevelsOf(out) \in Seq(Seq(Nat)) /\ Len(LevelsOf(out)) = Len(out)
  <1>1. ASSUME NEW j \in 1 .. Len(out)
        PROVE  out[j].bids \o out[j].asks \in Seq(Nat)
    <2>1. out[j] \in Updates
      OBVIOUS
    <2>2. out[j].bids \in Seq(Nat) /\ out[j].asks \in Seq(Nat)
      BY <2>1 DEF Updates
    <2> QED
      BY <2>2
  <1> QED
    BY <1>1 DEF LevelsOf

(* The state of the handler after these books have been sent. *)
Updated(h, sent) ==
    /\ SizesOf(h.out) = sent
    /\ Joined(Nat, LevelsOf(h.out), Identity(h.price_level))

LEMMA InitUpdated == Updated(NoBook, <<>>)
  <1>1. /\ NoBook.out = <<>> /\ NoBook.price_level = 0
        /\ SizesOf(<<>>) = <<>> /\ LevelsOf(<<>>) = <<>> /\ Identity(0) = <<>>
    BY DEF NoBook, SizesOf, LevelsOf, Identity
  <1> QED
    BY <1>1, JoinedNothing DEF Updated

(* The books sent so far stay complete with one more. *)
LEMMA UpdateUpdated ==
  ASSUME NEW h \in BookHandlers, NEW sent \in Seq(BookItem), Updated(h, sent),
         NEW item \in BookItem
  PROVE  Updated(Update(h, item), Select(sent, item))
  <1> DEFINE bids == PriceLevels(h.price_level, item.bids)
             asks == PriceLevels(h.price_level + item.bids, item.asks)
             s == [symbol |-> item.symbol, bids |-> bids, asks |-> asks]
             next == Append(h.out, s)
  <1>1. /\ item.bids \in Nat /\ item.asks \in Nat
        /\ h.price_level \in Nat /\ h.out \in Seq(Updates)
        /\ item = [symbol |-> item.symbol, bids |-> item.bids, asks |-> item.asks]
        /\ item.symbol \in Symbol
    BY UpdateTyped DEF BookItem, BookHandlers
  <1>2. CASE item.bids + item.asks = 0
    <2>1. Update(h, item) = h
      BY <1>2, UpdateTyped
    <2>2. ~ item.bids + item.asks > 0
      BY <1>1, <1>2
    <2>3. Select(sent, item) = sent
      BY <2>2 DEF Select
    <2> QED
      BY <2>1, <2>3
  <1>3. CASE item.bids + item.asks > 0
    <2>1. /\ Update(h, item).out = next
          /\ Update(h, item).price_level = h.price_level + item.bids + item.asks
          /\ Select(sent, item) = Append(sent, item)
      BY <1>3, UpdateTyped DEF Select
    <2>2. /\ bids \in Seq(Nat) /\ Len(bids) = item.bids
          /\ asks \in Seq(Nat) /\ Len(asks) = item.asks
      <3>1. h.price_level + item.bids \in Nat
        BY <1>1
      <3> QED
        BY <1>1, <3>1, PriceLevelsType
    <2>3. /\ Identity(h.price_level) \in Seq(Nat)
          /\ bids \o asks \in Seq(Nat)
          /\ Identity(h.price_level) \o (bids \o asks)
                = Identity(h.price_level + item.bids + item.asks)
      BY <1>1, NumbersFollow
    <2> HIDE DEF bids, asks
    <2>4. s \in Updates /\ s.symbol = item.symbol /\ s.bids = bids /\ s.asks = asks
      BY <1>1, <2>2 DEF Updates
    <2> HIDE DEF s
    <2>5. SizesOf(next) = Append(sent, item)
      <3>1. /\ Len(h.out) \in Nat /\ Len(next) = Len(h.out) + 1
            /\ next[Len(h.out) + 1] = s
            /\ \A j \in 1 .. Len(h.out) : next[j] = h.out[j]
        BY <1>1
      <3> HIDE DEF next
      <3>2. /\ Len(sent) = Len(h.out)
            /\ \A j \in 1 .. Len(h.out) :
                  sent[j] = [symbol |-> h.out[j].symbol, bids |-> Len(h.out[j].bids),
                             asks |-> Len(h.out[j].asks)]
        BY <3>1 DEF Updated, SizesOf
      <3>3. /\ Append(sent, item) = [j \in 1 .. Len(h.out) + 1 |-> Append(sent, item)[j]]
            /\ Append(sent, item)[Len(h.out) + 1] = item
            /\ \A j \in 1 .. Len(h.out) : Append(sent, item)[j] = sent[j]
        <4>1. /\ Append(sent, item) \in Seq(BookItem)
              /\ Len(Append(sent, item)) = Len(sent) + 1
              /\ Append(sent, item)[Len(sent) + 1] = item
              /\ \A j \in 1 .. Len(sent) : Append(sent, item)[j] = sent[j]
          BY AppendProperties
        <4>2. \A q \in Seq(BookItem) : q = [j \in 1 .. Len(q) |-> q[j]]
          OBVIOUS
        <4>3. Append(sent, item) = [j \in 1 .. Len(sent) + 1 |-> Append(sent, item)[j]]
          BY <4>1, <4>2
        <4> QED
          BY <3>2, <4>1, <4>3
      <3>4. ASSUME NEW j \in 1 .. Len(h.out) + 1
            PROVE  Append(sent, item)[j]
                      = [symbol |-> next[j].symbol, bids |-> Len(next[j].bids),
                         asks |-> Len(next[j].asks)]
        <4>1. CASE j = Len(h.out) + 1
          BY <1>1, <2>2, <2>4, <3>1, <3>3, <4>1
        <4>2. CASE j # Len(h.out) + 1
          <5>1. j \in 1 .. Len(h.out)
            BY <3>1, <4>2
          <5> QED
            BY <3>1, <3>2, <3>3, <5>1
        <4> QED
          BY <4>1, <4>2
      <3> QED
        BY <3>1, <3>3, <3>4 DEF SizesOf
    <2>6. LevelsOf(next) = Append(LevelsOf(h.out), bids \o asks)
      <3>1. LevelsOf(h.out) \in Seq(Seq(Nat)) /\ Len(LevelsOf(h.out)) = Len(h.out)
        BY <1>1, LevelsOfType
      <3>2. /\ Len(h.out) \in Nat /\ Len(next) = Len(h.out) + 1
            /\ next[Len(h.out) + 1] = s
            /\ \A j \in 1 .. Len(h.out) : next[j] = h.out[j]
        BY <1>1
      <3> HIDE DEF next
      <3> DEFINE q == Append(LevelsOf(h.out), bids \o asks)
      <3>3. /\ q = [j \in 1 .. Len(h.out) + 1 |-> q[j]]
            /\ q[Len(h.out) + 1] = bids \o asks
            /\ \A j \in 1 .. Len(h.out) : q[j] = LevelsOf(h.out)[j]
        BY <2>3, <3>1, AppendProperties
      <3>4. \A j \in 1 .. Len(h.out) : LevelsOf(h.out)[j] = h.out[j].bids \o h.out[j].asks
        BY DEF LevelsOf
      <3> HIDE DEF q
      <3>5. ASSUME NEW j \in 1 .. Len(h.out) + 1
            PROVE  q[j] = next[j].bids \o next[j].asks
        <4>1. CASE j = Len(h.out) + 1
          BY <2>4, <3>2, <3>3, <4>1
        <4>2. CASE j # Len(h.out) + 1
          <5>1. j \in 1 .. Len(h.out)
            BY <3>2, <4>2
          <5> QED
            BY <3>2, <3>3, <3>4, <5>1
        <4> QED
          BY <4>1, <4>2
      <3> QED
        BY <3>2, <3>3, <3>5 DEF LevelsOf, q
    <2>7. Joined(Nat, LevelsOf(next), Identity(h.price_level + item.bids + item.asks))
      <3>1. LevelsOf(h.out) \in Seq(Seq(Nat))
        BY <1>1, LevelsOfType
      <3>2. Joined(Nat, LevelsOf(h.out), Identity(h.price_level))
        BY DEF Updated
      <3> QED
        BY <2>3, <2>6, <3>1, <3>2, JoinedAppend
    <2> QED
      BY <2>1, <2>5, <2>7 DEF Updated
  <1> QED
    BY <1>1, <1>2, <1>3

(* Every book that has levels is sent, under consecutive numbers. *)
LEMMA UpdatesSent ==
  ASSUME NEW data \in Seq(BookItem)
  PROVE  \E m \in Nat :
           /\ BookUpdates(data) \in Seq(Updates)
           /\ SizesOf(BookUpdates(data)) = FoldLeft(Select, <<>>, data)
           /\ Joined(Nat, LevelsOf(BookUpdates(data)), Identity(m))
  <1>1. PICK acc \in [0 .. Len(data) -> BookHandlers] :
           /\ acc[0] = NoBook
           /\ \A i \in 1 .. Len(data) : acc[i] = Update(acc[i - 1], data[i])
           /\ BookUpdates(data) = acc[Len(data)].out
    BY UpdateSteps
  <1>2. PICK sel \in [0 .. Len(data) -> Seq(BookItem)] :
           /\ sel[0] = <<>>
           /\ \A i \in 1 .. Len(data) : sel[i] = Select(sel[i - 1], data[i])
           /\ FoldLeft(Select, <<>>, data) = sel[Len(data)]
    BY SelectSteps
  <1> DEFINE n == Len(data)
             K == {k \in Nat : k <= n => Updated(acc[k], sel[k])}
  <1>3. 0 \in K
    BY <1>1, <1>2, InitUpdated
  <1>4. ASSUME NEW k \in Nat, k \in K
        PROVE  k + 1 \in K
    <2> SUFFICES ASSUME k + 1 <= n
                 PROVE  Updated(acc[k + 1], sel[k + 1])
      OBVIOUS
    <2>1. /\ k + 1 \in 1 .. n /\ (k + 1) - 1 = k /\ k \in 0 .. n
          /\ acc[k] \in BookHandlers /\ sel[k] \in Seq(BookItem)
          /\ data[k + 1] \in BookItem
      OBVIOUS
    <2>2. Updated(acc[k], sel[k])
      BY <1>4, <2>1
    <2>3. acc[k + 1] = Update(acc[k], data[k + 1]) /\ sel[k + 1] = Select(sel[k], data[k + 1])
      BY <1>1, <1>2, <2>1
    <2> QED
      BY <2>1, <2>2, <2>3, UpdateUpdated
  <1>5. Nat \subseteq K
    <2>1. \A k \in Nat : k \in K => k + 1 \in K
      BY <1>4
    <2> HIDE DEF K
    <2> QED
      BY <1>3, <2>1, NatSetInduction
  <1>6. n \in Nat /\ n \in 0 .. n
    OBVIOUS
  <1>7. Updated(acc[n], sel[n]) /\ acc[n] \in BookHandlers
    BY <1>5, <1>6
  <1>8. acc[n].out \in Seq(Updates) /\ acc[n].price_level \in Nat
    BY <1>7 DEF BookHandlers
  <1> QED
    BY <1>1, <1>2, <1>7, <1>8 DEF Updated

----------------------------------------------------------------------------
(* A message, as long as it is collected. *)
FeedIInv == trades \in Seq(TradeItem) /\ books \in Seq(BookItem)

(* What is collected is a message. *)
LEMMA FeedInvariance == FeedSpec => []FeedIInv
  <1>1. FeedInit => FeedIInv
    BY DEF FeedInit, FeedIInv
  <1>2. FeedIInv /\ [FeedNext]_feedVars => FeedIInv'
    <2> SUFFICES ASSUME FeedIInv, [FeedNext]_feedVars PROVE FeedIInv'
      OBVIOUS
    <2>1. CASE MoreTrades
      <3>1. PICK item \in TradeItem : trades' = Append(trades, item)
        BY <2>1 DEF MoreTrades
      <3>2. Append(trades, item) \in Seq(TradeItem)
        BY DEF FeedIInv
      <3> QED
        BY <2>1, <3>1, <3>2 DEF FeedIInv, MoreTrades
    <2>2. CASE MoreBooks
      <3>1. PICK item \in BookItem : books' = Append(books, item)
        BY <2>2 DEF MoreBooks
      <3>2. Append(books, item) \in Seq(BookItem)
        BY DEF FeedIInv
      <3> QED
        BY <2>2, <3>1, <3>2 DEF FeedIInv, MoreBooks
    <2>3. CASE UNCHANGED feedVars
      BY <2>3 DEF FeedIInv, feedVars
    <2> QED
      BY <2>1, <2>2, <2>3 DEF FeedNext
  <1> QED
    BY <1>1, <1>2, PTL DEF FeedSpec

(* A trade message goes out complete and in order, whatever its trades. *)
THEOREM TradesCorrect == FeedSpec => []TradesComplete
  <1>1. FeedIInv => TradesComplete
    <2> SUFFICES ASSUME FeedIInv PROVE TradesComplete
      OBVIOUS
    <2> DEFINE out == TradeSummaries(trades)
    <2>1. out \in Seq(Summaries) /\ Joined(TradeItem, TradesOf(out), trades) /\ Ordered(out)
      BY SummariesSent DEF FeedIInv
    <2> HIDE DEF out
    <2>2. DOMAIN out = 1 .. Len(out) /\ Len(out) \in Nat
      BY <2>1
    <2>3. TradesOf(out) \in Seq(Seq(TradeItem)) /\ Len(TradesOf(out)) = Len(out)
      <3>1. \A i \in 1 .. Len(out) : out[i].trades \in Seq(TradeItem)
        BY <2>1, <2>2, SummaryTrades
      <3> QED
        BY <2>2, <3>1 DEF TradesOf
    <2>4. FlattenSeq(TradesOf(out)) = trades
      BY <2>1, <2>3, FlattenJoined
    <2>5. FlattenSeq([i \in DOMAIN out |-> out[i].trades]) = trades
      BY <2>2, <2>4 DEF TradesOf
    <2>6. ASSUME NEW i \in DOMAIN out
          PROVE  /\ out[i].trades # <<>>
                 /\ \A t \in ToSet(out[i].trades) : t.symbol = out[i].symbol
                 /\ i > 1 => out[i].symbol # out[i - 1].symbol
      <3>1. out[i].trades \in Seq(TradeItem)
        BY <2>1, <2>2, SummaryTrades
      <3>2. out[i].trades # <<>> /\ Dated(out[i].trades, out[i].symbol, out[i].exchange_time_utc)
        BY <2>1, <2>2 DEF Ordered
      <3>3. \A t \in ToSet(out[i].trades) : t.symbol = out[i].symbol
        BY <3>1, <3>2 DEF Dated, ToSet
      <3>4. i > 1 => i \in 2 .. Len(out)
        BY <2>2
      <3> QED
        BY <2>1, <3>2, <3>3, <3>4 DEF Ordered
    <2> QED
      BY <2>5, <2>6 DEF TradesComplete, out
  <1> QED
    BY <1>1, FeedInvariance, PTL

(* The time of a summary is not before its trades, nor before the last. *)
THEOREM TimesCorrect == FeedSpec => []TimesNeverReversed
  <1>1. FeedIInv => TimesNeverReversed
    <2> SUFFICES ASSUME FeedIInv PROVE TimesNeverReversed
      OBVIOUS
    <2> DEFINE out == TradeSummaries(trades)
    <2>1. out \in Seq(Summaries) /\ Ordered(out)
      BY SummariesSent DEF FeedIInv
    <2> HIDE DEF out
    <2>2. DOMAIN out = 1 .. Len(out) /\ Len(out) \in Nat
      BY <2>1
    <2>3. ASSUME NEW i \in DOMAIN out
          PROVE  /\ \A t \in ToSet(out[i].trades) : t.timestamp <= out[i].exchange_time_utc
                 /\ i > 1 => out[i - 1].exchange_time_utc <= out[i].exchange_time_utc
      <3>1. out[i].trades \in Seq(TradeItem)
        BY <2>1, <2>2, SummaryTrades
      <3>2. Dated(out[i].trades, out[i].symbol, out[i].exchange_time_utc)
        BY <2>1, <2>2 DEF Ordered
      <3>3. \A t \in ToSet(out[i].trades) : t.timestamp <= out[i].exchange_time_utc
        BY <3>1, <3>2 DEF Dated, ToSet
      <3>4. i > 1 => i \in 2 .. Len(out)
        BY <2>2
      <3> QED
        BY <2>1, <3>3, <3>4 DEF Ordered
    <2> QED
      BY <2>3 DEF TimesNeverReversed, out
  <1> QED
    BY <1>1, FeedInvariance, PTL

(* A book message goes out complete, and in order, with numbers of its own. *)
THEOREM BooksCorrect == FeedSpec => []BooksComplete
  <1>1. FeedIInv => BooksComplete
    <2> SUFFICES ASSUME FeedIInv PROVE BooksComplete
      OBVIOUS
    <2> DEFINE out == BookUpdates(books)
               select(s, b) == IF b.bids + b.asks > 0 THEN Append(s, b) ELSE s
               sent == FoldLeft(select, <<>>, books)
    <2>1. sent = FoldLeft(Select, <<>>, books)
      BY DEF FoldLeft, MapThenFoldSet, Select
    <2>2. PICK m \in Nat :
            /\ out \in Seq(Updates)
            /\ SizesOf(out) = sent
            /\ Joined(Nat, LevelsOf(out), Identity(m))
      BY <2>1, UpdatesSent DEF FeedIInv
    <2> HIDE DEF out, sent
    <2>3. DOMAIN out = 1 .. Len(out) /\ Len(out) \in Nat
      BY <2>2
    <2>4. LevelsOf(out) \in Seq(Seq(Nat))
      BY <2>2, LevelsOfType
    <2>5. FlattenSeq(LevelsOf(out)) = Identity(m)
      BY <2>2, <2>4, FlattenJoined
    <2>6. \A p \in DOMAIN Identity(m) : Identity(m)[p] = p
      BY DEF Identity
    <2>7. LevelsOf(out) = [i \in DOMAIN out |-> out[i].bids \o out[i].asks]
      BY <2>3 DEF LevelsOf
    <2>8. SizesOf(out) = [i \in DOMAIN out |-> [symbol |-> out[i].symbol,
                                               bids |-> Len(out[i].bids),
                                               asks |-> Len(out[i].asks)]]
      BY <2>3 DEF SizesOf
    <2> QED
      BY <2>2, <2>5, <2>6, <2>7, <2>8 DEF BooksComplete, out, sent
  <1> QED
    BY <1>1, FeedInvariance, PTL

----------------------------------------------------------------------------
(* The order book: one side of it *)

(* One side of a book. *)
Half(side) == [Price[side] -> Nat]

Standing(side, w, p) == {q \in Price[side] : w[q] > 0 /\ Better(side, q, p)}

Rank(side, w, p) == Cardinality(Standing(side, w, p))

(* The best part of one side. *)
Cut(side, w) == [p \in Price[side] |-> IF Rank(side, w, p) < Depth THEN w[p] ELSE 0]

(* The best part of a book is that of its sides. *)
LEMMA BestCut ==
  ASSUME NEW b
  PROVE  Best(b, Depth) = [side \in Side |-> Cut(side, b[side])]
  BY DEF Best, Cut, Rank, Standing

LEMMA PriceType ==
  ASSUME NEW side \in Side
  PROVE  Price[side] \subseteq Nat /\ IsFiniteSet(Price[side])
  <1>1. Price["bids"] = BidPrice /\ Price["asks"] = AskPrice
    BY DEF Price
  <1> QED
    BY <1>1, NumberAssumption DEF Side

(* Better is a strict order of the prices. *)
LEMMA BetterOrder ==
  ASSUME NEW side \in Side, NEW p \in Price[side], NEW q \in Price[side], NEW r \in Price[side]
  PROVE  /\ ~ Better(side, p, p)
         /\ Better(side, p, q) /\ Better(side, q, r) => Better(side, p, r)
  BY PriceType DEF Better

LEMMA RankType ==
  ASSUME NEW side \in Side, NEW w, NEW p
  PROVE  /\ IsFiniteSet(Standing(side, w, p)) /\ Rank(side, w, p) \in Nat
  <1>1. Standing(side, w, p) \subseteq Price[side] /\ IsFiniteSet(Price[side])
    BY PriceType DEF Standing
  <1>2. IsFiniteSet(Standing(side, w, p))
    BY <1>1, FS_Subset
  <1> QED
    BY <1>2, FS_CardinalityType DEF Rank

(* A better level has a lower rank. *)
LEMMA RankBelow ==
  ASSUME NEW side \in Side, NEW w, NEW p \in Price[side], NEW q \in Standing(side, w, p)
  PROVE  Rank(side, w, q) < Rank(side, w, p)
  <1>1. q \in Price[side] /\ w[q] > 0 /\ Better(side, q, p)
    BY DEF Standing
  <1>2. Standing(side, w, q) \subseteq Standing(side, w, p)
    BY <1>1, BetterOrder DEF Standing
  <1>3. q \notin Standing(side, w, q)
    BY <1>1, BetterOrder DEF Standing
  <1>4. Standing(side, w, q) # Standing(side, w, p)
    BY <1>3
  <1>5. /\ Rank(side, w, q) <= Rank(side, w, p)
        /\ Rank(side, w, q) # Rank(side, w, p)
    BY <1>2, <1>4, RankType, FS_Subset DEF Rank
  <1> QED
    BY <1>5, RankType

(* The best part of w is in z, and z is a part of w. *)
Covers(side, z, w) ==
    /\ z \in Half(side)
    /\ \A p \in Price[side] :
         /\ z[p] = 0 \/ z[p] = w[p]
         /\ Rank(side, w, p) < Depth => z[p] = w[p]

LEMMA CutCovers ==
  ASSUME NEW side \in Side, NEW w \in Half(side)
  PROVE  Covers(side, Cut(side, w), w) /\ Cut(side, w) \in Half(side)
  BY DEF Covers, Cut, Half

(* What covers a book has the same best part: a level of it that a part    *)
(* of the book lacks has a better one that is lacking too, down to one     *)
(* of the best part.                                                       *)
LEMMA CoversCut ==
  ASSUME NEW side \in Side, NEW w \in Half(side), NEW z, Covers(side, z, w)
  PROVE  Cut(side, z) = Cut(side, w)
  <1> SUFFICES ASSUME NEW p \in Price[side]
               PROVE  Cut(side, z)[p] = Cut(side, w)[p]
    BY DEF Cut
  <1> DEFINE S == Standing(side, w, p)
             T == Standing(side, z, p)
  <1>1. /\ Rank(side, w, p) \in Nat /\ Rank(side, z, p) \in Nat
        /\ IsFiniteSet(S) /\ IsFiniteSet(T) /\ Depth \in Nat
    BY RankType, NumberAssumption
  <1>2. T \subseteq S
    BY DEF Standing, Covers, Half
  <1>3. Rank(side, z, p) <= Rank(side, w, p)
    BY <1>1, <1>2, FS_Subset DEF Rank
  <1>4. CASE Rank(side, w, p) < Depth
    <2>1. Rank(side, z, p) < Depth
      BY <1>1, <1>3, <1>4
    <2> QED
      BY <1>4, <2>1 DEF Cut, Covers
  <1>5. CASE ~ Rank(side, w, p) < Depth
    <2>1. Cut(side, w)[p] = 0
      BY <1>5 DEF Cut
    <2>2. SUFFICES ASSUME Rank(side, z, p) < Depth
                   PROVE  FALSE
      BY <2>1 DEF Cut
    <2>3. S \ T # {}
      <3>1. Rank(side, z, p) # Rank(side, w, p)
        BY <1>1, <1>5, <2>2
      <3>2. S # T
        BY <3>1 DEF Rank
      <3> HIDE DEF S, T
      <3> QED
        BY <1>2, <3>2
    <2> DEFINE R == {Rank(side, w, q) : q \in S \ T}
    <2>4. R \in SUBSET Nat /\ R # {}
      BY <2>3, RankType
    <2>5. \E n \in R : \A k \in R : n <= k
      <3> HIDE DEF R
      <3> QED
        BY <2>4, LeastNumber
    <2>6. PICK q \in S \ T : \A r \in S \ T : Rank(side, w, q) <= Rank(side, w, r)
      BY <2>5
    <2>7. q \in Price[side] /\ w[q] > 0 /\ Better(side, q, p)
      BY <2>6 DEF Standing
    <2>8. Standing(side, w, q) \subseteq T
      <3> SUFFICES ASSUME NEW r \in Standing(side, w, q), r \notin T
                   PROVE  FALSE
        OBVIOUS
      <3>1. Rank(side, w, r) < Rank(side, w, q)
        BY <2>7, RankBelow
      <3>2. r \in S
        BY <2>7, BetterOrder DEF Standing
      <3>3. Rank(side, w, q) <= Rank(side, w, r)
        BY <2>6, <3>2
      <3>4. Rank(side, w, q) \in Nat /\ Rank(side, w, r) \in Nat
        BY RankType
      <3> QED
        BY <3>1, <3>3, <3>4
    <2>9. Rank(side, w, q) <= Rank(side, z, p) /\ Rank(side, w, q) \in Nat
      BY <1>1, <2>8, FS_Subset, RankType DEF Rank
    <2>10. Rank(side, w, q) < Depth
      BY <1>1, <2>2, <2>9
    <2>11. z[q] = w[q]
      BY <2>7, <2>10 DEF Covers
    <2>12. q \in T
      BY <2>7, <2>11 DEF Standing
    <2> QED
      BY <2>6, <2>12
  <1> QED
    BY <1>4, <1>5

----------------------------------------------------------------------------
(* Updates of the levels of one side. *)
LevelUpdate(side) == [price : Price[side], quantity : Nat]

SetLevel(l, u) == [l EXCEPT ![u.price] = u.quantity]

LEMMA SetLevelType ==
  ASSUME NEW side \in Side, NEW l \in Half(side), NEW u \in LevelUpdate(side)
  PROVE  /\ SetLevel(l, u) \in Half(side)
         /\ u.price \in Price[side] /\ u.quantity \in Nat
         /\ SetLevel(l, u)[u.price] = u.quantity
         /\ \A p \in Price[side] : p # u.price => SetLevel(l, u)[p] = l[p]
  <1>1. u.price \in Price[side] /\ u.quantity \in Nat
    BY DEF LevelUpdate
  <1> QED
    BY <1>1 DEF SetLevel, Half

(* The updates of a message are applied one after the other. *)
Application(acc, side, levels, b) ==
    /\ acc \in [0 .. Len(levels) -> Half(side)]
    /\ acc[0] = b
    /\ \A i \in 1 .. Len(levels) : acc[i] = SetLevel(acc[i - 1], levels[i])
    /\ Apply(levels, b) = acc[Len(levels)]

(* The fold of Apply takes the updates of a message in turn. *)
LEMMA ApplySteps ==
  ASSUME NEW side \in Side, NEW levels \in Seq(LevelUpdate(side)), NEW b \in Half(side)
  PROVE  \E acc : Application(acc, side, levels, b)
  <1> DEFINE n == Len(levels)
             step == [p \in Half(side) \X (1 .. n) |-> SetLevel(p[1], levels[p[2]])]
             iter == CHOOSE g : g = [s \in SUBSET (DOMAIN levels) |->
                        IF s = {} THEN b
                        ELSE LET x == Max(s) IN SetLevel(g[s \ {x}], levels[x])]
  <1>1. Apply(levels, b) = iter[DOMAIN levels]
    BY DEF Apply, FoldLeft, MapThenFoldSet, SetLevel
  <1>2. n \in Nat /\ DOMAIN levels = 1 .. n /\ \A i \in 1 .. n : levels[i] \in LevelUpdate(side)
    OBVIOUS
  <1> HIDE DEF n
  <1>3. step \in [Half(side) \X (1 .. n) -> Half(side)]
    BY <1>2, SetLevelType
  <1>4. \A v \in Half(side) : \A i \in 1 .. n : step[<<v, i>>] = SetLevel(v, levels[i])
    OBVIOUS
  <1> HIDE DEF step
  <1>5. PICK f \in [SUBSET (1 .. n) -> Half(side)] : IsFold(f, n, b, step)
    BY <1>2, <1>3, FoldExists
  <1>6. \A s \in SUBSET (1 .. n) : s # {} => Max(s) \in 1 .. n /\ s \ {Max(s)} \in SUBSET (1 .. n)
    BY <1>2, MaxExists
  <1>7. \A s \in SUBSET (1 .. n) : s # {} =>
           step[<<f[s \ {Max(s)}], Max(s)>>] = SetLevel(f[s \ {Max(s)}], levels[Max(s)])
    BY <1>4, <1>5, <1>6
  <1>8. f = [s \in SUBSET (1 .. n) |->
               IF s = {} THEN b ELSE SetLevel(f[s \ {Max(s)}], levels[Max(s)])]
    BY <1>5, <1>7 DEF IsFold
  <1>9. iter = [s \in SUBSET (1 .. n) |->
                   IF s = {} THEN b ELSE SetLevel(iter[s \ {Max(s)}], levels[Max(s)])]
    BY <1>2, <1>8
  <1> HIDE DEF iter
  <1>10. Folds(iter, n, Half(side), b, step)
    <2>1. iter[{}] = b
      BY <1>9
    <2>2. \A s \in SUBSET (1 .. n) :
             s # {} /\ iter[s \ {Max(s)}] \in Half(side) =>
                iter[s] = step[<<iter[s \ {Max(s)}], Max(s)>>]
      BY <1>4, <1>6, <1>9
    <2> QED
      BY <2>1, <2>2 DEF Folds
  <1>11. PICK acc \in [0 .. n -> Half(side)] : Run(acc, n, b, step, iter[1 .. n])
    BY <1>2, <1>3, <1>10, FoldSteps
  <1>12. /\ acc[0] = b
         /\ \A i \in 1 .. n : acc[i] = step[<<acc[i - 1], i>>]
         /\ acc[n] = iter[1 .. n]
    BY <1>11 DEF Run
  <1>13. \A i \in 1 .. n : acc[i] = SetLevel(acc[i - 1], levels[i])
    <2>1. \A i \in 1 .. n : i - 1 \in 0 .. n
      BY <1>2
    <2> QED
      BY <1>4, <1>12, <2>1
  <1> QED
    BY <1>1, <1>2, <1>12, <1>13 DEF Application, n

(* No updates change nothing. *)
LEMMA ApplyNothing ==
  ASSUME NEW side \in Side, NEW b \in Half(side)
  PROVE  Apply(<<>>, b) = b
  <1> DEFINE e == <<>>
  <1>1. e \in Seq(LevelUpdate(side)) /\ Len(e) = 0
    OBVIOUS
  <1> HIDE DEF e
  <1>2. PICK a : Application(a, side, e, b)
    BY <1>1, ApplySteps
  <1> QED
    BY <1>1, <1>2 DEF Application, e

(* The last update comes last. *)
LEMMA ApplyAppend ==
  ASSUME NEW side \in Side, NEW levels \in Seq(LevelUpdate(side)), NEW b \in Half(side),
         NEW u \in LevelUpdate(side)
  PROVE  /\ Apply(levels, b) \in Half(side)
         /\ Apply(Append(levels, u), b) = SetLevel(Apply(levels, b), u)
  <1> DEFINE n == Len(levels)
             more == Append(levels, u)
  <1>1. /\ n \in Nat /\ more \in Seq(LevelUpdate(side)) /\ Len(more) = n + 1
        /\ more[n + 1] = u /\ \A i \in 1 .. n : more[i] = levels[i]
    OBVIOUS
  <1>2. PICK a : Application(a, side, levels, b)
    BY ApplySteps
  <1>3. /\ a \in [0 .. n -> Half(side)]
        /\ a[0] = b
        /\ \A i \in 1 .. n : a[i] = SetLevel(a[i - 1], levels[i])
        /\ Apply(levels, b) = a[n]
    BY <1>2 DEF Application
  <1> HIDE DEF more
  <1>4. PICK c : Application(c, side, more, b)
    BY <1>1, ApplySteps
  <1>5. /\ c \in [0 .. Len(more) -> Half(side)]
        /\ c[0] = b
        /\ \A i \in 1 .. Len(more) : c[i] = SetLevel(c[i - 1], more[i])
        /\ Apply(more, b) = c[Len(more)]
    BY <1>4 DEF Application
  <1> HIDE DEF n
  <1> DEFINE K == {k \in Nat : k <= n => c[k] = a[k]}
  <1>6. 0 \in K
    BY <1>3, <1>5
  <1>7. ASSUME NEW k \in Nat, k \in K
        PROVE  k + 1 \in K
    <2> SUFFICES ASSUME k + 1 <= n
                 PROVE  c[k + 1] = a[k + 1]
      OBVIOUS
    <2>1. k <= n /\ k + 1 \in 1 .. n /\ k + 1 \in 1 .. Len(more) /\ (k + 1) - 1 = k
      BY <1>1
    <2>2. k + 1 \in 1 .. n /\ k + 1 \in 1 .. Len(more) /\ (k + 1) - 1 = k /\ c[k] = a[k]
      BY <1>7, <2>1
    <2>3. a[k + 1] = SetLevel(a[k], levels[k + 1])
      BY <1>3, <2>2
    <2>4. c[k + 1] = SetLevel(c[k], more[k + 1])
      BY <1>5, <2>2
    <2> QED
      BY <1>1, <2>2, <2>3, <2>4
  <1>8. Nat \subseteq K
    <2>1. \A k \in Nat : k \in K => k + 1 \in K
      BY <1>7
    <2> HIDE DEF K
    <2> QED
      BY <1>6, <2>1, NatSetInduction
  <1>9. c[n] = a[n] /\ a[n] \in Half(side)
    BY <1>1, <1>3, <1>8
  <1>10. c[n + 1] = SetLevel(c[n], u)
    <2>1. n + 1 \in 1 .. Len(more) /\ (n + 1) - 1 = n
      BY <1>1
    <2> QED
      BY <1>1, <1>5, <2>1
  <1> QED
    BY <1>1, <1>3, <1>5, <1>9, <1>10 DEF more

(* What is applied first is what is applied before. *)
LEMMA ApplyConcat ==
  ASSUME NEW side \in Side, NEW s \in Seq(LevelUpdate(side)),
         NEW t \in Seq(LevelUpdate(side)), NEW b \in Half(side)
  PROVE  Apply(s \o t, b) = Apply(t, Apply(s, b))
  <1> DEFINE n == Len(t)
             K == {k \in Nat : k <= n =>
                     Apply(s \o SubSeq(t, 1, k), b) = Apply(SubSeq(t, 1, k), Apply(s, b))}
  <1>1. Apply(s, b) \in Half(side)
    <2>1. PICK a : Application(a, side, s, b)
      BY ApplySteps
    <2> QED
      BY <2>1 DEF Application
  <1>2. 0 \in K
    <2>1. SubSeq(t, 1, 0) = <<>> /\ s \o <<>> = s
      OBVIOUS
    <2> QED
      BY <1>1, <2>1, ApplyNothing
  <1>3. ASSUME NEW k \in Nat, k \in K
        PROVE  k + 1 \in K
    <2> SUFFICES ASSUME k + 1 <= n
                 PROVE  Apply(s \o SubSeq(t, 1, k + 1), b)
                          = Apply(SubSeq(t, 1, k + 1), Apply(s, b))
      OBVIOUS
    <2> DEFINE r == SubSeq(t, 1, k)
               u == t[k + 1]
    <2>1. /\ r \in Seq(LevelUpdate(side)) /\ u \in LevelUpdate(side)
          /\ SubSeq(t, 1, k + 1) = Append(r, u)
      OBVIOUS
    <2>2. Apply(s \o r, b) = Apply(r, Apply(s, b))
      BY <1>3
    <2> HIDE DEF r, u
    <2>3. s \o r \in Seq(LevelUpdate(side)) /\ s \o Append(r, u) = Append(s \o r, u)
      BY <2>1
    <2>4. Apply(Append(s \o r, u), b) = SetLevel(Apply(s \o r, b), u)
      BY <2>1, <2>3, ApplyAppend
    <2>5. Apply(Append(r, u), Apply(s, b)) = SetLevel(Apply(r, Apply(s, b)), u)
      BY <1>1, <2>1, ApplyAppend
    <2> QED
      BY <2>1, <2>2, <2>3, <2>4, <2>5
  <1>4. Nat \subseteq K
    <2>1. \A k \in Nat : k \in K => k + 1 \in K
      BY <1>3
    <2> HIDE DEF K
    <2> QED
      BY <1>2, <2>1, NatSetInduction
  <1>5. n \in Nat /\ SubSeq(t, 1, n) = t
    OBVIOUS
  <1>6. Apply(s \o SubSeq(t, 1, n), b) = Apply(SubSeq(t, 1, n), Apply(s, b))
    <2>1. n \in K
      BY <1>4, <1>5
    <2> QED
      BY <2>1
  <1> QED
    BY <1>5, <1>6

----------------------------------------------------------------------------
(* The updates of different levels. *)
Distinct(levels) ==
    \A i, j \in 1 .. Len(levels) : levels[i].price = levels[j].price => i = j

(* The levels are set as the updates say, and the others are left alone. *)
IsSet(side, levels, n, b, r) ==
    /\ \A i \in 1 .. n : r[levels[i].price] = levels[i].quantity
    /\ \A p \in Price[side] : (\A i \in 1 .. n : levels[i].price # p) => r[p] = b[p]

(* Updates of different levels do not disturb each other. *)
LEMMA ApplyDistinct ==
  ASSUME NEW side \in Side, NEW levels \in Seq(LevelUpdate(side)), Distinct(levels),
         NEW b \in Half(side)
  PROVE  \A k \in 0 .. Len(levels) :
           /\ SubSeq(levels, 1, k) \in Seq(LevelUpdate(side))
           /\ Apply(SubSeq(levels, 1, k), b) \in Half(side)
           /\ IsSet(side, levels, k, b, Apply(SubSeq(levels, 1, k), b))
  <1> DEFINE n == Len(levels)
             a(k) == Apply(SubSeq(levels, 1, k), b)
             K == {k \in Nat : k <= n =>
                     a(k) \in Half(side) /\ IsSet(side, levels, k, b, a(k))}
  <1>1. \A i \in 1 .. n : /\ levels[i] \in LevelUpdate(side)
                          /\ levels[i].price \in Price[side] /\ levels[i].quantity \in Nat
    <2>1. \A i \in 1 .. n : levels[i] \in LevelUpdate(side)
      OBVIOUS
    <2> QED
      BY <2>1 DEF LevelUpdate
  <1>2. \A k \in Nat : k <= n => SubSeq(levels, 1, k) \in Seq(LevelUpdate(side))
    OBVIOUS
  <1>3. 0 \in K
    <2>1. SubSeq(levels, 1, 0) = <<>>
      OBVIOUS
    <2>2. a(0) = b
      BY <2>1, ApplyNothing
    <2> HIDE DEF a
    <2> QED
      BY <2>2 DEF IsSet
  <1>4. ASSUME NEW k \in Nat, k \in K
        PROVE  k + 1 \in K
    <2> SUFFICES ASSUME k + 1 <= n
                 PROVE  a(k + 1) \in Half(side) /\ IsSet(side, levels, k + 1, b, a(k + 1))
      OBVIOUS
    <2> DEFINE u == levels[k + 1]
               q == SubSeq(levels, 1, k)
    <2>1. k <= n /\ k + 1 \in 1 .. n /\ \A i \in 1 .. k : i \in 1 .. n /\ i # k + 1
      OBVIOUS
    <2>2. a(k) \in Half(side) /\ IsSet(side, levels, k, b, a(k))
      BY <1>4, <2>1
    <2>3. /\ u \in LevelUpdate(side) /\ q \in Seq(LevelUpdate(side))
          /\ SubSeq(levels, 1, k + 1) = Append(q, u)
      BY <2>1
    <2> HIDE DEF q, u
    <2>4. Apply(Append(q, u), b) = SetLevel(Apply(q, b), u)
      BY <2>3, ApplyAppend
    <2>5. a(k + 1) = SetLevel(a(k), u)
      BY <2>3, <2>4 DEF q
    <2> HIDE DEF a
    <2>6. /\ a(k + 1) \in Half(side)
          /\ a(k + 1)[u.price] = u.quantity
          /\ \A p \in Price[side] : p # u.price => a(k + 1)[p] = a(k)[p]
      BY <2>2, <2>3, <2>5, SetLevelType
    <2> USE DEF u
    <2>7. ASSUME NEW i \in 1 .. k + 1
          PROVE  a(k + 1)[levels[i].price] = levels[i].quantity
      <3>1. CASE i = k + 1
        BY <2>6, <3>1
      <3>2. CASE i # k + 1
        <4>1. i \in 1 .. k /\ i \in 1 .. n
          BY <2>1, <3>2
        <4>2. levels[i].price # u.price /\ levels[i].price \in Price[side]
          BY <1>1, <2>1, <3>2, <4>1 DEF Distinct
        <4> QED
          BY <2>2, <2>6, <4>1, <4>2 DEF IsSet
      <3> QED
        BY <3>1, <3>2
    <2>8. ASSUME NEW p \in Price[side], \A i \in 1 .. k + 1 : levels[i].price # p
          PROVE  a(k + 1)[p] = b[p]
      <3>1. p # u.price /\ \A i \in 1 .. k : levels[i].price # p
        BY <2>8
      <3> QED
        BY <2>2, <2>6, <3>1 DEF IsSet
    <2> QED
      BY <2>6, <2>7, <2>8 DEF IsSet
  <1>5. Nat \subseteq K
    <2>1. \A k \in Nat : k \in K => k + 1 \in K
      BY <1>4
    <2> HIDE DEF K
    <2> QED
      BY <1>3, <2>1, NatSetInduction
  <1> QED
    BY <1>2, <1>5

(* Updates of different levels, given as a set. *)
Consistent(L) == \A l, m \in L : l.price = m.price => l = m

(* Applied in any order, each is what its level becomes. *)
LEMMA ApplySet ==
  ASSUME NEW side \in Side, NEW L, L \subseteq LevelUpdate(side), IsFiniteSet(L), Consistent(L),
         NEW b \in Half(side)
  PROVE  /\ SetToSeq(L) \in Seq(LevelUpdate(side))
         /\ Apply(SetToSeq(L), b) \in Half(side)
         /\ \A l \in L : Apply(SetToSeq(L), b)[l.price] = l.quantity
         /\ \A p \in Price[side] :
               (\A l \in L : l.price # p) => Apply(SetToSeq(L), b)[p] = b[p]
         /\ (\A l \in L : l.quantity = 0 => b[l.price] # 0) => ~ Removed(SetToSeq(L), b)
  <1> DEFINE levels == SetToSeq(L)
             n == Len(levels)
             r == Apply(levels, b)
  <1>1. /\ levels \in Seq(L) /\ n \in Nat
        /\ \A l \in L : \E i \in 1 .. n : levels[i] = l
        /\ \A i, j \in 1 .. n : levels[i] = levels[j] => i = j
    BY SetToSeqRange
  <1> HIDE DEF levels
  <1>2. /\ \A i \in 1 .. n : levels[i] \in L
        /\ levels \in Seq(LevelUpdate(side))
    BY <1>1
  <1>3. Distinct(levels)
    BY <1>1, <1>2 DEF Distinct, Consistent
  <1>4. \A k \in 0 .. n : /\ Apply(SubSeq(levels, 1, k), b) \in Half(side)
                          /\ IsSet(side, levels, k, b, Apply(SubSeq(levels, 1, k), b))
    BY <1>2, <1>3, ApplyDistinct
  <1>5. r \in Half(side) /\ IsSet(side, levels, n, b, r)
    <2>1. n \in 0 .. n /\ SubSeq(levels, 1, n) = levels
      BY <1>1, <1>2
    <2> QED
      BY <1>4, <2>1
  <1>6. ASSUME NEW l \in L
        PROVE  r[l.price] = l.quantity
    BY <1>1, <1>5 DEF IsSet
  <1>7. ASSUME NEW p \in Price[side], \A l \in L : l.price # p
        PROVE  r[p] = b[p]
    BY <1>2, <1>5, <1>7 DEF IsSet
  <1>8. ASSUME \A l \in L : l.quantity = 0 => b[l.price] # 0
        PROVE  ~ Removed(levels, b)
    <2> SUFFICES ASSUME NEW i \in 1 .. n, levels[i].quantity = 0
                 PROVE  Apply(SubSeq(levels, 1, i - 1), b)[levels[i].price] # 0
      BY <1>2 DEF Removed
    <2>1. i - 1 \in 0 .. n /\ \A j \in 1 .. i - 1 : j \in 1 .. n /\ j # i
      BY <1>1
    <2>2. levels[i] \in L /\ levels[i].price \in Price[side]
      BY <1>2 DEF LevelUpdate
    <2>3. \A j \in 1 .. i - 1 : levels[j].price # levels[i].price
      BY <1>3, <2>1 DEF Distinct
    <2>4. Apply(SubSeq(levels, 1, i - 1), b)[levels[i].price] = b[levels[i].price]
      BY <1>4, <2>1, <2>2, <2>3 DEF IsSet
    <2> QED
      BY <1>8, <2>2, <2>4
  <1> QED
    BY <1>2, <1>5, <1>6, <1>7, <1>8 DEF levels

(* Two messages in a row remove known levels if each does. *)
LEMMA RemovedConcat ==
  ASSUME NEW side \in Side, NEW s \in Seq(LevelUpdate(side)),
         NEW t \in Seq(LevelUpdate(side)), NEW b \in Half(side),
         ~ Removed(s, b), ~ Removed(t, Apply(s, b))
  PROVE  ~ Removed(s \o t, b)
  <1>1. /\ Len(s) \in Nat /\ Len(t) \in Nat
        /\ s \o t \in Seq(LevelUpdate(side)) /\ Len(s \o t) = Len(s) + Len(t)
        /\ DOMAIN (s \o t) = 1 .. Len(s) + Len(t)
    OBVIOUS
  <1> SUFFICES ASSUME NEW i \in 1 .. Len(s) + Len(t), (s \o t)[i].quantity = 0
               PROVE  Apply(SubSeq(s \o t, 1, i - 1), b)[(s \o t)[i].price] # 0
    BY <1>1 DEF Removed
  <1>2. \A k \in 1 .. Len(s) :
           s[k].quantity = 0 => Apply(SubSeq(s, 1, k - 1), b)[s[k].price] # 0
    BY DEF Removed
  <1>3. \A k \in 1 .. Len(t) :
           t[k].quantity = 0 => Apply(SubSeq(t, 1, k - 1), Apply(s, b))[t[k].price] # 0
    BY DEF Removed
  <1>4. CASE i <= Len(s)
    <2>1. /\ i \in 1 .. Len(s) /\ (s \o t)[i] = s[i]
          /\ SubSeq(s \o t, 1, i - 1) = SubSeq(s, 1, i - 1)
      BY <1>1, <1>4
    <2>2. Apply(SubSeq(s, 1, i - 1), b)[s[i].price] # 0
      BY <1>2, <2>1
    <2> QED
      BY <2>1, <2>2
  <1>5. CASE ~ i <= Len(s)
    <2> DEFINE j == i - Len(s)
    <2>1. /\ j \in 1 .. Len(t) /\ (s \o t)[i] = t[j]
      BY <1>1, <1>5
    <2>2. SubSeq(s \o t, 1, i - 1) = s \o SubSeq(t, 1, j - 1)
      BY <1>1, <1>5
    <2>3. SubSeq(t, 1, j - 1) \in Seq(LevelUpdate(side))
      BY <2>1
    <2>4. Apply(s \o SubSeq(t, 1, j - 1), b) = Apply(SubSeq(t, 1, j - 1), Apply(s, b))
      BY <2>3, ApplyConcat
    <2>5. Apply(SubSeq(t, 1, j - 1), Apply(s, b))[t[j].price] # 0
      BY <1>3, <2>1
    <2> HIDE DEF j
    <2> QED
      BY <2>1, <2>2, <2>4, <2>5
  <1> QED
    BY <1>4, <1>5

----------------------------------------------------------------------------
(* What the exchange streams of one side. *)
Streamed(side, old, new) ==
    {Level(p, Cut(side, new)[p]) :
       p \in {q \in Price[side] : Cut(side, new)[q] > 0 /\ Cut(side, new)[q] # Cut(side, old)[q]}}
    \cup {Level(p, 0) : p \in {q \in Price[side] : Cut(side, old)[q] > 0 /\ new[q] = 0}}

(* Changes lists this set. *)
LEMMA ChangesStreamed ==
  ASSUME NEW side \in Side, NEW old, NEW new
  PROVE  Changes(old, new, side) = SetToSeq(Streamed(side, old[side], new[side]))
  <1>1. /\ Best(old, Depth)[side] = Cut(side, old[side])
        /\ Best(new, Depth)[side] = Cut(side, new[side])
    BY BestCut
  <1> QED
    BY <1>1 DEF Changes, Streamed

(* The image of a finite set is finite. *)
LEMMA ImageFinite ==
  ASSUME NEW S, IsFiniteSet(S), NEW f
  PROVE  IsFiniteSet({f[x] : x \in S})
  <1> DEFINE T == {f[x] : x \in S}
             g == [x \in S |-> f[x]]
  <1>1. g \in Surjection(S, T)
    BY DEF Surjection
  <1> HIDE DEF T, g
  <1>2. IsFiniteSet(T)
    BY <1>1, FS_Surjection
  <1> QED
    BY <1>2 DEF T

(* Each price is streamed once at most. *)
LEMMA StreamedType ==
  ASSUME NEW side \in Side, NEW old \in Half(side), NEW new \in Half(side)
  PROVE  /\ Streamed(side, old, new) \subseteq LevelUpdate(side)
         /\ IsFiniteSet(Streamed(side, old, new))
         /\ Consistent(Streamed(side, old, new))
  <1> DEFINE P == {q \in Price[side] :
                    Cut(side, new)[q] > 0 /\ Cut(side, new)[q] # Cut(side, old)[q]}
             Q == {q \in Price[side] : Cut(side, old)[q] > 0 /\ new[q] = 0}
             S == {Level(p, Cut(side, new)[p]) : p \in P}
             T == {Level(p, 0) : p \in Q}
  <1>1. /\ Cut(side, new) \in Half(side) /\ Cut(side, old) \in Half(side)
        /\ \A q \in Price[side] : new[q] = 0 => Cut(side, new)[q] = 0
    BY CutCovers DEF Covers
  <1>2. P \subseteq Price[side] /\ Q \subseteq Price[side]
        /\ IsFiniteSet(P) /\ IsFiniteSet(Q)
    BY PriceType, FS_Subset
  <1>3. IsFiniteSet(S)
    <2> DEFINE f == [p \in P |-> Level(p, Cut(side, new)[p])]
    <2>1. S = {f[p] : p \in P}
      OBVIOUS
    <2> HIDE DEF f, P
    <2>2. IsFiniteSet({f[p] : p \in P})
      BY <1>2, ImageFinite
    <2> QED
      BY <2>1, <2>2
  <1>4. IsFiniteSet(T)
    <2> DEFINE f == [p \in Q |-> Level(p, 0)]
    <2>1. T = {f[p] : p \in Q}
      OBVIOUS
    <2> HIDE DEF f, Q
    <2>2. IsFiniteSet({f[p] : p \in Q})
      BY <1>2, ImageFinite
    <2> QED
      BY <2>1, <2>2
  <1>5. S \subseteq LevelUpdate(side)
    BY <1>1 DEF LevelUpdate, Level, Half
  <1>6. T \subseteq LevelUpdate(side)
    BY DEF LevelUpdate, Level
  <1>7. \A l \in S : l.price \in Price[side] /\ l.quantity = Cut(side, new)[l.price]
                     /\ l.quantity > 0 /\ l = Level(l.price, l.quantity)
    BY DEF Level
  <1>8. \A l \in T : l.price \in Price[side] /\ l.quantity = 0 /\ new[l.price] = 0
                     /\ l = Level(l.price, l.quantity)
    BY DEF Level
  <1>9. Streamed(side, old, new) = S \cup T
    BY DEF Streamed
  <1> HIDE DEF S, T
  <1>10. Consistent(S \cup T)
    <2> SUFFICES ASSUME NEW l \in S \cup T, NEW m \in S \cup T, l.price = m.price
                 PROVE  l = m
      BY DEF Consistent
    <2>1. \A x \in S : \A y \in T : x.price # y.price
      <3> SUFFICES ASSUME NEW x \in S, NEW y \in T, x.price = y.price
                   PROVE  FALSE
        OBVIOUS
      <3>1. Cut(side, new)[x.price] = 0
        BY <1>1, <1>8
      <3> QED
        BY <1>7, <3>1
    <2>2. l.quantity = m.quantity
      BY <1>7, <1>8, <2>1
    <2> QED
      BY <1>7, <1>8, <2>2
  <1>11. IsFiniteSet(S \cup T)
    BY <1>3, <1>4, FS_Union
  <1> QED
    BY <1>5, <1>6, <1>9, <1>10, <1>11

(* The stream tells of a level outside the best part only what is not seen. *)
CoversAt(side, z, w, p) ==
    /\ Covers(side, z, w)
    /\ p \in Price[side] /\ z[p] > 0 => Rank(side, w, p) < Depth

(* What follows the book up to one level follows a change of that level. *)
LEMMA ChangeCovers ==
  ASSUME NEW side \in Side, NEW w \in Half(side), NEW new \in Half(side), NEW p,
         \A q \in Price[side] : q # p => new[q] = w[q],
         NEW z, CoversAt(side, z, w, p)
  PROVE  LET L == SetToSeq(Streamed(side, w, new))
         IN /\ L \in Seq(LevelUpdate(side))
            /\ Apply(L, z) \in Half(side)
            /\ CoversAt(side, Apply(L, z), new, p)
            /\ ~ Removed(L, z)
  <1> DEFINE S == Streamed(side, w, new)
             r == Apply(SetToSeq(S), z)
             before == Cut(side, w)
             after == Cut(side, new)
  <1>1. /\ z \in Half(side)
        /\ \A q \in Price[side] : /\ z[q] = 0 \/ z[q] = w[q]
                                  /\ Rank(side, w, q) < Depth => z[q] = w[q]
        /\ p \in Price[side] /\ z[p] > 0 => Rank(side, w, p) < Depth
    BY DEF CoversAt, Covers
  <1>2. \A q \in Price[side] :
           /\ before[q] = IF Rank(side, w, q) < Depth THEN w[q] ELSE 0
           /\ after[q] = IF Rank(side, new, q) < Depth THEN new[q] ELSE 0
           /\ w[q] \in Nat /\ new[q] \in Nat /\ z[q] \in Nat
    BY <1>1 DEF Cut, Half
  <1> HIDE DEF before, after
  <1>3. /\ \A q \in Price[side] : after[q] > 0 /\ after[q] # before[q] => Level(q, after[q]) \in S
        /\ \A q \in Price[side] : before[q] > 0 /\ new[q] = 0 => Level(q, 0) \in S
        /\ \A l \in S : /\ l.price \in Price[side]
                        /\ \/ l.quantity = after[l.price] /\ after[l.price] > 0
                           \/ l.quantity = 0 /\ before[l.price] > 0 /\ new[l.price] = 0
    <2>1. S = {Level(q, after[q]) : q \in {x \in Price[side] :
                                            after[x] > 0 /\ after[x] # before[x]}}
              \cup {Level(q, 0) : q \in {x \in Price[side] : before[x] > 0 /\ new[x] = 0}}
      BY DEF Streamed, before, after
    <2> HIDE DEF S
    <2>2. \A q \in Price[side] : after[q] > 0 /\ after[q] # before[q] => Level(q, after[q]) \in S
      BY <2>1
    <2>3. \A q \in Price[side] : before[q] > 0 /\ new[q] = 0 => Level(q, 0) \in S
      BY <2>1
    <2>4. ASSUME NEW l \in S
          PROVE  /\ l.price \in Price[side]
                 /\ \/ l.quantity = after[l.price] /\ after[l.price] > 0
                    \/ l.quantity = 0 /\ before[l.price] > 0 /\ new[l.price] = 0
      BY <2>1 DEF Level
    <2> QED
      BY <2>2, <2>3, <2>4
  <1>4. \A q, n : Level(q, n).price = q /\ Level(q, n).quantity = n
    BY DEF Level
  <1>5. S \subseteq LevelUpdate(side) /\ IsFiniteSet(S) /\ Consistent(S)
    BY StreamedType
  <1> HIDE DEF S
  <1>6. \A l \in S : l.quantity = 0 => z[l.price] # 0
    BY <1>1, <1>2, <1>3
  <1>7. /\ SetToSeq(S) \in Seq(LevelUpdate(side))
        /\ r \in Half(side)
        /\ \A l \in S : r[l.price] = l.quantity
        /\ \A q \in Price[side] : (\A l \in S : l.price # q) => r[q] = z[q]
        /\ ~ Removed(SetToSeq(S), z)
    BY <1>1, <1>5, <1>6, ApplySet
  <1> HIDE DEF r
  <1>8. p \in Price[side] => Rank(side, new, p) = Rank(side, w, p)
    <2> SUFFICES ASSUME p \in Price[side]
                 PROVE  Standing(side, new, p) = Standing(side, w, p)
      BY DEF Rank
    <2>1. \A q \in Price[side] : Better(side, q, p) => new[q] = w[q]
      BY BetterOrder
    <2> QED
      BY <2>1 DEF Standing
  <1>9. ASSUME NEW q \in Price[side]
        PROVE  /\ r[q] = 0 \/ r[q] = new[q]
               /\ Rank(side, new, q) < Depth => r[q] = new[q]
               /\ q = p /\ r[q] > 0 => Rank(side, new, q) < Depth
    <2>1. CASE \E l \in S : l.price = q
      <3>1. PICK l \in S : l.price = q
        BY <2>1
      <3>2. r[q] = l.quantity
        BY <1>7, <3>1
      <3> QED
        BY <1>2, <1>3, <3>1, <3>2
    <2>2. CASE \A l \in S : l.price # q
      <3>1. r[q] = z[q]
        BY <1>7, <2>2
      <3>2. after[q] > 0 => after[q] = before[q]
        BY <1>3, <1>4, <2>2
      <3>3. ~ (before[q] > 0 /\ new[q] = 0)
        BY <1>3, <1>4, <2>2
      <3>4. q # p => new[q] = w[q]
        OBVIOUS
      <3>5. q = p => Rank(side, new, q) = Rank(side, w, q)
        BY <1>8
      <3> QED
        BY <1>1, <1>2, <3>1, <3>2, <3>3, <3>4, <3>5
    <2> QED
      BY <2>1, <2>2
  <1>10. CoversAt(side, r, new, p)
    BY <1>7, <1>9 DEF CoversAt, Covers
  <1> QED
    BY <1>7, <1>10 DEF S, r

(* One side of a change, once or twice, of the same level. *)
SameBut(side, a, b, p) == \A q \in Price[side] : q # p => a[q] = b[q]

HalfMessage(side, w, new, newer, twice) ==
    SetToSeq(Streamed(side, w, new))
    \o IF twice THEN SetToSeq(Streamed(side, new, newer)) ELSE <<>>

(* The stream of one side takes its best part to the new best part. *)
LEMMA HalfChanged ==
  ASSUME NEW side \in Side, NEW w \in Half(side), NEW new \in Half(side),
         NEW newer \in Half(side), NEW p, NEW twice \in BOOLEAN,
         SameBut(side, new, w, p), SameBut(side, newer, new, p),
         NEW L, L = HalfMessage(side, w, new, newer, twice)
  PROVE  /\ L \in Seq(LevelUpdate(side))
         /\ Cut(side, Apply(L, Cut(side, w))) = Cut(side, IF twice THEN newer ELSE new)
         /\ ~ Removed(L, Cut(side, w))
  <1>1. /\ \A q \in Price[side] : q # p => new[q] = w[q]
        /\ \A q \in Price[side] : q # p => newer[q] = new[q]
    BY DEF SameBut
  <1> DEFINE z == Cut(side, w)
             A == SetToSeq(Streamed(side, w, new))
             B == SetToSeq(Streamed(side, new, newer))
             y == Apply(A, z)
  <1>2. CoversAt(side, z, w, p) /\ z \in Half(side)
    BY CutCovers DEF CoversAt, Cut
  <1> HIDE DEF z
  <1>3. /\ A \in Seq(LevelUpdate(side)) /\ y \in Half(side)
        /\ CoversAt(side, y, new, p) /\ ~ Removed(A, z)
    BY <1>1, <1>2, ChangeCovers
  <1> HIDE DEF A, y
  <1>4. CASE ~ twice
    <2>1. A \o <<>> = A
      BY <1>3
    <2>2. Cut(side, y) = Cut(side, new)
      BY <1>3, CoversCut DEF CoversAt
    <2> QED
      BY <1>3, <1>4, <2>1, <2>2 DEF HalfMessage, A, y, z
  <1>5. CASE twice
    <2>1. /\ B \in Seq(LevelUpdate(side))
          /\ CoversAt(side, Apply(B, y), newer, p) /\ ~ Removed(B, y)
      BY <1>1, <1>3, ChangeCovers
    <2> HIDE DEF B
    <2>2. Cut(side, Apply(B, y)) = Cut(side, newer)
      BY <2>1, CoversCut DEF CoversAt
    <2>3. A \o B \in Seq(LevelUpdate(side))
      BY <1>3, <2>1
    <2>4. Apply(A \o B, z) = Apply(B, y)
      BY <1>2, <1>3, <2>1, ApplyConcat DEF y
    <2>5. ~ Removed(A \o B, z)
      BY <1>2, <1>3, <2>1, RemovedConcat DEF y
    <2> QED
      BY <1>5, <2>2, <2>3, <2>4, <2>5 DEF HalfMessage, A, B, z
  <1> QED
    BY <1>4, <1>5

(* The best part has no better one. *)
LEMMA CutTwice ==
  ASSUME NEW side \in Side, NEW w \in Half(side)
  PROVE  Cut(side, Cut(side, w)) = Cut(side, w)
  BY CutCovers, CoversCut

(* One side of a snapshot. *)
LEMMA HalfSnapshot ==
  ASSUME NEW side \in Side, NEW w \in Half(side)
  PROVE  LET e == [p \in Price[side] |-> 0]
             z == Cut(side, w)
             L == SetToSeq({Level(p, z[p]) : p \in {q \in Price[side] : z[q] > 0}})
         IN /\ L \in Seq(LevelUpdate(side))
            /\ Apply(L, e) = z
            /\ ~ Removed(L, e)
            /\ L = <<>> => z = e
  <1> DEFINE e == [p \in Price[side] |-> 0]
             z == Cut(side, w)
             S == {Level(p, z[p]) : p \in {q \in Price[side] : z[q] > 0}}
             L == SetToSeq(S)
  <1>1. z \in Half(side) /\ e \in Half(side)
    BY CutCovers DEF Half
  <1>2. Cut(side, e) = e
    BY DEF Cut
  <1>3. S = Streamed(side, e, w)
    <2> HIDE DEF z
    <2>1. \A q \in Price[side] : e[q] = 0 /\ z[q] \in Nat
      BY <1>1 DEF Half
    <2>2. Streamed(side, e, w)
             = {Level(p, z[p]) : p \in {q \in Price[side] : z[q] > 0 /\ z[q] # e[q]}}
               \cup {Level(p, 0) : p \in {q \in Price[side] : e[q] > 0 /\ w[q] = 0}}
      BY <1>2 DEF Streamed, z
    <2>3. {q \in Price[side] : z[q] > 0 /\ z[q] # e[q]} = {q \in Price[side] : z[q] > 0}
      BY <2>1
    <2>4. {q \in Price[side] : e[q] > 0 /\ w[q] = 0} = {}
      BY <2>1
    <2> HIDE DEF e
    <2> QED
      BY <2>2, <2>3, <2>4
  <1>4. S \subseteq LevelUpdate(side) /\ IsFiniteSet(S) /\ Consistent(S)
    BY <1>1, <1>3, StreamedType
  <1>5. /\ \A l \in S : l.price \in Price[side] /\ l.quantity = z[l.price] /\ l.quantity > 0
        /\ \A q \in Price[side] : z[q] > 0 => Level(q, z[q]) \in S /\ Level(q, z[q]).price = q
    BY DEF Level
  <1> HIDE DEF S, z
  <1>6. \A q \in Price[side] : e[q] = 0 /\ z[q] \in Nat
    BY <1>1 DEF Half
  <1> HIDE DEF e
  <1>7. \A l \in S : l.quantity # 0
    BY <1>5
  <1>8. /\ L \in Seq(LevelUpdate(side))
        /\ Apply(L, e) \in Half(side)
        /\ \A l \in S : Apply(L, e)[l.price] = l.quantity
        /\ \A q \in Price[side] : (\A l \in S : l.price # q) => Apply(L, e)[q] = e[q]
        /\ ~ Removed(L, e)
    BY <1>1, <1>4, <1>7, ApplySet
  <1>9. Apply(L, e) = z
    <2> HIDE DEF L
    <2>1. ASSUME NEW q \in Price[side]
          PROVE  Apply(L, e)[q] = z[q]
      <3>1. CASE \E l \in S : l.price = q
        BY <1>5, <1>8, <3>1
      <3>2. CASE \A l \in S : l.price # q
        <4>1. ~ z[q] > 0
          BY <1>5, <3>2
        <4> QED
          BY <1>6, <1>8, <3>2, <4>1
      <3> QED
        BY <3>1, <3>2
    <2> QED
      BY <1>1, <1>8, <2>1 DEF Half
  <1>10. L = <<>> => z = e
    <2> SUFFICES ASSUME L = <<>> PROVE z = e
      OBVIOUS
    <2>1. \A x \in S : \E i \in 1 .. Len(L) : L[i] = x
      BY <1>4, SetToSeqRange
    <2>2. S = {}
      BY <2>1
    <2>3. \A q \in Price[side] : z[q] = e[q]
      BY <1>5, <1>6, <2>2
    <2> QED
      BY <1>1, <2>3 DEF Half
  <1> QED
    BY <1>8, <1>9, <1>10 DEF e, z, S

----------------------------------------------------------------------------
(* A book: both sides, and each price with a quantity. *)
IsBook(b) == b = [side \in Side |-> b[side]] /\ \A side \in Side : b[side] \in Half(side)

Messages == [type : {"snapshot", "update"}, bids : Seq(LevelUpdate("bids")),
             asks : Seq(LevelUpdate("asks"))]

LEMMA MessageType ==
  ASSUME NEW type \in {"snapshot", "update"}, NEW bids \in Seq(LevelUpdate("bids")),
         NEW asks \in Seq(LevelUpdate("asks"))
  PROVE  /\ Message(type, bids, asks) \in Messages
         /\ Message(type, bids, asks).type = type
         /\ Message(type, bids, asks).bids = bids /\ Message(type, bids, asks)["bids"] = bids
         /\ Message(type, bids, asks).asks = asks /\ Message(type, bids, asks)["asks"] = asks
  BY DEF Message, Messages

LEMMA EmptyBook ==
  /\ IsBook(Empty) /\ Best(Empty, Depth) = Empty
  /\ \A side \in Side : Empty[side] = [p \in Price[side] |-> 0]
  <1>1. \A side \in Side : Cut(side, [p \in Price[side] |-> 0]) = [p \in Price[side] |-> 0]
    BY DEF Cut
  <1>2. \A side \in Side : [p \in Price[side] |-> 0] \in Half(side)
    BY DEF Half
  <1> QED
    BY <1>1, <1>2, BestCut DEF Empty, IsBook

(* The best part of a book is a book, and its own best part. *)
LEMMA BestBook ==
  ASSUME NEW b, IsBook(b)
  PROVE  IsBook(Best(b, Depth)) /\ Best(Best(b, Depth), Depth) = Best(b, Depth)
  <1>1. \A side \in Side : /\ Cut(side, b[side]) \in Half(side)
                           /\ Cut(side, Cut(side, b[side])) = Cut(side, b[side])
    BY CutCovers, CutTwice DEF IsBook
  <1>2. Best(b, Depth) = [side \in Side |-> Cut(side, b[side])]
    BY BestCut
  <1>3. \A side \in Side : Best(b, Depth)[side] = Cut(side, b[side])
    BY <1>2
  <1>4. Best(Best(b, Depth), Depth) = [side \in Side |-> Cut(side, Best(b, Depth)[side])]
    BY BestCut
  <1> QED
    BY <1>1, <1>2, <1>3, <1>4 DEF IsBook

(* The book a message makes of another one, and what it expects there. *)
Received(m, from) == Best([side \in Side |-> Apply(m[side], from[side])], mbp_max_depth)

Clean(m, from) == \A side \in Side : ~ Removed(m[side], from[side])

(* A message makes a book if it makes both its sides. *)
LEMMA ReceivedHalves ==
  ASSUME NEW m, NEW from, NEW to, IsBook(to),
         \A side \in Side : Cut(side, Apply(m[side], from[side])) = Cut(side, to[side])
  PROVE  Received(m, from) = Best(to, Depth)
  <1> DEFINE b == [side \in Side |-> Apply(m[side], from[side])]
  <1>1. Best(b, Depth) = [side \in Side |-> Cut(side, b[side])]
    BY BestCut
  <1>2. \A side \in Side : Cut(side, b[side]) = Cut(side, to[side])
    OBVIOUS
  <1>3. Best(to, Depth) = [side \in Side |-> Cut(side, to[side])]
    BY BestCut
  <1> HIDE DEF b
  <1>4. Best(b, Depth) = Best(to, Depth)
    BY <1>1, <1>2, <1>3
  <1> QED
    BY <1>4 DEF Received, mbp_max_depth, b

(* A snapshot of the exchange's book. *)
Snapshot(w) == Message("snapshot", Levels(Best(w, Depth), "bids"), Levels(Best(w, Depth), "asks"))

(* A snapshot makes the best part of the exchange's book, from nothing. *)
LEMMA SnapshotReceived ==
  ASSUME NEW w, IsBook(w)
  PROVE  /\ Snapshot(w) \in Messages /\ Snapshot(w).type = "snapshot"
         /\ Received(Snapshot(w), Empty) = Best(w, Depth)
         /\ Clean(Snapshot(w), Empty)
         /\ Snapshot(w).bids = <<>> /\ Snapshot(w).asks = <<>> => Best(w, Depth) = Empty
  <1> DEFINE L(side) == Levels(Best(w, Depth), side)
             z(side) == Cut(side, w[side])
  <1>1. \A side \in Side : w[side] \in Half(side) /\ Best(w, Depth)[side] = z(side)
    BY BestCut DEF IsBook
  <1>2. ASSUME NEW side \in Side
        PROVE  /\ L(side) \in Seq(LevelUpdate(side))
               /\ Apply(L(side), Empty[side]) = z(side)
               /\ ~ Removed(L(side), Empty[side])
               /\ L(side) = <<>> => z(side) = Empty[side]
    <2>1. L(side) = SetToSeq({Level(p, z(side)[p]) : p \in {q \in Price[side] : z(side)[q] > 0}})
      BY <1>1 DEF Levels
    <2>2. Empty[side] = [p \in Price[side] |-> 0]
      BY EmptyBook
    <2> HIDE DEF L
    <2> QED
      BY <1>1, <2>1, <2>2, HalfSnapshot
  <1> HIDE DEF L
  <1>3. /\ Snapshot(w) \in Messages /\ Snapshot(w).type = "snapshot"
        /\ Snapshot(w).bids = L("bids") /\ Snapshot(w)["bids"] = L("bids")
        /\ Snapshot(w).asks = L("asks") /\ Snapshot(w)["asks"] = L("asks")
    BY <1>2, MessageType DEF Snapshot, L, Side
  <1>4. \A side \in Side : Snapshot(w)[side] = L(side)
    BY <1>3 DEF Side
  <1>5. \A side \in Side : Cut(side, z(side)) = Cut(side, w[side])
    BY <1>1, CutTwice
  <1>6. Received(Snapshot(w), Empty) = Best(w, Depth)
    <2>1. \A side \in Side :
             Cut(side, Apply(Snapshot(w)[side], Empty[side])) = Cut(side, w[side])
      BY <1>2, <1>4, <1>5
    <2> QED
      BY <2>1, ReceivedHalves
  <1>7. Clean(Snapshot(w), Empty)
    BY <1>2, <1>4 DEF Clean
  <1>8. L("bids") = <<>> /\ L("asks") = <<>> => Best(w, Depth) = Empty
    <2> SUFFICES ASSUME L("bids") = <<>>, L("asks") = <<>>
                 PROVE  Best(w, Depth) = Empty
      OBVIOUS
    <2>1. \A side \in Side : z(side) = Empty[side]
      BY <1>2 DEF Side
    <2>2. Best(w, Depth) = [side \in Side |-> z(side)] /\ Empty = [side \in Side |-> Empty[side]]
      BY BestCut, EmptyBook DEF IsBook
    <2> HIDE DEF z
    <2> QED
      BY <2>1, <2>2
  <1> QED
    BY <1>3, <1>6, <1>7, <1>8

(* The book in which one level has changed. *)
SetPrice(b, side, p, quantity) == [b EXCEPT ![side][p] = quantity]

(* Only that level has changed. *)
LEMMA SetPriceBook ==
  ASSUME NEW b, IsBook(b), NEW side \in Side, NEW p \in Price[side], NEW quantity \in Nat
  PROVE  /\ IsBook(SetPrice(b, side, p, quantity))
         /\ \A s \in Side : SameBut(s, SetPrice(b, side, p, quantity)[s], b[s], p)
  <1> DEFINE c == SetPrice(b, side, p, quantity)
  <1>1. b = [s \in Side |-> b[s]] /\ \A s \in Side : b[s] \in Half(s)
    BY DEF IsBook
  <1>2. c = [s \in Side |-> IF s = side THEN [b[side] EXCEPT ![p] = quantity] ELSE b[s]]
    BY <1>1 DEF SetPrice
  <1>3. [b[side] EXCEPT ![p] = quantity] \in Half(side)
    BY <1>1 DEF Half
  <1> HIDE DEF c
  <1>4. \A s \in Side : c[s] = IF s = side THEN [b[side] EXCEPT ![p] = quantity] ELSE b[s]
    BY <1>2
  <1>5. \A s \in Side : c[s] \in Half(s)
    BY <1>1, <1>3, <1>4
  <1>6. c = [s \in Side |-> c[s]]
    BY <1>2, <1>4
  <1>7. \A s \in Side : \A q \in Price[s] : q # p => c[s][q] = b[s][q]
    BY <1>1, <1>4 DEF Half
  <1> QED
    BY <1>5, <1>6, <1>7 DEF IsBook, SameBut, c

(* Of two quantities of a level the last one stays. *)
LEMMA SetPriceTwice ==
  ASSUME NEW b, IsBook(b), NEW side \in Side, NEW p \in Price[side],
         NEW first \in Nat, NEW second \in Nat
  PROVE  SetPrice(SetPrice(b, side, p, first), side, p, second) = SetPrice(b, side, p, second)
  <1>1. b = [s \in Side |-> b[s]] /\ b[side] \in Half(side)
    BY DEF IsBook
  <1> DEFINE h == b[side]
             h1 == [h EXCEPT ![p] = first]
             h2 == [h EXCEPT ![p] = second]
             c == [s \in Side |-> IF s = side THEN h1 ELSE b[s]]
             d == [s \in Side |-> IF s = side THEN h2 ELSE b[s]]
  <1>2. [h1 EXCEPT ![p] = second] = h2
    BY <1>1 DEF Half
  <1>3. SetPrice(b, side, p, first) = c /\ SetPrice(b, side, p, second) = d
    BY <1>1 DEF SetPrice
  <1>4. SetPrice(c, side, p, second) = d
    <2>1. c[side] = h1
      OBVIOUS
    <2>2. SetPrice(c, side, p, second) = [c EXCEPT ![side] = [h1 EXCEPT ![p] = second]]
      BY <2>1 DEF SetPrice
    <2>3. SetPrice(c, side, p, second) = [c EXCEPT ![side] = h2]
      BY <1>2, <2>2
    <2> HIDE DEF h1, h2
    <2> QED
      BY <2>3
  <1> HIDE DEF c, d
  <1> QED
    BY <1>3, <1>4

(* The message of a change of one level, once or twice. *)
Changed(w, new, newer, twice) ==
    [side \in Side |-> Changes(w, new, side)
                       \o IF twice THEN Changes(new, newer, side) ELSE <<>>]

(* A change makes the best part of the new book of that of the old one. *)
LEMMA ChangeReceived ==
  ASSUME NEW w, IsBook(w), NEW new, IsBook(new), NEW newer, IsBook(newer), NEW p,
         NEW twice \in BOOLEAN,
         \A side \in Side : SameBut(side, new[side], w[side], p),
         \A side \in Side : SameBut(side, newer[side], new[side], p),
         NEW m,
         m = Message("update", Changed(w, new, newer, twice)["bids"],
                               Changed(w, new, newer, twice)["asks"])
  PROVE  /\ m \in Messages /\ m.type = "update"
         /\ Received(m, Best(w, Depth)) = Best(IF twice THEN newer ELSE new, Depth)
         /\ Clean(m, Best(w, Depth))
         /\ m.bids = <<>> /\ m.asks = <<>> =>
               Best(IF twice THEN newer ELSE new, Depth) = Best(w, Depth)
  <1> DEFINE L(side) == Changed(w, new, newer, twice)[side]
             to == IF twice THEN newer ELSE new
  <1>1. \A side \in Side : /\ w[side] \in Half(side) /\ new[side] \in Half(side)
                           /\ newer[side] \in Half(side)
                           /\ Best(w, Depth)[side] = Cut(side, w[side])
    BY BestCut DEF IsBook
  <1>2. ASSUME NEW side \in Side
        PROVE  /\ L(side) \in Seq(LevelUpdate(side))
               /\ Cut(side, Apply(L(side), Best(w, Depth)[side])) = Cut(side, to[side])
               /\ ~ Removed(L(side), Best(w, Depth)[side])
    <2>1. /\ Changes(w, new, side) = SetToSeq(Streamed(side, w[side], new[side]))
          /\ Changes(new, newer, side) = SetToSeq(Streamed(side, new[side], newer[side]))
      BY ChangesStreamed
    <2>2. L(side) = HalfMessage(side, w[side], new[side], newer[side], twice)
      BY <2>1 DEF Changed, HalfMessage
    <2> HIDE DEF L
    <2>3. /\ L(side) \in Seq(LevelUpdate(side))
          /\ Cut(side, Apply(L(side), Cut(side, w[side])))
                = Cut(side, IF twice THEN newer[side] ELSE new[side])
          /\ ~ Removed(L(side), Cut(side, w[side]))
      BY <1>1, <2>2, HalfChanged
    <2> QED
      BY <1>1, <2>3
  <1>3. IsBook(to)
    OBVIOUS
  <1> HIDE DEF L, to
  <1>4. /\ m \in Messages /\ m.type = "update"
        /\ m.bids = L("bids") /\ m["bids"] = L("bids")
        /\ m.asks = L("asks") /\ m["asks"] = L("asks")
    BY <1>2, MessageType DEF L, Side
  <1>5. \A side \in Side : m[side] = L(side)
    BY <1>4 DEF Side
  <1>6. Received(m, Best(w, Depth)) = Best(to, Depth)
    <2>1. \A side \in Side :
             Cut(side, Apply(m[side], Best(w, Depth)[side])) = Cut(side, to[side])
      BY <1>2, <1>5
    <2> QED
      BY <1>3, <2>1, ReceivedHalves
  <1>7. Clean(m, Best(w, Depth))
    BY <1>2, <1>5 DEF Clean
  <1>8. L("bids") = <<>> /\ L("asks") = <<>> => Best(to, Depth) = Best(w, Depth)
    <2> SUFFICES ASSUME L("bids") = <<>>, L("asks") = <<>>
                 PROVE  Best(to, Depth) = Best(w, Depth)
      OBVIOUS
    <2>1. ASSUME NEW side \in Side
          PROVE  Cut(side, w[side]) = Cut(side, to[side])
      <3>1. L(side) = <<>>
        BY DEF Side
      <3>2. Apply(<<>>, Cut(side, w[side])) = Cut(side, w[side])
        BY <1>1, CutCovers, ApplyNothing
      <3>3. Cut(side, Cut(side, w[side])) = Cut(side, w[side])
        BY <1>1, CutTwice
      <3> QED
        BY <1>1, <1>2, <3>1, <3>2, <3>3
    <2>2. /\ Best(w, Depth) = [side \in Side |-> Cut(side, w[side])]
          /\ Best(to, Depth) = [side \in Side |-> Cut(side, to[side])]
      BY BestCut
    <2> QED
      BY <2>1, <2>2
  <1> QED
    BY <1>4, <1>6, <1>7, <1>8 DEF to

----------------------------------------------------------------------------
(* The message makes the second book of the first; a snapshot of any. *)
Carries(m, a, b) ==
    LET from == IF m.type = "snapshot" THEN Empty ELSE a
    IN IF m.bids = <<>> /\ m.asks = <<>>
       THEN m.type = "snapshot" /\ b = Empty
       ELSE Received(m, from) = b /\ Clean(m, from)

(* The messages on their way make the exchange's book of the first one,    *)
(* which is the server's: unless a snapshot is yet to come, or was missed. *)
Chain(e, queue) == \A i \in 1 .. Len(queue) : Carries(queue[i], e[i - 1], e[i])

Follow(e) ==
    /\ Chain(e, downstream)
    /\ e[Len(downstream)] = Best(exchange, Depth)
    /\ \/ book = e[0]
       \/ missed
       \/ downstream # <<>> /\ downstream[1].type = "snapshot"

IInv ==
    /\ IsBook(exchange)
    /\ downstream \in Seq(Messages)
    /\ subscribed \in BOOLEAN /\ missed \in BOOLEAN /\ unknown \in BOOLEAN
    /\ ~ subscribed => downstream = <<>>
    /\ subscribed => \E e : Follow(e)
    /\ unknown => missed

ChainEnds(f, e, queue, m, b) ==
    LET next == Append(queue, m)
    IN /\ Chain(f, next) /\ f[Len(next)] = b /\ f[0] = e[0]
       /\ next \in Seq(Messages) /\ next # <<>>
       /\ next[1] = IF queue = <<>> THEN m ELSE queue[1]

(* One more message makes one more book. *)
LEMMA ChainAppend ==
  ASSUME NEW queue \in Seq(Messages), NEW e, Chain(e, queue), NEW m \in Messages, NEW b,
         Carries(m, e[Len(queue)], b)
  PROVE  \E f : ChainEnds(f, e, queue, m, b)
  <1> DEFINE n == Len(queue)
             next == Append(queue, m)
             f == [i \in 0 .. n + 1 |-> IF i = n + 1 THEN b ELSE e[i]]
  <1>1. /\ n \in Nat /\ next \in Seq(Messages) /\ Len(next) = n + 1 /\ next[n + 1] = m
        /\ \A i \in 1 .. n : next[i] = queue[i]
        /\ queue = <<>> <=> n = 0
    OBVIOUS
  <1> HIDE DEF n, next
  <1>2. f[n + 1] = b /\ \A i \in 0 .. n : f[i] = e[i]
    BY <1>1
  <1> HIDE DEF f
  <1>3. ASSUME NEW i \in 1 .. n + 1
        PROVE  Carries(next[i], f[i - 1], f[i])
    <2>1. CASE i = n + 1
      <3>1. i - 1 = n /\ n \in 0 .. n
        BY <1>1, <2>1
      <3>2. f[i - 1] = e[n] /\ f[i] = b /\ next[i] = m
        BY <1>1, <1>2, <2>1, <3>1
      <3> QED
        BY <3>2 DEF n
    <2>2. CASE i # n + 1
      <3>1. i \in 1 .. n /\ i - 1 \in 0 .. n /\ i \in 0 .. n
        BY <1>1, <2>2
      <3>2. Carries(queue[i], e[i - 1], e[i])
        BY <3>1 DEF Chain, n
      <3> QED
        BY <1>1, <1>2, <3>1, <3>2
    <2> QED
      BY <2>1, <2>2
  <1>4. Chain(f, next) /\ f[0] = e[0]
    BY <1>1, <1>2, <1>3 DEF Chain
  <1>5. next # <<>> /\ next[1] = IF queue = <<>> THEN m ELSE queue[1]
    <2>1. CASE n = 0
      BY <1>1, <2>1 DEF next
    <2>2. CASE n # 0
      BY <1>1, <2>2 DEF next
    <2> QED
      BY <2>1, <2>2
  <1> QED
    BY <1>1, <1>2, <1>4, <1>5 DEF ChainEnds, n, next

ChainStarts(f, e, queue) ==
    LET rest == Tail(queue)
        m == Head(queue)
    IN /\ Chain(f, rest) /\ f[Len(rest)] = e[Len(queue)] /\ f[0] = e[1]
       /\ Carries(m, e[0], e[1]) /\ m \in Messages /\ m = queue[1]
       /\ rest \in Seq(Messages)

(* Without the first message the chain starts at the second book. *)
LEMMA ChainTail ==
  ASSUME NEW queue \in Seq(Messages), queue # <<>>, NEW e, Chain(e, queue)
  PROVE  \E f : ChainStarts(f, e, queue)
  <1> DEFINE n == Len(queue)
             rest == Tail(queue)
             f == [i \in 0 .. n - 1 |-> e[i + 1]]
  <1>1. /\ n \in Nat /\ n > 0 /\ rest \in Seq(Messages) /\ Len(rest) = n - 1
        /\ \A i \in 1 .. n - 1 : rest[i] = queue[i + 1]
        /\ Head(queue) = queue[1] /\ Head(queue) \in Messages
    OBVIOUS
  <1> HIDE DEF n, rest
  <1>2. \A i \in 0 .. n - 1 : f[i] = e[i + 1]
    OBVIOUS
  <1> HIDE DEF f
  <1>3. ASSUME NEW i \in 1 .. n - 1
        PROVE  Carries(rest[i], f[i - 1], f[i])
    <2>1. i + 1 \in 1 .. n /\ (i + 1) - 1 = i /\ i - 1 \in 0 .. n - 1 /\ i \in 0 .. n - 1
          /\ (i - 1) + 1 = i
      BY <1>1
    <2>2. Carries(queue[i + 1], e[(i + 1) - 1], e[i + 1])
      BY <2>1 DEF Chain, n
    <2>3. f[i - 1] = e[i] /\ f[i] = e[i + 1]
      BY <1>2, <2>1
    <2> QED
      BY <1>1, <2>1, <2>2, <2>3
  <1>4. Chain(f, rest)
    BY <1>1, <1>3 DEF Chain
  <1>5. f[Len(rest)] = e[n] /\ f[0] = e[1]
    <2>1. /\ n - 1 \in 0 .. n - 1 /\ (n - 1) + 1 = n
          /\ 0 \in 0 .. n - 1 /\ 0 + 1 = 1
      BY <1>1
    <2> QED
      BY <1>1, <1>2, <2>1
  <1>6. Carries(queue[1], e[0], e[1])
    <2>1. 1 \in 1 .. n /\ 1 - 1 = 0
      BY <1>1
    <2> QED
      BY <2>1 DEF Chain, n
  <1> QED
    BY <1>1, <1>4, <1>5, <1>6 DEF ChainStarts, n, rest

----------------------------------------------------------------------------
(* Nothing is subscribed to. *)
LEMMA InitIInv == Init => IInv
  <1> SUFFICES ASSUME Init PROVE IInv
    OBVIOUS
  <1>1. IsBook(exchange) /\ downstream = <<>> /\ downstream \in Seq(Messages)
    BY EmptyBook DEF Init
  <1>2. subscribed = FALSE /\ missed = FALSE /\ unknown = FALSE
    BY DEF Init
  <1> QED
    BY <1>1, <1>2 DEF IInv

(* A step that leaves the book, the stream and the exchange alone. *)
LEMMA QuietIInv ==
  ASSUME IInv, UNCHANGED <<downstream, subscribed, exchange, book, missed, unknown>>
  PROVE  IInv'
  BY DEF IInv, Follow

(* Nothing is on its way over a lost connection. *)
LEMMA DisconnectedIInv ==
  ASSUME IInv, Disconnected
  PROVE  IInv'
  <1>1. IsBook(exchange') /\ downstream' = <<>> /\ downstream' \in Seq(Messages)
    BY DEF IInv, Disconnected
  <1>2. subscribed' = FALSE /\ UNCHANGED <<missed, unknown>>
    BY DEF Disconnected
  <1> QED
    BY <1>1, <1>2 DEF IInv

(* The snapshot leads to the exchange's book from whatever the server      *)
(* has.                                                                    *)
LEMMA TakeSubscribeIInv ==
  ASSUME IInv, TakeSubscribe
  PROVE  IInv'
  <1>1. CASE subscribed
    BY <1>1, QuietIInv DEF TakeSubscribe, IInv
  <1>2. CASE ~ subscribed
    <2> DEFINE m == Snapshot(exchange)
               e == [i \in 0 .. 0 |-> book]
    <2>1. downstream = <<>> /\ downstream' = Append(downstream, m) /\ subscribed'
      BY <1>2 DEF TakeSubscribe, IInv, Snapshot
    <2>2. /\ m \in Messages /\ m.type = "snapshot"
          /\ Received(m, Empty) = Best(exchange, Depth) /\ Clean(m, Empty)
          /\ m.bids = <<>> /\ m.asks = <<>> => Best(exchange, Depth) = Empty
      BY SnapshotReceived DEF IInv
    <2> HIDE DEF m
    <2>3. Chain(e, downstream) /\ downstream \in Seq(Messages)
      BY <2>1 DEF Chain
    <2> HIDE DEF e
    <2>4. Carries(m, e[Len(downstream)], Best(exchange, Depth))
      BY <2>2 DEF Carries
    <2>5. PICK f : ChainEnds(f, e, downstream, m, Best(exchange, Depth))
      BY <2>2, <2>3, <2>4, ChainAppend
    <2>6. /\ Chain(f, downstream') /\ f[Len(downstream')] = Best(exchange, Depth)
          /\ downstream' \in Seq(Messages) /\ downstream' # <<>> /\ downstream'[1] = m
      BY <2>1, <2>5 DEF ChainEnds
    <2>7. UNCHANGED <<exchange, book, missed, unknown>>
      BY DEF TakeSubscribe
    <2>8. Follow(f)'
      BY <2>2, <2>6, <2>7 DEF Follow
    <2> QED
      BY <2>1, <2>6, <2>7, <2>8 DEF IInv
  <1> QED
    BY <1>1, <1>2

(* What the changes of one level are to the exchange and to the stream. *)
LEMMA ChangeMade ==
  ASSUME IsBook(exchange), NEW side \in Side, NEW p \in Price[side],
         NEW quantities \in UNION {[1 .. n -> 0 .. MaxQuantity] : n \in 1 .. 2},
         Change(side, p, quantities)
  PROVE  \E m \in Messages :
           /\ IsBook(exchange') /\ m.type = "update"
           /\ Received(m, Best(exchange, Depth)) = Best(exchange', Depth)
           /\ Clean(m, Best(exchange, Depth))
           /\ IF subscribed /\ ~ (m.bids = <<>> /\ m.asks = <<>>)
              THEN downstream' = Append(downstream, m)
              ELSE UNCHANGED downstream
           /\ m.bids = <<>> /\ m.asks = <<>> => Best(exchange', Depth) = Best(exchange, Depth)
  <1> DEFINE twice == Len(quantities) = 2
             new == SetPrice(exchange, side, p, quantities[1])
             newer == SetPrice(new, side, p, quantities[2])
             last == IF twice THEN newer ELSE new
             m == Message("update", Changed(exchange, new, newer, twice)["bids"],
                                    Changed(exchange, new, newer, twice)["asks"])
             n == Message("update", Changed(exchange, new, last, twice)["bids"],
                                    Changed(exchange, new, last, twice)["asks"])
  <1>1. /\ quantities \in Seq(Nat) /\ Len(quantities) \in {1, 2}
        /\ quantities[1] \in Nat /\ twice => quantities[2] \in Nat
        /\ twice \in BOOLEAN
        /\ Last(quantities) = IF twice THEN quantities[2] ELSE quantities[1]
    <2>1. PICK k \in 1 .. 2 : quantities \in [1 .. k -> 0 .. MaxQuantity]
      OBVIOUS
    <2>2. MaxQuantity \in Nat
      BY NumberAssumption
    <2> QED
      BY <2>1, <2>2 DEF Last
  <1>2. /\ IsBook(new)
        /\ \A s \in Side : SameBut(s, new[s], exchange[s], p)
    BY <1>1, SetPriceBook
  <1>3. /\ IsBook(last)
        /\ \A s \in Side : SameBut(s, last[s], new[s], p)
    <2>1. CASE twice
      <3> HIDE DEF new
      <3>1. IsBook(newer) /\ \A s \in Side : SameBut(s, newer[s], new[s], p)
        BY <1>1, <1>2, <2>1, SetPriceBook
      <3> HIDE DEF newer
      <3> QED
        BY <2>1, <3>1
    <2>2. CASE ~ twice
      BY <1>2, <2>2 DEF SameBut
    <2> QED
      BY <2>1, <2>2
  <1>4. exchange' = SetPrice(exchange, side, p, Last(quantities))
    BY DEF Change, SetPrice
  <1>5. exchange' = last
    <2>1. CASE twice
      <3>1. newer = SetPrice(exchange, side, p, quantities[2])
        BY <1>1, <2>1, SetPriceTwice
      <3> HIDE DEF newer
      <3> QED
        BY <1>1, <1>4, <2>1, <3>1
    <2>2. CASE ~ twice
      BY <1>1, <1>4, <2>2
    <2> QED
      BY <2>1, <2>2
  <1>6. IF subscribed /\ m.bids \o m.asks # <<>>
        THEN downstream' = Append(downstream, m)
        ELSE UNCHANGED downstream
    BY DEF Change, SetPrice, Changed, Side
  <1>7. m = n
    BY DEF Changed, Side
  <1>8. IF subscribed /\ n.bids \o n.asks # <<>>
        THEN downstream' = Append(downstream, n)
        ELSE UNCHANGED downstream
    <2> HIDE DEF m, n
    <2> QED
      BY <1>6, <1>7
  <1>9. /\ n \in Messages /\ n.type = "update"
        /\ Received(n, Best(exchange, Depth)) = Best(IF twice THEN last ELSE new, Depth)
        /\ Clean(n, Best(exchange, Depth))
        /\ n.bids = <<>> /\ n.asks = <<>> =>
              Best(IF twice THEN last ELSE new, Depth) = Best(exchange, Depth)
    <2> DEFINE k == n
    <2>1. k = Message("update", Changed(exchange, new, last, twice)["bids"],
                                Changed(exchange, new, last, twice)["asks"])
      OBVIOUS
    <2> HIDE DEF k, new, last
    <2>2. twice \in BOOLEAN
      BY <1>1
    <2> HIDE DEF twice
    <2>3. /\ k \in Messages /\ k.type = "update"
          /\ Received(k, Best(exchange, Depth)) = Best(IF twice THEN last ELSE new, Depth)
          /\ Clean(k, Best(exchange, Depth))
          /\ k.bids = <<>> /\ k.asks = <<>> =>
                Best(IF twice THEN last ELSE new, Depth) = Best(exchange, Depth)
      BY <1>2, <1>3, <2>1, <2>2, ChangeReceived
    <2> QED
      BY <2>3 DEF k
  <1>10. (IF twice THEN last ELSE new) = last
    OBVIOUS
  <1> HIDE DEF m, n, last
  <1>11. n.bids \o n.asks # <<>> <=> ~ (n.bids = <<>> /\ n.asks = <<>>)
    <2>1. n.bids \in Seq(LevelUpdate("bids")) /\ n.asks \in Seq(LevelUpdate("asks"))
      BY <1>9 DEF Messages
    <2> DEFINE x == n.bids
               y == n.asks
               V == LevelUpdate("bids") \cup LevelUpdate("asks")
    <2>2. x \in Seq(V) /\ y \in Seq(V)
      BY <2>1
    <2> HIDE DEF x, y, V
    <2>3. Len(x \o y) = Len(x) + Len(y) /\ Len(x) \in Nat /\ Len(y) \in Nat
      BY <2>2
    <2>4. (x \o y = <<>> <=> Len(x \o y) = 0) /\ (x = <<>> <=> Len(x) = 0)
          /\ (y = <<>> <=> Len(y) = 0)
      BY <2>2
    <2>5. x \o y # <<>> <=> ~ (x = <<>> /\ y = <<>>)
      BY <2>3, <2>4
    <2> QED
      BY <2>5 DEF x, y
  <1>12. IF subscribed /\ ~ (n.bids = <<>> /\ n.asks = <<>>)
         THEN downstream' = Append(downstream, n)
         ELSE UNCHANGED downstream
    BY <1>8, <1>11
  <1>13. /\ IsBook(exchange')
         /\ Received(n, Best(exchange, Depth)) = Best(exchange', Depth)
         /\ n.bids = <<>> /\ n.asks = <<>> => Best(exchange', Depth) = Best(exchange, Depth)
    BY <1>3, <1>5, <1>9, <1>10
  <1> QED
    BY <1>9, <1>12, <1>13

(* The message of a change leads to the exchange's new book. *)
LEMMA ChangeIInv ==
  ASSUME IInv, NEW side \in Side, NEW p \in Price[side],
         NEW quantities \in UNION {[1 .. n -> 0 .. MaxQuantity] : n \in 1 .. 2},
         Change(side, p, quantities)
  PROVE  IInv'
  <1>1. IsBook(exchange)
    BY DEF IInv
  <1>2. PICK m \in Messages :
          /\ IsBook(exchange') /\ m.type = "update"
          /\ Received(m, Best(exchange, Depth)) = Best(exchange', Depth)
          /\ Clean(m, Best(exchange, Depth))
          /\ IF subscribed /\ ~ (m.bids = <<>> /\ m.asks = <<>>)
             THEN downstream' = Append(downstream, m)
             ELSE UNCHANGED downstream
          /\ m.bids = <<>> /\ m.asks = <<>> => Best(exchange', Depth) = Best(exchange, Depth)
    BY <1>1, ChangeMade
  <1>3. UNCHANGED <<subscribed, book, missed, unknown>>
    BY DEF Change
  <1>4. CASE ~ subscribed
    BY <1>2, <1>3, <1>4 DEF IInv
  <1>5. CASE subscribed
    <2>1. PICK e : Follow(e)
      BY <1>5 DEF IInv
    <2>2. /\ Chain(e, downstream) /\ e[Len(downstream)] = Best(exchange, Depth)
          /\ \/ book = e[0]
             \/ missed
             \/ downstream # <<>> /\ downstream[1].type = "snapshot"
      BY <2>1 DEF Follow
    <2>3. CASE m.bids = <<>> /\ m.asks = <<>>
      <3>1. downstream' = downstream /\ Best(exchange', Depth) = Best(exchange, Depth)
        BY <1>2, <2>3
      <3>2. Follow(e)'
        BY <1>3, <2>2, <3>1 DEF Follow
      <3> QED
        BY <1>2, <1>3, <1>5, <3>1, <3>2 DEF IInv
    <2>4. CASE ~ (m.bids = <<>> /\ m.asks = <<>>)
      <3>1. downstream' = Append(downstream, m) /\ downstream \in Seq(Messages)
        BY <1>2, <1>5, <2>4 DEF IInv
      <3>2. Carries(m, e[Len(downstream)], Best(exchange', Depth))
        BY <1>2, <2>2, <2>4 DEF Carries
      <3>3. PICK f : ChainEnds(f, e, downstream, m, Best(exchange', Depth))
        BY <2>2, <3>1, <3>2, ChainAppend
      <3>4. /\ Chain(f, downstream') /\ f[Len(downstream')] = Best(exchange', Depth)
            /\ f[0] = e[0] /\ downstream' \in Seq(Messages) /\ downstream' # <<>>
            /\ downstream # <<>> => downstream'[1] = downstream[1]
        BY <3>1, <3>3 DEF ChainEnds
      <3>5. Follow(f)'
        BY <1>3, <2>2, <3>4 DEF Follow
      <3> QED
        BY <1>2, <1>3, <1>5, <3>4, <3>5 DEF IInv
    <2> QED
      BY <2>3, <2>4
  <1> QED
    BY <1>4, <1>5

(* The server's book moves on to the next one of the chain. *)
LEMMA ReceiveIInv ==
  ASSUME IInv, Receive
  PROVE  IInv'
  <1>1. subscribed /\ downstream # <<>> /\ downstream \in Seq(Messages)
    BY DEF IInv, Receive
  <1>2. PICK e : Follow(e)
    BY <1>1 DEF IInv
  <1>3. /\ Chain(e, downstream) /\ e[Len(downstream)] = Best(exchange, Depth)
        /\ book = e[0] \/ missed \/ downstream[1].type = "snapshot"
    BY <1>2 DEF Follow
  <1>4. PICK f : ChainStarts(f, e, downstream)
    BY <1>1, <1>3, ChainTail
  <1> DEFINE m == Head(downstream)
             from == IF m.type = "snapshot" THEN Empty ELSE book
  <1>5. /\ downstream' = Tail(downstream)
        /\ UNCHANGED <<subscribed, exchange>>
        /\ IF m.bids = <<>> /\ m.asks = <<>>
           THEN missed' = (book # Empty) /\ unknown' = FALSE /\ UNCHANGED book
           ELSE /\ book' = Received(m, from)
                /\ missed' = (missed /\ m.type = "update")
                /\ unknown' = ((unknown /\ m.type = "update") \/ ~ Clean(m, from))
    <2>1. m \in Messages
      BY <1>4 DEF ChainStarts
    <2>2. m.type \in {"snapshot", "update"}
      BY <2>1 DEF Messages
    <2>3. (IF UpdateType(m.type) = "SNAPSHOT" THEN Empty ELSE book) = from
      BY <2>2 DEF UpdateType
    <2> QED
      BY <2>3 DEF Receive, Received, Clean
  <1>6. /\ m \in Messages /\ m.type \in {"snapshot", "update"} /\ m = downstream[1]
        /\ Carries(m, e[0], e[1])
        /\ Chain(f, downstream') /\ f[Len(downstream')] = Best(exchange, Depth)
        /\ f[0] = e[1] /\ downstream' \in Seq(Messages)
    <2>1. /\ m \in Messages /\ m = downstream[1]
          /\ Carries(m, e[0], e[1])
          /\ Chain(f, Tail(downstream)) /\ f[Len(Tail(downstream))] = e[Len(downstream)]
          /\ f[0] = e[1] /\ Tail(downstream) \in Seq(Messages)
      BY <1>4 DEF ChainStarts
    <2>2. m.type \in {"snapshot", "update"}
      BY <2>1 DEF Messages
    <2> HIDE DEF m
    <2> QED
      BY <1>3, <1>5, <2>1, <2>2
  <1> HIDE DEF m
  <1>7. CASE m.bids = <<>> /\ m.asks = <<>>
    <2>1. e[1] = Empty
      BY <1>6, <1>7 DEF Carries
    <2>2. missed' = (book # Empty) /\ unknown' = FALSE /\ UNCHANGED book
      BY <1>5, <1>7
    <2>3. Follow(f)'
      BY <1>5, <1>6, <2>1, <2>2 DEF Follow
    <2>4. missed' \in BOOLEAN
      BY <2>2
    <2>5. unknown' \in BOOLEAN /\ (unknown => missed)'
      BY <2>2
    <2> QED
      BY <1>1, <1>5, <1>6, <2>3, <2>4, <2>5 DEF IInv
  <1>8. CASE ~ (m.bids = <<>> /\ m.asks = <<>>)
    <2>1. /\ book' = Received(m, from)
          /\ missed' = (missed /\ m.type = "update")
          /\ unknown' = ((unknown /\ m.type = "update") \/ ~ Clean(m, from))
      BY <1>5, <1>8
    <2>2. missed' \in BOOLEAN
      BY <2>1
    <2>3. unknown' \in BOOLEAN
      BY <2>1
    <2>4. ~ missed' => Clean(m, from) /\ Received(m, from) = e[1]
      <3>1. CASE m.type = "snapshot"
        BY <1>6, <1>8, <3>1 DEF Carries
      <3>2. CASE m.type = "update" /\ book = e[0]
        BY <1>6, <1>8, <3>2 DEF Carries
      <3>3. CASE m.type = "update" /\ missed
        BY <2>1, <3>3
      <3> QED
        BY <1>3, <1>6, <3>1, <3>2, <3>3
    <2> HIDE DEF from
    <2>5. (unknown => missed)'
      BY <2>1, <2>4 DEF IInv
    <2>6. Follow(f)'
      BY <1>5, <1>6, <2>1, <2>4 DEF Follow
    <2> QED
      BY <1>1, <1>5, <1>6, <2>2, <2>3, <2>5, <2>6 DEF IInv
  <1> QED
    BY <1>7, <1>8

(* One step per action. *)
LEMMA NextIInv ==
  ASSUME IInv, [Next]_vars
  PROVE  IInv'
  <1>1. CASE SocketReady
    BY <1>1, QuietIInv DEF SocketReady
  <1>2. CASE Status
    BY <1>2, QuietIInv DEF Status
  <1>3. CASE Disconnected
    BY <1>3, DisconnectedIInv
  <1>4. CASE TakeSubscribe
    BY <1>4, TakeSubscribeIInv
  <1>5. CASE Receive
    BY <1>5, ReceiveIInv
  <1>6. ASSUME NEW side \in Side, NEW p \in Price[side],
               NEW quantities \in UNION {[1 .. n -> 0 .. MaxQuantity] : n \in 1 .. 2},
               Change(side, p, quantities)
        PROVE  IInv'
    BY <1>6, ChangeIInv
  <1>7. CASE UNCHANGED vars
    BY <1>7, QuietIInv DEF vars
  <1> QED
    BY <1>1, <1>2, <1>3, <1>4, <1>5, <1>6, <1>7 DEF Next

(* The books of all messages on their way follow from each other. *)
THEOREM Invariance == Spec => []IInv
  <1> QED
    BY InitIInv, NextIInv, PTL DEF Spec

(* When all is read, the server has the best part of the exchange's        *)
(* book, for any prices, depth and number of messages, unless an empty     *)
(* snapshot was missed.                                                    *)
THEOREM BookCorrect == Spec => []BookFollowsExchange
  <1>1. IInv => BookFollowsExchange
    <2> SUFFICES ASSUME IInv, subscribed, downstream = <<>>, ~ missed
                 PROVE  book = Best(exchange, Depth)
      BY DEF BookFollowsExchange
    <2>1. PICK e : Follow(e)
      BY DEF IInv
    <2> QED
      BY <2>1 DEF Follow
  <1> QED
    BY <1>1, Invariance, PTL

(* No level is removed that the book does not have, unless an empty        *)
(* snapshot was missed, for any prices, depth and number of messages.      *)
THEOREM RemovalsCorrect == Spec => []RemovesKnownLevels
  <1>1. IInv => RemovesKnownLevels
    BY DEF IInv, RemovesKnownLevels
  <1> QED
    BY <1>1, Invariance, PTL

====
