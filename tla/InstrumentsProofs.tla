---- MODULE InstrumentsProofs ----
(***************************************************************************)
(* Proofs about Instruments: what clients are told of the pairs follows    *)
(* the exchange, and every pair that is kept is asked for, for any number  *)
(* of pairs, messages in flight and connections.                           *)
(***************************************************************************)
EXTENDS Instruments, TLAPS

(* What was told of a pair is what its status calls for. *)
Right(s) ==
    /\ (reference_data[s] = "keep" /\ market_status[s] = "OPEN") <=> exchange[s] = "online"
    /\ reference_data[s] = "discard" <=> exchange[s] = "delisted"
    /\ exchange[s] # "delisted" => s \in all_symbols

(* A message on its way is the last word on a pair. *)
LastWord(s, i) ==
    /\ s \in DOMAIN downstream[i]
    /\ downstream[i][s] = exchange[s]
    /\ \A j \in i + 1 .. Len(downstream) : s \notin DOMAIN downstream[j]

Pending(s) == \E i \in 1 .. Len(downstream) : LastWord(s, i)
Silent(s) == \A i \in 1 .. Len(downstream) : s \notin DOMAIN downstream[i]

(* The stream is about to bring the status of a pair, or has brought it. *)
PairsInv ==
    streaming => \A s \in Listed \ Discarded : Pending(s) \/ (Silent(s) /\ Right(s))

(* A subscription to a pair is on its way. *)
Asked(s) ==
    \E i \in 1 .. Len(upstream) : upstream[i] # Instruments /\ s \in upstream[i].symbols

(* Every pair that is known is asked for on every connection that is ready. *)
KnownInv ==
    connection_status = "READY" =>
        \A s \in all_symbols : s \in subscribed \cup refused \/ Asked(s)

StatusInv == upstream # <<>> \/ streaming => connection_status = "READY"

TypeInv ==
    /\ \E S : upstream \in Seq(S)
    /\ \E S : downstream \in Seq(S)
    /\ exchange \in [Symbol -> PairsStatus \cup {"unlisted"}]

(* The inductive invariant. *)
IInv == TypeInv /\ StatusInv /\ KnownInv /\ PairsInv

----------------------------------------------------------------------------
LEMMA InitIInv == Init => IInv
  <1> SUFFICES ASSUME Init PROVE IInv
    OBVIOUS
  <1>1. upstream \in Seq({}) /\ downstream \in Seq({})
    BY DEF Init
  <1> QED
    BY <1>1 DEF Init, IInv, TypeInv, StatusInv, KnownInv, PairsInv

(* A request is added. *)
LEMMA AskLemma ==
  ASSUME NEW symbols, NEW S, NEW u \in Seq(S)
  PROVE  /\ \E T : u \o Ask(symbols) \in Seq(T)
         /\ \A i \in 1 .. Len(u) :
              i \in 1 .. Len(u \o Ask(symbols)) /\ (u \o Ask(symbols))[i] = u[i]
         /\ symbols # {} =>
              \E i \in 1 .. Len(u \o Ask(symbols)) :
                 (u \o Ask(symbols))[i] = MarketDataOf(symbols)
  <1> DEFINE m == MarketDataOf(symbols)
             T == S \cup {m}
  <1>1. u \in Seq(T)
    OBVIOUS
  <1> HIDE DEF m
  <1>2. <<m>> \in Seq(T) /\ <<>> \in Seq(T)
    OBVIOUS
  <1>3. CASE symbols = {}
    <2>1. Ask(symbols) = <<>>
      BY <1>3 DEF Ask
    <2> HIDE DEF T
    <2>2. u \o <<>> = u
      BY <1>1
    <2> QED
      BY <1>1, <1>3, <2>1, <2>2
  <1>4. CASE symbols # {}
    <2>1. Ask(symbols) = <<m>>
      BY <1>4 DEF Ask, m
    <2> HIDE DEF T
    <2>2. /\ u \o <<m>> \in Seq(T)
          /\ Len(u \o <<m>>) = Len(u) + 1
          /\ (u \o <<m>>)[Len(u) + 1] = m
          /\ \A i \in 1 .. Len(u) : (u \o <<m>>)[i] = u[i]
          /\ Len(u) \in Nat
      BY <1>1, <1>2
    <2> QED
      BY <2>1, <2>2 DEF m
  <1> QED
    BY <1>3, <1>4

LEMMA MarketDataLemma ==
  ASSUME NEW symbols
  PROVE  MarketDataOf(symbols) # Instruments /\ MarketDataOf(symbols).symbols = symbols
  <1>1. MarketDataOf(symbols).channel = "market data" /\ Instruments.channel = "instrument"
    BY DEF MarketDataOf, Instruments
  <1> QED
    BY <1>1 DEF MarketDataOf

----------------------------------------------------------------------------
(* The gateway's side of the connection. *)

LEMMA SocketReadyIInv == IInv /\ SocketReady => IInv'
  BY DEF SocketReady, IInv, TypeInv, StatusInv, KnownInv, PairsInv, Listed, Right,
         Pending, Silent, LastWord

LEMMA DisconnectedIInv == IInv /\ Disconnected => IInv'
  <1> SUFFICES ASSUME IInv, Disconnected PROVE IInv'
    OBVIOUS
  <1>1. upstream' \in Seq({}) /\ downstream' \in Seq({})
    BY DEF Disconnected
  <1> QED
    BY <1>1 DEF Disconnected, IInv, TypeInv, StatusInv, KnownInv, PairsInv

(* Symbols are added to those known, and the new ones are asked for. *)
LEMMA GrowLemma ==
  ASSUME IInv, NEW symbols, NEW new, SymbolsUpdate(symbols, new),
         symbols \ all_symbols \subseteq new,
         UNCHANGED <<connection_status, subscribed, refused>>
  PROVE  KnownInv' /\ \E T : upstream' \in Seq(T)
  <1>1. PICK T : upstream \in Seq(T)
    BY DEF IInv, TypeInv
  <1>2. \E V : upstream' \in Seq(V)
    BY <1>1, AskLemma DEF SymbolsUpdate
  <1>3. KnownInv'
    <2> SUFFICES ASSUME connection_status = "READY", NEW s \in all_symbols'
                 PROVE  s \in subscribed \cup refused \/ Asked(s)'
      BY DEF KnownInv
    <2>1. upstream' = upstream \o Ask(new)
      BY DEF SymbolsUpdate
    <2>2. CASE s \in new
      <3>1. PICK i \in 1 .. Len(upstream') : upstream'[i] = MarketDataOf(new)
        BY <1>1, <2>1, <2>2, AskLemma
      <3> QED
        BY <2>2, <3>1, MarketDataLemma DEF Asked
    <2>3. CASE s \in all_symbols
      <3>1. \A i \in 1 .. Len(upstream) :
              i \in 1 .. Len(upstream') /\ upstream'[i] = upstream[i]
        BY <1>1, <2>1, AskLemma
      <3> QED
        BY <2>3, <3>1 DEF IInv, KnownInv, Asked
    <2> QED
      BY <2>2, <2>3 DEF SymbolsUpdate
  <1> QED
    BY <1>2, <1>3

LEMMA SubscribeIInv ==
  ASSUME IInv, NEW symbols, Subscribe(symbols)
  PROVE  IInv'
  <1>1. KnownInv' /\ \E T : upstream' \in Seq(T)
    BY GrowLemma DEF Subscribe
  <1>2. UNCHANGED <<connection_status, downstream, streaming, subscribed, refused,
                    exchange, reference_data, market_status>>
    BY DEF Subscribe
  <1>3. all_symbols \subseteq all_symbols'
    BY DEF Subscribe, SymbolsUpdate
  <1>4. TypeInv'
    BY <1>1, <1>2 DEF IInv, TypeInv
  <1>5. StatusInv'
    <2>1. upstream' # <<>> => connection_status = "READY"
      BY DEF IInv, StatusInv, Subscribe, SymbolsUpdate
    <2> QED
      BY <1>2, <2>1 DEF IInv, StatusInv
  <1>6. PairsInv'
    <2> SUFFICES ASSUME streaming, NEW s \in Listed \ Discarded
                 PROVE  Pending(s)' \/ (Silent(s)' /\ Right(s)')
      BY <1>2 DEF PairsInv, Listed
    <2>1. Right(s) => Right(s)'
      BY <1>2, <1>3 DEF Right
    <2>2. (Pending(s) => Pending(s)') /\ (Silent(s) => Silent(s)')
      BY <1>2 DEF Pending, Silent, LastWord
    <2> QED
      BY <2>1, <2>2 DEF IInv, PairsInv
  <1> QED
    BY <1>1, <1>4, <1>5, <1>6 DEF IInv

LEMMA StatusIInv == IInv /\ Status => IInv'
  <1> SUFFICES ASSUME IInv, Status PROVE IInv'
    OBVIOUS
  <1> DEFINE u == upstream \o <<Instruments>>
  <1>1. PICK S : u \in Seq(S)
    <2>1. PICK S : upstream \in Seq(S)
      BY DEF IInv, TypeInv
    <2>2. upstream \in Seq(S \cup {Instruments}) /\ <<Instruments>> \in Seq(S \cup {Instruments})
      BY <2>1
    <2> QED
      BY <2>2
  <1>2. upstream' = u \o Ask(all_symbols) /\ connection_status' = "READY"
    BY DEF Status
  <1> HIDE DEF u
  <1>3. /\ \E T : upstream' \in Seq(T)
        /\ all_symbols # {} =>
             \E i \in 1 .. Len(upstream') : upstream'[i] = MarketDataOf(all_symbols)
    BY <1>1, <1>2, AskLemma
  <1>4. KnownInv'
    BY <1>3, MarketDataLemma DEF Status, KnownInv, Asked
  <1>5. TypeInv' /\ StatusInv' /\ PairsInv'
    BY <1>2, <1>3 DEF Status, IInv, TypeInv, StatusInv, PairsInv, Listed, Right, Pending,
                      Silent, LastWord
  <1> QED
    BY <1>4, <1>5 DEF IInv

(* A message is read. *)
LEMMA ReceiveIInv == IInv /\ Receive => IInv'
  <1> SUFFICES ASSUME IInv, Receive PROVE IInv'
    OBVIOUS
  <1> DEFINE m == Head(downstream)
             kept == {s \in DOMAIN m : ~Discard(s, m[s])}
  <1>1. PICK S : downstream \in Seq(S)
    BY DEF IInv, TypeInv
  <1>2. PICK T : upstream \in Seq(T)
    BY DEF IInv, TypeInv
  <1>3. /\ Len(downstream) \in Nat \ {0}
        /\ downstream' \in Seq(S)
        /\ Len(downstream') = Len(downstream) - 1
        /\ \A i \in 1 .. Len(downstream') : downstream'[i] = downstream[i + 1]
        /\ m = downstream[1]
    BY <1>1 DEF Receive
  <1>4. /\ SymbolsUpdate(kept, NewSymbols(m))
        /\ all_symbols' = all_symbols \cup kept
        /\ NewSymbols(m) = kept \ all_symbols
        /\ UNCHANGED <<connection_status, streaming, subscribed, refused, exchange>>
    BY DEF Receive, NewSymbols, SymbolsUpdate
  <1>5. KnownInv' /\ \E V : upstream' \in Seq(V)
    <2> HIDE DEF m, kept
    <2> QED
      BY <1>4, GrowLemma
  <1>6. TypeInv'
    BY <1>3, <1>4, <1>5 DEF IInv, TypeInv
  <1>7. StatusInv'
    BY <1>4 DEF IInv, StatusInv, SymbolsUpdate
  <1>8. PairsInv'
    <2> SUFFICES ASSUME streaming, NEW s \in Listed \ Discarded
                 PROVE  Pending(s)' \/ (Silent(s)' /\ Right(s)')
      BY <1>4 DEF PairsInv, Listed
    <2>1. s \in Symbol
      BY DEF Listed
    <2>2. CASE \E i \in 2 .. Len(downstream) : LastWord(s, i)
      <3>1. PICK i \in 2 .. Len(downstream) : LastWord(s, i)
        BY <2>2
      <3>2. i - 1 \in 1 .. Len(downstream') /\ downstream'[i - 1] = downstream[i]
        BY <1>3, <3>1
      <3>3. \A j \in (i - 1) + 1 .. Len(downstream') :
              j + 1 \in i + 1 .. Len(downstream) /\ downstream'[j] = downstream[j + 1]
        BY <1>3, <3>1
      <3>4. LastWord(s, i - 1)'
        BY <1>4, <3>1, <3>2, <3>3 DEF LastWord
      <3> QED
        BY <3>2, <3>4 DEF Pending
    <2>3. CASE LastWord(s, 1)
      <3>1. s \in DOMAIN m /\ m[s] = exchange[s]
        BY <1>3, <2>3 DEF LastWord
      <3>2. Silent(s)'
        <4>1. \A i \in 1 .. Len(downstream') : i + 1 \in 1 + 1 .. Len(downstream)
          BY <1>3
        <4> QED
          BY <1>3, <2>3, <4>1 DEF LastWord, Silent
      <3>3. s \in kept <=> exchange[s] # "delisted"
        BY <3>1 DEF Discard
      <3>4. /\ reference_data'[s] = IF s \in kept THEN "keep" ELSE "discard"
            /\ market_status'[s] = IF s \in kept THEN TradingStatus(m[s])
                                   ELSE market_status[s]
        BY <2>1, <3>1 DEF Receive
      <3> HIDE DEF kept
      <3>5. Right(s)'
        BY <1>4, <3>1, <3>3, <3>4 DEF Right, TradingStatus
      <3> QED
        BY <3>2, <3>5
    <2>4. CASE Silent(s) /\ Right(s)
      <3>1. s \notin DOMAIN m
        BY <1>3, <2>4 DEF Silent
      <3>2. Silent(s)'
        BY <1>3, <2>4 DEF Silent
      <3>3. reference_data'[s] = reference_data[s] /\ market_status'[s] = market_status[s]
        BY <2>1, <3>1 DEF Receive
      <3>4. Right(s)'
        BY <1>4, <2>4, <3>3 DEF Right
      <3> QED
        BY <3>2, <3>4
    <2>5. Pending(s) => LastWord(s, 1) \/ \E i \in 2 .. Len(downstream) : LastWord(s, i)
      BY <1>3 DEF Pending
    <2> QED
      BY <2>2, <2>3, <2>4, <2>5 DEF IInv, PairsInv
  <1> QED
    BY <1>5, <1>6, <1>7, <1>8 DEF IInv

----------------------------------------------------------------------------
(* The exchange. *)

(* A message about some of the pairs, with their status, is sent. *)
LEMMA SendLemma ==
  ASSUME TypeInv, NEW m, downstream' = Append(downstream, m)
  PROVE  /\ \E S : downstream' \in Seq(S)
         /\ \A s \in DOMAIN m : m[s] = exchange'[s] => Pending(s)'
         /\ \A s : s \notin DOMAIN m /\ exchange'[s] = exchange[s] /\ Pending(s)
                     => Pending(s)'
         /\ \A s : s \notin DOMAIN m /\ Silent(s) => Silent(s)'
  <1>1. PICK S : downstream \in Seq(S)
    BY DEF TypeInv
  <1>2. PICK n \in Nat :
        /\ n = Len(downstream)
        /\ downstream' \in Seq(S \cup {m})
        /\ Len(downstream') = n + 1
        /\ downstream'[n + 1] = m
        /\ \A i \in 1 .. n : downstream'[i] = downstream[i]
    <2>1. downstream \in Seq(S \cup {m})
      BY <1>1
    <2> QED
      BY <2>1
  <1>3. ASSUME NEW s \in DOMAIN m, m[s] = exchange'[s]
        PROVE  Pending(s)'
    <2>1. n + 1 \in 1 .. Len(downstream') /\ ((n + 1) + 1 .. Len(downstream')) = {}
      BY <1>2
    <2>2. LastWord(s, n + 1)'
      BY <1>2, <1>3, <2>1 DEF LastWord
    <2> QED
      BY <2>1, <2>2 DEF Pending
  <1>4. ASSUME NEW s, s \notin DOMAIN m, exchange'[s] = exchange[s], Pending(s)
        PROVE  Pending(s)'
    <2>1. PICK i \in 1 .. n : LastWord(s, i)
      BY <1>2, <1>4 DEF Pending
    <2>2. i \in 1 .. Len(downstream')
      BY <1>2
    <2>3. \A j \in i + 1 .. Len(downstream') : j \in i + 1 .. n \/ j = n + 1
      BY <1>2
    <2>4. \A j \in i + 1 .. n : downstream'[j] = downstream[j]
      BY <1>2
    <2>5. \A j \in i + 1 .. n : s \notin DOMAIN downstream[j]
      BY <1>2, <2>1 DEF LastWord
    <2>6. LastWord(s, i)'
      BY <1>2, <1>4, <2>1, <2>3, <2>4, <2>5 DEF LastWord
    <2> QED
      BY <2>2, <2>6 DEF Pending
  <1>5. ASSUME NEW s, s \notin DOMAIN m, Silent(s)
        PROVE  Silent(s)'
    <2>1. \A i \in 1 .. Len(downstream') : i \in 1 .. n \/ i = n + 1
      BY <1>2
    <2> QED
      BY <1>2, <1>5, <2>1 DEF Silent
  <1> QED
    BY <1>2, <1>3, <1>4, <1>5

(* A request is taken. *)
LEMMA TakeIInv == IInv /\ Take => IInv'
  <1> SUFFICES ASSUME IInv, Take PROVE IInv'
    OBVIOUS
  <1> DEFINE m == Head(upstream)
             accepted == {s \in Listed : exchange[s] # "delisted"}
  <1>1. PICK T : upstream \in Seq(T)
    BY DEF IInv, TypeInv
  <1>2. /\ Len(upstream) \in Nat \ {0}
        /\ upstream' \in Seq(T)
        /\ Len(upstream') = Len(upstream) - 1
        /\ \A i \in 1 .. Len(upstream') : upstream'[i] = upstream[i + 1]
        /\ m = upstream[1]
    BY <1>1 DEF Take
  <1>3. /\ connection_status = "READY"
        /\ UNCHANGED <<connection_status, exchange, all_symbols, reference_data,
                       market_status>>
    BY DEF Take, IInv, StatusInv
  <1>4. /\ subscribed \cup refused \subseteq (subscribed \cup refused)'
        /\ m # Instruments => m.symbols \subseteq (subscribed \cup refused)'
    BY DEF Take
  <1>5. KnownInv'
    <2> SUFFICES ASSUME NEW s \in all_symbols, Asked(s)
                 PROVE  s \in (subscribed \cup refused)' \/ Asked(s)'
      BY <1>3, <1>4 DEF IInv, KnownInv
    <2>1. PICK i \in 1 .. Len(upstream) :
            upstream[i] # Instruments /\ s \in upstream[i].symbols
      BY DEF Asked
    <2>2. CASE i = 1
      BY <1>2, <1>4, <2>1, <2>2
    <2>3. CASE i # 1
      <3>1. i - 1 \in 1 .. Len(upstream') /\ upstream'[i - 1] = upstream[i]
        BY <1>2, <2>3
      <3> QED
        BY <2>1, <3>1 DEF Asked
    <2> QED
      BY <2>2, <2>3
  <1>6. StatusInv'
    BY <1>3 DEF StatusInv
  <1>7. CASE m = Instruments /\ ~streaming
    <2> DEFINE d == [s \in Listed |-> exchange[s]]
    <2>1. downstream' = Append(downstream, d)
      BY <1>7 DEF Take
    <2>2. \A s \in Listed : s \in DOMAIN d /\ d[s] = exchange'[s]
      BY <1>3
    <2> HIDE DEF d
    <2>3. /\ \E S : downstream' \in Seq(S)
          /\ \A s \in Listed : Pending(s)'
      BY <2>1, <2>2, SendLemma DEF IInv
    <2>4. PairsInv'
      BY <1>3, <2>3 DEF PairsInv, Listed
    <2> QED
      BY <1>2, <1>3, <1>5, <1>6, <2>3, <2>4 DEF IInv, TypeInv
  <1>8. CASE m # Instruments \/ streaming
    <2>1. UNCHANGED <<streaming, downstream>>
      BY <1>8 DEF Take
    <2>2. PairsInv'
      BY <1>3, <2>1 DEF IInv, PairsInv, Listed, Right, Pending, Silent, LastWord
    <2> QED
      BY <1>2, <1>3, <1>5, <1>6, <2>1, <2>2 DEF IInv, TypeInv
  <1> QED
    BY <1>7, <1>8

(* A pair changes its status. *)
LEMMA ChangeIInv ==
  ASSUME IInv, NEW p \in Symbol, Change(p)
  PROVE  IInv'
  <1>1. PICK status \in (PairsStatus \cup {"unlisted"}) \ {exchange[p]} :
          /\ exchange' = [exchange EXCEPT ![p] = status]
          /\ IF streaming /\ status # "unlisted"
             THEN downstream' = Append(downstream, [t \in {p} |-> status])
             ELSE UNCHANGED downstream
    BY DEF Change
  <1>2. UNCHANGED <<connection_status, upstream, streaming, subscribed, refused,
                    all_symbols, reference_data, market_status>>
    BY DEF Change
  <1>3. /\ exchange \in [Symbol -> PairsStatus \cup {"unlisted"}]
        /\ exchange' \in [Symbol -> PairsStatus \cup {"unlisted"}]
        /\ exchange'[p] = status
        /\ \A s \in Symbol : s # p => exchange'[s] = exchange[s]
    BY <1>1 DEF IInv, TypeInv
  <1>4. KnownInv' /\ StatusInv'
    BY <1>2 DEF IInv, KnownInv, StatusInv, Asked
  <1>5. CASE streaming /\ status # "unlisted"
    <2> DEFINE d == [t \in {p} |-> status]
    <2>1. downstream' = Append(downstream, d)
      BY <1>1, <1>5
    <2>2. DOMAIN d = {p} /\ d[p] = exchange'[p]
      BY <1>3
    <2> HIDE DEF d
    <2>3. \E S : downstream' \in Seq(S)
      BY <2>1, SendLemma DEF IInv
    <2>4. Pending(p)'
      BY <2>1, <2>2, SendLemma DEF IInv
    <2>5. ASSUME NEW s \in Listed' \ Discarded, s # p
          PROVE  Pending(s)' \/ (Silent(s)' /\ Right(s)')
      <3>1. s \in Listed /\ exchange'[s] = exchange[s]
        BY <1>3, <2>5 DEF Listed
      <3>2. s \notin DOMAIN d
        BY <2>2, <2>5
      <3>3. Pending(s) => Pending(s)'
        BY <2>1, <3>1, <3>2, SendLemma DEF IInv
      <3>4. Silent(s) => Silent(s)'
        BY <2>1, <3>2, SendLemma DEF IInv
      <3>5. Right(s) => Right(s)'
        BY <1>2, <3>1 DEF Right
      <3> QED
        BY <1>5, <2>5, <3>1, <3>3, <3>4, <3>5 DEF IInv, PairsInv
    <2>6. PairsInv'
      BY <2>4, <2>5 DEF PairsInv
    <2> QED
      BY <1>2, <1>3, <1>4, <2>3, <2>6 DEF IInv, TypeInv
  <1>6. CASE ~(streaming /\ status # "unlisted")
    <2>1. UNCHANGED downstream
      BY <1>1, <1>6
    <2>2. ASSUME streaming, NEW s \in Listed' \ Discarded
          PROVE  Pending(s)' \/ (Silent(s)' /\ Right(s)')
      <3>1. s # p
        BY <1>3, <1>6, <2>2 DEF Listed
      <3>2. s \in Listed /\ exchange'[s] = exchange[s]
        BY <1>3, <3>1 DEF Listed
      <3>3. Pending(s) \/ (Silent(s) /\ Right(s))
        BY <2>2, <3>2 DEF IInv, PairsInv
      <3> QED
        BY <1>2, <2>1, <3>2, <3>3 DEF Pending, Silent, LastWord, Right
    <2>3. PairsInv'
      BY <1>2, <2>2 DEF PairsInv
    <2> QED
      BY <1>2, <1>3, <1>4, <2>1, <2>3 DEF IInv, TypeInv
  <1> QED
    BY <1>5, <1>6

----------------------------------------------------------------------------
LEMMA NextIInv == IInv /\ [Next]_vars => IInv'
  <1>1. IInv /\ UNCHANGED vars => IInv'
    BY DEF vars, IInv, TypeInv, StatusInv, KnownInv, PairsInv, Listed, Right, Pending,
           Silent, LastWord, Asked
  <1> QED
    BY <1>1, SocketReadyIInv, StatusIInv, DisconnectedIInv, TakeIInv, ChangeIInv,
       SubscribeIInv, ReceiveIInv DEF Next

THEOREM Inductive == Spec => []IInv
  BY InitIInv, NextIInv, PTL DEF Spec

LEMMA CaughtUpLemma ==
  ASSUME IInv, CaughtUp, NEW s \in Listed \ Discarded
  PROVE  Right(s)
  <1>1. Len(downstream) = 0
    BY DEF CaughtUp
  <1>2. ~Pending(s)
    BY <1>1 DEF Pending
  <1> QED
    BY <1>2 DEF CaughtUp, IInv, PairsInv

(* What clients were told of a pair is its status at the exchange whenever *)
(* everything streamed is processed: MarketData's Instrument handler.      *)
THEOREM PairsCorrect == Spec => []PairsFollowExchange
  <1>1. IInv => PairsFollowExchange
    BY CaughtUpLemma DEF PairsFollowExchange, Right
  <1> QED
    BY Inductive, <1>1, PTL

(* A pair that is kept is subscribed to, or was refused: the subscriptions *)
(* of the Status and Instrument handlers and of the clients.               *)
THEOREM SubscribedCorrect == Spec => []SubscribedUnlessRefused
  <1>1. IInv => SubscribedUnlessRefused
    <2> SUFFICES ASSUME IInv, CaughtUp, upstream = <<>>,
                        NEW s \in Listed \ Discarded, exchange[s] # "delisted"
                 PROVE  s \in subscribed \cup refused
      BY DEF SubscribedUnlessRefused
    <2>1. s \in all_symbols
      BY CaughtUpLemma DEF Right
    <2>2. connection_status = "READY"
      BY DEF IInv, StatusInv, CaughtUp
    <2>3. ~Asked(s)
      BY DEF Asked
    <2> QED
      BY <2>1, <2>2, <2>3 DEF IInv, KnownInv
  <1> QED
    BY Inductive, <1>1, PTL

====
