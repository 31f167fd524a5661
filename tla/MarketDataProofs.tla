---- MODULE MarketDataProofs ----
(***************************************************************************)
(* Proofs about the distribution of symbols over the public streams        *)
(* (MarketData).                                                           *)
(***************************************************************************)
EXTENDS MarketData, FiniteSetTheorems, SequenceTheorems, TLAPS

(* The list holds every known symbol once. *)
ListInv ==
    /\ \A p, q \in 1 .. Len(symbols) : symbols[p] = symbols[q] => p = q
    /\ all_symbols = {symbols[p] : p \in 1 .. Len(symbols)}

(* There are streams for the whole list. *)
SizeInv == Len(symbols) <= size * MaxSubscriptions

(* Only existing streams connect; a ready one has seen a status. *)
StatusInv ==
    \A i \in Index :
        /\ connection_status[i] # "DISCONNECTED" => i < size
        /\ Ready(i) => statuses[i] > 0

(* The inductive invariant. *)
IInv ==
    /\ TypeOK
    /\ ListInv
    /\ SizeInv
    /\ StatusInv
    /\ ReadyStreamsCovered
    /\ AskedOncePerStatus

----------------------------------------------------------------------------
(* Lists and slices *)

(* An enumeration of a finite set holds each of its elements once. *)
LEMMA Enumeration ==
  ASSUME NEW T \in SUBSET Symbol, NEW new \in SetToSeqs(T)
  PROVE  /\ new \in Seq(Symbol)
         /\ \A p, q \in 1 .. Len(new) : new[p] = new[q] => p = q
         /\ T = {new[p] : p \in 1 .. Len(new)}
  <1>1. IsFiniteSet(T)
    BY SymbolAssumption, FS_Subset
  <1> DEFINE n == Cardinality(T)
             D == 1 .. n
  <1>2. n \in Nat
    BY <1>1, FS_CardinalityType
  <1>3. new \in [D -> T] /\ \A i, j \in D : i # j => new[i] # new[j]
    BY DEF SetToSeqs
  <1>4. new \in Injection(D, T)
    BY <1>3 DEF Injection, IsInjective
  <1>5. IsFiniteSet(D) /\ Cardinality(D) = n
    BY <1>2, FS_Interval
  <1>6. new \in Surjection(D, T)
    BY <1>1, <1>4, <1>5, FS_Injection
  <1>7. T = {new[p] : p \in D}
    BY <1>3, <1>6 DEF Surjection
  <1> HIDE DEF n
  <1>8. Len(new) = n /\ new \in Seq(Symbol)
    BY <1>2, <1>3
  <1> QED
    BY <1>3, <1>7, <1>8

(* Appending new elements keeps what was there, position by position. *)
LEMMA Appended ==
  ASSUME NEW s \in Seq(Symbol), NEW t \in Seq(Symbol)
  PROVE  /\ s \o t \in Seq(Symbol)
         /\ Len(s \o t) = Len(s) + Len(t)
         /\ Len(s) \in Nat /\ Len(t) \in Nat
         /\ \A p \in 1 .. Len(s) : (s \o t)[p] = s[p]
         /\ \A p \in Len(s) + 1 .. Len(s) + Len(t) :
                (s \o t)[p] = t[p - Len(s)]
  BY ConcatProperties

(* The slices of a longer list: the old slice and what is new in it. *)
LEMMA SliceAppended ==
  ASSUME NEW s \in Seq(Symbol), NEW t \in Seq(Symbol), NEW i \in Nat
  PROVE  Slice(s \o t, i, 0) = Slice(s, i, 0) \cup Slice(s \o t, i, Len(s))
  <1> DEFINE In(p) == /\ p > i * MaxSubscriptions
                      /\ p <= (i + 1) * MaxSubscriptions
             u == s \o t
  <1>1. /\ u \in Seq(Symbol)
        /\ Len(u) = Len(s) + Len(t)
        /\ Len(s) \in Nat /\ Len(t) \in Nat
        /\ \A p \in 1 .. Len(s) : u[p] = s[p]
    BY Appended
  <1>2. /\ \A x : x \in Slice(u, i, 0) <=>
                    \E p \in 1 .. Len(u) : p > 0 /\ In(p) /\ x = u[p]
        /\ \A x : x \in Slice(s, i, 0) <=>
                    \E p \in 1 .. Len(s) : p > 0 /\ In(p) /\ x = s[p]
        /\ \A x : x \in Slice(u, i, Len(s)) <=>
                    \E p \in 1 .. Len(u) : p > Len(s) /\ In(p) /\ x = u[p]
    BY DEF Slice
  <1> HIDE DEF In, u
  <1> QED
    BY <1>1, <1>2 DEF u

(* What is new in a slice is new. *)
LEMMA SliceNew ==
  ASSUME NEW s \in Seq(Symbol), NEW t \in Seq(Symbol), NEW i \in Nat
  PROVE  Slice(s \o t, i, Len(s)) \subseteq {t[p] : p \in 1 .. Len(t)}
  BY Appended DEF Slice

LEMMA SliceOfList ==
  ASSUME NEW s \in Seq(Symbol), NEW i \in Nat, NEW k \in Nat
  PROVE  /\ Slice(s, i, k) \subseteq {s[p] : p \in 1 .. Len(s)}
         /\ Slice(s, i, k) \subseteq Symbol
  BY DEF Slice


(* The slice of a position, and that it is among the first n slices if the *)
(* position is below the end of the n-th.                                  *)
LEMMA SliceOfPosition ==
  ASSUME NEW p \in Nat \ {0}, NEW n \in Nat, p <= n * MaxSubscriptions
  PROVE  \E i \in Nat : /\ i < n
                        /\ i < p
                        /\ p > i * MaxSubscriptions
                        /\ p <= (i + 1) * MaxSubscriptions
  <1> DEFINE M == MaxSubscriptions
             i == (p - 1) \div M
  <1>1. M \in Nat \ {0} /\ p - 1 \in Nat
    BY MaxSubscriptionsAssumption
  <1> HIDE DEF M
  <1>2. /\ i \in Nat
        /\ p - 1 = i * M + ((p - 1) % M)
        /\ (p - 1) % M \in 0 .. M - 1
    BY <1>1
  <1> HIDE DEF i
  <1>3. i * M \in Nat /\ i * M <= p - 1 /\ p - 1 < i * M + M
    BY <1>1, <1>2
  <1>4. (i + 1) * M = i * M + M
    BY <1>1, <1>2
  <1>5. i < n
    <2>1. n <= i => n * M <= i * M
      BY <1>1, <1>2
    <2> QED
      BY <1>1, <1>2, <1>3, <2>1 DEF M
  <1>6. i <= i * M
    BY <1>1, <1>2
  <1>7. p > i * M /\ p <= (i + 1) * M /\ i < p
    BY <1>1, <1>2, <1>3, <1>4, <1>6
  <1> QED
    BY <1>2, <1>5, <1>7 DEF M

(* Slices do not overlap. *)
LEMMA SlicesDisjoint ==
  ASSUME NEW i \in Nat, NEW j \in Nat, NEW p \in Nat,
         p > i * MaxSubscriptions, p <= (i + 1) * MaxSubscriptions,
         p > j * MaxSubscriptions, p <= (j + 1) * MaxSubscriptions
  PROVE  i = j
  <1>1. \A a, b \in Nat : a < b => (a + 1) * MaxSubscriptions <= b * MaxSubscriptions
    BY MaxSubscriptionsAssumption
  <1>2. /\ i * MaxSubscriptions \in Nat /\ (i + 1) * MaxSubscriptions \in Nat
        /\ j * MaxSubscriptions \in Nat /\ (j + 1) * MaxSubscriptions \in Nat
    BY MaxSubscriptionsAssumption
  <1>3. ~ (i < j) /\ ~ (j < i)
    BY <1>1, <1>2
  <1> QED
    BY <1>3

(* The slices needed hold the whole list. *)
LEMMA EnoughSlices ==
  ASSUME NEW s \in Seq(Symbol)
  PROVE  /\ NumberOfSlices(s) \in Nat
         /\ Len(s) <= NumberOfSlices(s) * MaxSubscriptions
  <1> DEFINE M == MaxSubscriptions
             l == Len(s)
             n == (l + M - 1) \div M
  <1>1. M \in Nat \ {0} /\ l \in Nat /\ l + M - 1 \in Nat
    BY MaxSubscriptionsAssumption
  <1> HIDE DEF M, l
  <1>2. /\ n \in Nat
        /\ l + M - 1 = n * M + ((l + M - 1) % M)
        /\ (l + M - 1) % M \in 0 .. M - 1
    BY <1>1
  <1> HIDE DEF n
  <1>3. l <= n * M
    BY <1>1, <1>2
  <1> QED
    BY <1>2, <1>3 DEF NumberOfSlices, l, M, n

----------------------------------------------------------------------------
(* The inductive invariant *)

LEMMA InitIInv == Init => IInv
  <1> SUFFICES ASSUME Init PROVE IInv
    OBVIOUS
  <1> USE DEF Init
  <1>1. TypeOK
    BY DEF TypeOK, ConnectionStatus
  <1>2. ListInv /\ StatusInv
    BY DEF ListInv, StatusInv, Ready
  <1>3. SizeInv
    BY MaxSubscriptionsAssumption DEF SizeInv
  <1>4. ReadyStreamsCovered
    BY DEF ReadyStreamsCovered, Subscribed, Ready
  <1>5. AskedOncePerStatus
    BY DEF AskedOncePerStatus
  <1> QED
    BY <1>1, <1>2, <1>3, <1>4, <1>5 DEF IInv

LEMMA IndexType == Index \subseteq Nat /\ Cardinality(Symbol) \in Nat
  BY SymbolAssumption, FS_CardinalityType DEF Index

LEMMA AskType ==
  ASSUME NEW asked \in [Symbol -> Nat], NEW set
  PROVE  /\ Ask(asked, set) \in [Symbol -> Nat]
         /\ \A x \in Symbol :
              Ask(asked, set)[x] = IF x \in set THEN asked[x] + 1 ELSE asked[x]
  BY DEF Ask

(* Appending new symbols, and asking the ready streams for them. *)
LEMMA SymbolsUpdateIInv ==
  ASSUME IInv, NEW T \in SUBSET Symbol, NEW new \in NewSymbols(T),
         all_symbols' = all_symbols \cup T,
         SymbolsUpdate(new),
         UNCHANGED <<connection_status, disconnects, statuses>>
  PROVE  IInv'
  <1> DEFINE list == symbols \o new
             start_from == Len(symbols)
  <1>1. /\ new \in Seq(Symbol)
        /\ \A p, q \in 1 .. Len(new) : new[p] = new[q] => p = q
        /\ T \ all_symbols = {new[p] : p \in 1 .. Len(new)}
    <2> DEFINE N == T \ all_symbols
    <2>1. N \in SUBSET Symbol /\ new \in SetToSeqs(N)
      BY DEF NewSymbols
    <2> HIDE DEF N
    <2>2. /\ new \in Seq(Symbol)
          /\ \A p, q \in 1 .. Len(new) : new[p] = new[q] => p = q
          /\ N = {new[p] : p \in 1 .. Len(new)}
      BY <2>1, Enumeration
    <2> QED
      BY <2>2 DEF N
  <1>2. symbols \in Seq(Symbol)
    BY DEF IInv, TypeOK, ConnectionStatus
  <1>3. /\ symbols' = list
        /\ list \in Seq(Symbol)
        /\ NumberOfSlices(list) \in Nat
        /\ size \in Nat \ {0}
        /\ size' = IF size < NumberOfSlices(list) THEN NumberOfSlices(list)
                                                  ELSE size
    BY <1>1, <1>2, EnoughSlices, Appended DEF SymbolsUpdate, IInv, TypeOK, ConnectionStatus
  <1>4. \A i \in Index :
            requests'[i] = IF Ready(i)
                           THEN Ask(requests[i], Slice(list, i, start_from))
                           ELSE requests[i]
    <2>1. \A i \in Index : Ready(i) => i < size
      BY DEF IInv, StatusInv, Ready
    <2>2. \A i \in Index : Ready(i) => i < size'
      BY <1>3, <2>1, IndexType
    <2> QED
      BY <2>2 DEF SymbolsUpdate
  <1>5. TypeOK'
    <2>1. symbols' \in Seq(Symbol) /\ all_symbols' \subseteq Symbol
      BY <1>1, <1>2, <1>3, Appended DEF IInv, TypeOK, ConnectionStatus
    <2>2. size' \in Nat \ {0}
      BY <1>3
    <2>3. requests' \in [Index -> [Symbol -> Nat]]
      <3>1. \A i \in Index : requests[i] \in [Symbol -> Nat]
        BY DEF IInv, TypeOK, ConnectionStatus
      <3>2. \A i \in Index : requests'[i] \in [Symbol -> Nat]
        BY <1>4, <3>1, AskType
      <3>3. requests' = [i \in Index |-> requests'[i]]
        BY DEF SymbolsUpdate
      <3> QED
        BY <3>2, <3>3
    <2> QED
      BY <2>1, <2>2, <2>3 DEF IInv, TypeOK, ConnectionStatus
  <1>6. ListInv'
    <2>1. all_symbols' = {list[p] : p \in 1 .. Len(list)}
      <3>1. ASSUME NEW x \in all_symbols'
            PROVE  \E p \in 1 .. Len(list) : x = list[p]
        <4>1. CASE x \in all_symbols
          <5>1. PICK p \in 1 .. Len(symbols) : x = symbols[p]
            BY <4>1 DEF IInv, ListInv
          <5> QED
            BY <1>1, <1>2, <5>1, Appended
        <4>2. CASE x \in T \ all_symbols
          <5>1. PICK p \in 1 .. Len(new) : x = new[p]
            BY <1>1, <4>2
          <5>2. /\ Len(symbols) + p \in Len(symbols) + 1 .. Len(symbols) + Len(new)
                /\ (Len(symbols) + p) - Len(symbols) = p
            BY <1>1, <1>2, Appended
          <5>3. list[Len(symbols) + p] = x
            BY <1>1, <1>2, <5>1, <5>2, Appended
          <5> QED
            BY <1>1, <1>2, <5>2, <5>3, Appended
        <4> QED
          BY <4>1, <4>2
      <3>2. ASSUME NEW p \in 1 .. Len(list)
            PROVE  list[p] \in all_symbols'
        <4>1. CASE p <= Len(symbols)
          BY <1>1, <1>2, <4>1, Appended DEF IInv, ListInv
        <4>2. CASE p > Len(symbols)
          <5>1. p - Len(symbols) \in 1 .. Len(new) /\ list[p] = new[p - Len(symbols)]
            BY <1>1, <1>2, <4>2, Appended
          <5> QED
            BY <1>1, <5>1
        <4> QED
          BY <1>1, <1>2, <4>1, <4>2, Appended
      <3> QED
        BY <3>1, <3>2
    <2>2. ASSUME NEW p \in 1 .. Len(list), NEW q \in 1 .. Len(list),
                 list[p] = list[q]
          PROVE  p = q
      <3>1. \A k \in 1 .. Len(list) :
              \/ /\ k \in 1 .. Len(symbols)
                 /\ list[k] = symbols[k]
                 /\ list[k] \in all_symbols
              \/ /\ k > Len(symbols)
                 /\ k - Len(symbols) \in 1 .. Len(new)
                 /\ list[k] = new[k - Len(symbols)]
                 /\ list[k] \notin all_symbols
        <4> SUFFICES ASSUME NEW k \in 1 .. Len(list)
                     PROVE  \/ /\ k \in 1 .. Len(symbols)
                               /\ list[k] = symbols[k]
                               /\ list[k] \in all_symbols
                            \/ /\ k > Len(symbols)
                               /\ k - Len(symbols) \in 1 .. Len(new)
                               /\ list[k] = new[k - Len(symbols)]
                               /\ list[k] \notin all_symbols
          OBVIOUS
        <4>1. CASE k <= Len(symbols)
          BY <1>1, <1>2, <4>1, Appended DEF IInv, ListInv
        <4>2. CASE k > Len(symbols)
          <5>1. k - Len(symbols) \in 1 .. Len(new) /\ list[k] = new[k - Len(symbols)]
            BY <1>1, <1>2, <4>2, Appended
          <5> QED
            BY <1>1, <4>2, <5>1
        <4> QED
          BY <1>1, <1>2, <4>1, <4>2, Appended
      <3>2. \A a, b \in 1 .. Len(symbols) : symbols[a] = symbols[b] => a = b
        BY DEF IInv, ListInv
      <3> HIDE DEF list
      <3>3. Len(symbols) \in Nat
        BY <1>2
      <3> QED
        BY <1>1, <2>2, <3>1, <3>2, <3>3
    <2> QED
      BY <1>3, <2>1, <2>2 DEF ListInv
  <1>7. SizeInv'
    <2>1. Len(list) <= NumberOfSlices(list) * MaxSubscriptions
      BY <1>3, EnoughSlices
    <2>2. \A a, b \in Nat : a <= b =>
              a * MaxSubscriptions <= b * MaxSubscriptions
      BY MaxSubscriptionsAssumption
    <2>3. NumberOfSlices(list) <= size' /\ size' \in Nat
      BY <1>3
    <2>4. /\ Len(list) \in Nat
          /\ NumberOfSlices(list) * MaxSubscriptions \in Nat
          /\ size' * MaxSubscriptions \in Nat
      BY <1>3, <2>3, MaxSubscriptionsAssumption
    <2>5. NumberOfSlices(list) * MaxSubscriptions <= size' * MaxSubscriptions
      BY <1>3, <2>2, <2>3
    <2> HIDE DEF list
    <2> QED
      BY <1>3, <2>1, <2>4, <2>5 DEF SizeInv
  <1>8. StatusInv'
    <2>1. size <= size'
      BY <1>3
    <2> QED
      BY <1>3, <2>1, IndexType DEF IInv, StatusInv, Ready
  <1>9. \A i \in Index :
            /\ Slice(list, i, 0) = Slice(symbols, i, 0) \cup Slice(list, i, start_from)
            /\ Slice(list, i, start_from) \cap all_symbols = {}
            /\ Slice(list, i, start_from) \subseteq Symbol
            /\ Slice(symbols, i, 0) \subseteq all_symbols
            /\ Slice(symbols, i, 0) \subseteq Symbol
    <2> SUFFICES ASSUME NEW i \in Index
                 PROVE  /\ Slice(list, i, 0) =
                             Slice(symbols, i, 0) \cup Slice(list, i, start_from)
                        /\ Slice(list, i, start_from) \cap all_symbols = {}
                        /\ Slice(list, i, start_from) \subseteq Symbol
                        /\ Slice(symbols, i, 0) \subseteq all_symbols
                        /\ Slice(symbols, i, 0) \subseteq Symbol
      OBVIOUS
    <2>1. i \in Nat
      BY IndexType
    <2>2. Slice(list, i, 0) = Slice(symbols, i, 0) \cup Slice(list, i, start_from)
      BY <1>1, <1>2, <2>1, SliceAppended
    <2>3. Slice(list, i, start_from) \subseteq {new[p] : p \in 1 .. Len(new)}
      BY <1>1, <1>2, <2>1, SliceNew
    <2>4. Slice(symbols, i, 0) \subseteq {symbols[p] : p \in 1 .. Len(symbols)}
      BY <1>2, <2>1, SliceOfList
    <2>5. Slice(list, i, start_from) \subseteq T \ all_symbols
      BY <1>1, <2>3
    <2>6. Slice(symbols, i, 0) \subseteq all_symbols
      BY <2>4 DEF IInv, ListInv
    <2> HIDE DEF list, start_from
    <2> QED
      BY <2>2, <2>5, <2>6 DEF IInv, TypeOK, ConnectionStatus
  <1>10. \A i \in Index : requests[i] \in [Symbol -> Nat]
    BY DEF IInv, TypeOK, ConnectionStatus
  <1>11. ReadyStreamsCovered'
    <2> SUFFICES ASSUME NEW i \in Index
                 PROVE  Subscribed(i)' =
                          IF Ready(i) THEN Slice(list, i, 0) ELSE {}
      BY <1>3 DEF ReadyStreamsCovered, Ready
    <2>1. Subscribed(i) = IF Ready(i) THEN Slice(symbols, i, 0) ELSE {}
      BY DEF IInv, ReadyStreamsCovered
    <2> HIDE DEF list, start_from
    <2>2. CASE Ready(i)
      <3>1. requests'[i] = Ask(requests[i], Slice(list, i, start_from))
        BY <1>4, <2>2
      <3>2. \A x \in Symbol : requests'[i][x] > 0 <=>
                requests[i][x] > 0 \/ x \in Slice(list, i, start_from)
        BY <1>10, <3>1, AskType
      <3> QED
        BY <1>9, <2>1, <2>2, <3>2 DEF Subscribed
    <2>3. CASE ~Ready(i)
      BY <1>4, <2>1, <2>3 DEF Subscribed
    <2> QED
      BY <2>2, <2>3
  <1>12. AskedOncePerStatus'
    <2> SUFFICES ASSUME NEW i \in Index, NEW x \in Symbol
                 PROVE  requests'[i][x] <= statuses[i]
      BY DEF AskedOncePerStatus
    <2>1. requests[i][x] <= statuses[i] /\ statuses[i] \in Nat
      BY DEF IInv, AskedOncePerStatus, TypeOK, ConnectionStatus
    <2> HIDE DEF list, start_from
    <2>2. CASE Ready(i) /\ x \in Slice(list, i, start_from)
      <3>1. statuses[i] > 0
        BY <2>2 DEF IInv, StatusInv
      <3>2. x \notin Slice(symbols, i, 0)
        BY <1>9, <2>2
      <3>3. x \notin Subscribed(i)
        BY <2>2, <3>2 DEF IInv, ReadyStreamsCovered
      <3>4. requests[i][x] = 0
        BY <1>10, <3>3 DEF Subscribed
      <3>5. requests'[i][x] = 1
        BY <1>4, <1>10, <2>2, <3>4, AskType
      <3> QED
        BY <2>1, <3>1, <3>5
    <2>3. CASE ~(Ready(i) /\ x \in Slice(list, i, start_from))
      <3>1. requests'[i][x] = requests[i][x]
        BY <1>4, <1>10, <2>3, AskType
      <3> QED
        BY <2>1, <3>1
    <2> QED
      BY <2>2, <2>3
  <1> QED
    BY <1>5, <1>6, <1>7, <1>8, <1>11, <1>12 DEF IInv

LEMMA SocketReadyIInv ==
  ASSUME IInv, NEW i \in Index, SocketReady(i)
  PROVE  IInv'
  <1> USE DEF SocketReady
  <1>1. TypeOK' /\ ListInv' /\ SizeInv' /\ AskedOncePerStatus'
    BY DEF IInv, TypeOK, ConnectionStatus, ListInv, SizeInv, AskedOncePerStatus
  <1>2. \A j \in Index : Ready(j)' <=> Ready(j)
    BY DEF IInv, TypeOK, ConnectionStatus, Ready
  <1>3. StatusInv'
    BY <1>2 DEF IInv, StatusInv, TypeOK, ConnectionStatus
  <1>4. ReadyStreamsCovered'
    BY <1>2 DEF IInv, ReadyStreamsCovered, Subscribed
  <1> QED
    BY <1>1, <1>3, <1>4 DEF IInv

LEMMA StatusIInv ==
  ASSUME IInv, NEW i \in Index, Status(i)
  PROVE  IInv'
  <1> DEFINE slice == Slice(symbols, i, 0)
  <1>1. /\ requests[i] \in [Symbol -> Nat]
        /\ statuses[i] \in Nat
        /\ symbols \in Seq(Symbol)
        /\ i \in Nat
    BY IndexType DEF IInv, TypeOK, ConnectionStatus
  <1>2. slice \subseteq Symbol
    BY <1>1, SliceOfList
  <1>3. /\ requests' = [requests EXCEPT ![i] = Ask(requests[i], slice)]
        /\ statuses' = [statuses EXCEPT ![i] = statuses[i] + 1]
        /\ connection_status' = [connection_status EXCEPT ![i] = "READY"]
        /\ connection_status[i] # "DISCONNECTED"
        /\ UNCHANGED <<all_symbols, symbols, size, disconnects>>
    BY DEF Status
  <1> HIDE DEF slice
  <1>4. Ask(requests[i], slice) \in [Symbol -> Nat]
    BY <1>1, AskType
  <1>5. TypeOK'
    BY <1>1, <1>3, <1>4 DEF IInv, TypeOK, ConnectionStatus
  <1>6. ListInv' /\ SizeInv'
    BY <1>3 DEF IInv, ListInv, SizeInv
  <1>7. StatusInv'
    BY <1>1, <1>3 DEF IInv, StatusInv, TypeOK, ConnectionStatus, Ready
  <1>8. \A x \in Symbol :
            requests'[i][x] = IF x \in slice THEN requests[i][x] + 1
                                             ELSE requests[i][x]
    <2>1. requests'[i] = Ask(requests[i], slice)
      BY <1>3 DEF IInv, TypeOK, ConnectionStatus
    <2> QED
      BY <1>1, <2>1, AskType
  <1>9. ReadyStreamsCovered'
    <2> SUFFICES ASSUME NEW j \in Index
                 PROVE  Subscribed(j)' =
                          IF Ready(j)' THEN Slice(symbols, j, 0) ELSE {}
      BY <1>3 DEF ReadyStreamsCovered
    <2>1. CASE j = i
      <3>1. Ready(i)'
        BY <1>3 DEF IInv, TypeOK, ConnectionStatus, Ready
      <3>2. Subscribed(i) \subseteq slice
        BY DEF IInv, ReadyStreamsCovered, slice
      <3>3. Subscribed(i)' = slice
        BY <1>1, <1>2, <1>8, <3>2 DEF Subscribed
      <3> QED
        BY <2>1, <3>1, <3>3 DEF slice
    <2>2. CASE j # i
      <3>1. requests'[j] = requests[j] /\ (Ready(j)' <=> Ready(j))
        BY <1>3, <2>2 DEF IInv, TypeOK, ConnectionStatus, Ready
      <3> QED
        BY <3>1 DEF IInv, ReadyStreamsCovered, Subscribed
    <2> QED
      BY <2>1, <2>2
  <1>10. AskedOncePerStatus'
    <2> SUFFICES ASSUME NEW j \in Index, NEW x \in Symbol
                 PROVE  requests'[j][x] <= statuses'[j]
      BY DEF AskedOncePerStatus
    <2>1. requests[j][x] <= statuses[j] /\ requests[j] \in [Symbol -> Nat]
      BY DEF IInv, AskedOncePerStatus, TypeOK, ConnectionStatus
    <2>2. CASE j = i
      <3>1. statuses'[i] = statuses[i] + 1
        BY <1>3 DEF IInv, TypeOK, ConnectionStatus
      <3>2. requests[i][x] \in Nat
        BY <1>1
      <3> QED
        BY <1>1, <1>8, <2>1, <2>2, <3>1, <3>2
    <2>3. CASE j # i
      BY <1>3, <2>1, <2>3 DEF IInv, TypeOK, ConnectionStatus
    <2> QED
      BY <2>2, <2>3
  <1> QED
    BY <1>5, <1>6, <1>7, <1>9, <1>10 DEF IInv

LEMMA DisconnectedIInv ==
  ASSUME IInv, NEW i \in Index, Disconnected(i)
  PROVE  IInv'
  <1> USE DEF Disconnected
  <1>1. TypeOK'
    BY DEF IInv, TypeOK, ConnectionStatus
  <1>2. ListInv' /\ SizeInv'
    BY DEF IInv, ListInv, SizeInv
  <1>3. \A j \in Index :
            /\ j # i => /\ Ready(j)' <=> Ready(j)
                        /\ requests'[j] = requests[j]
                        /\ statuses'[j] = statuses[j]
                        /\ connection_status'[j] = connection_status[j]
            /\ j = i => /\ ~Ready(j)'
                        /\ requests'[j] = [s \in Symbol |-> 0]
                        /\ statuses'[j] = 0
                        /\ connection_status'[j] = "DISCONNECTED"
    BY DEF IInv, TypeOK, ConnectionStatus, Ready
  <1>4. StatusInv'
    BY <1>3 DEF IInv, StatusInv
  <1>5. ReadyStreamsCovered'
    BY <1>3 DEF IInv, ReadyStreamsCovered, Subscribed
  <1>6. AskedOncePerStatus'
    BY <1>3 DEF IInv, AskedOncePerStatus
  <1> QED
    BY <1>1, <1>2, <1>4, <1>5, <1>6 DEF IInv

LEMMA NextIInv == IInv /\ [Next]_vars => IInv'
  <1> SUFFICES ASSUME IInv, [Next]_vars PROVE IInv'
    OBVIOUS
  <1>1. CASE \E set \in SUBSET Symbol : Subscribe(set)
    BY <1>1, SymbolsUpdateIInv DEF Subscribe
  <1>2. CASE \E pairs \in SUBSET Symbol : \E delisted \in SUBSET pairs :
                Instrument(pairs, delisted)
    <2>1. PICK pairs \in SUBSET Symbol :
                \E delisted \in SUBSET pairs : Instrument(pairs, delisted)
      BY <1>2
    <2>2. PICK delisted \in SUBSET pairs : Instrument(pairs, delisted)
      BY <2>1
    <2>3. Kept(pairs, delisted) \in SUBSET Symbol
      BY DEF Kept
    <2> QED
      BY <2>2, <2>3, SymbolsUpdateIInv DEF Instrument
  <1>3. CASE \E i \in Index : SocketReady(i)
    BY <1>3, SocketReadyIInv
  <1>4. CASE \E i \in Index : Status(i)
    BY <1>4, StatusIInv
  <1>5. CASE \E i \in Index : Disconnected(i)
    BY <1>5, DisconnectedIInv
  <1>6. CASE UNCHANGED vars
    BY <1>6 DEF vars, IInv, TypeOK, ConnectionStatus, ListInv, SizeInv, StatusInv, Ready,
                ReadyStreamsCovered, Subscribed, AskedOncePerStatus
  <1> QED
    BY <1>1, <1>2, <1>3, <1>4, <1>5, <1>6 DEF Next

----------------------------------------------------------------------------
(* Theorems *)

(* The inductive invariant holds of every behaviour. *)
THEOREM Invariance == Spec => []IInv
  BY InitIInv, NextIInv, PTL DEF Spec

(* The types of MarketData's variables. *)
THEOREM TypeCorrect == Spec => []TypeOK
  <1>1. IInv => TypeOK
    BY DEF IInv
  <1> QED
    BY <1>1, Invariance, PTL

(* A ready stream is subscribed to its slice of the list, and nothing else *)
(* ever is, for any number of symbols and any slice size.                  *)
THEOREM CoverageCorrect == Spec => []ReadyStreamsCovered
  <1>1. IInv => ReadyStreamsCovered
    BY DEF IInv
  <1> QED
    BY <1>1, Invariance, PTL

(* A growing list never repeats a subscription. *)
THEOREM AskedOnceCorrect == Spec => []AskedOncePerStatus
  <1>1. IInv => AskedOncePerStatus
    BY DEF IInv
  <1> QED
    BY <1>1, Invariance, PTL

(* The list is not longer than the set of all symbols. *)
LEMMA ListBound ==
  ASSUME TypeOK, ListInv
  PROVE  Len(symbols) <= Cardinality(Symbol)
  <1> DEFINE D == 1 .. Len(symbols)
  <1>1. Len(symbols) \in Nat /\ symbols \in [D -> Symbol]
    BY DEF TypeOK, ConnectionStatus
  <1>2. symbols \in Injection(D, Symbol)
    BY <1>1 DEF ListInv, Injection, IsInjective
  <1>3. Cardinality(D) <= Cardinality(Symbol)
    BY <1>2, SymbolAssumption, FS_Injection
  <1>4. Cardinality(D) = Len(symbols)
    BY <1>1, FS_Interval
  <1> QED
    BY <1>3, <1>4

(* Every known symbol is in the slice of an existing stream, and no other  *)
(* stream is subscribed to it.                                             *)
THEOREM OneStreamCorrect == Spec => []OneStreamPerSymbol
  <1>1. IInv => OneStreamPerSymbol
    <2> SUFFICES ASSUME IInv, NEW s \in all_symbols
                 PROVE  \E i \in Stream :
                          /\ s \in Slice(symbols, i, 0)
                          /\ \A j \in Stream \ {i} : s \notin Subscribed(j)
      BY DEF OneStreamPerSymbol
    <2>1. PICK p \in 1 .. Len(symbols) : s = symbols[p]
      BY DEF IInv, ListInv
    <2>2. Len(symbols) \in Nat /\ size \in Nat /\ p \in Nat \ {0}
      BY <2>1 DEF IInv, TypeOK, ConnectionStatus
    <2>3. Len(symbols) <= Cardinality(Symbol) /\ Cardinality(Symbol) \in Nat
      BY ListBound, IndexType DEF IInv
    <2>4. p <= size * MaxSubscriptions
      <3>1. size * MaxSubscriptions \in Nat
        BY <2>2, MaxSubscriptionsAssumption
      <3> QED
        BY <2>1, <2>2, <3>1 DEF IInv, SizeInv
    <2>5. PICK i \in Nat : /\ i < size
                           /\ i < p
                           /\ p > i * MaxSubscriptions
                           /\ p <= (i + 1) * MaxSubscriptions
      BY <2>2, <2>4, SliceOfPosition
    <2>6. i \in Stream
      BY <2>1, <2>2, <2>3, <2>5 DEF Stream, Index
    <2>7. s \in Slice(symbols, i, 0)
      BY <2>1, <2>2, <2>5 DEF Slice
    <2>8. ASSUME NEW j \in Stream \ {i}, s \in Subscribed(j)
          PROVE  FALSE
      <3>1. j \in Index /\ j \in Nat
        BY IndexType DEF Stream
      <3>2. s \in Slice(symbols, j, 0)
        BY <2>8, <3>1 DEF IInv, ReadyStreamsCovered
      <3>3. PICK q \in 1 .. Len(symbols) : /\ s = symbols[q]
                                           /\ q > j * MaxSubscriptions
                                           /\ q <= (j + 1) * MaxSubscriptions
        BY <3>2 DEF Slice
      <3>4. q = p
        BY <2>1, <3>3 DEF IInv, ListInv
      <3> QED
        BY <2>2, <2>5, <2>8, <3>1, <3>3, <3>4, SlicesDisjoint
    <2> QED
      BY <2>6, <2>7, <2>8
  <1> QED
    BY <1>1, Invariance, PTL

(* A slice has at most MaxSubscriptions symbols. *)
LEMMA SliceBound ==
  ASSUME NEW list \in Seq(Symbol), NEW i \in Nat
  PROVE  /\ IsFiniteSet(Slice(list, i, 0))
         /\ Cardinality(Slice(list, i, 0)) <= MaxSubscriptions
  <1> DEFINE a == i * MaxSubscriptions
             b == (i + 1) * MaxSubscriptions
             P == {q \in 1 .. Len(list) : q > 0 /\ q > a /\ q <= b}
             f == [p \in P |-> list[p]]
             S == Slice(list, i, 0)
  <1>1. a \in Nat /\ b \in Nat /\ b = a + MaxSubscriptions
    BY MaxSubscriptionsAssumption
  <1>2. S = {list[p] : p \in P}
    BY DEF Slice
  <1> HIDE DEF a, b, S
  <1>3. P \in SUBSET (a + 1 .. b)
    BY <1>1
  <1>4. /\ IsFiniteSet(a + 1 .. b)
        /\ Cardinality(a + 1 .. b) = MaxSubscriptions
    <2>1. /\ IsFiniteSet(a + 1 .. b)
          /\ Cardinality(a + 1 .. b) =
                IF a + 1 > b THEN 0 ELSE b - (a + 1) + 1
      <3>1. a + 1 \in Int /\ b \in Int
        BY <1>1
      <3> QED
        BY <3>1, FS_Interval
    <2> QED
      BY <1>1, <2>1, MaxSubscriptionsAssumption
  <1>5. IsFiniteSet(P) /\ Cardinality(P) <= MaxSubscriptions
    BY <1>3, <1>4, FS_Subset
  <1>6. f \in Surjection(P, S)
    BY <1>2 DEF Surjection
  <1>7. /\ IsFiniteSet(S)
        /\ Cardinality(S) <= Cardinality(P)
    BY <1>5, <1>6, FS_Surjection
  <1>8. Cardinality(S) \in Nat /\ Cardinality(P) \in Nat
    BY <1>5, <1>7, FS_CardinalityType
  <1> QED
    BY <1>5, <1>7, <1>8, MaxSubscriptionsAssumption DEF S

(* No stream is subscribed to more symbols than the limit. *)
THEOREM LimitCorrect == Spec => []StreamLimit
  <1>1. IInv => StreamLimit
    <2> SUFFICES ASSUME IInv, NEW i \in Index
                 PROVE  Cardinality(Subscribed(i)) <= MaxSubscriptions
      BY DEF StreamLimit
    <2>1. Subscribed(i) = IF Ready(i) THEN Slice(symbols, i, 0) ELSE {}
      BY DEF IInv, ReadyStreamsCovered
    <2>2. symbols \in Seq(Symbol) /\ i \in Nat
      BY IndexType DEF IInv, TypeOK, ConnectionStatus
    <2>3. Cardinality(Slice(symbols, i, 0)) <= MaxSubscriptions
      BY <2>2, SliceBound
    <2>4. Cardinality({}) <= MaxSubscriptions
      BY FS_EmptySet, MaxSubscriptionsAssumption
    <2> QED
      BY <2>1, <2>3, <2>4
  <1> QED
    BY <1>1, Invariance, PTL
====
