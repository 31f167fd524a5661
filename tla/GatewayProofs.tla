---- MODULE GatewayProofs ----
(***************************************************************************)
(* Proofs about the streams under the Controller (Gateway), for any number *)
(* of accounts and of slices.                                              *)
(***************************************************************************)
EXTENDS Gateway, FiniteSetTheorems, TLAPS

(* The accounts whose private stream exists. *)
Private == {a \in Account : token[a] # 0}

(* The counter is the number of streams that exist, and their ids are      *)
(* distinct values up to the counter.                                      *)
IdInv ==
    /\ stream_id = slices + Cardinality(Account) + Cardinality(Private)
    /\ \A s \in DOMAIN id : id[s] \in 1 .. stream_id
    /\ \A s, t \in DOMAIN id : s # t => id[s] # id[t]

(* Only existing streams run, only running ones connect, only in the phase *)
(* in between, and only a connected stream has a status.                   *)
RunningInv ==
    /\ running \subseteq Dispatch
    /\ connecting \subseteq running
    /\ up \subseteq running
    /\ connecting \cap up = {}
    /\ phase # "started" => running = {}
    /\ \A s \in Stream : s \notin up => status[s] = "DISCONNECTED"

(* The status of a session says how far its download is. *)
DownloadInv ==
    \A a \in Account :
        /\ OE(a) \in up =>
             status[OE(a)] = IF completed[a] = 0 THEN "DISCONNECTED"
                             ELSE IF completed[a] = Stages THEN "READY"
                             ELSE "DOWNLOADING"
        /\ OE(a) \notin up => completed[a] < Stages

(* There is a private stream once the first stage is complete or a client  *)
(* has seen the account.                                                   *)
TokenInv ==
    \A a \in Account :
        /\ completed[a] > 0 => token[a] # 0
        /\ a \in seen => token[a] # 0

(* The inductive invariant. *)
IInv ==
    /\ TypeOK
    /\ IdInv
    /\ RunningInv
    /\ DownloadInv
    /\ TokenInv
    /\ OrderActionsFindStream

----------------------------------------------------------------------------
(* Streams and their creation *)

(* Streams of different kinds or of different owners are different. *)
LEMMA Names ==
  /\ \A i, j : MD(i) = MD(j) => i = j
  /\ \A a, b : OE(a) = OE(b) => a = b
  /\ \A a, b : DC(a) = DC(b) => a = b
  /\ \A i, a : MD(i) # OE(a) /\ MD(i) # DC(a)
  /\ \A a, b : OE(a) # DC(b)
  BY DEF MD, OE, DC

(* What exists is made of streams. *)
LEMMA DispatchType ==
  ASSUME TypeOK
  PROVE  /\ Dispatch \subseteq Stream
         /\ MD(0) \in Dispatch
         /\ \A a \in Account : OE(a) \in Dispatch
         /\ \A a \in Account : DC(a) \in Dispatch <=> token[a] # 0
         /\ DOMAIN id = Dispatch
  <1>1. slices \in 1 .. MaxSlices /\ id \in [Dispatch -> Nat]
    BY DEF TypeOK
  <1>2. \A i \in 0 .. slices - 1 : i \in 0 .. MaxSlices - 1
    BY <1>1, BoundAssumption
  <1>3. 0 \in 0 .. slices - 1
    BY <1>1, BoundAssumption
  <1> QED
    BY <1>1, <1>2, <1>3, Names
       DEF Dispatch, Stream, SocketStream, PublicStream, RestStream, PrivateStream

(* A created stream gets an id above all others.  The counter does not     *)
(* wrap as long as it stays below the limit.                               *)
LEMMA Created ==
  ASSUME IdInv, stream_id \in Nat, id \in [DOMAIN id -> Nat],
         NEW new, new \cap DOMAIN id = {},
         NEW k \in Nat, Cardinality(new) = k, stream_id + k < StreamIdLimit,
         NEW number \in [new -> 1 .. k],
         \A s, t \in new : s # t => number[s] # number[t],
         Create(new, number)
  PROVE  /\ stream_id' = stream_id + k
         /\ id' \in [DOMAIN id \cup new -> Nat]
         /\ \A s \in DOMAIN id' : id'[s] \in 1 .. stream_id'
         /\ \A s, t \in DOMAIN id' : s # t => id'[s] # id'[t]
         /\ \A s \in DOMAIN id : s \in DOMAIN id' /\ id'[s] = id[s]
  <1>1. \A n \in 0 .. k : (stream_id + n) % StreamIdLimit = stream_id + n
    <2> SUFFICES ASSUME NEW n \in 0 .. k
                 PROVE  (stream_id + n) % StreamIdLimit = stream_id + n
      OBVIOUS
    <2>1. stream_id + n \in 0 .. StreamIdLimit - 1 /\ StreamIdLimit \in Nat
      BY BoundAssumption
    <2> QED
      BY <2>1
  <1>2. stream_id' = stream_id + k
    BY <1>1 DEF Create
  <1>3. \A s \in new : (stream_id + number[s]) % StreamIdLimit = stream_id + number[s]
    BY <1>1
  <1>4. id' = [s \in DOMAIN id \cup new |->
                 IF s \in new THEN stream_id + number[s] ELSE id[s]]
    BY <1>3 DEF Create
  <1>5. \A s \in new : /\ id'[s] = stream_id + number[s]
                       /\ number[s] \in 1 .. k
    BY <1>4
  <1>6. \A s \in DOMAIN id : /\ s \in DOMAIN id'
                             /\ id'[s] = id[s]
                             /\ id[s] \in 1 .. stream_id
    BY <1>4 DEF IdInv
  <1>7. DOMAIN id' = DOMAIN id \cup new
    BY <1>4
  <1>8. \A s \in DOMAIN id' : id'[s] \in 1 .. stream_id'
    BY <1>2, <1>5, <1>6, <1>7
  <1>9. ASSUME NEW s \in DOMAIN id', NEW t \in DOMAIN id', s # t
        PROVE  id'[s] # id'[t]
    <2>1. CASE s \in new /\ t \in new
      <3>1. number[s] # number[t]
        BY <1>9, <2>1
      <3> QED
        BY <1>5, <2>1, <3>1
    <2>2. CASE s \in DOMAIN id /\ t \in DOMAIN id
      BY <1>6, <1>9, <2>2 DEF IdInv
    <2>3. CASE s \in new /\ t \in DOMAIN id
      BY <1>5, <1>6, <2>3
    <2>4. CASE s \in DOMAIN id /\ t \in new
      BY <1>5, <1>6, <2>4
    <2> QED
      BY <1>7, <2>1, <2>2, <2>3, <2>4
  <1>10. id' \in [DOMAIN id \cup new -> Nat]
    BY <1>4, <1>5, <1>6
  <1> QED
    BY <1>2, <1>6, <1>8, <1>9, <1>10

(* The two occasions of a creation: the first token of an account ... *)
LEMMA TokenCreates ==
  ASSUME IInv, NEW a \in Account, NEW t \in Nat \ {0}, token[a] = 0,
         TokenUpdate(a, t), UNCHANGED slices
  PROVE  /\ Dispatch' = Dispatch \cup {DC(a)}
         /\ token' = [token EXCEPT ![a] = t]
         /\ id' \in [Dispatch' -> Nat]
         /\ stream_id' \in Nat
         /\ IdInv'
         /\ \A s \in DOMAIN id : s \in DOMAIN id' /\ id'[s] = id[s]
         /\ running' = running \cup {DC(a)}
         /\ connecting' = connecting \cup {DC(a)}
  <1> DEFINE new == {DC(a)}
             number == [s \in {DC(a)} |-> 1]
  <1>1. /\ token' = [token EXCEPT ![a] = t]
        /\ Create(new, number)
    BY DEF TokenUpdate
  <1>2. /\ token \in [Account -> Nat] /\ stream_id \in Nat /\ slices \in 1 .. MaxSlices
        /\ id \in [Dispatch -> Nat] /\ DOMAIN id = Dispatch
    BY DispatchType DEF IInv, TypeOK
  <1>3. IsFiniteSet(Private) /\ Private \subseteq Account /\ a \notin Private
    BY AccountAssumption, FS_Subset DEF Private
  <1>4. Private' = Private \cup {a}
    BY <1>1, <1>2 DEF Private
  <1>5. /\ Cardinality(Private') = Cardinality(Private) + 1
        /\ IsFiniteSet(Private')
        /\ Private' \subseteq Account
    BY <1>3, <1>4, FS_AddElement
  <1>6. /\ Cardinality(Private) \in Nat
        /\ Cardinality(Account) \in Nat
        /\ Cardinality(Private') <= Cardinality(Account)
    BY <1>3, <1>5, AccountAssumption, FS_CardinalityType, FS_Subset
  <1>7. stream_id = slices + Cardinality(Account) + Cardinality(Private)
    BY DEF IInv, IdInv
  <1>8. stream_id + 1 < StreamIdLimit
    BY <1>2, <1>5, <1>6, <1>7, StreamIdAssumption, BoundAssumption
  <1>9. Dispatch' = Dispatch \cup {DC(a)}
    BY <1>1, <1>2 DEF Dispatch
  <1>10. new \cap DOMAIN id = {}
    BY <1>2, DispatchType DEF IInv
  <1>11. Cardinality(new) = 1
    BY FS_Singleton
  <1>12. /\ number \in [new -> 1 .. 1]
         /\ \A s, u \in new : s # u => number[s] # number[u]
    OBVIOUS
  <1> HIDE DEF new, number
  <1>13. /\ stream_id' = stream_id + 1
         /\ id' \in [DOMAIN id \cup new -> Nat]
         /\ \A s \in DOMAIN id' : id'[s] \in 1 .. stream_id'
         /\ \A s, u \in DOMAIN id' : s # u => id'[s] # id'[u]
         /\ \A s \in DOMAIN id : s \in DOMAIN id' /\ id'[s] = id[s]
    BY <1>1, <1>2, <1>8, <1>10, <1>11, <1>12, Created DEF IInv
  <1>14. stream_id' = slices' + Cardinality(Account) + Cardinality(Private')
    BY <1>2, <1>5, <1>6, <1>7, <1>13
  <1>15. IdInv'
    BY <1>13, <1>14 DEF IdInv
  <1>16. id' \in [Dispatch' -> Nat]
    BY <1>2, <1>9, <1>13 DEF new
  <1> QED
    BY <1>1, <1>2, <1>9, <1>13, <1>15, <1>16 DEF Create, new

(* ... and a longer list of symbols. *)
LEMMA SymbolsCreate ==
  ASSUME IInv, NEW n \in 1 .. MaxSlices, SymbolsUpdate(n)
  PROVE  LET new == {MD(i) : i \in slices .. n - 1}
         IN /\ Dispatch' = Dispatch \cup new
            /\ new \cap Dispatch = {}
            /\ new \subseteq Stream
            /\ id' \in [Dispatch' -> Nat]
            /\ stream_id' \in Nat
            /\ slices' = n
            /\ IdInv'
            /\ \A s \in DOMAIN id : s \in DOMAIN id' /\ id'[s] = id[s]
            /\ running' = running \cup new
            /\ connecting' = connecting \cup new
  <1> DEFINE new == {MD(i) : i \in slices .. n - 1}
             number == [s \in new |-> s[2] - slices + 1]
             k == n - slices
  <1>1. /\ slices' = n /\ n > slices /\ UNCHANGED token
        /\ Create(new, number)
    BY DEF SymbolsUpdate
  <1>2. /\ token \in [Account -> Nat] /\ stream_id \in Nat /\ slices \in 1 .. MaxSlices
        /\ id \in [Dispatch -> Nat] /\ DOMAIN id = Dispatch
        /\ MaxSlices \in Nat
    BY DispatchType, BoundAssumption DEF IInv, TypeOK
  <1>3. k \in Nat \ {0} /\ n \in Nat
    BY <1>1, <1>2
  <1>4. /\ Cardinality(Private) \in Nat
        /\ Cardinality(Account) \in Nat
        /\ Cardinality(Private) <= Cardinality(Account)
    BY AccountAssumption, FS_CardinalityType, FS_Subset DEF Private
  <1>5. stream_id = slices + Cardinality(Account) + Cardinality(Private)
    BY DEF IInv, IdInv
  <1>6. stream_id + k < StreamIdLimit
    BY <1>1, <1>2, <1>3, <1>4, <1>5, StreamIdAssumption, BoundAssumption
  <1>7. 0 .. n - 1 = (0 .. slices - 1) \cup (slices .. n - 1)
    BY <1>1, <1>2, <1>3
  <1>8. Dispatch' = Dispatch \cup new
    BY <1>1, <1>7 DEF Dispatch
  <1>9. new \cap DOMAIN id = {}
    <2>1. \A i \in slices .. n - 1 : i \notin 0 .. slices - 1
      BY <1>2, <1>3
    <2> QED
      BY <1>2, <2>1, Names DEF Dispatch, RestStream
  <1>10. \A i \in slices .. n - 1 : /\ MD(i) \in new
                                    /\ number[MD(i)] = i - slices + 1
                                    /\ i - slices + 1 \in 1 .. k
                                    /\ i \in Nat
    BY <1>2, <1>3 DEF MD
  <1>11. /\ number \in [new -> 1 .. k]
         /\ \A s, u \in new : s # u => number[s] # number[u]
    <2>1. \A s \in new : number[s] \in 1 .. k
      BY <1>10
    <2>2. ASSUME NEW s \in new, NEW u \in new, number[s] = number[u]
          PROVE  s = u
      <3>1. PICK i \in slices .. n - 1, j \in slices .. n - 1 : s = MD(i) /\ u = MD(j)
        OBVIOUS
      <3>2. i - slices + 1 = j - slices + 1 /\ i \in Nat /\ j \in Nat
        BY <1>10, <2>2, <3>1
      <3>3. i = j
        BY <1>2, <3>2
      <3> QED
        BY <3>1, <3>3
    <2> QED
      BY <2>1, <2>2
  <1>12. Cardinality(new) = k
    <2> DEFINE f == [i \in slices .. n - 1 |-> MD(i)]
    <2>1. f \in Surjection(slices .. n - 1, new)
      BY DEF Surjection
    <2>2. f \in Injection(slices .. n - 1, new)
      BY Names DEF Injection, IsInjective
    <2>3. /\ IsFiniteSet(slices .. n - 1)
          /\ Cardinality(slices .. n - 1) = k
      BY <1>1, <1>2, <1>3, FS_Interval
    <2> HIDE DEF f, new, k
    <2> QED
      BY <2>1, <2>2, <2>3, FS_Surjection
  <1>13. new \subseteq Stream
    BY <1>2, <1>3 DEF Stream, SocketStream, PublicStream
  <1> HIDE DEF new, number
  <1>14. /\ stream_id' = stream_id + k
         /\ id' \in [DOMAIN id \cup new -> Nat]
         /\ \A s \in DOMAIN id' : id'[s] \in 1 .. stream_id'
         /\ \A s, u \in DOMAIN id' : s # u => id'[s] # id'[u]
         /\ \A s \in DOMAIN id : s \in DOMAIN id' /\ id'[s] = id[s]
    <2> HIDE DEF k
    <2> QED
      BY <1>1, <1>2, <1>3, <1>6, <1>9, <1>11, <1>12, Created DEF IInv
  <1>15. Private' = Private
    BY <1>1 DEF Private
  <1>16. stream_id' = slices' + Cardinality(Account) + Cardinality(Private')
    BY <1>1, <1>2, <1>3, <1>4, <1>5, <1>14, <1>15
  <1>17. IdInv' /\ stream_id' \in Nat
    BY <1>2, <1>3, <1>14, <1>16 DEF IdInv
  <1>18. id' \in [Dispatch' -> Nat]
    BY <1>2, <1>8, <1>14
  <1>19. running' = running \cup new /\ connecting' = connecting \cup new
    BY <1>1 DEF Create
  <1> QED
    BY <1>1, <1>2, <1>8, <1>9, <1>13, <1>14, <1>17, <1>18, <1>19 DEF new

----------------------------------------------------------------------------
(* The initial states *)

LEMMA InitIInv == Init => IInv
  <1> SUFFICES ASSUME Init PROVE IInv
    OBVIOUS
  <1>1. /\ Cardinality(Account) \in Nat
        /\ MaxSlices \in Nat \ {0} /\ Stages \in Nat \ {0, 1}
    BY AccountAssumption, BoundAssumption, FS_CardinalityType
  <1>2. Private = {}
    BY DEF Init, Private
  <1>3. Dispatch = InitialStreams
    <2>1. 0 .. slices - 1 = {0}
      BY DEF Init
    <2>2. {a \in Account : token[a] # 0} = {}
      BY <1>2 DEF Private
    <2> QED
      BY <2>1, <2>2 DEF Dispatch, InitialStreams
  <1>4. TypeOK
    <2>1. id \in [Dispatch -> Nat]
      BY <1>1, <1>3 DEF Init
    <2>2. status \in [Stream -> ConnectionStatus]
      BY DEF Init, ConnectionStatus
    <2>3. slices \in 1 .. MaxSlices /\ stream_id \in Nat
      BY <1>1 DEF Init
    <2>4. completed \in [Account -> 0 .. Stages]
      BY <1>1 DEF Init
    <2>5. token \in [Account -> Nat] /\ issued \in [Account -> Nat]
      BY DEF Init
    <2>6. /\ phase \in {"created", "started", "stopped"} /\ crashed \in BOOLEAN
          /\ running \subseteq Stream /\ connecting \subseteq Stream
          /\ up \subseteq Stream /\ seen \subseteq Account
      BY DEF Init
    <2> QED
      BY <2>1, <2>2, <2>3, <2>4, <2>5, <2>6 DEF TypeOK
  <1>5. IdInv
    <2>1. stream_id = slices + Cardinality(Account) + Cardinality(Private)
      BY <1>1, <1>2, FS_EmptySet DEF Init
    <2> QED
      BY <2>1 DEF Init, IdInv
  <1>6. RunningInv
    BY DEF Init, RunningInv
  <1>7. DownloadInv /\ TokenInv
    BY <1>1 DEF Init, DownloadInv, TokenInv
  <1>8. OrderActionsFindStream
    BY DEF Init, OrderActionsFindStream
  <1> QED
    BY <1>4, <1>5, <1>6, <1>7, <1>8 DEF IInv

----------------------------------------------------------------------------
(* Steps that create no stream *)

Creates == \/ \E n \in 1 .. MaxSlices : SymbolsUpdate(n)
           \/ \E a \in Account : Complete(a) /\ completed[a] = 0 /\ token[a] = 0

(* What a step that creates no stream leaves alone. *)
LEMMA NoneCreated ==
  ASSUME IInv, [Next]_vars, ~Creates
  PROVE  UNCHANGED <<streams, Dispatch, Private>>
  <1>1. UNCHANGED streams
    <2>1. CASE Start BY <2>1 DEF Start
    <2>2. CASE Timer BY <2>2 DEF Timer
    <2>3. CASE Stop BY <2>3 DEF Stop
    <2>4. ASSUME NEW a \in Account, RestConnected(a) PROVE UNCHANGED streams
      BY <2>4 DEF RestConnected
    <2>5. ASSUME NEW s \in SocketStream, SocketReady(s) \/ Status(s)
          PROVE UNCHANGED streams
      BY <2>5 DEF SocketReady, Status
    <2>6. ASSUME NEW s \in Stream, Disconnected(s) PROVE UNCHANGED streams
      BY <2>6 DEF Disconnected
    <2>7. ASSUME NEW a \in Account, Complete(a) PROVE UNCHANGED streams
      BY <2>7 DEF Creates, Complete, TokenUpdate, streams
    <2>8. ASSUME NEW a \in Account, StreamStatus(a) \/ OrderAction(a)
          PROVE UNCHANGED streams
      BY <2>8 DEF StreamStatus, OrderAction
    <2>9. CASE UNCHANGED vars BY <2>9 DEF vars, streams
    <2> QED
      BY <2>1, <2>2, <2>3, <2>4, <2>5, <2>6, <2>7, <2>8, <2>9 DEF Next, Creates
  <1> QED
    BY <1>1 DEF streams, Dispatch, Private

(* A step that creates the streams new, which it starts. *)
LEMMA SomeCreated ==
  ASSUME IInv, Creates, [Next]_vars
  PROVE  /\ Dispatch \subseteq Dispatch'
         /\ id' \in [Dispatch' -> Nat]
         /\ stream_id' \in Nat
         /\ IdInv'
         /\ \A s \in DOMAIN id : s \in DOMAIN id' /\ id'[s] = id[s]
         /\ \E new \in SUBSET (Dispatch' \ Dispatch) : /\ running' = running \cup new
                                          /\ connecting' = connecting \cup new
  <1>1. ASSUME NEW n \in 1 .. MaxSlices, SymbolsUpdate(n)
        PROVE  /\ Dispatch \subseteq Dispatch'
               /\ id' \in [Dispatch' -> Nat]
               /\ stream_id' \in Nat
               /\ IdInv'
               /\ \A s \in DOMAIN id : s \in DOMAIN id' /\ id'[s] = id[s]
               /\ \E new \in SUBSET (Dispatch' \ Dispatch) : /\ running' = running \cup new
                                                /\ connecting' = connecting \cup new
    <2> DEFINE new == {MD(i) : i \in slices .. n - 1}
    <2>1. /\ Dispatch' = Dispatch \cup new /\ new \cap Dispatch = {}
          /\ id' \in [Dispatch' -> Nat] /\ stream_id' \in Nat /\ IdInv'
          /\ \A s \in DOMAIN id : s \in DOMAIN id' /\ id'[s] = id[s]
          /\ running' = running \cup new /\ connecting' = connecting \cup new
      BY <1>1, SymbolsCreate
    <2> HIDE DEF new
    <2> QED
      BY <2>1
  <1>2. ASSUME NEW a \in Account, Complete(a), completed[a] = 0, token[a] = 0
        PROVE  /\ Dispatch \subseteq Dispatch'
               /\ id' \in [Dispatch' -> Nat]
               /\ stream_id' \in Nat
               /\ IdInv'
               /\ \A s \in DOMAIN id : s \in DOMAIN id' /\ id'[s] = id[s]
               /\ \E new \in SUBSET (Dispatch' \ Dispatch) : /\ running' = running \cup new
                                                /\ connecting' = connecting \cup new
    <2>1. issued[a] + 1 \in Nat \ {0} /\ TokenUpdate(a, issued[a] + 1) /\ UNCHANGED slices
      BY <1>2 DEF IInv, TypeOK, Complete
    <2>2. /\ Dispatch' = Dispatch \cup {DC(a)}
          /\ id' \in [Dispatch' -> Nat] /\ stream_id' \in Nat /\ IdInv'
          /\ \A s \in DOMAIN id : s \in DOMAIN id' /\ id'[s] = id[s]
          /\ running' = running \cup {DC(a)} /\ connecting' = connecting \cup {DC(a)}
      BY <1>2, <2>1, TokenCreates
    <2>3. DC(a) \notin Dispatch
      BY <1>2, DispatchType DEF IInv
    <2> QED
      BY <2>2, <2>3
  <1> QED
    BY <1>1, <1>2 DEF Creates

----------------------------------------------------------------------------
(* Every step preserves the invariant, one part at a time *)

LEMMA TypeStep == IInv /\ [Next]_vars => TypeOK'
  <1> SUFFICES ASSUME IInv, [Next]_vars PROVE TypeOK'
    OBVIOUS
  <1> USE DEF IInv
  <1>1. Dispatch \subseteq Stream
    BY DispatchType
  <1>2. id' \in [Dispatch' -> Nat] /\ stream_id' \in Nat
    <2>1. CASE Creates
      BY <2>1, SomeCreated
    <2>2. CASE ~Creates
      BY <2>2, NoneCreated DEF streams, TypeOK
    <2> QED
      BY <2>1, <2>2
  <1>3. CASE Start
    BY <1>1, <1>2, <1>3 DEF Start, TypeOK, streams, client
  <1>4. CASE Timer
    BY <1>1, <1>2, <1>4 DEF Timer, TypeOK, streams, client
  <1>5. CASE Stop
    <2>1. completed' \in [Account -> 0 .. Stages]
      BY <1>5, BoundAssumption DEF Stop, Lost, TypeOK
    <2>2. status' \in [Stream -> ConnectionStatus]
      BY <1>5 DEF Stop, TypeOK, ConnectionStatus
    <2> QED
      BY <1>1, <1>2, <1>5, <2>1, <2>2 DEF Stop, TypeOK, streams, client
  <1>6. ASSUME NEW a \in Account, RestConnected(a) PROVE TypeOK'
    <2>1. OE(a) \in Stream
      BY DEF Stream, RestStream
    <2> QED
      BY <1>2, <1>6, <2>1 DEF RestConnected, TypeOK, streams, client, ConnectionStatus
  <1>7. ASSUME NEW s \in SocketStream, SocketReady(s) PROVE TypeOK'
    BY <1>2, <1>7 DEF SocketReady, TypeOK, streams, client, ConnectionStatus, Stream
  <1>8. ASSUME NEW s \in SocketStream, Status(s) PROVE TypeOK'
    BY <1>2, <1>8 DEF Status, TypeOK, streams, client, ConnectionStatus, Stream
  <1>9. ASSUME NEW s \in Stream, Disconnected(s) PROVE TypeOK'
    <2>1. completed' \in [Account -> 0 .. Stages]
      BY <1>9, BoundAssumption DEF Disconnected, Lost, TypeOK
    <2> QED
      BY <1>2, <1>9, <2>1 DEF Disconnected, TypeOK, streams, client, ConnectionStatus
  <1>10. ASSUME NEW n \in 1 .. MaxSlices, SymbolsUpdate(n) PROVE TypeOK'
    <2> DEFINE new == {MD(i) : i \in slices .. n - 1}
    <2>1. /\ new \subseteq Stream
          /\ running' = running \cup new /\ connecting' = connecting \cup new
          /\ slices' = n
      BY <1>10, SymbolsCreate
    <2> HIDE DEF new
    <2> QED
      BY <1>2, <1>10, <2>1 DEF SymbolsUpdate, TypeOK, client
  <1>11. ASSUME NEW a \in Account, Complete(a) PROVE TypeOK'
    <2>1. OE(a) \in Stream /\ DC(a) \in Stream
      BY DEF Stream, RestStream, SocketStream, PrivateStream
    <2>2. /\ status' \in [Stream -> ConnectionStatus]
          /\ completed' \in [Account -> 0 .. Stages]
          /\ UNCHANGED <<phase, slices, up, client, disconnects>>
      BY <1>11, <2>1, BoundAssumption DEF Complete, TypeOK, ConnectionStatus
    <2>3. /\ token' \in [Account -> Nat]
          /\ issued' \in [Account -> Nat]
          /\ running' \subseteq Stream /\ connecting' \subseteq Stream
      BY <1>11, <2>1 DEF Complete, TokenUpdate, Create, TypeOK
    <2> QED
      BY <1>2, <2>2, <2>3 DEF TypeOK, client
  <1>12. ASSUME NEW a \in Account, StreamStatus(a) PROVE TypeOK'
    BY <1>2, <1>12 DEF StreamStatus, TypeOK, streams
  <1>13. ASSUME NEW a \in Account, OrderAction(a) PROVE TypeOK'
    <2>1. crashed' \in BOOLEAN
      BY <1>13 DEF OrderAction
    <2> QED
      BY <1>2, <1>13, <2>1 DEF OrderAction, TypeOK, streams
  <1>14. CASE UNCHANGED vars
    BY <1>2, <1>14 DEF vars, TypeOK
  <1> QED
    BY <1>3, <1>4, <1>5, <1>6, <1>7, <1>8, <1>9, <1>10, <1>11, <1>12, <1>13, <1>14 DEF Next

(* The ids. *)
LEMMA IdStep == IInv /\ [Next]_vars => IdInv'
  <1> SUFFICES ASSUME IInv, [Next]_vars PROVE IdInv'
    OBVIOUS
  <1>1. CASE Creates
    BY <1>1, SomeCreated
  <1>2. CASE ~Creates
    BY <1>2, NoneCreated DEF IInv, IdInv, streams
  <1> QED
    BY <1>1, <1>2

(* What runs. *)
LEMMA RunningStep == IInv /\ [Next]_vars => RunningInv'
  <1> SUFFICES ASSUME IInv, [Next]_vars PROVE RunningInv'
    OBVIOUS
  <1> USE DEF IInv
  <1>1. Dispatch \subseteq Dispatch'
    <2>1. CASE Creates
      BY <2>1, SomeCreated
    <2>2. CASE ~Creates
      BY <2>2, NoneCreated
    <2> QED
      BY <2>1, <2>2
  <1>2. CASE Start
    BY <1>1, <1>2 DEF Start, RunningInv, streams
  <1>3. CASE Timer
    BY <1>1, <1>3 DEF Timer, RunningInv, streams
  <1>4. CASE Stop
    <2>1. /\ running' = {} /\ connecting' = {} /\ up' = {}
          /\ \A s \in Stream : status'[s] = "DISCONNECTED"
      BY <1>4 DEF Stop, RunningInv, TypeOK
    <2> QED
      BY <2>1 DEF RunningInv
  <1>5. ASSUME NEW a \in Account, RestConnected(a) PROVE RunningInv'
    <2>1. OE(a) \in Stream
      BY DEF Stream, RestStream
    <2> QED
      BY <1>1, <1>5, <2>1 DEF RestConnected, RunningInv, TypeOK
  <1>6. ASSUME NEW s \in SocketStream, SocketReady(s) \/ Status(s) PROVE RunningInv'
    BY <1>1, <1>6 DEF SocketReady, Status, RunningInv, TypeOK, Stream
  <1>7. ASSUME NEW s \in Stream, Disconnected(s) PROVE RunningInv'
    BY <1>1, <1>7 DEF Disconnected, RunningInv, TypeOK
  <1>8. CASE Creates
    <2>1. PICK new \in SUBSET (Dispatch' \ Dispatch) : /\ running' = running \cup new
                                          /\ connecting' = connecting \cup new
      BY <1>8, SomeCreated
    <2>2. phase = "started" /\ UNCHANGED <<phase, up>>
      BY <1>8 DEF Creates, SymbolsUpdate, Complete, RunningInv
    <2>3. \A s \in Stream : s \notin up' => status'[s] = "DISCONNECTED"
      <3>1. ASSUME NEW n \in 1 .. MaxSlices, SymbolsUpdate(n)
            PROVE  UNCHANGED status
        BY <3>1 DEF SymbolsUpdate
      <3>2. ASSUME NEW a \in Account, Complete(a)
            PROVE  OE(a) \in up /\ \E v : status' = [status EXCEPT ![OE(a)] = v]
        BY <3>2 DEF Complete
      <3> QED
        BY <1>8, <2>2, <3>1, <3>2 DEF Creates, RunningInv, TypeOK
    <2> QED
      BY <1>1, <2>1, <2>2, <2>3 DEF RunningInv
  <1>9. ASSUME NEW a \in Account, Complete(a), ~Creates PROVE RunningInv'
    <2>1. /\ OE(a) \in up
          /\ UNCHANGED <<running, connecting, up, phase>>
          /\ \E v : status' = [status EXCEPT ![OE(a)] = v]
      BY <1>9 DEF Complete, TokenUpdate, Creates
    <2> QED
      BY <1>1, <2>1 DEF RunningInv, TypeOK
  <1>10. ASSUME NEW a \in Account, StreamStatus(a) \/ OrderAction(a) PROVE RunningInv'
    BY <1>1, <1>10 DEF StreamStatus, OrderAction, RunningInv
  <1>11. CASE UNCHANGED vars
    BY <1>1, <1>11 DEF vars, RunningInv
  <1> QED
    BY <1>2, <1>3, <1>4, <1>5, <1>6, <1>7, <1>8, <1>9, <1>10, <1>11 DEF Next, Creates

(* How far the downloads are. *)
LEMMA DownloadStep == IInv /\ [Next]_vars => DownloadInv'
  <1> SUFFICES ASSUME IInv, [Next]_vars, NEW a \in Account
               PROVE  /\ OE(a) \in up' =>
                           status'[OE(a)] = IF completed'[a] = 0 THEN "DISCONNECTED"
                                            ELSE IF completed'[a] = Stages THEN "READY"
                                            ELSE "DOWNLOADING"
                      /\ OE(a) \notin up' => completed'[a] < Stages
    BY DEF DownloadInv
  <1> USE DEF IInv
  <1>1. /\ OE(a) \in Stream /\ OE(a) \notin SocketStream
        /\ Stages \in Nat \ {0, 1} /\ completed[a] \in 0 .. Stages
    BY Names, BoundAssumption
       DEF Stream, RestStream, SocketStream, PublicStream, PrivateStream, TypeOK
  <1>2. /\ OE(a) \in up => status[OE(a)] = IF completed[a] = 0 THEN "DISCONNECTED"
                                           ELSE IF completed[a] = Stages THEN "READY"
                                           ELSE "DOWNLOADING"
        /\ OE(a) \notin up => completed[a] < Stages
    BY DEF DownloadInv
  <1>3. CASE Start \/ Timer
    BY <1>2, <1>3 DEF Start, Timer
  <1>4. CASE Stop
    <2>1. OE(a) \in Dispatch
      BY DispatchType
    <2> QED
      BY <1>1, <1>4, <2>1 DEF Stop, Lost
  <1>5. ASSUME NEW b \in Account, RestConnected(b)
        PROVE  /\ OE(a) \in up' =>
                    status'[OE(a)] = IF completed'[a] = 0 THEN "DISCONNECTED"
                                     ELSE IF completed'[a] = Stages THEN "READY"
                                     ELSE "DOWNLOADING"
               /\ OE(a) \notin up' => completed'[a] < Stages
    <2>1. CASE a = b
      <3>1. OE(a) \notin up /\ status[OE(a)] = "DISCONNECTED"
        BY <1>1, <1>5, <2>1 DEF RestConnected, RunningInv
      <3> QED
        BY <1>1, <1>2, <1>5, <2>1, <3>1 DEF RestConnected, TypeOK
    <2>2. CASE a # b
      <3>1. OE(a) # OE(b)
        BY <2>2, Names
      <3> QED
        BY <1>1, <1>2, <1>5, <3>1 DEF RestConnected, TypeOK
    <2> QED
      BY <2>1, <2>2
  <1>6. ASSUME NEW s \in SocketStream, SocketReady(s) \/ Status(s)
        PROVE  UNCHANGED <<status[OE(a)], completed[a]>> /\ (OE(a) \in up' <=> OE(a) \in up)
    BY <1>1, <1>6 DEF SocketReady, Status, TypeOK
  <1>7. ASSUME NEW s \in Stream, Disconnected(s)
        PROVE  /\ OE(a) \in up' =>
                    status'[OE(a)] = IF completed'[a] = 0 THEN "DISCONNECTED"
                                     ELSE IF completed'[a] = Stages THEN "READY"
                                     ELSE "DOWNLOADING"
               /\ OE(a) \notin up' => completed'[a] < Stages
    <2>1. completed'[a] = Lost(a, {s})
      BY <1>7 DEF Disconnected
    <2> QED
      BY <1>1, <1>2, <1>7, <2>1 DEF Disconnected, Lost, TypeOK
  <1>8. ASSUME NEW n \in 1 .. MaxSlices, SymbolsUpdate(n)
        PROVE  UNCHANGED <<up, status, completed>>
    BY <1>8 DEF SymbolsUpdate
  <1>9. ASSUME NEW b \in Account, Complete(b)
        PROVE  /\ OE(a) \in up' =>
                    status'[OE(a)] = IF completed'[a] = 0 THEN "DISCONNECTED"
                                     ELSE IF completed'[a] = Stages THEN "READY"
                                     ELSE "DOWNLOADING"
               /\ OE(a) \notin up' => completed'[a] < Stages
    <2>1. CASE a = b
      BY <1>1, <1>9, <2>1 DEF Complete, TypeOK
    <2>2. CASE a # b
      <3>1. OE(a) # OE(b)
        BY <2>2, Names
      <3> QED
        BY <1>1, <1>2, <1>9, <2>2, <3>1 DEF Complete, TypeOK
    <2> QED
      BY <2>1, <2>2
  <1>10. ASSUME NEW b \in Account, StreamStatus(b) \/ OrderAction(b)
         PROVE  UNCHANGED <<up, status, completed>>
    BY <1>10 DEF StreamStatus, OrderAction
  <1>11. CASE UNCHANGED vars
    BY <1>2, <1>11 DEF vars
  <1> QED
    BY <1>2, <1>3, <1>4, <1>5, <1>6, <1>7, <1>8, <1>9, <1>10, <1>11 DEF Next

(* The tokens.  A client sees an account connected only when its first     *)
(* stage is complete or its private stream exists.                         *)
LEMMA TokenStep == IInv /\ [Next]_vars => TokenInv'
  <1> SUFFICES ASSUME IInv, [Next]_vars, NEW a \in Account
               PROVE  /\ completed'[a] > 0 => token'[a] # 0
                      /\ a \in seen' => token'[a] # 0
    BY DEF TokenInv
  <1> USE DEF IInv
  <1>1. /\ token[a] \in Nat /\ issued[a] \in Nat /\ completed[a] \in 0 .. Stages
        /\ Stages \in Nat
        /\ completed[a] > 0 => token[a] # 0
        /\ a \in seen => token[a] # 0
    BY BoundAssumption DEF TypeOK, TokenInv
  <1>2. CASE Start \/ Timer
    BY <1>1, <1>2 DEF Start, Timer, streams, client
  <1>3. CASE Stop
    BY <1>1, <1>3 DEF Stop, Lost, streams, client
  <1>4. ASSUME NEW b \in Account, RestConnected(b)
        PROVE  UNCHANGED <<token, completed, seen>>
    BY <1>4 DEF RestConnected, streams, client
  <1>5. ASSUME NEW s \in SocketStream, SocketReady(s) \/ Status(s)
        PROVE  UNCHANGED <<token, completed, seen>>
    BY <1>5 DEF SocketReady, Status, streams, client
  <1>6. ASSUME NEW s \in Stream, Disconnected(s)
        PROVE  /\ UNCHANGED <<token, seen>>
               /\ completed'[a] \in {0, completed[a]}
    BY <1>6 DEF Disconnected, Lost, streams, client
  <1>7. ASSUME NEW n \in 1 .. MaxSlices, SymbolsUpdate(n)
        PROVE  UNCHANGED <<token, completed, seen>>
    BY <1>7 DEF SymbolsUpdate, client
  <1>8. ASSUME NEW b \in Account, Complete(b)
        PROVE  /\ completed'[a] > 0 => token'[a] # 0
               /\ seen' = seen
               /\ token[a] # 0 => token'[a] # 0
    <2>1. CASE a = b /\ completed[b] = 0
      BY <1>1, <1>8, <2>1 DEF Complete, TokenUpdate, TypeOK, client
    <2>2. CASE a = b /\ completed[b] # 0
      BY <1>1, <1>8, <2>2 DEF Complete, TypeOK, client
    <2>3. CASE a # b
      BY <1>1, <1>8, <2>3 DEF Complete, TokenUpdate, TypeOK, client
    <2> QED
      BY <2>1, <2>2, <2>3
  <1>9. ASSUME NEW b \in Account, StreamStatus(b)
        PROVE  /\ UNCHANGED <<token, completed>>
               /\ a \in seen' => token[a] # 0
    <2>1. ASSUME a = b PROVE token[a] # 0
      <3>1. CASE status[OE(a)] # "DISCONNECTED"
        <4>1. OE(a) \in Stream
          BY DEF Stream, RestStream
        <4>2. completed[a] # 0
          BY <3>1, <4>1 DEF RunningInv, DownloadInv
        <4> QED
          BY <1>1, <4>2
      <3>2. CASE status[DC(a)] # "DISCONNECTED"
        <4>1. DC(a) \in Stream
          BY DEF Stream, SocketStream, PrivateStream
        <4>2. DC(a) \in Dispatch
          BY <3>2, <4>1 DEF RunningInv
        <4> QED
          BY <4>2, DispatchType
      <3> QED
        BY <1>9, <2>1, <3>1, <3>2 DEF StreamStatus
    <2> QED
      BY <1>1, <1>9, <2>1 DEF StreamStatus, streams
  <1>10. ASSUME NEW b \in Account, OrderAction(b)
         PROVE  UNCHANGED <<token, completed, seen>>
    BY <1>10 DEF OrderAction, streams
  <1>11. CASE UNCHANGED vars
    BY <1>1, <1>11 DEF vars
  <1> QED
    BY <1>1, <1>2, <1>3, <1>4, <1>5, <1>6, <1>7, <1>8, <1>9, <1>10, <1>11 DEF Next

(* The order actions. *)
LEMMA FindStep == IInv /\ [Next]_vars => OrderActionsFindStream'
  <1> SUFFICES ASSUME IInv, [Next]_vars PROVE ~crashed'
    BY DEF OrderActionsFindStream
  <1>1. ~crashed
    BY DEF IInv, OrderActionsFindStream
  <1>2. ASSUME NEW a \in Account, OrderAction(a) PROVE ~crashed'
    <2>1. token[a] # 0
      BY <1>2 DEF IInv, OrderAction, TokenInv
    <2>2. crashed' = (crashed \/ token[a] = 0)
      BY <1>2 DEF OrderAction
    <2> QED
      BY <1>1, <2>1, <2>2
  <1>3. UNCHANGED crashed \/ \E a \in Account : OrderAction(a)
    BY DEF Next, vars, client, Start, Timer, Stop, RestConnected, SocketReady, Status,
           Disconnected, SymbolsUpdate, Complete, StreamStatus
  <1> QED
    BY <1>1, <1>2, <1>3

THEOREM Inductive == Spec => []IInv
  <1>1. IInv /\ [Next]_vars => IInv'
    <2> SUFFICES ASSUME IInv, [Next]_vars PROVE IInv'
      OBVIOUS
    <2>1. TypeOK' /\ IdInv' /\ RunningInv'
      BY TypeStep, IdStep, RunningStep
    <2>2. DownloadInv' /\ TokenInv' /\ OrderActionsFindStream'
      BY DownloadStep, TokenStep, FindStep
    <2> QED
      BY <2>1, <2>2 DEF IInv
  <1> QED
    BY <1>1, InitIInv, PTL DEF Spec

----------------------------------------------------------------------------
(* The properties *)

(* The types; the streams that exist are those a dispatched call reaches. *)
THEOREM TypeCorrect == Spec => []TypeOK
  <1>1. IInv => TypeOK
    BY DEF IInv
  <1> QED
    BY <1>1, Inductive, PTL

(* No two streams ever share an id, for any number of accounts and slices  *)
(* that leaves fewer streams than ids.                                     *)
THEOREM UniqueCorrect == Spec => []UniqueStreamIds
  <1>1. IInv => UniqueStreamIds
    BY DEF IInv, IdInv, UniqueStreamIds
  <1> QED
    BY <1>1, Inductive, PTL

(* A stream keeps its id. *)
THEOREM KeepCorrect == Spec => IdsNeverChange
  <1>1. IInv /\ [Next]_vars =>
          [\A s \in DOMAIN id : s \in DOMAIN id' /\ id'[s] = id[s]]_vars
    <2> SUFFICES ASSUME IInv, [Next]_vars
                 PROVE  \A s \in DOMAIN id : s \in DOMAIN id' /\ id'[s] = id[s]
      OBVIOUS
    <2>1. CASE Creates
      BY <2>1, SomeCreated
    <2>2. CASE ~Creates
      BY <2>2, NoneCreated DEF streams
    <2> QED
      BY <2>1, <2>2
  <1> QED
    BY <1>1, Inductive, PTL DEF Spec, IdsNeverChange

(* No order action uses the null private stream. *)
THEOREM FindCorrect == Spec => []OrderActionsFindStream
  <1>1. IInv => OrderActionsFindStream
    BY DEF IInv
  <1> QED
    BY <1>1, Inductive, PTL

(* Nothing runs once the gateway is stopped. *)
THEOREM SilentCorrect == Spec => []StoppedIsSilent
  <1>1. IInv => StoppedIsSilent
    BY DEF IInv, RunningInv, StoppedIsSilent
  <1> QED
    BY <1>1, Inductive, PTL

====
