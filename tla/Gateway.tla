---- MODULE Gateway ----
(***************************************************************************)
(* The streams of the gateway under one Controller (gateway::Controller).  *)
(*                                                                         *)
(* The Controller is created with one public stream and, per account, one  *)
(* REST session.  Further public streams are created when the list of      *)
(* symbols outgrows the existing ones, and the private stream of an        *)
(* account when its first token arrives.  All take their stream id from    *)
(* one counter.  The framework starts, refreshes and stops the streams     *)
(* through the Controller, which passes the call on to those that exist,   *)
(* and starts the streams it creates later by itself.  Order actions go to *)
(* the private stream of their account (the flag ws_api).                  *)
(*                                                                         *)
(* The framework is assumed to deliver Start first and Stop last: no       *)
(* timer, subscription or order action reaches the Controller before the   *)
(* one or after the other (the guards on phase).  The Controller itself    *)
(* does not check.                                                         *)
(*                                                                         *)
(* A REST session is written here as what Download promises; that the code *)
(* keeps the promise is shown for OrderEntry.  Of the public streams only  *)
(* the number of slices counts; MarketData has the rest.  DropCopy has the *)
(* rest of the private streams.                                            *)
(***************************************************************************)
EXTENDS Naturals, FiniteSets

CONSTANTS
    Account,        \* the names in config.accounts
    MaxSlices,      \* bound: slices of the list of symbols
    Stages,         \* stages of a download, the first delivers the token
    StreamIdLimit,  \* the values of a stream id (2^16)
    MaxDisconnects, \* bound: connections lost
    MaxTokens       \* bound: tokens issued to an account

ASSUME AccountAssumption == IsFiniteSet(Account)
ASSUME BoundAssumption ==
    /\ MaxSlices \in Nat \ {0}
    /\ Stages \in Nat \ {0, 1}
    /\ StreamIdLimit \in Nat
    /\ MaxDisconnects \in Nat
    /\ MaxTokens \in Nat
(* There are fewer streams than stream ids: the counter does not wrap. *)
ASSUME StreamIdAssumption ==
    MaxSlices + 2 * Cardinality(Account) < StreamIdLimit

MD(i) == <<"md", i>>
OE(a) == <<"oe", a>>
DC(a) == <<"dc", a>>

PublicStream == {MD(i) : i \in 0 .. MaxSlices - 1}
RestStream == {OE(a) : a \in Account}
PrivateStream == {DC(a) : a \in Account}
SocketStream == PublicStream \cup PrivateStream
Stream == SocketStream \cup RestStream

ConnectionStatus == {"DISCONNECTED", "DOWNLOADING", "READY"}

VARIABLES
    phase,          \* of the Controller: created, started or stopped
    slices,         \* size of market_data_
    id,             \* the id of every stream that exists
    stream_id,      \* stream_id_
    token,          \* the token of each account's DropCopy, 0 when it is null
    running,        \* the streams that were started and not stopped
    connecting,     \* the streams with a connection attempt under way
    up,             \* the streams with a connection
    status,         \* the connection_status_ of every stream
    completed,      \* the stages of each account's download that are complete
    issued,         \* the number of tokens issued to each account
    seen,           \* the accounts with a stream a client has seen connected
    crashed,        \* a null stream was used
    disconnects     \* the number of connections lost

vars == <<phase, slices, id, stream_id, token, running, connecting, up, status,
          completed, issued, seen, crashed, disconnects>>

streams == <<slices, id, stream_id, token>>
client == <<seen, crashed>>

----------------------------------------------------------------------------
(* One public stream, then one REST session per account in the order of a  *)
(* hash map; no private streams.                                           *)

InitialStreams == {MD(0)} \cup RestStream

Init ==
    /\ phase = "created"
    /\ slices = 1
    /\ stream_id = Cardinality(Account) + 1
    /\ id \in [InitialStreams -> 1 .. Cardinality(Account) + 1]
    /\ id[MD(0)] = 1
    /\ \A s, t \in InitialStreams : s # t => id[s] # id[t]
    /\ token = [a \in Account |-> 0]
    /\ running = {}
    /\ connecting = {}
    /\ up = {}
    /\ status = [s \in Stream |-> "DISCONNECTED"]
    /\ completed = [a \in Account |-> 0]
    /\ issued = [a \in Account |-> 0]
    /\ seen = {}
    /\ crashed = FALSE
    /\ disconnects = 0

----------------------------------------------------------------------------
(* The framework *)

(* Faulty variant: the private streams are left out. *)
DispatchToConfigured == {s \in DOMAIN id : s \notin PrivateStream}

(* dispatch: every public stream, every REST session, and the private      *)
(* streams that exist.                                                     *)
Dispatch == {MD(i) : i \in 0 .. slices - 1} \cup RestStream
            \cup {DC(a) : a \in {b \in Account : token[b] # 0}}

Start ==
    /\ phase = "created"
    /\ phase' = "started"
    /\ running' = Dispatch
    /\ connecting' = Dispatch
    /\ UNCHANGED <<streams, up, status, completed, issued, client, disconnects>>

(* refresh: a stream without a connection tries again. *)
Timer ==
    /\ phase = "started"
    /\ connecting' = connecting \cup ((Dispatch \cap running) \ up)
    /\ UNCHANGED <<phase, streams, running, up, status, completed, issued, client,
                   disconnects>>

(* A session that loses its connection starts over only if it was ready.   *)
Lost(a, lost) ==
    IF OE(a) \in lost /\ completed[a] = Stages THEN 0 ELSE completed[a]

Stop ==
    /\ phase = "started"
    /\ phase' = "stopped"
    /\ running' = running \ Dispatch
    /\ connecting' = connecting \ Dispatch
    /\ up' = up \ Dispatch
    /\ status' = [s \in Stream |-> IF s \in Dispatch THEN "DISCONNECTED" ELSE status[s]]
    /\ completed' = [a \in Account |-> Lost(a, Dispatch)]
    /\ UNCHANGED <<streams, issued, client, disconnects>>

----------------------------------------------------------------------------
(* The streams *)

(* A session resumes an unfinished download. *)
RestConnected(a) ==
    /\ OE(a) \in connecting
    /\ up' = up \cup {OE(a)}
    /\ connecting' = connecting \ {OE(a)}
    /\ status' = IF completed[a] = 0
                 THEN status
                 ELSE [status EXCEPT ![OE(a)] = "DOWNLOADING"]
    /\ UNCHANGED <<phase, streams, running, completed, issued, client, disconnects>>

(* A websocket is ready ... *)
SocketReady(s) ==
    /\ s \in connecting
    /\ up' = up \cup {s}
    /\ connecting' = connecting \ {s}
    /\ status' = [status EXCEPT ![s] = "DOWNLOADING"]
    /\ UNCHANGED <<phase, streams, running, completed, issued, client, disconnects>>

(* ... and the exchange reports its status. *)
Status(s) ==
    /\ s \in up
    /\ status[s] = "DOWNLOADING"
    /\ status' = [status EXCEPT ![s] = "READY"]
    /\ UNCHANGED <<phase, streams, running, connecting, up, completed, issued,
                   client, disconnects>>

(* A connection is lost or cannot be established. *)
Disconnected(s) ==
    /\ s \in up \cup connecting
    /\ disconnects < MaxDisconnects
    /\ disconnects' = disconnects + 1
    /\ up' = up \ {s}
    /\ connecting' = connecting \ {s}
    /\ status' = [status EXCEPT ![s] = "DISCONNECTED"]
    /\ completed' = [a \in Account |-> Lost(a, {s})]
    /\ UNCHANGED <<phase, streams, running, issued, client>>

----------------------------------------------------------------------------
(* Creation of streams *)

(* Faulty variants: the id of a stream is its position among its kind; the *)
(* new streams are not started.                                            *)
CreateByIndex(new, number) ==
    /\ id' = [s \in DOMAIN id \cup new |-> IF s \in new THEN number[s] ELSE id[s]]
    /\ UNCHANGED stream_id
    /\ running' = running \cup new
    /\ connecting' = connecting \cup new

CreateIdle(new, number) ==
    /\ id' = [s \in DOMAIN id \cup new |->
                IF s \in new THEN (stream_id + number[s]) % StreamIdLimit ELSE id[s]]
    /\ stream_id' = (stream_id + Cardinality(new)) % StreamIdLimit
    /\ UNCHANGED <<running, connecting>>

(* Create streams, numbered from 1 in the order of their creation, with    *)
(* the next ids, and start them.                                           *)
Create(new, number) ==
    /\ id' = [s \in DOMAIN id \cup new |->
                IF s \in new THEN (stream_id + number[s]) % StreamIdLimit ELSE id[s]]
    /\ stream_id' = (stream_id + Cardinality(new)) % StreamIdLimit
    /\ running' = running \cup new
    /\ connecting' = connecting \cup new

(* A client subscription or the instruments make the list fill n slices,   *)
(* never fewer than before: ensure_symbol_slices.  The code has no guard   *)
(* on phase: none comes after Stop by the assumption above.                *)
SymbolsUpdate(n) ==
    /\ phase = "started"
    /\ n > slices
    /\ slices' = n
    /\ LET new == {MD(i) : i \in slices .. n - 1}
       IN Create(new, [s \in new |-> s[2] - slices + 1])
    /\ UNCHANGED <<phase, token, up, status, completed, issued, client, disconnects>>

(* Faulty variants: every token creates a private stream; only the first   *)
(* account to have a token gets one.                                       *)
TokenUpdateAlways(a, t) ==
    /\ token' = [token EXCEPT ![a] = t]
    /\ Create({DC(a)}, [s \in {DC(a)} |-> 1])

TokenUpdateOnce(a, t) ==
    IF \A b \in Account : token[b] = 0
    THEN /\ token' = [token EXCEPT ![a] = t]
         /\ Create({DC(a)}, [s \in {DC(a)} |-> 1])
    ELSE UNCHANGED <<token, id, stream_id, running, connecting>>

(* Only the first token creates the private stream. *)
TokenUpdate(a, t) ==
    IF token[a] = 0
    THEN /\ token' = [token EXCEPT ![a] = t]
         /\ Create({DC(a)}, [s \in {DC(a)} |-> 1])
    ELSE UNCHANGED <<token, id, stream_id, running, connecting>>

(* A stage of the download is complete.  Its first stage hands the token   *)
(* to the Controller before the session reports progress.                  *)
Complete(a) ==
    /\ OE(a) \in up
    /\ completed[a] < Stages
    /\ completed' = [completed EXCEPT ![a] = @ + 1]
    /\ status' = [status EXCEPT ![OE(a)] =
                    IF completed[a] + 1 = Stages THEN "READY" ELSE "DOWNLOADING"]
    /\ IF completed[a] = 0
       THEN /\ issued[a] < MaxTokens
            /\ issued' = [issued EXCEPT ![a] = @ + 1]
            /\ TokenUpdate(a, issued[a] + 1)
       ELSE UNCHANGED <<issued, token, id, stream_id, running, connecting>>
    /\ UNCHANGED <<phase, slices, up, client, disconnects>>

----------------------------------------------------------------------------
(* The clients *)

(* A client sees that a stream of the account is connected. *)
StreamStatus(a) ==
    /\ phase = "started"
    /\ \E s \in {OE(a), DC(a)} : status[s] # "DISCONNECTED"
    /\ seen' = seen \cup {a}
    /\ UNCHANGED <<phase, streams, running, connecting, up, status, completed,
                   issued, crashed, disconnects>>

(* CreateOrder, ModifyOrder, CancelOrder, CancelAllOrders use the private  *)
(* stream of the account without a look whether it is null.                *)
OrderAction(a) ==
    /\ phase = "started"
    /\ a \in seen
    /\ crashed' = (crashed \/ token[a] = 0)
    /\ UNCHANGED <<phase, streams, running, connecting, up, status, completed,
                   issued, seen, disconnects>>

----------------------------------------------------------------------------
Next ==
    \/ Start
    \/ Timer
    \/ Stop
    \/ \E a \in Account : RestConnected(a)
    \/ \E s \in SocketStream : SocketReady(s)
    \/ \E s \in SocketStream : Status(s)
    \/ \E s \in Stream : Disconnected(s)
    \/ \E n \in 1 .. MaxSlices : SymbolsUpdate(n)
    \/ \E a \in Account : Complete(a)
    \/ \E a \in Account : StreamStatus(a)
    \/ \E a \in Account : OrderAction(a)

Spec == Init /\ [][Next]_vars

(* The framework's timer keeps running, an attempt to connect ends, and    *)
(* the exchange reports its status on every connection.                    *)
FairSpec ==
    /\ Spec
    /\ WF_vars(Timer)
    /\ \A s \in SocketStream : WF_vars(SocketReady(s)) /\ WF_vars(Status(s))

----------------------------------------------------------------------------
(* Properties *)

(* The types; the streams that exist are those a dispatched call reaches.  *)
TypeOK ==
    /\ phase \in {"created", "started", "stopped"}
    /\ slices \in 1 .. MaxSlices
    /\ id \in [Dispatch -> Nat]
    /\ stream_id \in Nat
    /\ token \in [Account -> Nat]
    /\ running \subseteq Stream
    /\ connecting \subseteq Stream
    /\ up \subseteq Stream
    /\ status \in [Stream -> ConnectionStatus]
    /\ completed \in [Account -> 0 .. Stages]
    /\ issued \in [Account -> Nat]
    /\ seen \subseteq Account
    /\ crashed \in BOOLEAN

(* No two streams share an id and none has the id 0, whatever the order in *)
(* which tokens and symbols create them from the one counter: clients      *)
(* tell the streams apart by their id.                                     *)
UniqueStreamIds ==
    /\ \A s \in DOMAIN id : id[s] # 0
    /\ \A s, t \in DOMAIN id : s # t => id[s] # id[t]

(* A stream keeps its id for as long as the process runs: another token    *)
(* does not replace the private stream, whose id is in orders at work.     *)
IdsNeverChange ==
    [][\A s \in DOMAIN id : s \in DOMAIN id' /\ id'[s] = id[s]]_vars

(* A client that has seen any of the account's streams connected can act:  *)
(* no order action ever finds the null pointer that stands for a private   *)
(* stream until the first token.                                           *)
OrderActionsFindStream == ~crashed

(* Stopping the gateway stops every stream, those too that the Controller  *)
(* created and started by itself, at whatever moment, as long as the       *)
(* framework delivers nothing after Stop.                                  *)
StoppedIsSilent ==
    phase = "stopped" =>
        /\ running = {} /\ connecting = {} /\ up = {}
        /\ \A s \in Stream : status[s] = "DISCONNECTED"

(* However they were created, and after every lost connection, all the     *)
(* websocket streams that exist come to be up together, unless the gateway *)
(* is stopped, as long as connections are not lost forever.                *)
StreamsComeUp ==
    phase = "started" ~>
        phase = "stopped" \/ \A s \in SocketStream \cap DOMAIN id : status[s] = "READY"

====
