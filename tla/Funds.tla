---- MODULE Funds ----
(***************************************************************************)
(* What clients are told of one currency of an account (FundsUpdate), from *)
(* two sources: the REST session asks for the balance while it downloads   *)
(* (gateway::OrderEntry, BalanceAck), and the private stream subscribes to *)
(* the balances channel (gateway::DropCopy, Balances).                     *)
(*                                                                         *)
(* On the channel the snapshot has the balance, and an update has an entry *)
(* of the ledger: its amount, here less its fee, and the balance that      *)
(* results (test/json_balances.cpp).  The two connections are independent, *)
(* and they do not even name all currencies alike: what is XXBT in         *)
(* test/json_balance_ack.cpp is BTC in test/json_balances.cpp.  So what    *)
(* each of them last reported is kept apart here.                          *)
(***************************************************************************)
EXTENDS Integers, Sequences, SequencesExt

CONSTANTS
    Amounts,            \* the amounts of ledger entries, without the sign
    MaxEntries,         \* bound: ledger entries
    MaxDisconnects,     \* bound: connections lost, of either kind
    None                \* no value

VARIABLES
    ledger,         \* the entries at the exchange; the first one opens it
    disconnects,    \* connections lost
    requests,       \* balance requests, and their answers, on their way
    balance_done,   \* the REST download is past the balance
    rest,           \* the last update of the REST session
    upstream,       \* subscriptions on their way
    channel,        \* balance messages on their way
    subscribed,     \* the exchange streams balances to this connection
    stream          \* the last update of the private stream

vars == <<ledger, disconnects, requests, balance_done, rest, upstream, channel,
          subscribed, stream>>

rest_vars == <<requests, balance_done, rest>>
stream_vars == <<upstream, channel, subscribed, stream>>

Balance == Last(ledger).balance

(* at is the entry the update is about, which the update does not say. *)
FundsUpdate(update_type, balance, at) ==
    [update_type |-> update_type, balance |-> balance, at |-> at]

Init ==
    /\ ledger = <<[amount |-> 0, balance |-> 10]>>
    /\ disconnects = 0
    /\ requests = {}
    /\ balance_done = FALSE
    /\ rest = None
    /\ upstream = 0
    /\ channel = <<>>
    /\ subscribed = FALSE
    /\ stream = None

----------------------------------------------------------------------------
(* The exchange *)

(* A deposit, a withdrawal or a trade. *)
Book(amount) ==
    /\ Len(ledger) <= MaxEntries
    /\ LET entry == [amount |-> amount, balance |-> Balance + amount]
       IN /\ ledger' = Append(ledger, entry)
          /\ channel' = IF subscribed
                        THEN Append(channel, [type |-> "update", at |-> Len(ledger'),
                                              amount |-> amount])
                        ELSE channel
    /\ UNCHANGED <<disconnects, upstream, subscribed, stream>>
    /\ UNCHANGED rest_vars

(* The balance of a request. *)
Answer ==
    /\ \E r \in requests :
         /\ r.answer = None
         /\ requests' = (requests \ {r}) \cup {[answer |-> Len(ledger)]}
    /\ UNCHANGED <<ledger, disconnects, balance_done, rest>>
    /\ UNCHANGED stream_vars

----------------------------------------------------------------------------
(* The REST session.  OrderEntry has the stages of the download. *)

(* A request is made when the download comes to the balance, and again     *)
(* when it was not answered in time or the answer was an error.            *)
get_balance ==
    /\ ~balance_done
    /\ requests' = requests \cup {[answer |-> None]}
    /\ UNCHANGED <<ledger, disconnects, balance_done, rest>>
    /\ UNCHANGED stream_vars

(* The connection is lost with all requests.  Of a download that was       *)
(* complete everything is asked for again, otherwise it goes on.           *)
RestDisconnected ==
    /\ disconnects < MaxDisconnects
    /\ disconnects' = disconnects + 1
    /\ requests' = {}
    /\ balance_done' \in {FALSE, balance_done}
    /\ UNCHANGED <<ledger, rest>>
    /\ UNCHANGED stream_vars

(* The first answer is reported, the others have already been processed. *)
BalanceAck ==
    /\ \E r \in requests :
         /\ r.answer # None
         /\ requests' = requests \ {r}
         /\ rest' = IF balance_done THEN rest
                    ELSE FundsUpdate("SNAPSHOT", ledger[r.answer].balance, r.answer)
    /\ balance_done' = TRUE
    /\ UNCHANGED <<ledger, disconnects>>
    /\ UNCHANGED stream_vars

----------------------------------------------------------------------------
(* The private stream.  DropCopy has its connection. *)

(* A status message: subscribe. *)
Status ==
    /\ upstream = 0
    /\ upstream' = 1
    /\ UNCHANGED <<ledger, disconnects, channel, subscribed, stream>>
    /\ UNCHANGED rest_vars

(* The exchange answers the first subscription with a snapshot. *)
TakeSubscribe ==
    /\ upstream = 1
    /\ upstream' = 0
    /\ subscribed' = TRUE
    /\ channel' = IF subscribed THEN channel
                  ELSE Append(channel, [type |-> "snapshot", at |-> Len(ledger),
                                       amount |-> None])
    /\ UNCHANGED <<ledger, disconnects, stream>>
    /\ UNCHANGED rest_vars

StreamDisconnected ==
    /\ disconnects < MaxDisconnects
    /\ disconnects' = disconnects + 1
    /\ upstream' = 0
    /\ channel' = <<>>
    /\ subscribed' = FALSE
    /\ UNCHANGED <<ledger, stream>>
    /\ UNCHANGED rest_vars

(* Both kinds of messages are reported alike: the balance of the update is *)
(* the amount of the entry, which a snapshot does not have.                *)
Balances(m) == FundsUpdate("INCREMENTAL", m.amount, m.at)

Receive ==
    /\ channel # <<>>
    /\ channel' = Tail(channel)
    /\ stream' = Balances(Head(channel))
    /\ UNCHANGED <<ledger, disconnects, upstream, subscribed>>
    /\ UNCHANGED rest_vars

----------------------------------------------------------------------------
Next ==
    \/ \E amount \in Amounts : Book(amount) \/ Book(-amount)
    \/ Answer
    \/ get_balance
    \/ RestDisconnected
    \/ BalanceAck
    \/ Status
    \/ TakeSubscribe
    \/ StreamDisconnected
    \/ Receive

Spec == Init /\ [][Next]_vars

----------------------------------------------------------------------------
(* Properties *)

(* Whatever is reported as a balance is the balance of the account at the  *)
(* entry the report is about.  test/json_balances.cpp has the balance and  *)
(* the amount of an entry as two fields; the documentation lists the funds *)
(* as available.  The private stream reports the amount.                   *)
BalancesReported ==
    \A update \in {rest, stream} \ {None} :
        update.balance # None => update.balance = ledger[update.at].balance

====
