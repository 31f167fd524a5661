---- MODULE OrderEntry ----
(***************************************************************************)
(* The REST session of one account (gateway::OrderEntry) and what the      *)
(* Controller does with the token it delivers.                             *)
(*                                                                         *)
(* When the connection comes up the session downloads, one stage after the *)
(* other, a token for the private stream, the balances, the trade balance, *)
(* the open positions and the open orders.  Requests are pipelined: a      *)
(* disconnect does not wait for the answers of the requests made before    *)
(* it, so an answer may arrive when the download has moved on, or after    *)
(* the same stage has been asked for again.                                *)
(*                                                                         *)
(* core::Download2 and web::rest::Client are libraries: their operations   *)
(* are modelled from how the session uses them (begin, bump, check, retry, *)
(* skip, reset, downloading, sequence).                                    *)
(***************************************************************************)
EXTENDS Naturals

CONSTANT
    MaxSequence     \* bound: no new connection and no retry from here on

ASSUME MaxSequenceAssumption == MaxSequence \in Nat

----------------------------------------------------------------------------
(* OrderEntry::State *)

UNDEFINED == 0
TOKEN == 1
BALANCE == 2
TRADE_BALANCE == 3
OPEN_POSITIONS == 4
OPEN_ORDERS == 5
DONE == 6

Stage == TOKEN .. OPEN_ORDERS
State == Stage \cup {UNDEFINED, DONE}

ConnectionStatus == {"DISCONNECTED", "DOWNLOADING", "READY"}

(* The answers process_response tells apart: a 2xx whose body carries the  *)
(* result; a 2xx whose body carries the exchange's error list; a 2xx whose *)
(* body cannot be decoded; a 4xx or 5xx (or any other status, which        *)
(* throws); and no answer at all, which the client reports as an error.    *)
Outcome == {"result", "error_list", "malformed", "http_error", "network_error"}

VARIABLES
    up,                 \* the connection is established
    connection_status,  \* connection_status_
    state,              \* the stage of download_, UNDEFINED or DONE
    sequence,           \* download_.sequence()
    retrying,           \* download_.retry() was called for the current stage
    inflight,           \* the requests whose answer is still to come
    drop_copy,          \* the token the account's DropCopy was created with, or 0
    session,            \* the number of connections made so far (history)
    answered,           \* how often each stage's answer was accepted in this
                        \* download (history)
    errors              \* the stages of this download whose accepted answer
                        \* was an error list (history)

vars == <<up, connection_status, state, sequence, retrying, inflight,
          drop_copy, session, answered, errors>>

Request == [stage : Stage, sequence : Nat, session : Nat]

----------------------------------------------------------------------------

Init ==
    /\ up = FALSE
    /\ connection_status = "DISCONNECTED"
    /\ state = UNDEFINED
    /\ sequence = 0
    /\ retrying = FALSE
    /\ inflight = {}
    /\ drop_copy = 0
    /\ session = 0
    /\ answered = [s \in Stage |-> 0]
    /\ errors = {}

----------------------------------------------------------------------------
(* core::Download2 *)

Downloading == state \in Stage

(* An answer counts only if it is for the current stage and answers the    *)
(* latest request made for it.                                             *)
Skip(r) == r.stage # state \/ r.sequence # sequence

(* Faulty variant: ready as soon as the last request is made. *)
StatusOfEarly(s) ==
    CASE s >= OPEN_ORDERS -> "READY"
      [] s = TOKEN -> connection_status
      [] OTHER -> "DOWNLOADING"

(* The connection status reported on entering a stage.  TOKEN reports none.*)
StatusOf(s) ==
    CASE s = DONE -> "READY"
      [] s = TOKEN -> connection_status
      [] OTHER -> "DOWNLOADING"

(* Faulty variant: a request carries the sequence number of the last one. *)
DownloadStale(s, c, pending) ==
    /\ state' = s
    /\ connection_status' = StatusOf(s)
    /\ retrying' = FALSE
    /\ sequence' = IF s = DONE THEN sequence ELSE sequence + 1
    /\ inflight' = IF s = DONE
                   THEN pending
                   ELSE pending \cup
                     {[stage |-> s, sequence |-> sequence, session |-> c]}

(* The callback of download_: enter stage s of connection c; any stage but *)
(* DONE makes a request (get_token, get_balance, ...), with a sequence     *)
(* number of its own.  pending are the requests already in flight.         *)
Download(s, c, pending) ==
    /\ state' = s
    /\ connection_status' = StatusOf(s)
    /\ retrying' = FALSE
    /\ IF s = DONE
       THEN /\ inflight' = pending
            /\ UNCHANGED sequence
       ELSE /\ sequence' = sequence + 1
            /\ inflight' = pending \cup
                 {[stage |-> s, sequence |-> sequence + 1, session |-> c]}

(* check(): the current stage is complete, go on with the next. *)
Check(pending) == Download(state + 1, session, pending)

(* retry(): remembered only when it is for the current stage. *)
Retry(s, pending) ==
    /\ retrying' = (retrying \/ s = state)
    /\ inflight' = pending
    /\ UNCHANGED <<connection_status, state, sequence, drop_copy, answered,
                   errors>>

----------------------------------------------------------------------------
(* Controller, TokenUpdate: only the first token creates the DropCopy. *)

(* Faulty variant: a DropCopy is created for a ready stream only. *)
TokenUpdateWhenReady(token) ==
    drop_copy' = IF drop_copy = 0 /\ connection_status = "READY"
                 THEN token
                 ELSE drop_copy

TokenUpdate(token) ==
    drop_copy' = IF drop_copy = 0 THEN token ELSE drop_copy

----------------------------------------------------------------------------
(* web::rest::Client::Handler *)

Connected ==
    /\ ~up
    /\ sequence < MaxSequence
    /\ up' = TRUE
    /\ session' = session + 1
    /\ IF Downloading
       THEN /\ Download(state, session + 1, inflight)       \* bump()
            /\ UNCHANGED <<answered, errors>>
       ELSE /\ Download(TOKEN, session + 1, inflight)       \* begin()
            /\ answered' = [s \in Stage |-> 0]
            /\ errors' = {}
    /\ UNCHANGED drop_copy

(* Faulty variant: every disconnect resets the download. *)
DisconnectedResets ==
    /\ up
    /\ up' = FALSE
    /\ connection_status' = "DISCONNECTED"
    /\ state' = UNDEFINED
    /\ UNCHANGED <<sequence, retrying, inflight, drop_copy, session, answered,
                   errors>>

Disconnected ==
    /\ up
    /\ up' = FALSE
    /\ connection_status' = "DISCONNECTED"
    /\ state' = IF Downloading THEN state ELSE UNDEFINED    \* reset()
    /\ UNCHANGED <<sequence, retrying, inflight, drop_copy, session, answered,
                   errors>>

(* Faulty variant: the open positions are handed on but not checked in. *)
AcceptForgetsCheck(r, outcome, pending) ==
    /\ answered' = [answered EXCEPT ![r.stage] = @ + 1]
    /\ errors' = IF outcome = "error_list" THEN errors \cup {r.stage} ELSE errors
    /\ IF r.stage = TOKEN
       THEN TokenUpdate(r.sequence)
       ELSE UNCHANGED drop_copy
    /\ IF r.stage = OPEN_POSITIONS
       THEN /\ inflight' = pending
            /\ UNCHANGED <<connection_status, state, sequence, retrying>>
       ELSE Check(pending)

(* What the stage does with a body that arrives in time: decode it, hand   *)
(* over the token, accept the answer and go on.                            *)
Accept(r, outcome, pending) ==
    /\ answered' = [answered EXCEPT ![r.stage] = @ + 1]
    /\ errors' = IF outcome = "error_list" THEN errors \cup {r.stage} ELSE errors
    /\ IF r.stage = TOKEN
       THEN TokenUpdate(r.sequence)
       ELSE UNCHANGED drop_copy
    /\ Check(pending)

(* The answers that end in the error handler.  Only the token's handler    *)
(* looks at the error list (the others assert that it is empty, which the  *)
(* release build does not evaluate), and the trade balance is not decoded. *)
Refused(r, outcome) ==
    \/ outcome \in {"http_error", "network_error"}
    \/ /\ ~Skip(r)
       /\ \/ outcome = "error_list" /\ r.stage = TOKEN
          \/ outcome = "malformed" /\ r.stage # TRADE_BALANCE

(* Faulty variants: no answer is skipped; the sequence is not looked at. *)
ResponseNoSkip(r, outcome) ==
    /\ r \in inflight
    /\ up \/ outcome = "network_error"
    /\ IF Refused(r, outcome)
       THEN Retry(r.stage, inflight \ {r})
       ELSE Accept(r, outcome, inflight \ {r})
    /\ UNCHANGED <<up, session>>

ResponseOfStage(r, outcome) ==
    /\ r \in inflight
    /\ up \/ outcome = "network_error"
    /\ LET pending == inflight \ {r} IN
       IF Refused(r, outcome) THEN Retry(r.stage, pending)
       ELSE IF r.stage # state
       THEN /\ inflight' = pending
            /\ UNCHANGED <<connection_status, state, sequence, retrying,
                           drop_copy, answered, errors>>
       ELSE Accept(r, outcome, pending)
    /\ UNCHANGED <<up, session>>

(* process_response with the handlers of the stage's get_..._ack. *)
Response(r, outcome) ==
    /\ r \in inflight
    /\ up \/ outcome = "network_error"
    /\ LET pending == inflight \ {r} IN
       IF Refused(r, outcome) THEN Retry(r.stage, pending)
       ELSE IF Skip(r)
       THEN /\ inflight' = pending
            /\ UNCHANGED <<connection_status, state, sequence, retrying,
                           drop_copy, answered, errors>>
       ELSE Accept(r, outcome, pending)
    /\ UNCHANGED <<up, session>>

(* The library acts on an earlier retry(): the stage is requested again.   *)
(* Nothing in the session drives it, so it may never happen.               *)
Reissue ==
    /\ up
    /\ retrying
    /\ Downloading
    /\ sequence < MaxSequence
    /\ Download(state, session, inflight)
    /\ UNCHANGED <<up, session, drop_copy, answered, errors>>

----------------------------------------------------------------------------

Answer == \E r \in inflight, outcome \in Outcome : Response(r, outcome)

Next ==
    \/ Connected
    \/ Disconnected
    \/ Answer
    \/ Reissue

Spec == Init /\ [][Next]_vars

(* The client gives every request an answer or an error (request_timeout). *)
FairSpec == Spec /\ WF_vars(Answer)

----------------------------------------------------------------------------
(* Properties *)

(* The type of every variable. *)
TypeOK ==
    /\ up \in BOOLEAN
    /\ connection_status \in ConnectionStatus
    /\ state \in State
    /\ sequence \in Nat
    /\ retrying \in BOOLEAN
    /\ inflight \subseteq Request
    /\ drop_copy \in Nat
    /\ session \in Nat
    /\ answered \in [Stage -> Nat]
    /\ errors \subseteq Stage

(* Whatever the order, the delay or the failure of the answers, the stream *)
(* reports READY only over an established connection and after every stage *)
(* of this download was answered exactly once.                             *)
ReadyMeansComplete ==
    connection_status = "READY" =>
        up /\ state = DONE /\ answered = [s \in Stage |-> 1]

(* The data of a stage is handed on once per download, in order: an answer *)
(* that comes twice, because its stage was requested again after a         *)
(* reconnect, does not move the download twice.                            *)
ExactlyOnce ==
    state # UNDEFINED =>
        \A s \in Stage : answered[s] = IF s < state THEN 1 ELSE 0

(* The download never waits for an answer that cannot come: the answer it  *)
(* would accept is still to come, or a retry has been asked for.           *)
NeverWaitsForNothing ==
    Downloading =>
        \/ retrying
        \/ \E r \in inflight : ~Skip(r)

(* An answer is accepted only in the connection its request was made in:   *)
(* the balances of an earlier connection are never taken for current ones. *)
FreshAnswers ==
    [][\A s \in Stage :
        answered'[s] > answered[s] =>
            \E r \in inflight : /\ r \notin inflight'
                                /\ r.stage = s
                                /\ r.session = session]_vars

(* The private stream exists before the account's REST stream shows any    *)
(* progress: a client that sees it DOWNLOADING or READY has a DropCopy.    *)
DropCopyBeforeStatus == connection_status # "DISCONNECTED" => drop_copy # 0

(* A download over a connection that stays up ends, unless an answer was   *)
(* refused: only the retry of a refused request depends on the library.    *)
DownloadEnds ==
    up /\ Downloading ~> connection_status = "READY" \/ ~up \/ retrying

(* The session implements its promise: stage n + 1 is entered when the     *)
(* first n stages are complete.                                            *)
completed == IF state = UNDEFINED THEN 0 ELSE state - 1

D == INSTANCE Download WITH
        Stages <- OPEN_ORDERS,
        status <- connection_status

ImplementsDownload == D!Spec

(* What the handlers of the balances, the positions and the orders assert: *)
(* the answer they hand on carries no error.                               *)
AcksCarryNoError ==
    errors \cap {BALANCE, TRADE_BALANCE, OPEN_POSITIONS, OPEN_ORDERS} = {}

====
