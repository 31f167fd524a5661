---- MODULE Nonce ----
(***************************************************************************)
(* The nonce of the signed REST requests (tools::Crypto::create_body).     *)
(*                                                                         *)
(* Every private request of an account carries a nonce taken from the      *)
(* realtime clock in milliseconds.  That clock may stand still between two *)
(* requests, and may be stepped back while the gateway runs; the gateway   *)
(* may be restarted, and nothing of the nonce is persisted.                *)
(***************************************************************************)
EXTENDS Naturals

CONSTANTS
    Threshold,   \* |THRESHOLD|: how far (ms) the clock may be behind the nonce
    MaxRealtime, \* bound: the clock stops here
    MaxStep,     \* bound: the largest step of the clock, in either direction
    MaxRequests  \* bound: the number of requests made in a behaviour

ASSUME ThresholdAssumption == Threshold \in Nat
ASSUME NonceBounds == MaxRealtime \in Nat /\ MaxStep \in Nat /\ MaxRequests \in Nat

VARIABLES
    realtime,   \* clock::get_realtime() in ms
    running,    \* FALSE once log::fatal has ended the process
    nonce,      \* Crypto::nonce_
    requests,   \* the number of requests made by any process (history)
    last,       \* the nonce of the latest one (history)
    restarted,  \* whether a process has started since then (history)
    peak,       \* the largest value the clock has had (history)
    stepped     \* whether the clock has ever been stepped back (history)

nonceVars == <<realtime, running, nonce, requests, last, restarted, peak,
              stepped>>

----------------------------------------------------------------------------

NonceInit ==
    /\ realtime \in 1 .. MaxRealtime
    /\ running = TRUE
    /\ nonce = 0
    /\ requests = 0
    /\ last = 0
    /\ restarted = FALSE
    /\ peak = realtime
    /\ stepped = FALSE

(* Faulty variants: the threshold with the wrong sign; a nonce that follows *)
(* the clock back, one that only counts.                                   *)
TooFarBehindSign == realtime < nonce + Threshold
NextNonceClock == realtime
NextNonceCount == nonce + 1

(* The comparison diff < THRESHOLD of create_body, without negative numbers. *)
TooFarBehind == realtime + Threshold < nonce

(* The nonce create_body leaves in nonce_ when the clock is acceptable. *)
NextNonce == IF realtime < nonce THEN nonce + 1 ELSE realtime

(* create_body of a new request: the process ends, or the request is sent. *)
CreateBody ==
    /\ running
    /\ requests < MaxRequests
    /\ IF TooFarBehind
       THEN /\ running' = FALSE
            /\ UNCHANGED <<nonce, requests, last, restarted>>
       ELSE /\ nonce' = NextNonce
            /\ requests' = requests + 1
            /\ last' = NextNonce
            /\ restarted' = FALSE
            /\ UNCHANGED running
    /\ UNCHANGED <<realtime, peak, stepped>>

(* A new process: nonce_ is default-initialized. *)
Restart ==
    /\ running' = TRUE
    /\ nonce' = 0
    /\ restarted' = TRUE
    /\ UNCHANGED <<realtime, requests, last, peak, stepped>>

(* Time passes. *)
Advance ==
    /\ \E t \in realtime + 1 .. realtime + MaxStep :
        /\ t <= MaxRealtime
        /\ realtime' = t
        /\ peak' = IF t > peak THEN t ELSE peak
    /\ UNCHANGED <<running, nonce, requests, last, restarted, stepped>>

(* The system clock is adjusted backwards (NTP, an operator). *)
StepBack ==
    /\ \E t \in 1 .. realtime - 1 :
        /\ realtime <= t + MaxStep
        /\ realtime' = t
    /\ stepped' = TRUE
    /\ UNCHANGED <<running, nonce, requests, last, restarted, peak>>

NonceNext ==
    \/ CreateBody
    \/ Restart
    \/ Advance
    \/ StepBack

NonceSpec == NonceInit /\ [][NonceNext]_nonceVars

----------------------------------------------------------------------------
(* Properties *)

(* The type of every variable. *)
NonceTypeOK ==
    /\ realtime \in Nat
    /\ running \in BOOLEAN
    /\ nonce \in Nat
    /\ requests \in Nat
    /\ last \in Nat
    /\ restarted \in BOOLEAN
    /\ peak \in Nat
    /\ stepped \in BOOLEAN

(* Within the life of one process the nonce never goes back, whatever the  *)
(* clock does: only a new process starts again from zero.                  *)
NonceNeverReversed == [][nonce' >= nonce \/ (nonce' = 0 /\ running')]_nonceVars

(* While the clock has never been stepped back, create_body never ends the *)
(* process, and no request of any process carries a nonce from the future: *)
(* the requests of a restarted gateway are not below those of its          *)
(* predecessor.                                                            *)
SteadyClockSafe == ~stepped => running /\ nonce <= realtime /\ last <= realtime

(* The sequence of nonces the exchange sees goes back only from the last   *)
(* request of one process to the first of another, and only if the clock   *)
(* was stepped back: a restart alone is harmless, and so is the step alone.*)
NoncesInOrder == [][last' < last => restarted /\ stepped]_nonceVars

====
