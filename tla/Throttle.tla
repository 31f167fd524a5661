---- MODULE Throttle ----
(***************************************************************************)
(* The rate limiter of the web clients: tools::Throttle.                   *)
(*                                                                         *)
(* All connections of the gateway share it.  It reads two headers of the   *)
(* REST responses, the requests that remain and the time they are renewed, *)
(* and the final status of a response; the clients send nothing before     *)
(* suspend_until.  The headers of a response come one by one, in any       *)
(* order, with those of other connections in between.                      *)
(***************************************************************************)
EXTENDS Naturals

CONSTANTS
    Enabled,        \* experimental.enable_rate_limit
    DefaultBackoff, \* DEFAULT_BACKOFF
    BlockedBackoff, \* BLOCKED_BACKOFF
    MaxClock,       \* bound: the clock stops here
    MaxAhead,       \* bound: how far ahead of the clock a reset time may be
    MaxLimit        \* bound: the remaining requests a header may give

ASSUME BackoffAssumption ==
    /\ DefaultBackoff \in Nat \ {0}
    /\ BlockedBackoff \in Nat \ {0}
ASSUME EnabledAssumption == Enabled \in BOOLEAN
ASSUME ThrottleBounds == MaxClock \in Nat /\ MaxAhead \in Nat /\ MaxLimit \in Nat

VARIABLES
    clock,                  \* get_system and get_realtime, taken as one clock
    limit_status,           \* params_.limit_status
    limit_reset_timestamp,  \* params_.limit_reset_timestamp
    suspend_until,          \* suspend_until_
    blocked_until           \* the end of the ban of the latest 403 (history)

throttleVars == <<clock, limit_status, limit_reset_timestamp, suspend_until, blocked_until>>

Later(s, t) == IF s < t THEN t ELSE s

ThrottleInit ==
    /\ clock = 1
    /\ limit_status = 0
    /\ limit_reset_timestamp = 0
    /\ suspend_until = 0
    /\ blocked_until = 0

(* Faulty variant of update_suspend_until: the reset time is not looked at *)
(* when the requests have run out.                                         *)
UpdateBacksOff(status, reset) ==
    suspend_until' =
        IF ~Enabled THEN suspend_until
        ELSE IF status > 0 \/ reset = 0 THEN 0
        ELSE Later(suspend_until, clock + DefaultBackoff)

(* update_suspend_until, after one of the two headers has changed.  Without*)
(* a reset time there is no suspension, even when no requests remain.      *)
UpdateSuspendUntil(status, reset) ==
    suspend_until' =
        IF ~Enabled THEN suspend_until
        ELSE IF status > 0 \/ reset = 0 THEN 0
        ELSE Later(suspend_until, IF clock < reset THEN reset ELSE clock + DefaultBackoff)

(* x-bapi-limit-status; the same value again is no news. *)
LimitStatus ==
    /\ \E status \in (0 .. MaxLimit) \ {limit_status} :
        /\ limit_status' = status
        /\ UpdateSuspendUntil(status, limit_reset_timestamp)
    /\ UNCHANGED <<clock, limit_reset_timestamp, blocked_until>>

(* x-bapi-limit-reset-timestamp: a time, past or to come, or none (0). *)
LimitResetTimestamp ==
    /\ \E reset \in (0 .. clock + MaxAhead) \ {limit_reset_timestamp} :
        /\ limit_reset_timestamp' = reset
        /\ UpdateSuspendUntil(limit_status, reset)
    /\ UNCHANGED <<clock, limit_status, blocked_until>>

(* A response ends with 403 FORBIDDEN. *)
Forbidden ==
    /\ Enabled
    /\ suspend_until' = Later(suspend_until, clock + BlockedBackoff)
    /\ blocked_until' = clock + BlockedBackoff
    /\ UNCHANGED <<clock, limit_status, limit_reset_timestamp>>

(* Faulty variant: any suspension is replaced. *)
TooManyRequestsAlways ==
    /\ Enabled
    /\ suspend_until' = clock + DefaultBackoff
    /\ UNCHANGED <<clock, limit_status, limit_reset_timestamp, blocked_until>>

(* A response ends with 429 TOO_MANY_REQUESTS: only the first one counts.  *)
(* A suspension that is over is not reset to 0, so that later ones do not. *)
TooManyRequests ==
    /\ Enabled
    /\ suspend_until' = IF suspend_until = 0 THEN clock + DefaultBackoff ELSE suspend_until
    /\ UNCHANGED <<clock, limit_status, limit_reset_timestamp, blocked_until>>

(* Time passes. *)
Tick ==
    /\ clock < MaxClock
    /\ clock' = clock + 1
    /\ UNCHANGED <<limit_status, limit_reset_timestamp, suspend_until, blocked_until>>

ThrottleNext ==
    \/ LimitStatus
    \/ LimitResetTimestamp
    \/ Forbidden
    \/ TooManyRequests
    \/ Tick

ThrottleSpec == ThrottleInit /\ [][ThrottleNext]_throttleVars

----------------------------------------------------------------------------
(* Properties *)

(* The type of every variable. *)
ThrottleTypeOK ==
    /\ clock \in Nat
    /\ limit_status \in Nat
    /\ limit_reset_timestamp \in Nat
    /\ suspend_until \in Nat
    /\ blocked_until \in Nat

(* When the headers last read say that no requests remain, nothing is sent *)
(* before they are renewed, in whichever order the two headers arrive and  *)
(* whatever responses end in between.                                      *)
ExhaustedSuspends ==
    Enabled /\ limit_status = 0 /\ limit_reset_timestamp # 0 =>
        suspend_until >= limit_reset_timestamp

(* The ban of a 403 ends early only by a header, and only by one after     *)
(* which requests remain or no time is known at which they are renewed     *)
(* (that one ends it even when none remain).  No other header ends it, in  *)
(* whichever order the two arrive, and no later 403 or 429 of another      *)
(* connection.                                                             *)
BanHolds ==
    [][suspend_until >= blocked_until /\ suspend_until' < blocked_until' =>
        limit_status' > 0 \/ limit_reset_timestamp' = 0]_throttleVars

====
