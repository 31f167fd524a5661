---- MODULE TradeLog ----
(***************************************************************************)
(* What a stream of fills promises about the trades of each order: a trade *)
(* becomes one fill or is lost with a connection, and never both.  What is *)
(* lost is never made up for.                                              *)
(***************************************************************************)
EXTENDS Naturals

CONSTANT Order

VARIABLES
    trades,     \* the trades of an order
    fills,      \* those that became a fill
    lost        \* those that will not

vars == <<trades, fills, lost>>

Init ==
    /\ trades = [o \in Order |-> 0]
    /\ fills = [o \in Order |-> 0]
    /\ lost = [o \in Order |-> 0]

Pending(o) == trades[o] - fills[o] - lost[o]

(* A trade, which is lost at once when there is nobody to tell. *)
Trade(o) ==
    /\ trades' = [trades EXCEPT ![o] = @ + 1]
    /\ \/ UNCHANGED lost
       \/ lost' = [lost EXCEPT ![o] = @ + 1]
    /\ UNCHANGED fills

Fill(o) ==
    /\ Pending(o) > 0
    /\ fills' = [fills EXCEPT ![o] = @ + 1]
    /\ UNCHANGED <<trades, lost>>

(* A connection is lost with all that is pending. *)
Lose ==
    /\ lost' = [o \in Order |-> lost[o] + Pending(o)]
    /\ UNCHANGED <<trades, fills>>

Next ==
    \/ \E o \in Order : Trade(o) \/ Fill(o)
    \/ Lose

Spec == Init /\ [][Next]_vars

====
