---- MODULE Download ----
(***************************************************************************)
(* What the REST session of an account promises to its observers, who see  *)
(* the stream status and the data of one stage after the other.            *)
(*                                                                         *)
(* The stages complete one at a time and in order.  Losing the connection  *)
(* never loses a completed stage of an unfinished download, which resumes  *)
(* where it stopped, and always discards a finished one, which starts over.*)
(* Only the last stage makes the stream ready, and after the first stage   *)
(* none completes while the stream is disconnected.                        *)
(***************************************************************************)
EXTENDS Naturals

CONSTANT Stages     \* the number of stages, more than one

VARIABLES
    status,     \* the status of the stream
    completed   \* the number of completed stages

vars == <<status, completed>>

Init ==
    /\ status = "DISCONNECTED"
    /\ completed = 0

Complete ==
    /\ completed < Stages
    /\ completed = 0 \/ status = "DOWNLOADING"
    /\ completed' = completed + 1
    /\ status' = IF completed + 1 = Stages THEN "READY" ELSE "DOWNLOADING"

Lose ==
    /\ status' = "DISCONNECTED"
    /\ completed' = IF completed = Stages THEN 0 ELSE completed

Resume ==
    /\ completed \in 1 .. Stages - 1
    /\ status' = "DOWNLOADING"
    /\ UNCHANGED completed

Next == Complete \/ Lose \/ Resume

Spec == Init /\ [][Next]_vars

====
