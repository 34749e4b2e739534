---------------------------- MODULE MCTimeoutJob ----------------------------
(***************************************************************************)
(* An instance of TimeoutJob for TLC.                                      *)
(***************************************************************************)
EXTENDS TimeoutJob

(* One transfer goes all the way, the other ones interleave with it.       *)
Some == [x \in Id |-> IF x = "t1" THEN State ELSE {"RECEIVED_PREPARE"}]
(* The runs of one process break off anywhere; its lock runs out between   *)
(* its transaction and its list.                                           *)
First == [f \in Fault |-> [p \in Process |->
            IF p # "p1" THEN {} ELSE IF f = "lapse" THEN {"list"} ELSE Step \ {"idle"}]]
===============================================================================
