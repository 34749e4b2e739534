---------------------------- MODULE MCBulkTransfer ----------------------------
(***************************************************************************)
(* Instances of BulkTransfer for TLC: a bulk of two transfers.             *)
(***************************************************************************)
EXTENDS BulkTransfer, TLC

CONSTANTS t1, t2, p1, p2

\* Neither the transfers nor the processes differ; only safety is checked.
Symmetry == Permutations({t1, t2}) \union Permutations({p1, p2})

(* The bound on what goes wrong in one behaviour.  disturbed only grows, and*)
(* the safety properties bear no more than two kinds of disturbance: nothing*)
(* they speak of is cut away.                                               *)
AtMostTwo == Cardinality(disturbed) <= 2
===============================================================================
