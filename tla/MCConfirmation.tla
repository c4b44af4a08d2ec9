---------------------------- MODULE MCConfirmation ----------------------------
(***************************************************************************)
(* An instance of Confirmation for TLC: all tasks send the same            *)
(* transaction.                                                            *)
(***************************************************************************)
EXTENDS Confirmation

CONSTANTS x, t1, t2, t3

MCTxOf == [t \in Tasks |-> x]
=============================================================================
