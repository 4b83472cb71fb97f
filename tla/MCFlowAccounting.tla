-------------------------- MODULE MCFlowAccounting --------------------------
(* Small instances of FlowAccounting.                                      *)
EXTENDS FlowAccounting
CONSTANTS f1, f2, rx, tx
=============================================================================
