------------------------------ MODULE MCArpMain ------------------------------
(***************************************************************************)
(* A small instance of ArpMain: a host with up to three addresses, two of  *)
(* them of eth0, and a buffer that is too small for two items at first.    *)
(***************************************************************************)
EXTENDS ArpMain

CONSTANTS lo, e1, e2

MCTables == {<<lo>>, <<lo, e1>>}

=============================================================================
