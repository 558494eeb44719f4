---------------------------- MODULE MCWorldTxn ----------------------------
(* An instance of WorldTxn for TLC.                                        *)
EXTENDS WorldTxn

CONSTANTS t1, t2, lease, token

Alike == Permutations({t1, t2})
=============================================================================
