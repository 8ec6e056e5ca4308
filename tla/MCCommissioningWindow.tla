------------------------- MODULE MCCommissioningWindow -------------------------
(* Small instances of CommissioningWindow for TLC; the cfg files give the      *)
(* constants.                                                                  *)
EXTENDS CommissioningWindow
================================================================================
