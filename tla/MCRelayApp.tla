----------------------------- MODULE MCRelayApp -----------------------------
(* Small instances of RelayApp for TLC; the cfg files give the constants.  *)
EXTENDS RelayApp
=============================================================================
