--------------------------- MODULE MCFabricCommit ---------------------------
(* Small instances of FabricCommit for TLC; the cfg files give the          *)
(* constants.                                                               *)
EXTENDS FabricCommit
=============================================================================
