--------------------------- MODULE MCGroupMessaging ---------------------------
(* GroupMessaging for TLC: a table of two fabrics, one of which has two peers.   *)
EXTENDS GroupMessaging

MCSender == [fabric |-> 2, node |-> 1]
MCOtherPeers == {[fabric |-> 1, node |-> 1], [fabric |-> 2, node |-> 2]}
MCMaxPeers == [k \in Kinds |-> 1]
===============================================================================
