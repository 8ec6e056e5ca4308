-------------------------- MODULE MCReliableMessaging --------------------------
(* ReliableMessaging for TLC: a dialogue, and a message that needs no answer or *)
(* that nobody takes.  An answer that is announced may follow at once, so       *)
(* "later" reaches every state that "last" and "more" do; "none" moves the      *)
(* protocol as "barred" does, the history of what was given apart.              *)
EXTENDS ReliableMessaging

MCOpener == [x \in Exchanges |-> "controller"]
MCContexts == [n \in Nodes |-> IF n = "relay" THEN 1 ELSE 2]
MCReplies == [x \in Exchanges |->
               IF x = 1 THEN {"later"} ELSE {"none", "unhandled"}]
================================================================================
