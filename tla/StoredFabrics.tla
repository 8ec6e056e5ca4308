---------------------------- MODULE StoredFabrics ----------------------------
(***************************************************************************)
(* What the fabric table promises of its persistent storage: for every     *)
(* fabric index, a power cut now would leave either no fabric at all or    *)
(* one complete identity (operational certificate, its intermediate, its   *)
(* private key and its root), and no root would be stored for two indices. *)
(* An identity is installed where there was none and is lost as a whole;   *)
(* an update is a loss followed by an installation.                        *)
(***************************************************************************)
CONSTANTS Indices,   \* the fabric indices
          Keys,      \* operational key pairs, none of them 0
          Roots      \* root certificates, none of them 0

\* An identity is named by the key its NOC certifies and the root of the chain.
Identity == [key : Keys, root : Roots]
NoIdentity == [key |-> 0, root |-> 0]

VARIABLE fabrics

Init == fabrics = [i \in Indices |-> NoIdentity]

Install(i, f) ==
    /\ fabrics[i] = NoIdentity
    /\ \A j \in Indices : fabrics[j].root # f.root
    /\ fabrics' = [fabrics EXCEPT ![i] = f]

Lose(i) == fabrics' = [fabrics EXCEPT ![i] = NoIdentity]

Next ==
    \E i \in Indices : \/ \E f \in Identity : Install(i, f)
                       \/ Lose(i)

Spec == Init /\ [][Next]_fabrics
==============================================================================
