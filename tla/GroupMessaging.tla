----------------------------- MODULE GroupMessaging -----------------------------
(***************************************************************************)
(* Group messages have no session and no acknowledgement: the sender must   *)
(* never use a counter twice with a group key, whenever its power fails, and *)
(* a receiver keeps a replay window for each sender it hears of.             *)
(*                                                                         *)
(* The sender is GroupOutgoingCounters (src/src/transport/                  *)
(* GroupPeerMessageCounter.cpp) and the group case of                       *)
(* SessionManager::PrepareMessage; the receiver is GroupPeerTable and       *)
(* SessionManager::SecureGroupMessageDispatch.  sent is the network: a       *)
(* message in it may arrive any number of times, in any order, or never.     *)
(***************************************************************************)
EXTENDS PeerMessageCounter, Sequences, FiniteSets

CONSTANTS MIN_INCREMENT,  \* GROUP_MSG_COUNTER_MIN_INCREMENT, 1000
          InitialValues,  \* what the first random number can give
          Refusable,      \* kinds whose write-ahead storage may refuse
          Fabrics,        \* fabrics the receiver has joined
          Sender,         \* [fabric, node] of the node whose sending side is modelled
          OtherPeers,     \* [fabric, node] of the other nodes that send to groups
          MAX_FABRICS,    \* CHIP_CONFIG_MAX_FABRICS
          MAX_PEERS,      \* [Kinds -> Nat]: CHIP_CONFIG_MAX_GROUP_CONTROL_PEERS and _DATA_PEERS
          MaxSpent        \* bound: counters of a kind the sender goes through

Kinds == {"control", "data"}

ASSUME GroupAssumption ==
    /\ MIN_INCREMENT \in 1 .. HalfRange - 1
    /\ InitialValues \subseteq Counter /\ InitialValues # {}
    /\ Refusable \subseteq Kinds
    /\ OtherPeers \subseteq [fabric : Fabrics, node : Nat]
    /\ Sender \in [fabric : Fabrics, node : Nat] \ OtherPeers
    /\ MAX_FABRICS \in Nat \ {0}
    /\ MAX_PEERS \in [Kinds -> Nat \ {0}]
    /\ MaxSpent \in Nat

VARIABLES
    phase,     \* the sender: "off", "control" and "data" (Init is about to write
               \* that counter), "on"
    counter,   \* mGroupControlCounter and mGroupDataCounter
    stored,    \* the counters in persistent storage
    behind,    \* history: kinds whose write-ahead was refused since the last boot
    rewound,   \* history: kinds that a boot has taken up from such a stored counter
    spent,     \* history: how far the counter has moved at most
    sent,      \* messages sent, each with its place in spent
    keys,      \* receiver: the fabrics whose group keys it holds
    table,     \* receiver: mGroupFabrics
    accepted   \* history: the messages accepted since the receiver started

senderVars == <<phase, counter, stored, behind, rewound, spent, sent>>
receiverVars == <<keys, table, accepted>>
vars == <<senderVars, receiverVars>>

NotStored == -1

Message == [kind : Kinds, counter : Counter, id : 0 .. MaxSpent]

\* GroupSender; synced is IsSynchronized of its PeerMessageCounter.
GroupSender == [node : Nat, synced : BOOLEAN, peer : Synced]
NewSender(n) == [node |-> n, synced |-> FALSE, peer |-> SetCounter(0)]

\* GroupFabric, without its empty slots: FindOrAddPeer takes the first empty one
\* and RemoveAndCompactFabric leaves no hole.
GroupFabric == [fabric : Fabrics, senders : [Kinds -> Seq(GroupSender)]]
NewFabric(f) == [fabric |-> f, senders |-> [k \in Kinds |-> <<>>]]

--------------------------------------------------------------------------------
(* The sender *)

\* GroupOutgoingCounters::Init, up to its first write: both counters are read, a
\* counter that is not stored yet starts at a random value.
InitRead ==
    /\ phase = "off"
    /\ \A k \in Kinds : spent[k] + MIN_INCREMENT <= MaxSpent
    /\ \E first \in [Kinds -> InitialValues] :
           counter' = [k \in Kinds |-> IF stored[k] = NotStored THEN first[k]
                                       ELSE stored[k]]
    /\ spent' = [k \in Kinds |-> spent[k] + MIN_INCREMENT]
    /\ phase' = "control"
    /\ UNCHANGED <<stored, behind, rewound, sent, receiverVars>>

\* Mutant: Init reads the counters and does not write ahead.
InitWithoutWrite ==
    /\ phase \in Kinds
    /\ stored' = [stored EXCEPT ![phase] = counter[phase]]
    /\ phase' = IF phase = "control" THEN "data" ELSE "on"
    /\ UNCHANGED <<counter, behind, rewound, spent, sent, receiverVars>>

\* The two writes of Init, the power can fail between them.  When one is refused
\* SessionManager::Init fails and nothing is sent: to storage a cut before it.
InitWrite ==
    /\ phase \in Kinds
    /\ stored' = [stored EXCEPT ![phase] = Add(counter[phase], MIN_INCREMENT)]
    /\ phase' = IF phase = "control" THEN "data" ELSE "on"
    /\ UNCHANGED <<counter, behind, rewound, spent, sent, receiverVars>>

\* Mutant: the counter is wider than its place in the header.
IncrementWithoutWrap(k) ==
    LET value == counter[k] + 1
    IN  /\ counter' = [counter EXCEPT ![k] = value]
        /\ stored' = IF stored[k] = value
                     THEN [stored EXCEPT ![k] = Add(value, MIN_INCREMENT)]
                     ELSE stored
        /\ UNCHANGED behind

\* IncrementCounter: the stored counter moves on when the counter has reached it,
\* unless storage refuses to read or to write it.  PrepareMessage does not look at
\* the result; the counter goes past the stored one then, and meets it again only
\* after the wrap.
IncrementCounter(k) ==
    LET value == Add(counter[k], 1)
    IN  /\ counter' = [counter EXCEPT ![k] = value]
        /\ \/ /\ stored[k] # value
              /\ UNCHANGED <<stored, behind>>
           \/ /\ stored[k] = value
              /\ stored' = [stored EXCEPT ![k] = Add(value, MIN_INCREMENT)]
              /\ UNCHANGED behind
           \/ /\ stored[k] = value /\ k \in Refusable
              /\ behind' = behind \cup {k}
              /\ UNCHANGED stored

\* PrepareMessage and SendPreparedMessage.  The write of IncrementCounter is the
\* one durable effect: a power cut before it is a cut before this step, and after
\* it a message of sent that never arrives.
SendGroupMessage(k) ==
    /\ phase = "on"
    /\ spent[k] < MaxSpent
    /\ sent' = sent \cup {[kind |-> k, counter |-> counter[k], id |-> spent[k]]}
    /\ spent' = [spent EXCEPT ![k] = @ + 1]
    /\ IncrementCounter(k)
    /\ UNCHANGED <<phase, rewound, receiverVars>>

SenderPowerCut ==
    /\ phase # "off"
    /\ phase' = "off"
    /\ counter' = [k \in Kinds |-> 0]
    /\ rewound' = rewound \cup behind
    /\ behind' = {}
    /\ UNCHANGED <<stored, spent, sent, receiverVars>>

--------------------------------------------------------------------------------
(* The receiver *)

SlotOf(t, f) == {i \in DOMAIN t : t[i].fabric = f}
PeersOf(t, f, k) == UNION {{t[i].senders[k][j] : j \in DOMAIN t[i].senders[k]} :
                           i \in SlotOf(t, f)}

\* FindOrAddPeer: the table with an entry for the peer, and CHIP_NO_ERROR unless
\* there is no room for it.
FindOrAddPeer(t, f, n, k) ==
    IF \E s \in PeersOf(t, f, k) : s.node = n THEN [ok |-> TRUE, table |-> t]
    ELSE LET withFabric == IF SlotOf(t, f) = {} THEN Append(t, NewFabric(f)) ELSE t
             slot == CHOOSE i \in SlotOf(withFabric, f) : TRUE
             room == /\ Len(withFabric) <= MAX_FABRICS
                     /\ Len(withFabric[slot].senders[k]) < MAX_PEERS[k]
         IN  [ok |-> room,
              table |-> IF room
                        THEN [withFabric EXCEPT ![slot].senders[k] = Append(@, NewSender(n))]
                        ELSE t]

\* Mutant: group counters verified like those of unicast sessions.
VerifyWithoutRollover(s, c) == ~s.synced \/ Verify(s.peer, c, FALSE)

\* VerifyOrTrustFirstGroup.
VerifyOrTrustFirst(s, c) == ~s.synced \/ Verify(s.peer, c, TRUE)

\* SetCounter for a first message, then CommitGroup.
CommitGroup(s, c) ==
    [s EXCEPT !.synced = TRUE,
              !.peer = Commit(IF s.synced THEN s.peer ELSE SetCounter(c), c, TRUE)]

\* The table once the window of one peer is replaced.
WithSender(t, f, k, s) ==
    [i \in DOMAIN t |->
        IF t[i].fabric # f THEN t[i]
        ELSE [t[i] EXCEPT !.senders[k] =
                 [j \in DOMAIN @ |-> IF @[j].node = s.node THEN s ELSE @[j]]]]

\* SecureGroupMessageDispatch from FindOrAddPeer to CommitGroup.  The entry made for
\* the peer stays when the policy of the group's keys is cache-and-sync, for which
\* the message is dropped.
Dispatch(t, f, n, k, c, policy) ==
    LET found == FindOrAddPeer(t, f, n, k)
        s == CHOOSE x \in PeersOf(found.table, f, k) : x.node = n
    IN  IF found.ok /\ policy = "trustFirst" /\ VerifyOrTrustFirst(s, c)
        THEN [given |-> TRUE, table |-> WithSender(found.table, f, k, CommitGroup(s, c))]
        ELSE [given |-> FALSE, table |-> found.table]

\* Counters half the counter space apart are told neither old nor new.  The network
\* does not hold a message that long, and once the receiver has accepted messages of
\* a kind it does not miss half the counter space in a row.
Recent(m) == spent[m.kind] - m.id < HalfRange
InTouch(k) == (\E a \in accepted : a.kind = k) => \E a \in accepted : a.kind = k /\ Recent(a)

\* A message of the sender arrives; without the fabric's keys it is not decrypted.
ReceiveFromSender(m) ==
    /\ Sender.fabric \in keys
    /\ Recent(m) /\ InTouch(m.kind)
    /\ LET r == Dispatch(table, Sender.fabric, Sender.node, m.kind, m.counter, "trustFirst")
       IN  /\ table' = r.table
           /\ accepted' = IF r.given THEN accepted \cup {m} ELSE accepted
    /\ UNCHANGED <<keys, senderVars>>

\* A message of another node, whose own counters stand still.
ReceiveFromOther(p, k, policy) ==
    /\ p.fabric \in keys
    /\ table' = Dispatch(table, p.fabric, p.node, k, 0, policy).table
    /\ UNCHANGED <<keys, accepted, senderVars>>

\* Mutant: the fabric moves without its peers.
CompactWithoutPeers(t, slot) ==
    LET last == Len(t)
    IN  [i \in 1 .. last - 1 |-> IF i = slot THEN NewFabric(t[last].fabric) ELSE t[i]]

\* RemoveAndCompactFabric: the last fabric of the table moves into the hole.
RemoveAndCompactFabric(t, slot) ==
    LET last == Len(t)
    IN  [i \in 1 .. last - 1 |-> IF i = slot THEN t[last] ELSE t[i]]

\* Server's OnFabricRemoved: the group keys of the fabric go, and its peers.
FabricRemoved(f) ==
    /\ f \in keys
    /\ keys' = keys \ {f}
    /\ table' = IF SlotOf(table, f) = {} THEN table
                ELSE RemoveAndCompactFabric(table, CHOOSE i \in SlotOf(table, f) : TRUE)
    /\ UNCHANGED <<accepted, senderVars>>

\* The windows are not persistent.
ReceiverRestart ==
    /\ table' = <<>>
    /\ accepted' = {}
    /\ UNCHANGED <<keys, senderVars>>

--------------------------------------------------------------------------------
Init ==
    /\ phase = "off"
    /\ counter = [k \in Kinds |-> 0]
    /\ stored = [k \in Kinds |-> NotStored]
    /\ behind = {}
    /\ rewound = {}
    /\ spent = [k \in Kinds |-> 0]
    /\ sent = {}
    /\ keys = Fabrics
    /\ table = <<>>
    /\ accepted = {}

Next ==
    \/ InitRead
    \/ InitWrite
    \/ \E k \in Kinds : SendGroupMessage(k)
    \/ SenderPowerCut
    \/ \E m \in sent : ReceiveFromSender(m)
    \/ \E p \in OtherPeers, k \in Kinds, policy \in {"trustFirst", "cacheAndSync"} :
           ReceiveFromOther(p, k, policy)
    \/ \E f \in Fabrics : FabricRemoved(f)
    \/ ReceiverRestart

Spec == Init /\ [][Next]_vars

--------------------------------------------------------------------------------
TypeOK ==
    /\ phase \in {"off", "on"} \cup Kinds
    /\ counter \in [Kinds -> Counter]
    /\ stored \in [Kinds -> Counter \cup {NotStored}]
    /\ behind \subseteq Kinds
    /\ rewound \subseteq Kinds
    /\ spent \in [Kinds -> 0 .. MaxSpent]
    /\ sent \subseteq Message
    /\ keys \subseteq Fabrics
    /\ table \in Seq(GroupFabric)
    /\ Len(table) <= MAX_FABRICS
    /\ accepted \subseteq sent

\* No counter is used twice with a key before all counters have been used: the next
\* counter of a running sender differs from that of every message of the last
\* CounterMod counters it went through, power cuts included (the write-ahead of
\* GroupOutgoingCounters::Init and IncrementCounter).  A refused write-ahead does no
\* harm before the next boot, and none to the other kind; the boot after it does
\* give counters twice.
CounterNotReused ==
    phase = "on" =>
        \A m \in sent :
            m.kind \notin rewound /\ spent[m.kind] - m.id < CounterMod =>
                m.counter # counter[m.kind]

\* Whether message m of the sender would be given to the application.
WouldAccept(m) ==
    Dispatch(table, Sender.fabric, Sender.node, m.kind, m.counter, "trustFirst").given

\* A message accepted once is not accepted again while the receiver runs, whatever
\* arrived in between, other fabrics' removal included (RemoveAndCompactFabric moves
\* the windows), as long as the sender's counters of its kind have not gone back.
AcceptedOnce ==
    Sender.fabric \in keys =>
        \A m \in accepted : m.kind \notin rewound /\ Recent(m) => ~WouldAccept(m)

\* A message newer than all that the receiver accepted of its kind, by less than half
\* the counter space, is accepted: neither a power cut of the sender nor the wrap
\* of the counter locks it out, unless a refused write-ahead let the counter go back.
NewIsAccepted ==
    Sender.fabric \in keys =>
        \A m \in sent, a \in accepted :
            (/\ a.kind = m.kind /\ m.kind \notin rewound
             /\ \A b \in accepted : b.kind = m.kind => b.id < m.id
             /\ Recent(a)) => WouldAccept(m)
=================================================================================
