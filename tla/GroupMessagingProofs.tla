-------------------------- MODULE GroupMessagingProofs --------------------------
(***************************************************************************)
(* Proofs about GroupMessaging, for every counter width, increment, table    *)
(* size and set of peers.                                                  *)
(***************************************************************************)
EXTENDS GroupMessaging, TLAPS

USE DEF Kinds, NotStored

--------------------------------------------------------------------------------
(* Unsigned arithmetic *)

\* The sum of two counters is a counter.
LEMMA AddType ==
    ASSUME NEW a \in Counter, NEW b \in Counter
    PROVE  Add(a, b) \in Counter
BY CounterAssumption DEF Add, Counter

\* c lies d counters after a, wrapping at most once.
After(a, c, d) == c = a + d \/ c = a + d - CounterMod

\* Distances add up, as long as the sum stays below CounterMod.
LEMMA AfterAdd ==
    ASSUME NEW a \in Counter, NEW c \in Counter, NEW d \in 0 .. CounterMod - 1,
           NEW e \in Counter, After(a, c, d), d + e < CounterMod
    PROVE  After(a, Add(c, e), d + e)
BY CounterAssumption DEF After, Add, Counter

\* Counters that lie less than CounterMod apart differ.
LEMMA AfterDiffers ==
    ASSUME NEW a \in Counter, NEW c \in Counter, NEW d \in 1 .. CounterMod - 1,
           After(a, c, d)
    PROVE  a # c
BY CounterAssumption DEF After, Counter

LEMMA AfterItself ==
    ASSUME NEW a \in Counter, NEW e \in Counter
    PROVE  After(a, Add(a, e), e)
BY CounterAssumption DEF After, Add, Counter

LEMMA IncrementType ==
    1 \in Counter /\ MIN_INCREMENT \in Counter
BY CounterAssumption, GroupAssumption DEF Counter

--------------------------------------------------------------------------------
(* The sender *)

SenderTypeOK ==
    /\ phase \in {"off", "on"} \cup Kinds
    /\ counter \in [Kinds -> Counter]
    /\ stored \in [Kinds -> Counter \cup {NotStored}]
    /\ behind \subseteq Kinds /\ rewound \subseteq Kinds
    /\ spent \in [Kinds -> 0 .. MaxSpent]
    /\ sent \subseteq Message

\* A value that the counter or the stored counter has is ahead of message m by at
\* most limit, unless limit counters already wrap around.
AheadOf(m, c, limit) ==
    limit < CounterMod => \E d \in 1 .. limit : After(m.counter, c, d)

\* The counter of a sender that is up, and the stored counter, which a later boot
\* takes over, are both ahead of every message sent: the stored one while no
\* write-ahead is refused, the other until a boot after that.
Ahead ==
    \A m \in sent :
        /\ m.id < spent[m.kind]
        /\ stored[m.kind] # NotStored
        /\ m.kind \notin rewound \cup behind =>
               AheadOf(m, stored[m.kind], spent[m.kind] - m.id + MIN_INCREMENT)
        /\ m.kind \notin rewound /\ phase # "off" =>
               AheadOf(m, counter[m.kind], spent[m.kind] - m.id)

\* The stored counter is ahead of the counter once Init has written it.
Written(k) == phase = "on" \/ (phase = "data" /\ k = "control")
WrittenAhead ==
    \A k \in Kinds : Written(k) =>
        /\ stored[k] # NotStored
        /\ k \notin rewound \cup behind =>
               \E d \in 1 .. MIN_INCREMENT : After(counter[k], stored[k], d)

\* A write-ahead is refused to a sender that is up.
BehindOn == phase # "on" => behind = {}

SenderInv == SenderTypeOK /\ Ahead /\ WrittenAhead /\ BehindOn

LEMMA SenderInit == Init => SenderInv
<1> SUFFICES ASSUME Init PROVE SenderInv
    OBVIOUS
<1>1. SenderTypeOK
    BY CounterAssumption, GroupAssumption DEF Init, SenderTypeOK, Counter
<1> QED BY <1>1 DEF Init, SenderInv, Ahead, WrittenAhead, Written, BehindOn

LEMMA TypeFacts ==
    ASSUME SenderTypeOK
    PROVE  \A m \in sent : /\ m.kind \in Kinds /\ m.counter \in Counter /\ m.id \in Nat
                           /\ spent[m.kind] \in Nat /\ counter[m.kind] \in Counter
                           /\ stored[m.kind] \in Counter \cup {NotStored}
BY GroupAssumption DEF SenderTypeOK, Message

\* A boot takes over the stored counter, which is ahead of all messages.
LEMMA InitReadKeeps == SenderInv /\ InitRead => SenderInv'
<1> SUFFICES ASSUME SenderInv, InitRead PROVE SenderInv'
    OBVIOUS
<1> USE DEF SenderInv
<1>1. SenderTypeOK'
    <2>1. PICK first \in [Kinds -> InitialValues] :
              counter' = [k \in Kinds |-> IF stored[k] = NotStored THEN first[k]
                                          ELSE stored[k]]
        BY DEF InitRead
    <2>2. counter' \in [Kinds -> Counter]
        BY <2>1, GroupAssumption DEF SenderTypeOK
    <2>3. spent' \in [Kinds -> 0 .. MaxSpent]
        BY CounterAssumption, GroupAssumption DEF SenderTypeOK, InitRead
    <2> QED BY <2>2, <2>3 DEF SenderTypeOK, InitRead
<1>2. Ahead'
    <2> SUFFICES ASSUME NEW m \in sent
                 PROVE  /\ m.id < spent'[m.kind]
                        /\ stored[m.kind] # NotStored
                        /\ m.kind \notin rewound =>
                           /\ AheadOf(m, stored[m.kind], spent'[m.kind] - m.id + MIN_INCREMENT)
                           /\ AheadOf(m, counter'[m.kind], spent'[m.kind] - m.id)
        BY DEF Ahead, InitRead, AheadOf
    <2>1. /\ m.kind \in Kinds /\ m.id \in Nat /\ spent[m.kind] \in Nat
          /\ MIN_INCREMENT \in Nat \ {0} /\ CounterMod \in Nat
        BY TypeFacts, CounterAssumption, GroupAssumption
    <2>2. /\ spent'[m.kind] = spent[m.kind] + MIN_INCREMENT
          /\ stored[m.kind] # NotStored
          /\ counter'[m.kind] = stored[m.kind]
        BY <2>1 DEF InitRead, Ahead
    <2>3. m.id < spent[m.kind]
        BY DEF Ahead
    <2>4. m.kind \notin rewound =>
              AheadOf(m, stored[m.kind], spent[m.kind] - m.id + MIN_INCREMENT)
        BY DEF Ahead, BehindOn, InitRead
    <2>5. m.kind \notin rewound =>
              AheadOf(m, stored[m.kind],
                      spent[m.kind] - m.id + MIN_INCREMENT + MIN_INCREMENT)
        BY <2>1, <2>3, <2>4 DEF AheadOf
    <2> QED BY <2>1, <2>2, <2>3, <2>4, <2>5
<1>3. WrittenAhead'
    BY DEF InitRead, WrittenAhead, Written
<1>4. BehindOn'
    BY DEF InitRead, BehindOn
<1> QED BY <1>1, <1>2, <1>3, <1>4

\* Init writes ahead of the counter it has read.
LEMMA InitWriteKeeps == SenderInv /\ InitWrite => SenderInv'
<1> SUFFICES ASSUME SenderInv, InitWrite PROVE SenderInv'
    OBVIOUS
<1> USE DEF SenderInv
<1> DEFINE value == Add(counter[phase], MIN_INCREMENT)
<1>a. /\ phase \in Kinds /\ counter[phase] \in Counter
      /\ stored' = [stored EXCEPT ![phase] = value]
    BY DEF InitWrite, SenderTypeOK
<1>b. value \in Counter
    BY <1>a, AddType, IncrementType
<1>c. /\ MIN_INCREMENT \in Nat \ {0} /\ CounterMod \in Nat /\ NotStored \notin Counter
    BY CounterAssumption, GroupAssumption DEF Counter
<1>0. /\ phase \in Kinds /\ counter[phase] \in Counter /\ value \in Counter
      /\ stored' = [stored EXCEPT ![phase] = value]
      /\ MIN_INCREMENT \in Nat \ {0} /\ CounterMod \in Nat /\ MIN_INCREMENT \in Counter
      /\ NotStored \notin Counter
    BY <1>a, <1>b, <1>c, IncrementType
<1>1. SenderTypeOK'
    BY <1>0 DEF SenderTypeOK, InitWrite
<1>2. Ahead'
    <2> SUFFICES ASSUME NEW m \in sent
                 PROVE  /\ m.id < spent[m.kind]
                        /\ stored'[m.kind] # NotStored
                        /\ m.kind \notin rewound =>
                           /\ AheadOf(m, stored'[m.kind], spent[m.kind] - m.id + MIN_INCREMENT)
                           /\ AheadOf(m, counter[m.kind], spent[m.kind] - m.id)
        BY DEF Ahead, InitWrite, AheadOf
    <2>1. /\ m.kind \in Kinds /\ m.id \in Nat /\ spent[m.kind] \in Nat
          /\ m.counter \in Counter
        BY TypeFacts
    <2>2. /\ m.id < spent[m.kind]
          /\ m.kind \notin rewound => AheadOf(m, counter[m.kind], spent[m.kind] - m.id)
        BY DEF Ahead, InitWrite
    <2>3. CASE m.kind # phase
        BY <2>1, <2>2, <2>3, <1>0 DEF Ahead, SenderTypeOK, BehindOn, InitWrite
    <2>4. CASE m.kind = phase
        <3>1. stored'[m.kind] = value
            BY <1>0, <2>1, <2>4 DEF SenderTypeOK
        <3>2. ASSUME spent[m.kind] - m.id + MIN_INCREMENT < CounterMod,
                     m.kind \notin rewound
              PROVE  \E d \in 1 .. spent[m.kind] - m.id + MIN_INCREMENT :
                         After(m.counter, value, d)
            <4>1. PICK d \in 1 .. spent[m.kind] - m.id : After(m.counter, counter[phase], d)
                BY <2>1, <2>2, <2>4, <3>2, <1>0 DEF AheadOf
            <4>2. /\ d \in 0 .. CounterMod - 1
                  /\ d + MIN_INCREMENT < CounterMod
                  /\ d + MIN_INCREMENT \in 1 .. spent[m.kind] - m.id + MIN_INCREMENT
                BY <1>0, <2>1, <3>2
            <4>3. After(m.counter, value, d + MIN_INCREMENT)
                BY <1>0, <2>1, <4>1, <4>2, AfterAdd
            <4> QED BY <4>2, <4>3
        <3> QED BY <1>0, <2>2, <3>1, <3>2 DEF AheadOf
    <2> QED BY <2>3, <2>4
<1>3. WrittenAhead'
    <2> SUFFICES ASSUME NEW k \in Kinds, Written(k)'
                 PROVE  /\ stored'[k] # NotStored
                        /\ k \notin rewound =>
                               \E d \in 1 .. MIN_INCREMENT : After(counter[k], stored'[k], d)
        BY DEF WrittenAhead, InitWrite, After
    <2>1. CASE k = phase
        <3>1. stored'[k] = value
            BY <1>0, <2>1 DEF SenderTypeOK
        <3>2. After(counter[phase], value, MIN_INCREMENT)
            BY <1>0, AfterItself
        <3> QED BY <1>0, <2>1, <3>1, <3>2
    <2>2. CASE k # phase
        <3>1. Written(k)
            BY <2>2 DEF Written, InitWrite
        <3> QED BY <1>0, <2>2, <3>1 DEF WrittenAhead, SenderTypeOK, BehindOn, InitWrite
    <2> QED BY <2>1, <2>2
<1>4. BehindOn'
    BY DEF InitWrite, BehindOn
<1> QED BY <1>1, <1>2, <1>3, <1>4

\* A message takes the counter, which stays behind the stored one unless the
\* write-ahead is refused.
LEMMA SendKeeps ==
    ASSUME SenderInv, NEW k \in Kinds, SendGroupMessage(k)
    PROVE  SenderInv'
<1> USE DEF SenderInv
<1> DEFINE new == [kind |-> k, counter |-> counter[k], id |-> spent[k]]
           value == Add(counter[k], 1)
           inc == Add(value, MIN_INCREMENT)
<1>a. /\ MIN_INCREMENT \in Nat \ {0} /\ CounterMod \in Nat /\ spent[k] \in Nat
      /\ MIN_INCREMENT < CounterMod - 1 /\ NotStored \notin Counter
    BY CounterAssumption, GroupAssumption DEF SenderTypeOK, Counter
<1>b. counter[k] \in Counter
    BY DEF SenderTypeOK
<1>c. value \in Counter
    BY <1>b, AddType, IncrementType
<1>d. inc \in Counter
    BY <1>c, AddType, IncrementType
<1>0. /\ counter[k] \in Counter /\ value \in Counter /\ inc \in Counter
      /\ MIN_INCREMENT \in Nat \ {0} /\ MIN_INCREMENT < CounterMod - 1 /\ CounterMod \in Nat
      /\ MIN_INCREMENT \in Counter /\ 1 \in Counter /\ NotStored \notin Counter
      /\ spent[k] \in Nat
    BY <1>a, <1>b, <1>c, <1>d, IncrementType
<1>1. /\ phase = "on" /\ phase' = "on" /\ spent[k] < MaxSpent
      /\ sent' = sent \cup {new}
      /\ spent' = [spent EXCEPT ![k] = @ + 1]
      /\ counter' = [counter EXCEPT ![k] = value] /\ rewound' = rewound
      /\ \/ stored[k] # value /\ stored' = stored /\ behind' = behind
         \/ /\ stored[k] = value /\ stored' = [stored EXCEPT ![k] = inc]
            /\ behind' = behind
         \/ stored' = stored /\ behind' = behind \cup {k}
    BY DEF SendGroupMessage, IncrementCounter
<1>2. /\ counter'[k] = value /\ spent'[k] = spent[k] + 1
      /\ stored'[k] \in {inc, stored[k]} /\ behind \subseteq behind'
      /\ k \notin behind' => stored'[k] = IF stored[k] = value THEN inc ELSE stored[k]
      /\ \A j \in Kinds \ {k} : /\ counter'[j] = counter[j] /\ spent'[j] = spent[j]
                                /\ stored'[j] = stored[j]
                                /\ j \in behind' <=> j \in behind
    BY <1>1 DEF SenderTypeOK
<1>3. SenderTypeOK'
    <2>1. new \in Message
        BY <1>0, <1>1, GroupAssumption DEF Message
    <2>2. spent' \in [Kinds -> 0 .. MaxSpent]
        BY <1>0, <1>1, GroupAssumption DEF SenderTypeOK
    <2>3. stored' \in [Kinds -> Counter \cup {NotStored}]
        BY <1>0, <1>1 DEF SenderTypeOK
    <2> QED BY <1>0, <1>1, <2>1, <2>2, <2>3 DEF SenderTypeOK
<1>4. k \notin rewound \cup behind' =>
          \E w \in 1 .. MIN_INCREMENT : After(counter[k], stored[k], w)
    BY <1>1, <1>2 DEF WrittenAhead, Written
<1>5. stored[k] \in Counter
    BY <1>1 DEF WrittenAhead, Written, SenderTypeOK
<1>6. ASSUME k \notin rewound \cup behind'
      PROVE  \E d \in 1 .. MIN_INCREMENT : After(value, stored'[k], d)
    <2>0. PICK w \in 1 .. MIN_INCREMENT : After(counter[k], stored[k], w)
        BY <1>4, <1>6
    <2>1. CASE stored[k] = value
        <3>1. After(value, inc, MIN_INCREMENT)
            BY <1>0, AfterItself
        <3> QED BY <1>0, <1>2, <1>6, <2>1, <3>1
    <2>2. CASE stored[k] # value
        <3>1. w # 1
            BY <1>0, <2>0, <1>5, <2>2, CounterAssumption DEF After, Add, Counter
        <3>2. After(value, stored[k], w - 1)
            BY <1>0, <2>0, <1>5, <3>1, CounterAssumption DEF After, Add, Counter
        <3>3. w - 1 \in 1 .. MIN_INCREMENT
            BY <1>0, <2>0, <3>1
        <3> QED BY <1>2, <1>6, <2>2, <3>2, <3>3
    <2> QED BY <2>1, <2>2
<1>7. stored'[k] \in Counter
    BY <1>0, <1>2, <1>5
<1>8. WrittenAhead'
    <2> SUFFICES ASSUME NEW j \in Kinds
                 PROVE  /\ stored'[j] # NotStored
                        /\ j \notin rewound \cup behind' =>
                               \E d \in 1 .. MIN_INCREMENT : After(counter'[j], stored'[j], d)
        BY <1>1 DEF WrittenAhead, After
    <2>1. CASE j = k
        BY <1>0, <1>2, <1>6, <1>7, <2>1
    <2>2. CASE j # k
        BY <1>1, <1>2, <2>2 DEF WrittenAhead, Written
    <2> QED BY <2>1, <2>2
<1>9. ASSUME NEW m \in sent', m.kind = k, k \notin rewound \cup behind',
             m.id < spent'[k], m.id \in Nat, m.counter \in Counter,
             spent'[k] - m.id < CounterMod => \E d \in 1 .. spent'[k] - m.id :
                                                  After(m.counter, value, d)
      PROVE  AheadOf(m, stored'[k], spent'[k] - m.id + MIN_INCREMENT)
    <2> SUFFICES ASSUME spent'[k] - m.id + MIN_INCREMENT < CounterMod
                 PROVE  \E d \in 1 .. spent'[k] - m.id + MIN_INCREMENT :
                            After(m.counter, stored'[k], d)
        BY DEF AheadOf
    <2>1. spent'[k] \in Nat
        BY <1>0, <1>2
    <2>2. PICK d \in 1 .. spent'[k] - m.id : After(m.counter, value, d)
        BY <1>0, <1>9, <2>1
    <2>3. PICK e \in 1 .. MIN_INCREMENT : After(value, stored'[k], e)
        BY <1>6, <1>9
    <2>4. d + e \in 1 .. spent'[k] - m.id + MIN_INCREMENT /\ d + e < CounterMod
        BY <1>0, <1>9, <2>1
    <2>5. After(m.counter, stored'[k], d + e)
        BY <1>0, <1>7, <1>9, <2>2, <2>3, <2>4, CounterAssumption DEF After, Counter
    <2> QED BY <2>4, <2>5
<1>10. Ahead'
    <2> SUFFICES ASSUME NEW m \in sent'
                 PROVE  /\ m.id < spent'[m.kind]
                        /\ stored'[m.kind] # NotStored
                        /\ m.kind \notin rewound \cup behind' =>
                             AheadOf(m, stored'[m.kind], spent'[m.kind] - m.id + MIN_INCREMENT)
                        /\ m.kind \notin rewound =>
                             AheadOf(m, counter'[m.kind], spent'[m.kind] - m.id)
        BY <1>1 DEF Ahead, AheadOf
    <2>1. CASE m = new
        <3>1. /\ m.kind = k /\ m.counter = counter[k] /\ m.id = spent[k]
              /\ spent'[k] - m.id = 1
            BY <1>0, <1>2, <2>1
        <3>2. After(m.counter, value, 1)
            BY <1>0, <3>1, AfterItself
        <3>3. AheadOf(m, value, 1)
            BY <3>2 DEF AheadOf
        <3>4. k \notin rewound \cup behind' =>
                  AheadOf(m, stored'[k], spent'[k] - m.id + MIN_INCREMENT)
            BY <1>0, <1>2, <1>9, <3>1, <3>2
        <3> QED BY <1>0, <1>2, <1>7, <3>1, <3>3, <3>4
    <2>2. CASE m \in sent /\ m.kind = k
        <3>1. /\ m.id \in Nat /\ m.counter \in Counter
            BY <2>2, TypeFacts
        <3>2. /\ m.id < spent[k]
              /\ k \notin rewound => AheadOf(m, counter[k], spent[k] - m.id)
            BY <1>1, <2>2 DEF Ahead
        <3>3. m.id < spent'[k]
            BY <1>0, <1>2, <3>1, <3>2
        <3>4. ASSUME spent'[k] - m.id < CounterMod, k \notin rewound
              PROVE  \E d \in 1 .. spent'[k] - m.id : After(m.counter, value, d)
            <4>1. PICK d \in 1 .. spent[k] - m.id : After(m.counter, counter[k], d)
                BY <1>0, <1>2, <3>1, <3>2, <3>4 DEF AheadOf
            <4>2. /\ d \in 0 .. CounterMod - 1 /\ d + 1 < CounterMod
                  /\ d + 1 \in 1 .. spent'[k] - m.id
                BY <1>0, <1>2, <3>1, <3>4
            <4>3. After(m.counter, value, d + 1)
                BY <1>0, <3>1, <4>1, <4>2, AfterAdd
            <4> QED BY <4>2, <4>3
        <3>5. k \notin rewound => AheadOf(m, value, spent'[k] - m.id)
            BY <3>4 DEF AheadOf
        <3>6. k \notin rewound \cup behind' =>
                  AheadOf(m, stored'[k], spent'[k] - m.id + MIN_INCREMENT)
            BY <1>9, <2>2, <3>1, <3>3, <3>4
        <3> QED BY <1>0, <1>2, <1>7, <2>2, <3>3, <3>5, <3>6
    <2>3. CASE m \in sent /\ m.kind # k
        <3>1. m.kind \in Kinds \ {k}
            BY <2>3, TypeFacts
        <3> QED BY <1>1, <1>2, <2>3, <3>1 DEF Ahead
    <2> QED BY <1>1, <2>1, <2>2, <2>3
<1>11. BehindOn'
    BY <1>1 DEF BehindOn
<1> QED BY <1>3, <1>8, <1>10, <1>11

LEMMA SenderPowerCutKeeps == SenderInv /\ SenderPowerCut => SenderInv'
<1> SUFFICES ASSUME SenderInv, SenderPowerCut PROVE SenderInv'
    OBVIOUS
<1>1. SenderTypeOK'
    BY CounterAssumption DEF SenderInv, SenderTypeOK, SenderPowerCut, Counter
<1>2. Ahead'
    BY DEF SenderInv, Ahead, SenderPowerCut, AheadOf
<1> QED BY <1>1, <1>2 DEF SenderInv, SenderPowerCut, WrittenAhead, Written, BehindOn

LEMMA SenderUnchanged == SenderInv /\ UNCHANGED senderVars => SenderInv'
BY DEF SenderInv, senderVars, SenderTypeOK, Ahead, AheadOf, WrittenAhead, Written, After, BehindOn

LEMMA SenderStep == SenderInv /\ [Next]_vars => SenderInv'
<1> SUFFICES ASSUME SenderInv, [Next]_vars PROVE SenderInv'
    OBVIOUS
<1>1. CASE InitRead
    BY <1>1, InitReadKeeps
<1>2. CASE InitWrite
    BY <1>2, InitWriteKeeps
<1>3. CASE \E k \in Kinds : SendGroupMessage(k)
    BY <1>3, SendKeeps
<1>4. CASE SenderPowerCut
    BY <1>4, SenderPowerCutKeeps
<1>5. CASE UNCHANGED senderVars
    BY <1>5, SenderUnchanged
<1>6. CASE \/ \E m \in sent : ReceiveFromSender(m)
           \/ \E p \in OtherPeers, k \in Kinds, policy \in {"trustFirst", "cacheAndSync"} :
                  ReceiveFromOther(p, k, policy)
           \/ \E f \in Fabrics : FabricRemoved(f)
           \/ ReceiverRestart
    BY <1>5, <1>6 DEF ReceiveFromSender, ReceiveFromOther, FabricRemoved, ReceiverRestart
<1> QED BY <1>1, <1>2, <1>3, <1>4, <1>5, <1>6 DEF Next, vars

\* SenderInv is inductive.
THEOREM SenderInvariant == Spec => []SenderInv
BY SenderInit, SenderStep, PTL DEF Spec

\* GroupOutgoingCounters never gives a counter twice within CounterMod counters,
\* whenever the power fails, for every increment below half the counter space, until
\* a boot that follows a refused write-ahead of that kind.
THEOREM NoCounterReused == Spec => []CounterNotReused
<1>1. SenderInv => CounterNotReused
    <2> SUFFICES ASSUME SenderInv, phase = "on", NEW m \in sent,
                        m.kind \notin rewound, spent[m.kind] - m.id < CounterMod
                 PROVE  m.counter # counter[m.kind]
        BY DEF CounterNotReused
    <2>1. /\ m.counter \in Counter /\ counter[m.kind] \in Counter
          /\ m.id \in Nat /\ spent[m.kind] \in Nat /\ CounterMod \in Nat
        BY TypeFacts, CounterAssumption DEF SenderInv
    <2>2. PICK d \in 1 .. spent[m.kind] - m.id : After(m.counter, counter[m.kind], d)
        BY <2>1 DEF SenderInv, Ahead, AheadOf
    <2>3. d \in 1 .. CounterMod - 1
        BY <2>1
    <2> QED BY <2>1, <2>2, <2>3, AfterDiffers
<1> QED BY <1>1, SenderInvariant, PTL
--------------------------------------------------------------------------------
(* The replay window *)

\* Subtraction gives the distance, in both directions.
LEMMA SubIs ==
    ASSUME NEW a \in Counter, NEW c \in Counter, NEW d \in 1 .. CounterMod - 1,
           After(a, c, d)
    PROVE  Sub(c, a) = d /\ Sub(a, c) = CounterMod - d /\ a # c
BY CounterAssumption DEF After, Sub, Counter

\* A counter less than half the counter space ahead is a future counter: it is
\* accepted and becomes the largest one.
LEMMA Newer ==
    ASSUME NEW p \in Synced, NEW c \in Counter, NEW d \in 1 .. HalfRange - 1,
           After(p.max, c, d)
    PROVE  /\ Verify(p, c, TRUE)
           /\ Commit(p, c, TRUE) = [max |-> c, window |-> Shifted(p, d)]
<1>0. d \in 1 .. CounterMod - 1
    BY CounterAssumption
<1>1. Sub(c, p.max) = d
    BY <1>0, SubIs DEF Synced
<1>2. Position(p, c, TRUE) = "FutureCounter"
    BY <1>1 DEF Position, IsFuture
<1> QED BY <1>1, <1>2 DEF Verify, Commit

\* A counter less than half the counter space behind is accepted if the window
\* reaches it and has not seen it.
LEMMA Older ==
    ASSUME NEW p \in Synced, NEW c \in Counter, NEW d \in 1 .. HalfRange - 1,
           After(c, p.max, d)
    PROVE  /\ Verify(p, c, TRUE) <=> d <= WINDOW_SIZE /\ d \notin p.window
           /\ Verify(p, c, TRUE) =>
                  Commit(p, c, TRUE) = [max |-> p.max, window |-> p.window \cup {d}]
<1>0. d \in 1 .. CounterMod - 1
    BY CounterAssumption
<1>1. Sub(p.max, c) = d /\ Sub(c, p.max) = CounterMod - d /\ c # p.max
    BY <1>0, SubIs DEF Synced
<1>2. ~IsFuture(p, c, TRUE)
    BY <1>1, CounterAssumption DEF IsFuture
<1>3. Position(p, c, TRUE) = IF d <= WINDOW_SIZE THEN "InWindow" ELSE "BeforeWindow"
    BY <1>1, <1>2 DEF Position
<1>4. Verify(p, c, TRUE) <=> d <= WINDOW_SIZE /\ d \notin p.window
    BY <1>1, <1>3 DEF Verify
<1>5. ASSUME d <= WINDOW_SIZE
      PROVE  Commit(p, c, TRUE) = [max |-> p.max, window |-> p.window \cup {d}]
    <2>1. Position(p, c, TRUE) = "InWindow"
        BY <1>3, <1>5
    <2>2. Commit(p, c, TRUE) = [p EXCEPT !.window = @ \cup {d}]
        BY <1>1, <2>1 DEF Commit
    <2> QED BY <2>2 DEF Synced
<1> QED BY <1>4, <1>5

\* The largest counter itself is not accepted again, and a first message sets it.
LEMMA Largest ==
    ASSUME NEW p \in Synced
    PROVE  ~Verify(p, p.max, TRUE) /\ Commit(p, p.max, TRUE) = p
<1>1. Sub(p.max, p.max) = 0
    BY CounterAssumption DEF Sub, Synced, Counter
<1>2. Position(p, p.max, TRUE) = "MaxCounter"
    BY <1>1 DEF Position, IsFuture
<1> QED BY <1>2 DEF Verify, Commit

LEMMA SetCounterType ==
    ASSUME NEW c \in Counter
    PROVE  SetCounter(c) \in Synced /\ SetCounter(c).max = c
BY DEF SetCounter, Synced, Window

LEMMA CommitType ==
    ASSUME NEW p \in Synced, NEW c \in Counter
    PROVE  Commit(p, c, TRUE) \in Synced
<1>0. p.max \in Counter /\ p.window \in Window
    BY DEF Synced
<1>1. CASE Position(p, c, TRUE) = "InWindow"
    <2>1. c # p.max /\ Sub(p.max, c) <= WINDOW_SIZE
        BY <1>1 DEF Position
    <2>2. Sub(p.max, c) \in 1 .. WINDOW_SIZE
        BY <1>0, <2>1, CounterAssumption DEF Sub, Counter
    <2>3. Commit(p, c, TRUE) = [p EXCEPT !.window = @ \cup {Sub(p.max, c)}]
        BY <1>1 DEF Commit
    <2>4. p.window \cup {Sub(p.max, c)} \in Window
        BY <1>0, <2>2 DEF Window
    <2> QED BY <2>3, <2>4 DEF Synced
<1>2. CASE Position(p, c, TRUE) = "MaxCounter"
    BY <1>2 DEF Commit
<1>3. CASE Position(p, c, TRUE) \notin {"InWindow", "MaxCounter"}
    <2>1. Shifted(p, Sub(c, p.max)) \in Window
        BY DEF Shifted, Window
    <2>2. Commit(p, c, TRUE) = [max |-> c, window |-> Shifted(p, Sub(c, p.max))]
        BY <1>3 DEF Commit
    <2>3. \A w \in Window : [max |-> c, window |-> w] \in Synced
        BY DEF Synced
    <2> QED BY <2>1, <2>2, <2>3, Zenon
<1> QED BY <1>1, <1>2, <1>3

--------------------------------------------------------------------------------
(* What was sent and what was accepted *)

\* The messages of a kind are told apart by their place, and a later one has a
\* counter ahead of an earlier one.
SentInv ==
    \A a, m \in sent : a.kind = m.kind =>
        /\ a.id = m.id => a = m
        /\ a.kind \notin rewound /\ a.id < m.id => AheadOf(a, m.counter, m.id - a.id)

\* The window p of the sender for kind k: its largest counter is that of the newest
\* message of acc, and it has a bit for every other one that it reaches.
NewestOf(acc, k, p) ==
    \E top \in acc :
        /\ top.kind = k /\ p.max = top.counter
        /\ \A a \in acc : a.kind = k =>
              /\ a.id <= top.id
              /\ a # top /\ top.id - a.id < HalfRange =>
                    \/ Sub(top.counter, a.counter) > WINDOW_SIZE
                    \/ Sub(top.counter, a.counter) \in p.window

LEMMA SentInvStep ==
    ASSUME SenderInv, SentInv, [Next]_vars
    PROVE  SentInv'
<1>1. CASE \E k \in Kinds : SendGroupMessage(k)
    <2> PICK k \in Kinds : SendGroupMessage(k)
        BY <1>1
    <2> DEFINE new == [kind |-> k, counter |-> counter[k], id |-> spent[k]]
    <2>1. phase = "on" /\ sent' = sent \cup {new} /\ rewound' = rewound
        BY DEF SendGroupMessage
    <2>2. \A a \in sent : a.kind = k => a.id < spent[k] /\ a.id \in Nat /\ spent[k] \in Nat
                         /\ (k \notin rewound => AheadOf(a, counter[k], spent[k] - a.id))
        BY <2>1, TypeFacts DEF SenderInv, Ahead
    <2>3. new.kind = k /\ new.counter = counter[k] /\ new.id = spent[k]
        OBVIOUS
    <2> HIDE DEF new
    <2> SUFFICES ASSUME NEW a \in sent', NEW m \in sent', a.kind = m.kind
                 PROVE  /\ a.id = m.id => a = m
                        /\ a.kind \notin rewound /\ a.id < m.id =>
                               AheadOf(a, m.counter, m.id - a.id)
        BY <2>1 DEF SentInv, AheadOf
    <2>4. CASE a \in sent /\ m \in sent
        BY <2>4 DEF SentInv
    <2>5. CASE a \in sent /\ m = new
        BY <2>2, <2>3, <2>5
    <2>6. CASE a = new /\ m \in sent
        BY <2>2, <2>3, <2>6
    <2>7. CASE a = new /\ m = new
        <3>1. spent[k] \in Nat
            BY GroupAssumption DEF SenderInv, SenderTypeOK
        <3> QED BY <2>3, <2>7, <3>1
    <2> QED BY <2>1, <2>4, <2>5, <2>6, <2>7
<1>2. CASE sent' = sent /\ rewound \subseteq rewound'
    BY <1>2 DEF SentInv, AheadOf
<1>3. CASE \/ InitRead \/ InitWrite \/ SenderPowerCut \/ UNCHANGED vars
           \/ \E m \in sent : ReceiveFromSender(m)
           \/ \E p \in OtherPeers, k \in Kinds, policy \in {"trustFirst", "cacheAndSync"} :
                  ReceiveFromOther(p, k, policy)
           \/ \E f \in Fabrics : FabricRemoved(f)
           \/ ReceiverRestart
    BY <1>2, <1>3 DEF InitRead, InitWrite, SenderPowerCut, vars, ReceiveFromSender,
                      ReceiveFromOther, FabricRemoved, ReceiverRestart, senderVars
<1> QED BY <1>1, <1>3 DEF Next

\* How far two messages of a kind are apart.
LEMMA Apart ==
    ASSUME SenderInv, SentInv, NEW a \in sent, NEW m \in sent, a.kind = m.kind,
           a.kind \notin rewound, a.id < m.id, m.id - a.id < HalfRange
    PROVE  \E d \in 1 .. m.id - a.id : /\ d \in 1 .. HalfRange - 1
                                       /\ After(a.counter, m.counter, d)
                                       /\ Sub(m.counter, a.counter) = d
<1>1. /\ a.id \in Nat /\ m.id \in Nat /\ a.counter \in Counter /\ m.counter \in Counter
      /\ HalfRange \in Nat /\ CounterMod = 2 * HalfRange
    BY TypeFacts, CounterAssumption DEF SenderInv
<1>2. PICK d \in 1 .. m.id - a.id : After(a.counter, m.counter, d)
    BY <1>1 DEF SentInv, AheadOf
<1>3. d \in 1 .. HalfRange - 1 /\ d \in 1 .. CounterMod - 1
    BY <1>1
<1> QED BY <1>1, <1>2, <1>3, SubIs

\* Types of the messages, and that places in spent are passed.
LEMMA SentFacts ==
    ASSUME SenderInv, NEW m \in sent
    PROVE  /\ m.kind \in Kinds /\ m.counter \in Counter /\ m.id \in Nat
           /\ spent[m.kind] \in Nat /\ m.id < spent[m.kind]
           /\ HalfRange \in Nat /\ WINDOW_SIZE \in Nat /\ CounterMod = 2 * HalfRange
BY TypeFacts, CounterAssumption DEF SenderInv, Ahead

\* The window stays what NewestOf says when it accepts a message.
LEMMA AcceptKeepsNewest ==
    ASSUME SenderInv, SentInv, accepted \subseteq sent, NEW p \in Synced, NEW m \in sent,
           NewestOf(accepted, m.kind, p), Recent(m), InTouch(m.kind),
           m.kind \notin rewound, Verify(p, m.counter, TRUE)
    PROVE  NewestOf(accepted \cup {m}, m.kind, Commit(p, m.counter, TRUE))
<1>1. PICK top \in accepted :
        /\ top.kind = m.kind /\ p.max = top.counter
        /\ \A a \in accepted : a.kind = m.kind =>
              /\ a.id <= top.id
              /\ a # top /\ top.id - a.id < HalfRange =>
                    \/ Sub(top.counter, a.counter) > WINDOW_SIZE
                    \/ Sub(top.counter, a.counter) \in p.window
    BY DEF NewestOf
<1>2. top \in sent
    BY <1>1
<1>3. PICK r \in accepted : r.kind = m.kind /\ Recent(r) /\ r \in sent
    BY <1>1 DEF InTouch
<1>4. /\ m.id \in Nat /\ top.id \in Nat /\ spent[m.kind] \in Nat /\ HalfRange \in Nat
      /\ WINDOW_SIZE \in Nat /\ m.counter \in Counter /\ top.counter \in Counter
      /\ m.id < spent[m.kind] /\ top.id < spent[m.kind] /\ CounterMod = 2 * HalfRange
    BY <1>1, <1>2, SentFacts
<1>5. spent[m.kind] - m.id < HalfRange /\ spent[m.kind] - top.id < HalfRange
    <2>1. r.id \in Nat /\ r.id <= top.id /\ spent[m.kind] - r.id < HalfRange
        BY <1>1, <1>3, SentFacts DEF Recent
    <2> QED BY <1>4, <2>1 DEF Recent
<1>6. CASE m.id = top.id
    <2>1. m = top
        BY <1>1, <1>2, <1>6 DEF SentInv
    <2> QED BY <1>1, <2>1, Largest
<1>7. CASE m.id > top.id
    <2>1. PICK d \in 1 .. m.id - top.id :
              d \in 1 .. HalfRange - 1 /\ After(top.counter, m.counter, d)
              /\ Sub(m.counter, top.counter) = d
        BY <1>1, <1>2, <1>4, <1>5, <1>7, Apart
    <2>2. Commit(p, m.counter, TRUE) = [max |-> m.counter, window |-> Shifted(p, d)]
        BY <1>1, <1>4, <2>1, Newer
    <2>3. ASSUME NEW a \in accepted, a.kind = m.kind, m.id - a.id < HalfRange
          PROVE  \/ Sub(m.counter, a.counter) > WINDOW_SIZE
                 \/ Sub(m.counter, a.counter) \in Shifted(p, d)
        <3>1. CASE a = top
            BY <1>4, <2>1, <3>1 DEF Shifted
        <3>2. CASE a # top
            <4>1. a \in sent /\ a.id \in Nat /\ a.counter \in Counter /\ a.id <= top.id
                BY <1>1, <2>3, SentFacts
            <4>2. a.id < top.id
                BY <1>1, <1>2, <1>4, <2>3, <3>2, <4>1 DEF SentInv
            <4>3. PICK e \in 1 .. top.id - a.id :
                      e \in 1 .. HalfRange - 1 /\ After(a.counter, top.counter, e)
                      /\ Sub(top.counter, a.counter) = e
                BY <1>1, <1>2, <1>4, <1>7, <2>3, <4>1, <4>2, Apart
            <4>4. d + e \in 1 .. CounterMod - 1
                BY <1>4, <2>1, <2>3, <4>1, <4>2, <4>3
            <4>5. After(a.counter, m.counter, e + d)
                BY <1>4, <2>1, <4>1, <4>3, <4>4 DEF After, Counter
            <4>6. Sub(m.counter, a.counter) = e + d
                BY <1>4, <4>1, <4>4, <4>5, SubIs
            <4>7. e > WINDOW_SIZE \/ e \in p.window
                BY <1>1, <1>4, <1>7, <2>3, <3>2, <4>1, <4>3
            <4>8. CASE e + d > WINDOW_SIZE
                BY <4>6, <4>8
            <4>9. CASE e + d <= WINDOW_SIZE
                <5>1. e \in p.window /\ d <= WINDOW_SIZE /\ e + d \in 1 .. WINDOW_SIZE
                    BY <1>4, <2>1, <4>3, <4>7, <4>9
                <5>2. (e + d) - d = e
                    BY <2>1, <4>3
                <5> QED BY <1>4, <2>1, <4>6, <5>1, <5>2 DEF Shifted
            <4> QED BY <1>4, <2>1, <4>3, <4>8, <4>9
        <3> QED BY <3>1, <3>2
    <2>4. \A a \in accepted : a.kind = m.kind => a.id <= m.id
        <3> SUFFICES ASSUME NEW a \in accepted, a.kind = m.kind PROVE a.id <= m.id
            OBVIOUS
        <3>1. a.id \in Nat /\ a.id <= top.id
            BY <1>1, SentFacts
        <3> QED BY <1>4, <1>7, <3>1
    <2> DEFINE q == Commit(p, m.counter, TRUE)
    <2> HIDE DEF q
    <2>5. q = [max |-> m.counter, window |-> Shifted(p, d)]
        BY <2>2 DEF q
    <2>6. q.max = m.counter /\ q.window = Shifted(p, d)
        BY <2>5
    <2>7. ASSUME NEW a \in accepted \cup {m}, a.kind = m.kind
          PROVE  /\ a.id <= m.id
                 /\ a # m /\ m.id - a.id < HalfRange =>
                       \/ Sub(m.counter, a.counter) > WINDOW_SIZE
                       \/ Sub(m.counter, a.counter) \in q.window
        BY <1>4, <2>3, <2>4, <2>6, <2>7
    <2>8. NewestOf(accepted \cup {m}, m.kind, q)
        BY <2>6, <2>7 DEF NewestOf
    <2> QED BY <2>8 DEF q
<1>8. CASE m.id < top.id
    <2>1. PICK d \in 1 .. top.id - m.id :
              d \in 1 .. HalfRange - 1 /\ After(m.counter, top.counter, d)
              /\ Sub(top.counter, m.counter) = d
        BY <1>1, <1>2, <1>4, <1>5, <1>8, Apart
    <2>2. Commit(p, m.counter, TRUE) = [max |-> p.max, window |-> p.window \cup {d}]
        BY <1>1, <1>4, <2>1, Older
    <2> DEFINE q == Commit(p, m.counter, TRUE)
    <2> HIDE DEF q
    <2>3. q.max = top.counter /\ q.window = p.window \cup {d}
        <3>1. q = [max |-> p.max, window |-> p.window \cup {d}]
            BY <2>2 DEF q
        <3> QED BY <1>1, <3>1
    <2>4. ASSUME NEW a \in accepted \cup {m}, a.kind = m.kind
          PROVE  /\ a.id <= top.id
                 /\ a # top /\ top.id - a.id < HalfRange =>
                       \/ Sub(top.counter, a.counter) > WINDOW_SIZE
                       \/ Sub(top.counter, a.counter) \in q.window
        BY <1>1, <1>4, <1>8, <2>1, <2>3, <2>4
    <2>5. NewestOf(accepted \cup {m}, m.kind, q)
        BY <1>1, <2>3, <2>4 DEF NewestOf
    <2> QED BY <2>5 DEF q
<1>9. m.id = top.id \/ m.id > top.id \/ m.id < top.id
    BY <1>4
<1> QED BY <1>6, <1>7, <1>8, <1>9, Zenon

\* A recent message that was accepted is not accepted again.
LEMMA AcceptedNotAgain ==
    ASSUME SenderInv, SentInv, accepted \subseteq sent, NEW p \in Synced, NEW m \in accepted,
           NewestOf(accepted, m.kind, p), m.kind \notin rewound, Recent(m)
    PROVE  ~Verify(p, m.counter, TRUE)
<1>1. PICK top \in accepted :
        /\ top.kind = m.kind /\ p.max = top.counter
        /\ m.id <= top.id
        /\ m # top /\ top.id - m.id < HalfRange =>
              \/ Sub(top.counter, m.counter) > WINDOW_SIZE
              \/ Sub(top.counter, m.counter) \in p.window
    BY DEF NewestOf
<1>2. top \in sent /\ m \in sent
    BY <1>1
<1>3. /\ m.id \in Nat /\ top.id \in Nat /\ spent[m.kind] \in Nat /\ HalfRange \in Nat
      /\ WINDOW_SIZE \in Nat /\ m.counter \in Counter /\ top.counter \in Counter
      /\ top.id < spent[m.kind]
    BY <1>1, <1>2, SentFacts
<1>4. CASE m = top
    BY <1>1, <1>4, Largest
<1>5. CASE m # top
    <2>1. m.id < top.id
        BY <1>1, <1>2, <1>3, <1>5 DEF SentInv
    <2>2. top.id - m.id < HalfRange
        BY <1>3 DEF Recent
    <2>3. PICK d \in 1 .. top.id - m.id :
              d \in 1 .. HalfRange - 1 /\ After(m.counter, top.counter, d)
              /\ Sub(top.counter, m.counter) = d
        BY <1>1, <1>2, <2>1, <2>2, Apart
    <2>4. Verify(p, m.counter, TRUE) <=> d <= WINDOW_SIZE /\ d \notin p.window
        BY <1>1, <1>3, <2>3, Older
    <2>5. d > WINDOW_SIZE \/ d \in p.window
        BY <1>1, <1>5, <2>2, <2>3
    <2>6. ~(d <= WINDOW_SIZE /\ d \notin p.window)
        BY <1>3, <2>3, <2>5
    <2> QED BY <2>4, <2>6, Zenon
<1> QED BY <1>4, <1>5

\* A message newer than all that were accepted is accepted.
LEMMA NewerAccepted ==
    ASSUME SenderInv, SentInv, accepted \subseteq sent, NEW p \in Synced, NEW m \in sent,
           NewestOf(accepted, m.kind, p), NEW r \in accepted, r.kind = m.kind, Recent(r),
           m.kind \notin rewound, \A b \in accepted : b.kind = m.kind => b.id < m.id
    PROVE  Verify(p, m.counter, TRUE)
<1>1. PICK top \in accepted :
        top.kind = m.kind /\ p.max = top.counter /\ r.id <= top.id /\ top.id < m.id
    BY DEF NewestOf
<1>2. top \in sent /\ r \in sent
    BY <1>1
<1>3. /\ m.id \in Nat /\ top.id \in Nat /\ r.id \in Nat /\ spent[m.kind] \in Nat
      /\ HalfRange \in Nat /\ m.counter \in Counter /\ m.id < spent[m.kind]
      /\ spent[m.kind] - r.id < HalfRange
    BY <1>1, <1>2, SentFacts DEF Recent
<1>4. m.id - top.id < HalfRange
    BY <1>1, <1>3
<1>5. PICK d \in 1 .. m.id - top.id :
          d \in 1 .. HalfRange - 1 /\ After(top.counter, m.counter, d)
    BY <1>1, <1>2, <1>4, Apart
<1> QED BY <1>1, <1>3, <1>5, Newer
--------------------------------------------------------------------------------
(* The table of the receiver *)

\* A fabric has one slot, a peer one entry of each kind.
OneSlot(t) == \A i, j \in DOMAIN t : t[i].fabric = t[j].fabric => i = j
OneEntry(t) ==
    \A f : \A k \in Kinds : \A x, y \in PeersOf(t, f, k) : x.node = y.node => x = y
TableInv(t) ==
    /\ t \in Seq(GroupFabric)
    /\ Len(t) <= MAX_FABRICS
    /\ OneSlot(t)
    /\ OneEntry(t)

LEMMA PeersAre ==
    ASSUME NEW t, NEW f, NEW k, NEW x
    PROVE  x \in PeersOf(t, f, k) <=>
               \E i \in DOMAIN t : /\ t[i].fabric = f
                                   /\ \E j \in DOMAIN t[i].senders[k] :
                                          x = t[i].senders[k][j]
BY DEF PeersOf, SlotOf

LEMMA FabricFacts ==
    ASSUME NEW t \in Seq(GroupFabric), NEW i \in DOMAIN t
    PROVE  /\ DOMAIN t = 1 .. Len(t) /\ Len(t) \in Nat
           /\ t[i] \in GroupFabric /\ t[i].fabric \in Fabrics
           /\ t[i].senders \in [Kinds -> Seq(GroupSender)]
<1>1. DOMAIN t = 1 .. Len(t) /\ Len(t) \in Nat
    OBVIOUS
<1>2. t[i] \in GroupFabric
    BY <1>1
<1> QED BY <1>1, <1>2 DEF GroupFabric

LEMMA NewSenderType ==
    ASSUME NEW n \in Nat
    PROVE  NewSender(n) \in GroupSender /\ NewSender(n).node = n
           /\ NewSender(n).synced = FALSE
<1>1. 0 \in Counter
    BY CounterAssumption DEF Counter
<1>2. SetCounter(0) \in Synced
    BY <1>1, SetCounterType
<1> HIDE DEF SetCounter, Synced
<1> QED BY <1>2 DEF NewSender, GroupSender

\* A fabric without peers at the end of the table.
LEMMA AppendFabric ==
    ASSUME NEW t \in Seq(GroupFabric), OneSlot(t), NEW f \in Fabrics, SlotOf(t, f) = {}
    PROVE  LET w == Append(t, NewFabric(f))
           IN  /\ w \in Seq(GroupFabric) /\ OneSlot(w) /\ SlotOf(w, f) # {}
               /\ \A g, k : k \in Kinds => PeersOf(w, g, k) = PeersOf(t, g, k)
<1> DEFINE new == NewFabric(f)
           w == Append(t, new)
<1>1. new \in GroupFabric /\ new.fabric = f /\ \A k \in Kinds : new.senders[k] = <<>>
    BY DEF NewFabric, GroupFabric
<1> HIDE DEF new
<1>2. /\ w \in Seq(GroupFabric) /\ DOMAIN t = 1 .. Len(t) /\ Len(t) \in Nat
      /\ DOMAIN w = 1 .. Len(t) + 1
      /\ w[Len(t) + 1] = new /\ \A i \in 1 .. Len(t) : w[i] = t[i]
    BY <1>1
<1> HIDE DEF w
<1>3. \A i \in DOMAIN t : t[i].fabric # f
    BY DEF SlotOf
<1>4. OneSlot(w)
    <2> SUFFICES ASSUME NEW i \in DOMAIN w, NEW j \in DOMAIN w, w[i].fabric = w[j].fabric
                 PROVE  i = j
        BY DEF OneSlot
    <2>1. CASE i \in DOMAIN t /\ j \in DOMAIN t
        BY <1>2, <2>1 DEF OneSlot
    <2>2. CASE i = Len(t) + 1 /\ j = Len(t) + 1
        BY <2>2
    <2>3. CASE i \in DOMAIN t /\ j = Len(t) + 1
        BY <1>1, <1>2, <1>3, <2>3
    <2>4. CASE i = Len(t) + 1 /\ j \in DOMAIN t
        BY <1>1, <1>2, <1>3, <2>4
    <2> QED BY <1>2, <2>1, <2>2, <2>3, <2>4
<1>5. SlotOf(w, f) # {}
    BY <1>1, <1>2 DEF SlotOf
<1>6. ASSUME NEW g, NEW k \in Kinds
      PROVE  PeersOf(w, g, k) = PeersOf(t, g, k)
    <2>1. ASSUME NEW x \in PeersOf(w, g, k) PROVE x \in PeersOf(t, g, k)
        <3>1. PICK i \in DOMAIN w : w[i].fabric = g /\ \E j \in DOMAIN w[i].senders[k] :
                                                      x = w[i].senders[k][j]
            BY <2>1, PeersAre
        <3>2. i # Len(t) + 1
            <4>1. DOMAIN new.senders[k] = {}
                BY <1>1
            <4> QED BY <1>2, <3>1, <4>1
        <3>3. i \in DOMAIN t /\ w[i] = t[i]
            BY <1>2, <3>2
        <3> QED BY <3>1, <3>3, PeersAre
    <2>2. ASSUME NEW x \in PeersOf(t, g, k) PROVE x \in PeersOf(w, g, k)
        <3>1. PICK i \in DOMAIN t : t[i].fabric = g /\ \E j \in DOMAIN t[i].senders[k] :
                                                      x = t[i].senders[k][j]
            BY <2>2, PeersAre
        <3>2. i \in DOMAIN w /\ w[i] = t[i]
            BY <1>2
        <3> QED BY <3>1, <3>2, PeersAre
    <2> QED BY <2>1, <2>2
<1> QED BY <1>2, <1>4, <1>5, <1>6 DEF w, new

\* A new peer at the end of a fabric's peers.
WithNew(w, slot, k, s) == [w EXCEPT ![slot].senders[k] = Append(@, s)]

LEMMA AppendSender ==
    ASSUME NEW w \in Seq(GroupFabric), OneSlot(w), NEW f, NEW slot \in SlotOf(w, f),
           NEW k \in Kinds, NEW s \in GroupSender
    PROVE  LET u == WithNew(w, slot, k, s)
           IN  /\ u \in Seq(GroupFabric) /\ OneSlot(u) /\ Len(u) = Len(w)
               /\ PeersOf(u, f, k) = PeersOf(w, f, k) \cup {s}
               /\ \A g, h : h \in Kinds /\ (g # f \/ h # k) =>
                                PeersOf(u, g, h) = PeersOf(w, g, h)
<1> DEFINE u == WithNew(w, slot, k, s)
           old == w[slot].senders[k]
           added == Append(old, s)
           group == [w[slot] EXCEPT !.senders = [w[slot].senders EXCEPT ![k] = added]]
<1>1. slot \in DOMAIN w /\ w[slot].fabric = f
    BY DEF SlotOf
<1>2. /\ DOMAIN w = 1 .. Len(w) /\ Len(w) \in Nat
      /\ w[slot] \in GroupFabric /\ w[slot].senders \in [Kinds -> Seq(GroupSender)]
    BY <1>1, FabricFacts
<1>3. old \in Seq(GroupSender)
    BY <1>2
<1> HIDE DEF old
<1>4. /\ added \in Seq(GroupSender) /\ DOMAIN added = 1 .. Len(old) + 1
      /\ DOMAIN old = 1 .. Len(old) /\ Len(old) \in Nat
      /\ added[Len(old) + 1] = s /\ \A j \in 1 .. Len(old) : added[j] = old[j]
    BY <1>3
<1> HIDE DEF added
<1>5. /\ group \in GroupFabric /\ group.fabric = f
      /\ group.senders[k] = added
      /\ \A h \in Kinds \ {k} : group.senders[h] = w[slot].senders[h]
    BY <1>1, <1>2, <1>4 DEF GroupFabric
<1>6. u = [w EXCEPT ![slot] = group]
    BY DEF added, old, WithNew
<1> HIDE DEF u, group
<1>7. /\ u \in Seq(GroupFabric) /\ Len(u) = Len(w) /\ DOMAIN u = DOMAIN w
      /\ u[slot] = group /\ \A i \in DOMAIN w : i # slot => u[i] = w[i]
    BY <1>1, <1>2, <1>5, <1>6
<1>8. \A i \in DOMAIN w : u[i].fabric = w[i].fabric
    BY <1>1, <1>5, <1>7
<1>9. OneSlot(u)
    BY <1>7, <1>8 DEF OneSlot
<1>10. ASSUME NEW g, NEW h \in Kinds, g # f \/ h # k
       PROVE  PeersOf(u, g, h) = PeersOf(w, g, h)
    <2>1. \A i \in DOMAIN w : w[i].fabric = g => u[i].senders[h] = w[i].senders[h]
        BY <1>1, <1>5, <1>7, <1>10
    <2>2. \A x : x \in PeersOf(u, g, h) <=> x \in PeersOf(w, g, h)
        BY <1>7, <1>8, <2>1, PeersAre
    <2> QED BY <2>2
<1>11. PeersOf(u, f, k) = PeersOf(w, f, k) \cup {s}
    <2>1. \A i \in DOMAIN w : w[i].fabric = f <=> i = slot
        BY <1>1 DEF OneSlot
    <2>2. \A x : x \in PeersOf(w, f, k) <=> \E j \in DOMAIN old : x = old[j]
        BY <1>1, <2>1, PeersAre DEF old
    <2>3. \A x : x \in PeersOf(u, f, k) <=> \E j \in DOMAIN added : x = added[j]
        BY <1>1, <1>5, <1>7, <1>8, <2>1, PeersAre
    <2>4. \A x : (\E j \in DOMAIN added : x = added[j])
                     <=> (x = s \/ \E j \in DOMAIN old : x = old[j])
        BY <1>4
    <2> QED BY <2>2, <2>3, <2>4
<1> QED BY <1>7, <1>9, <1>10, <1>11 DEF u

LEMMA PeersType ==
    ASSUME NEW t \in Seq(GroupFabric), NEW f, NEW k \in Kinds, NEW x \in PeersOf(t, f, k)
    PROVE  x \in GroupSender
<1>1. PICK i \in DOMAIN t : \E j \in DOMAIN t[i].senders[k] : x = t[i].senders[k][j]
    BY PeersAre
<1>2. t[i].senders[k] \in Seq(GroupSender)
    BY FabricFacts
<1> QED BY <1>1, <1>2

\* What FindOrAddPeer finds, adds and leaves alone.
Found(r, t, f, n, k) ==
    /\ TableInv(r.table)
    /\ \A g, h : h \in Kinds /\ (g # f \/ h # k) =>
                     PeersOf(r.table, g, h) = PeersOf(t, g, h)
    /\ \/ r.ok /\ r.table = t /\ \E y \in PeersOf(t, f, k) : y.node = n
       \/ /\ r.ok /\ \A y \in PeersOf(t, f, k) : y.node # n
          /\ PeersOf(r.table, f, k) = PeersOf(t, f, k) \cup {NewSender(n)}
       \/ ~r.ok /\ r.table = t /\ \A y \in PeersOf(t, f, k) : y.node # n

LEMMA FindOrAddPeerIs ==
    ASSUME NEW t, TableInv(t), NEW f \in Fabrics, NEW n \in Nat, NEW k \in Kinds
    PROVE  Found(FindOrAddPeer(t, f, n, k), t, f, n, k)
<1> DEFINE w == IF SlotOf(t, f) = {} THEN Append(t, NewFabric(f)) ELSE t
           slot == CHOOSE i \in SlotOf(w, f) : TRUE
           room == /\ Len(w) <= MAX_FABRICS
                   /\ Len(w[slot].senders[k]) < MAX_PEERS[k]
           u == WithNew(w, slot, k, NewSender(n))
           r == FindOrAddPeer(t, f, n, k)
<1>1. t \in Seq(GroupFabric) /\ OneSlot(t) /\ OneEntry(t)
    BY DEF TableInv
<1>2. CASE \E s \in PeersOf(t, f, k) : s.node = n
    <2>1. r = [ok |-> TRUE, table |-> t]
        BY <1>2 DEF FindOrAddPeer
    <2>2. r.ok = TRUE /\ r.table = t
        BY <2>1
    <2> HIDE DEF r
    <2>3. QED BY <1>2, <2>2 DEF r, Found
<1>3. CASE ~ \E s \in PeersOf(t, f, k) : s.node = n
    <2>1. r = [ok |-> room, table |-> IF room THEN u ELSE t]
        BY <1>3, Zenon DEF FindOrAddPeer, WithNew
    <2>2. room \in BOOLEAN
        OBVIOUS
    <2>3. /\ w \in Seq(GroupFabric) /\ OneSlot(w) /\ SlotOf(w, f) # {}
          /\ \A g, h : h \in Kinds => PeersOf(w, g, h) = PeersOf(t, g, h)
        BY <1>1, AppendFabric
    <2> HIDE DEF w
    <2>4. slot \in SlotOf(w, f)
        BY <2>3
    <2> HIDE DEF slot
    <2>5. NewSender(n) \in GroupSender /\ NewSender(n).node = n
        BY NewSenderType
    <2>6. /\ u \in Seq(GroupFabric) /\ OneSlot(u) /\ Len(u) = Len(w)
          /\ PeersOf(u, f, k) = PeersOf(w, f, k) \cup {NewSender(n)}
          /\ \A g, h : h \in Kinds /\ (g # f \/ h # k) => PeersOf(u, g, h) = PeersOf(w, g, h)
        BY <2>3, <2>4, <2>5, AppendSender
    <2>7. room => Len(w) <= MAX_FABRICS
        OBVIOUS
    <2> HIDE DEF u, room, r
    <2>8. CASE room
        <3>0. r = [ok |-> TRUE, table |-> u]
            BY <2>1, <2>2, <2>8, Zenon
        <3>1. r.ok = TRUE /\ r.table = u
            BY <3>0
        <3>2. \A g, h : h \in Kinds /\ (g # f \/ h # k) => PeersOf(u, g, h) = PeersOf(t, g, h)
            BY <2>3, <2>6
        <3>3. PeersOf(u, f, k) = PeersOf(t, f, k) \cup {NewSender(n)}
            BY <2>3, <2>6
        <3>4. OneEntry(u)
            <4> SUFFICES ASSUME NEW g, NEW h \in Kinds, NEW x \in PeersOf(u, g, h),
                                NEW y \in PeersOf(u, g, h), x.node = y.node
                         PROVE  x = y
                BY DEF OneEntry
            <4>1. CASE g # f \/ h # k
                BY <1>1, <3>2, <4>1 DEF OneEntry
            <4>2. CASE g = f /\ h = k
                BY <1>1, <1>3, <2>5, <3>3, <4>2 DEF OneEntry
            <4> QED BY <4>1, <4>2
        <3>5. TableInv(u)
            BY <2>6, <2>7, <2>8, <3>4 DEF TableInv
        <3> QED BY <1>3, <3>1, <3>2, <3>3, <3>5 DEF r, Found
    <2>9. CASE ~room
        <3>0. r = [ok |-> FALSE, table |-> t]
            BY <2>1, <2>2, <2>9, Zenon
        <3>1. r.ok = FALSE /\ r.table = t
            BY <3>0
        <3> QED BY <1>3, <3>1 DEF r, Found
    <2> QED BY <2>8, <2>9
<1> QED BY <1>2, <1>3

\* The window of one peer is replaced, all others stay.
LEMMA WithSenderIs ==
    ASSUME NEW t, TableInv(t), NEW f, NEW k \in Kinds, NEW s \in GroupSender
    PROVE  LET u == WithSender(t, f, k, s)
           IN  /\ TableInv(u)
               /\ \A x : x.node # s.node =>
                      (x \in PeersOf(u, f, k) <=> x \in PeersOf(t, f, k))
               /\ \A x : x.node = s.node => (x \in PeersOf(u, f, k) <=>
                      x = s /\ \E y \in PeersOf(t, f, k) : y.node = s.node)
               /\ \A g, h : h \in Kinds /\ (g # f \/ h # k) =>
                                PeersOf(u, g, h) = PeersOf(t, g, h)
<1> DEFINE replaced(q) == [j \in DOMAIN q |-> IF q[j].node = s.node THEN s ELSE q[j]]
           group(g) == [g EXCEPT !.senders = [g.senders EXCEPT ![k] = replaced(g.senders[k])]]
           u == WithSender(t, f, k, s)
<1>1. t \in Seq(GroupFabric) /\ OneSlot(t) /\ OneEntry(t) /\ Len(t) <= MAX_FABRICS
    BY DEF TableInv
<1>2. DOMAIN t = 1 .. Len(t) /\ Len(t) \in Nat
    BY <1>1
<1>3. ASSUME NEW q \in Seq(GroupSender)
      PROVE  replaced(q) \in Seq(GroupSender) /\ DOMAIN replaced(q) = DOMAIN q
             /\ \A j \in DOMAIN q : replaced(q)[j] = IF q[j].node = s.node THEN s ELSE q[j]
    <2>1. DOMAIN q = 1 .. Len(q) /\ Len(q) \in Nat /\ \A j \in DOMAIN q : q[j] \in GroupSender
        OBVIOUS
    <2>2. replaced(q) \in [1 .. Len(q) -> GroupSender]
        BY <2>1
    <2>3. replaced(q) \in Seq(GroupSender)
        BY <2>1, <2>2
    <2> QED BY <2>3
<1>4. u = [i \in DOMAIN t |-> IF t[i].fabric # f THEN t[i] ELSE group(t[i])]
    BY DEF WithSender
<1> HIDE DEF replaced, u
<1>5. ASSUME NEW g \in GroupFabric
      PROVE  /\ group(g) \in GroupFabric /\ group(g).fabric = g.fabric
             /\ group(g).senders[k] = replaced(g.senders[k])
             /\ \A h \in Kinds \ {k} : group(g).senders[h] = g.senders[h]
    <2>1. g.senders \in [Kinds -> Seq(GroupSender)]
        BY DEF GroupFabric
    <2>2. replaced(g.senders[k]) \in Seq(GroupSender)
        BY <1>3, <2>1
    <2> QED BY <2>1, <2>2 DEF GroupFabric
<1> HIDE DEF group
<1>6. \A i \in DOMAIN t : t[i] \in GroupFabric
    BY <1>1, <1>2
<1>7. /\ DOMAIN u = DOMAIN t
      /\ \A i \in DOMAIN t : u[i] = IF t[i].fabric # f THEN t[i] ELSE group(t[i])
    BY <1>4
<1>8. u \in Seq(GroupFabric) /\ Len(u) = Len(t)
    <2>1. u \in [1 .. Len(t) -> GroupFabric]
        BY <1>2, <1>4, <1>5, <1>6
    <2> QED BY <1>2, <2>1
<1>9. \A i \in DOMAIN t : u[i].fabric = t[i].fabric
    BY <1>5, <1>6, <1>7
<1>10. OneSlot(u)
    BY <1>1, <1>7, <1>9 DEF OneSlot
<1>11. ASSUME NEW g, NEW h \in Kinds, g # f \/ h # k
       PROVE  PeersOf(u, g, h) = PeersOf(t, g, h)
    <2>1. \A i \in DOMAIN t : t[i].fabric = g => u[i].senders[h] = t[i].senders[h]
        BY <1>5, <1>6, <1>7, <1>11
    <2>2. \A x : x \in PeersOf(u, g, h) <=> x \in PeersOf(t, g, h)
        BY <1>7, <1>9, <2>1, PeersAre
    <2> QED BY <2>2
<1>12. \A x : x \in PeersOf(u, f, k) <=>
           \E y \in PeersOf(t, f, k) : x = IF y.node = s.node THEN s ELSE y
    <2>1. \A i \in DOMAIN t : t[i].fabric = f =>
              /\ DOMAIN u[i].senders[k] = DOMAIN t[i].senders[k]
              /\ \A j \in DOMAIN t[i].senders[k] :
                     u[i].senders[k][j] = IF t[i].senders[k][j].node = s.node THEN s
                                          ELSE t[i].senders[k][j]
        <3> SUFFICES ASSUME NEW i \in DOMAIN t, t[i].fabric = f
                     PROVE  /\ DOMAIN u[i].senders[k] = DOMAIN t[i].senders[k]
                            /\ \A j \in DOMAIN t[i].senders[k] :
                                   u[i].senders[k][j] =
                                       IF t[i].senders[k][j].node = s.node THEN s
                                       ELSE t[i].senders[k][j]
            OBVIOUS
        <3>1. u[i].senders[k] = replaced(t[i].senders[k])
            BY <1>5, <1>6, <1>7
        <3>2. t[i].senders[k] \in Seq(GroupSender)
            BY <1>1, FabricFacts
        <3> QED BY <1>3, <3>1, <3>2
    <2> SUFFICES ASSUME NEW x
                 PROVE  x \in PeersOf(u, f, k) <=>
                            \E y \in PeersOf(t, f, k) : x = IF y.node = s.node THEN s ELSE y
        OBVIOUS
    <2>2. ASSUME x \in PeersOf(u, f, k)
          PROVE  \E y \in PeersOf(t, f, k) : x = IF y.node = s.node THEN s ELSE y
        <3>1. PICK i \in DOMAIN u : u[i].fabric = f /\ \E j \in DOMAIN u[i].senders[k] :
                                                      x = u[i].senders[k][j]
            BY <2>2, PeersAre
        <3>2. PICK j \in DOMAIN u[i].senders[k] : x = u[i].senders[k][j]
            BY <3>1
        <3>3. /\ i \in DOMAIN t /\ t[i].fabric = f /\ j \in DOMAIN t[i].senders[k]
              /\ x = IF t[i].senders[k][j].node = s.node THEN s ELSE t[i].senders[k][j]
            BY <1>7, <1>9, <2>1, <3>1, <3>2
        <3>4. t[i].senders[k][j] \in PeersOf(t, f, k)
            BY <3>3, PeersAre
        <3> QED BY <3>3, <3>4
    <2>3. ASSUME NEW y \in PeersOf(t, f, k), x = IF y.node = s.node THEN s ELSE y
          PROVE  x \in PeersOf(u, f, k)
        <3>1. PICK i \in DOMAIN t : t[i].fabric = f /\ \E j \in DOMAIN t[i].senders[k] :
                                                      y = t[i].senders[k][j]
            BY <2>3, PeersAre
        <3>2. PICK j \in DOMAIN t[i].senders[k] : y = t[i].senders[k][j]
            BY <3>1
        <3>3. /\ i \in DOMAIN u /\ u[i].fabric = f /\ j \in DOMAIN u[i].senders[k]
              /\ x = u[i].senders[k][j]
            BY <1>7, <1>9, <2>1, <2>3, <3>1, <3>2
        <3> QED BY <3>3, PeersAre
    <2> QED BY <2>2, <2>3
<1>13. OneEntry(u)
    <2> SUFFICES ASSUME NEW g, NEW h \in Kinds, NEW x \in PeersOf(u, g, h),
                        NEW y \in PeersOf(u, g, h), x.node = y.node
                 PROVE  x = y
        BY DEF OneEntry
    <2>1. CASE g # f \/ h # k
        BY <1>1, <1>11, <2>1 DEF OneEntry
    <2>2. CASE g = f /\ h = k
        BY <1>1, <1>12, <2>2 DEF OneEntry
    <2> QED BY <2>1, <2>2
<1>14. TableInv(u)
    BY <1>1, <1>8, <1>10, <1>13 DEF TableInv
<1>15. \A x : x.node # s.node => (x \in PeersOf(u, f, k) <=> x \in PeersOf(t, f, k))
    BY <1>12
<1>16. \A x : x.node = s.node => (x \in PeersOf(u, f, k) <=>
                  x = s /\ \E y \in PeersOf(t, f, k) : y.node = s.node)
    BY <1>12
<1> QED BY <1>11, <1>14, <1>15, <1>16 DEF u

\* The fabric of a slot is removed, the last one moves there with its peers.
LEMMA RemoveAndCompactFabricIs ==
    ASSUME NEW t, TableInv(t), NEW f, NEW slot \in SlotOf(t, f)
    PROVE  LET u == RemoveAndCompactFabric(t, slot)
           IN  /\ TableInv(u)
               /\ \A g : \A h \in Kinds : g # f => PeersOf(u, g, h) = PeersOf(t, g, h)
<1> DEFINE last == Len(t)
           u == RemoveAndCompactFabric(t, slot)
           from(i) == IF i = slot THEN last ELSE i
<1>1. t \in Seq(GroupFabric) /\ OneSlot(t) /\ OneEntry(t) /\ Len(t) <= MAX_FABRICS
    BY DEF TableInv
<1>2. DOMAIN t = 1 .. last /\ last \in Nat /\ slot \in DOMAIN t /\ t[slot].fabric = f
    BY <1>1 DEF SlotOf
<1>3. last \in DOMAIN t /\ last - 1 \in Nat
    BY <1>2
<1>4. u = [i \in 1 .. last - 1 |-> t[from(i)]]
    BY DEF RemoveAndCompactFabric
<1>5. \A i \in 1 .. last - 1 : from(i) \in DOMAIN t /\ from(i) # slot
    BY <1>2, <1>3
<1>6. \A i, j \in 1 .. last - 1 : from(i) = from(j) => i = j
    BY <1>2, <1>3
<1>7. \A i \in DOMAIN t : i # slot => \E j \in 1 .. last - 1 : from(j) = i
    <2> SUFFICES ASSUME NEW i \in DOMAIN t, i # slot
                 PROVE  \E j \in 1 .. last - 1 : from(j) = i
        OBVIOUS
    <2>1. CASE i = last
        <3>1. slot \in 1 .. last - 1
            BY <1>2, <1>3, <2>1
        <3> QED BY <2>1, <3>1
    <2>2. CASE i # last
        <3>1. i \in 1 .. last - 1
            BY <1>2, <2>2
        <3> QED BY <3>1
    <2> QED BY <2>1, <2>2
<1> HIDE DEF from, u
<1>8. /\ DOMAIN u = 1 .. last - 1
      /\ \A i \in 1 .. last - 1 : u[i] = t[from(i)]
    BY <1>4
<1>9. u \in Seq(GroupFabric) /\ Len(u) = last - 1
    <2>1. \A i \in DOMAIN t : t[i] \in GroupFabric
        BY <1>1
    <2>2. u \in [1 .. last - 1 -> GroupFabric]
        BY <1>4, <1>5, <2>1
    <2> QED BY <1>3, <2>2
<1>10. OneSlot(u)
    BY <1>1, <1>5, <1>6, <1>8 DEF OneSlot
<1>11. ASSUME NEW g, NEW h \in Kinds, NEW x
       PROVE  /\ x \in PeersOf(u, g, h) => x \in PeersOf(t, g, h)
              /\ g # f /\ x \in PeersOf(t, g, h) => x \in PeersOf(u, g, h)
    <2>1. ASSUME x \in PeersOf(u, g, h) PROVE x \in PeersOf(t, g, h)
        <3>1. PICK i \in DOMAIN u : u[i].fabric = g /\ \E j \in DOMAIN u[i].senders[h] :
                                                      x = u[i].senders[h][j]
            BY <2>1, PeersAre
        <3>2. from(i) \in DOMAIN t /\ u[i] = t[from(i)]
            BY <1>5, <1>8
        <3> QED BY <3>1, <3>2, PeersAre
    <2>2. ASSUME g # f, x \in PeersOf(t, g, h) PROVE x \in PeersOf(u, g, h)
        <3>1. PICK i \in DOMAIN t : t[i].fabric = g /\ \E j \in DOMAIN t[i].senders[h] :
                                                      x = t[i].senders[h][j]
            BY <2>2, PeersAre
        <3>2. PICK j \in 1 .. last - 1 : from(j) = i
            BY <1>2, <1>7, <2>2, <3>1
        <3>3. j \in DOMAIN u /\ u[j] = t[i]
            BY <1>8, <3>2
        <3> QED BY <3>1, <3>3, PeersAre
    <2> QED BY <2>1, <2>2
<1>12. OneEntry(u)
    BY <1>1, <1>11 DEF OneEntry
<1>13. Len(u) <= MAX_FABRICS
    BY <1>1, <1>3, <1>9, GroupAssumption
<1>14. TableInv(u)
    BY <1>9, <1>10, <1>12, <1>13 DEF TableInv
<1>15. \A g : \A h \in Kinds : g # f => PeersOf(u, g, h) = PeersOf(t, g, h)
    <2> SUFFICES ASSUME NEW g, NEW h \in Kinds, g # f
                 PROVE  PeersOf(u, g, h) = PeersOf(t, g, h)
        OBVIOUS
    <2>1. \A x : x \in PeersOf(u, g, h) <=> x \in PeersOf(t, g, h)
        BY <1>11
    <2> QED BY <2>1
<1> QED BY <1>14, <1>15 DEF u

\* A committed peer is synchronised; a first message becomes its largest counter.
LEMMA CommitGroupIs ==
    ASSUME NEW s \in GroupSender, NEW c \in Counter
    PROVE  LET r == CommitGroup(s, c)
           IN  /\ r \in GroupSender /\ r.node = s.node /\ r.synced = TRUE
               /\ s.synced => r.peer = Commit(s.peer, c, TRUE)
               /\ ~s.synced => r.peer = SetCounter(c)
<1> DEFINE base == IF s.synced THEN s.peer ELSE SetCounter(c)
           q == Commit(base, c, TRUE)
           r == CommitGroup(s, c)
<1>1. s.peer \in Synced /\ s.synced \in BOOLEAN /\ s.node \in Nat
    BY DEF GroupSender
<1>2. SetCounter(c) \in Synced /\ SetCounter(c).max = c
    BY SetCounterType
<1>3. base \in Synced
    BY <1>1, <1>2
<1>4. q \in Synced
    BY <1>3, CommitType
<1>5. s.synced => q = Commit(s.peer, c, TRUE)
    OBVIOUS
<1>6. ~s.synced => q = SetCounter(c)
    <2>1. ASSUME ~s.synced PROVE q = Commit(SetCounter(c), c, TRUE)
        BY <2>1
    <2>2. Commit(SetCounter(c), c, TRUE) = SetCounter(c)
        BY <1>2, Largest
    <2> QED BY <2>1, <2>2, Zenon
<1>7. r = [s EXCEPT !.synced = TRUE, !.peer = q]
    BY DEF CommitGroup
<1> HIDE DEF q, r
<1>8. r \in GroupSender /\ r.node = s.node /\ r.synced = TRUE /\ r.peer = q
    BY <1>4, <1>7 DEF GroupSender
<1> QED BY <1>5, <1>6, <1>8 DEF r

\* The entry of the peer that a message is dispatched for, and what becomes of it.
Dispatched(r, t, f, n, k, c, policy) ==
    /\ TableInv(r.table)
    /\ \A g, h, x : h \in Kinds /\ (g # f \/ h # k \/ x.node # n) =>
           (x \in PeersOf(r.table, g, h) <=> x \in PeersOf(t, g, h))
    /\ r.given \in BOOLEAN
    /\ r.given =>
           \E s \in GroupSender :
               /\ s.node = n
               /\ s \in PeersOf(t, f, k) \/ ~s.synced
               /\ \A y \in PeersOf(t, f, k) : y.node = n => y = s
               /\ VerifyOrTrustFirst(s, c)
               /\ \A x : x.node = n =>
                      (x \in PeersOf(r.table, f, k) <=> x = CommitGroup(s, c))
    /\ ~r.given =>
           /\ \A x \in PeersOf(t, f, k) : x \in PeersOf(r.table, f, k)
           /\ \A x \in PeersOf(r.table, f, k) : x \in PeersOf(t, f, k) \/ ~x.synced
    /\ \A s \in PeersOf(t, f, k) : s.node = n /\ policy = "trustFirst" =>
           (r.given <=> VerifyOrTrustFirst(s, c))

LEMMA DispatchIs ==
    ASSUME NEW t, TableInv(t), NEW f \in Fabrics, NEW n \in Nat, NEW k \in Kinds,
           NEW c \in Counter, NEW policy
    PROVE  Dispatched(Dispatch(t, f, n, k, c, policy), t, f, n, k, c, policy)
<1> DEFINE found == FindOrAddPeer(t, f, n, k)
<1> HIDE DEF found
<1>1. /\ TableInv(found.table)
      /\ \A g, h : h \in Kinds /\ (g # f \/ h # k) =>
             PeersOf(found.table, g, h) = PeersOf(t, g, h)
      /\ \/ found.ok /\ found.table = t /\ \E y \in PeersOf(t, f, k) : y.node = n
         \/ /\ found.ok /\ \A y \in PeersOf(t, f, k) : y.node # n
            /\ PeersOf(found.table, f, k) = PeersOf(t, f, k) \cup {NewSender(n)}
         \/ ~found.ok /\ found.table = t /\ \A y \in PeersOf(t, f, k) : y.node # n
    <2>1. Found(found, t, f, n, k)
        BY FindOrAddPeerIs DEF found
    <2> QED BY <2>1 DEF Found
<1> USE DEF found
<1> DEFINE s == CHOOSE x \in PeersOf(found.table, f, k) : x.node = n
           new == CommitGroup(s, c)
           r == Dispatch(t, f, n, k, c, policy)
<1>2. NewSender(n) \in GroupSender /\ NewSender(n).node = n /\ NewSender(n).synced = FALSE
    BY NewSenderType
<1>3. r = IF found.ok /\ policy = "trustFirst" /\ VerifyOrTrustFirst(s, c)
          THEN [given |-> TRUE, table |-> WithSender(found.table, f, k, new)]
          ELSE [given |-> FALSE, table |-> found.table]
    BY Zenon DEF Dispatch
<1> HIDE DEF found
<1>4. found.table \in Seq(GroupFabric) /\ OneEntry(found.table)
    BY <1>1 DEF TableInv
<1>5. ASSUME found.ok
      PROVE  /\ s \in PeersOf(found.table, f, k) /\ s.node = n /\ s \in GroupSender
             /\ \A y \in PeersOf(found.table, f, k) : y.node = n => y = s
             /\ s \in PeersOf(t, f, k) \/ ~s.synced
             /\ \A y \in PeersOf(t, f, k) : y \in PeersOf(found.table, f, k)
    <2>1. \E y \in PeersOf(found.table, f, k) : y.node = n
        BY <1>1, <1>2, <1>5
    <2>2. s \in PeersOf(found.table, f, k) /\ s.node = n
        BY <2>1
    <2> HIDE DEF s
    <2>3. s \in GroupSender
        BY <1>4, <2>2, PeersType
    <2>4. \A y \in PeersOf(found.table, f, k) : y.node = n => y = s
        BY <1>4, <2>2 DEF OneEntry
    <2> QED BY <1>1, <1>2, <1>5, <2>2, <2>3, <2>4
<1> HIDE DEF s, r
<1>6. CASE found.ok /\ policy = "trustFirst" /\ VerifyOrTrustFirst(s, c)
    <2>1. r.given = TRUE /\ r.table = WithSender(found.table, f, k, new)
        <3>1. r = [given |-> TRUE, table |-> WithSender(found.table, f, k, new)]
            BY <1>3, <1>6
        <3> QED BY <3>1
    <2>2. new \in GroupSender /\ new.node = n
        BY <1>5, <1>6, CommitGroupIs
    <2> HIDE DEF new
    <2>3. /\ TableInv(r.table)
          /\ \A x : x.node # n =>
                 (x \in PeersOf(r.table, f, k) <=> x \in PeersOf(found.table, f, k))
          /\ \A x : x.node = n => (x \in PeersOf(r.table, f, k) <=>
                 x = new /\ \E y \in PeersOf(found.table, f, k) : y.node = n)
          /\ \A g, h : h \in Kinds /\ (g # f \/ h # k) =>
                 PeersOf(r.table, g, h) = PeersOf(found.table, g, h)
        BY <1>1, <2>1, <2>2, WithSenderIs
    <2>4. \A x : x.node # n => (x \in PeersOf(found.table, f, k) <=> x \in PeersOf(t, f, k))
        BY <1>1, <1>2
    <2>5. \A g, h, x : h \in Kinds /\ (g # f \/ h # k \/ x.node # n) =>
              (x \in PeersOf(r.table, g, h) <=> x \in PeersOf(t, g, h))
        BY <1>1, <2>3, <2>4
    <2>6. \A x : x.node = n => (x \in PeersOf(r.table, f, k) <=> x = CommitGroup(s, c))
        BY <1>5, <1>6, <2>3 DEF new
    <2>7. \A y \in PeersOf(t, f, k) : y.node = n => y = s
        BY <1>5, <1>6
    <2> QED BY <1>5, <1>6, <2>1, <2>3, <2>5, <2>6, <2>7 DEF r, Dispatched
<1>7. CASE ~(found.ok /\ policy = "trustFirst" /\ VerifyOrTrustFirst(s, c))
    <2>1. r.given = FALSE /\ r.table = found.table
        <3>1. r = [given |-> FALSE, table |-> found.table]
            BY <1>3, <1>7
        <3> QED BY <3>1
    <2>2. \A g, h, x : h \in Kinds /\ (g # f \/ h # k \/ x.node # n) =>
              (x \in PeersOf(r.table, g, h) <=> x \in PeersOf(t, g, h))
        BY <1>1, <1>2, <2>1
    <2>3. /\ \A x \in PeersOf(t, f, k) : x \in PeersOf(r.table, f, k)
          /\ \A x \in PeersOf(r.table, f, k) : x \in PeersOf(t, f, k) \/ ~x.synced
        BY <1>1, <1>2, <2>1
    <2>4. ASSUME NEW y \in PeersOf(t, f, k), y.node = n, policy = "trustFirst"
          PROVE  ~VerifyOrTrustFirst(y, c)
        <3>1. found.ok
            BY <1>1, <2>4
        <3>2. y = s
            BY <1>5, <2>4, <3>1
        <3> QED BY <1>7, <2>4, <3>1, <3>2
    <2> QED BY <1>1, <2>1, <2>2, <2>3, <2>4 DEF r, Dispatched
<1> QED BY <1>6, <1>7
--------------------------------------------------------------------------------
(* The receiver *)

\* The sender's entry, of which there is at most one.
Entry(t, k) == {s \in PeersOf(t, Sender.fabric, k) : s.node = Sender.node}

\* The sender's window is what NewestOf says, and it is synchronised if a message was
\* accepted; R are the kinds whose counters have gone back.
Windows(t, acc, R) ==
    \A k \in Kinds :
        /\ k \notin R => \A s \in Entry(t, k) : s.synced => NewestOf(acc, k, s.peer)
        /\ (\E a \in acc : a.kind = k) => \E s \in Entry(t, k) : s.synced

ReceiverInv ==
    /\ SenderInv /\ SentInv
    /\ keys \subseteq Fabrics /\ accepted \subseteq sent
    /\ TableInv(table)
    /\ Sender.fabric \in keys => Windows(table, accepted, rewound)

\* The windows of the other kind do not see the message.
LEMMA NewestOfOther ==
    ASSUME NEW acc, NEW k, NEW p, NEW m, m.kind # k, NewestOf(acc, k, p)
    PROVE  NewestOf(acc \cup {m}, k, p)
BY DEF NewestOf

\* A message that is given to the application.
LEMMA GivenKeepsWindows ==
    ASSUME SenderInv, SentInv, accepted \subseteq sent, TableInv(table),
           Windows(table, accepted, rewound), NEW m \in sent, Recent(m), InTouch(m.kind), NEW r,
           Dispatched(r, table, Sender.fabric, Sender.node, m.kind, m.counter, "trustFirst"),
           r.given
    PROVE  Windows(r.table, accepted \cup {m}, rewound)
<1> DEFINE k == m.kind
           c == m.counter
           acc == accepted \cup {m}
<1>1. k \in Kinds /\ c \in Counter
    BY SentFacts
<1>2. \A h, x : h \in Kinds /\ h # k =>
          (x \in PeersOf(r.table, Sender.fabric, h) <=> x \in PeersOf(table, Sender.fabric, h))
    BY DEF Dispatched
<1>3. PICK s \in GroupSender :
          /\ s.node = Sender.node
          /\ s \in PeersOf(table, Sender.fabric, k) \/ ~s.synced
          /\ \A y \in PeersOf(table, Sender.fabric, k) : y.node = Sender.node => y = s
          /\ VerifyOrTrustFirst(s, c)
          /\ \A x : x.node = Sender.node =>
                 (x \in PeersOf(r.table, Sender.fabric, k) <=> x = CommitGroup(s, c))
    BY DEF Dispatched
<1> DEFINE new == CommitGroup(s, c)
<1>4. /\ new \in GroupSender /\ new.node = s.node /\ new.synced = TRUE
      /\ s.synced => new.peer = Commit(s.peer, c, TRUE)
      /\ ~s.synced => new.peer = SetCounter(c)
    BY <1>1, CommitGroupIs
<1>5. \A x : x \in Entry(r.table, k) <=> x = new
    <2>1. new \in PeersOf(r.table, Sender.fabric, k)
        BY <1>3, <1>4
    <2> QED BY <1>3, <1>4, <2>1 DEF Entry
<1> HIDE DEF new
<1>6. ASSUME s.synced, k \notin rewound PROVE NewestOf(acc, k, new.peer)
    <2>1. s \in Entry(table, k)
        BY <1>3, <1>6 DEF Entry
    <2>2. NewestOf(accepted, k, s.peer)
        BY <1>1, <1>6, <2>1 DEF Windows
    <2>3. s.peer \in Synced
        BY DEF GroupSender
    <2>4. Verify(s.peer, c, TRUE)
        BY <1>3, <1>6 DEF VerifyOrTrustFirst
    <2>5. NewestOf(acc, k, Commit(s.peer, c, TRUE))
        BY <1>6, <2>2, <2>3, <2>4, AcceptKeepsNewest
    <2> DEFINE q == Commit(s.peer, c, TRUE)
    <2> HIDE DEF q
    <2>6. new.peer = q
        BY <1>4, <1>6 DEF q
    <2>7. NewestOf(acc, k, q)
        BY <2>5 DEF q
    <2> QED BY <2>6, <2>7
<1>7. ASSUME ~s.synced PROVE NewestOf(acc, k, new.peer)
    <2>1. \A a \in accepted : a.kind # k
        <3> SUFFICES ASSUME NEW a \in accepted, a.kind = k PROVE FALSE
            OBVIOUS
        <3>1. PICK e \in Entry(table, k) : e.synced
            BY <1>1 DEF Windows
        <3>2. e = s
            BY <1>3, <3>1 DEF Entry
        <3> QED BY <1>7, <3>1, <3>2
    <2>2. SetCounter(c).max = m.counter
        BY <1>1, SetCounterType
    <2>3. NewestOf(acc, k, SetCounter(c))
        <3>1. m.id <= m.id
            BY SentFacts
        <3> QED BY <2>1, <2>2, <3>1 DEF NewestOf
    <2> QED BY <1>4, <1>7, <2>3
<1>8. k \notin rewound => NewestOf(acc, k, new.peer)
    BY <1>6, <1>7
<1> SUFFICES ASSUME NEW h \in Kinds
             PROVE  /\ h \notin rewound =>
                          \A e \in Entry(r.table, h) : e.synced => NewestOf(acc, h, e.peer)
                    /\ (\E a \in acc : a.kind = h) => \E e \in Entry(r.table, h) : e.synced
    BY DEF Windows
<1>9. CASE h = k
    BY <1>4, <1>5, <1>8, <1>9
<1>10. CASE h # k
    <2>1. \A x : x \in Entry(r.table, h) <=> x \in Entry(table, h)
        BY <1>2, <1>10 DEF Entry
    <2>2. h \notin rewound =>
              \A e \in Entry(r.table, h) : e.synced => NewestOf(acc, h, e.peer)
        BY <1>10, <2>1, NewestOfOther DEF Windows
    <2>3. (\E a \in acc : a.kind = h) => \E e \in Entry(r.table, h) : e.synced
        BY <1>10, <2>1 DEF Windows
    <2> QED BY <2>2, <2>3
<1> QED BY <1>9, <1>10

\* A message that is dropped leaves an entry that is not synchronised, at most.
LEMMA DroppedKeepsWindows ==
    ASSUME NEW t, NEW acc, NEW R, Windows(t, acc, R), NEW r, NEW k \in Kinds, NEW c, NEW policy,
           Dispatched(r, t, Sender.fabric, Sender.node, k, c, policy), ~r.given
    PROVE  Windows(r.table, acc, R)
<1> SUFFICES ASSUME NEW h \in Kinds
             PROVE  /\ h \notin R =>
                          \A e \in Entry(r.table, h) : e.synced => NewestOf(acc, h, e.peer)
                    /\ (\E a \in acc : a.kind = h) => \E e \in Entry(r.table, h) : e.synced
    BY DEF Windows
<1>1. \A e \in Entry(r.table, h) : e.synced => e \in Entry(t, h)
    <2>1. CASE h = k
        BY <2>1 DEF Dispatched, Entry
    <2>2. CASE h # k
        BY <2>2 DEF Dispatched, Entry
    <2> QED BY <2>1, <2>2
<1>2. \A e \in Entry(t, h) : e \in Entry(r.table, h)
    <2>1. CASE h = k
        BY <2>1 DEF Dispatched, Entry
    <2>2. CASE h # k
        BY <2>2 DEF Dispatched, Entry
    <2> QED BY <2>1, <2>2
<1> QED BY <1>1, <1>2 DEF Windows

\* Whatever leaves the sender's entries alone.
LEMMA SameEntries ==
    ASSUME NEW t, NEW u, NEW acc, NEW R, Windows(t, acc, R),
           \A h \in Kinds : \A x : x.node = Sender.node =>
               (x \in PeersOf(u, Sender.fabric, h) <=> x \in PeersOf(t, Sender.fabric, h))
    PROVE  Windows(u, acc, R)
<1>1. \A h \in Kinds : \A x : x \in Entry(u, h) <=> x \in Entry(t, h)
    BY DEF Entry
<1> QED BY <1>1 DEF Windows

LEMMA SenderIs ==
    /\ Sender.fabric \in Fabrics /\ Sender.node \in Nat
    /\ \A p \in OtherPeers : /\ p.fabric \in Fabrics /\ p.node \in Nat
                             /\ p.fabric # Sender.fabric \/ p.node # Sender.node
<1>1. Sender \in [fabric : Fabrics, node : Nat] /\ Sender \notin OtherPeers
    BY GroupAssumption
<1> SUFFICES ASSUME NEW p \in OtherPeers
             PROVE  /\ p.fabric \in Fabrics /\ p.node \in Nat
                    /\ p.fabric # Sender.fabric \/ p.node # Sender.node
    BY <1>1
<1>2. p \in [fabric : Fabrics, node : Nat] /\ p # Sender
    BY <1>1, GroupAssumption
<1> QED BY <1>1, <1>2

LEMMA EmptyTable == TableInv(<<>>) /\ \A f, k : PeersOf(<<>>, f, k) = {}
<1>1. <<>> \in Seq(GroupFabric) /\ DOMAIN <<>> = {} /\ Len(<<>>) = 0
    OBVIOUS
<1>2. \A f, k : PeersOf(<<>>, f, k) = {}
    BY <1>1 DEF PeersOf, SlotOf
<1>3. OneSlot(<<>>) /\ OneEntry(<<>>)
    BY <1>1, <1>2 DEF OneSlot, OneEntry
<1> QED BY <1>1, <1>2, <1>3, GroupAssumption DEF TableInv

LEMMA WindowsAtStart == \A R : Windows(<<>>, {}, R)
BY EmptyTable DEF Windows, Entry

LEMMA ReceiverInit == Init => ReceiverInv
<1> SUFFICES ASSUME Init PROVE ReceiverInv
    OBVIOUS
<1>1. SenderInv
    BY SenderInit
<1>2. SentInv
    BY DEF Init, SentInv
<1> QED BY <1>1, <1>2, EmptyTable, WindowsAtStart DEF Init, ReceiverInv

\* What a step of the sender leaves alone.
LEMMA SenderStepKeepsReceiver ==
    ASSUME ReceiverInv, UNCHANGED receiverVars, sent \subseteq sent', rewound \subseteq rewound'
    PROVE  /\ (keys \subseteq Fabrics)' /\ (accepted \subseteq sent)'
           /\ TableInv(table)' /\ (Sender.fabric \in keys => Windows(table, accepted, rewound))'
<1>1. keys' = keys /\ table' = table /\ accepted' = accepted
    BY DEF receiverVars
<1>2. Windows(table, accepted, rewound) => Windows(table, accepted, rewound')
    BY DEF Windows
<1> QED BY <1>1, <1>2 DEF ReceiverInv

LEMMA ReceiveFromSenderKeeps ==
    ASSUME ReceiverInv, NEW m \in sent, ReceiveFromSender(m)
    PROVE  /\ (keys \subseteq Fabrics)' /\ (accepted \subseteq sent)'
           /\ TableInv(table)' /\ (Sender.fabric \in keys => Windows(table, accepted, rewound))'
<1> DEFINE r == Dispatch(table, Sender.fabric, Sender.node, m.kind, m.counter, "trustFirst")
<1>1. /\ SenderInv /\ SentInv /\ keys \subseteq Fabrics /\ accepted \subseteq sent
      /\ TableInv(table)
    BY DEF ReceiverInv
<1>2. /\ Sender.fabric \in keys /\ Recent(m) /\ InTouch(m.kind)
      /\ table' = r.table /\ accepted' = IF r.given THEN accepted \cup {m} ELSE accepted
      /\ keys' = keys /\ sent' = sent /\ rewound' = rewound
    BY DEF ReceiveFromSender, senderVars
<1>3. m.kind \in Kinds /\ m.counter \in Counter
    BY <1>1, SentFacts
<1>4. Dispatched(r, table, Sender.fabric, Sender.node, m.kind, m.counter, "trustFirst")
    BY <1>1, <1>3, SenderIs, DispatchIs
<1> HIDE DEF r
<1>5. TableInv(r.table) /\ r.given \in BOOLEAN
    BY <1>4 DEF Dispatched
<1>6. Windows(table, accepted, rewound)
    BY <1>2 DEF ReceiverInv
<1>7. CASE r.given
    <2>1. Windows(r.table, accepted \cup {m}, rewound)
        BY <1>1, <1>2, <1>4, <1>6, <1>7, GivenKeepsWindows
    <2>2. accepted' = accepted \cup {m}
        BY <1>2, <1>7
    <2> QED BY <1>1, <1>2, <1>5, <2>1, <2>2
<1>8. CASE ~r.given
    <2>1. Windows(r.table, accepted, rewound)
        BY <1>3, <1>4, <1>6, <1>8, DroppedKeepsWindows
    <2>2. accepted' = accepted
        BY <1>2, <1>8
    <2> QED BY <1>1, <1>2, <1>5, <2>1, <2>2
<1> QED BY <1>7, <1>8

LEMMA ReceiveFromOtherKeeps ==
    ASSUME ReceiverInv, NEW p \in OtherPeers, NEW k \in Kinds, NEW policy,
           ReceiveFromOther(p, k, policy)
    PROVE  /\ (keys \subseteq Fabrics)' /\ (accepted \subseteq sent)'
           /\ TableInv(table)' /\ (Sender.fabric \in keys => Windows(table, accepted, rewound))'
<1> DEFINE r == Dispatch(table, p.fabric, p.node, k, 0, policy)
<1>1. keys \subseteq Fabrics /\ accepted \subseteq sent /\ TableInv(table)
    BY DEF ReceiverInv
<1>2. table' = r.table /\ accepted' = accepted /\ keys' = keys /\ sent' = sent
      /\ rewound' = rewound
    BY DEF ReceiveFromOther, senderVars
<1>3. 0 \in Counter
    BY CounterAssumption DEF Counter
<1>4. Dispatched(r, table, p.fabric, p.node, k, 0, policy)
    BY <1>1, <1>3, SenderIs, DispatchIs
<1> HIDE DEF r
<1>5. TableInv(r.table)
    BY <1>4 DEF Dispatched
<1>6. \A h \in Kinds : \A x : x.node = Sender.node =>
          (x \in PeersOf(r.table, Sender.fabric, h) <=> x \in PeersOf(table, Sender.fabric, h))
    BY <1>4, SenderIs DEF Dispatched
<1>7. Windows(table, accepted, rewound) => Windows(r.table, accepted, rewound)
    BY <1>6, SameEntries
<1> QED BY <1>1, <1>2, <1>5, <1>7 DEF ReceiverInv

LEMMA FabricRemovedKeeps ==
    ASSUME ReceiverInv, NEW f \in Fabrics, FabricRemoved(f)
    PROVE  /\ (keys \subseteq Fabrics)' /\ (accepted \subseteq sent)'
           /\ TableInv(table)' /\ (Sender.fabric \in keys => Windows(table, accepted, rewound))'
<1> DEFINE slot == CHOOSE i \in SlotOf(table, f) : TRUE
           u == RemoveAndCompactFabric(table, slot)
<1>1. keys \subseteq Fabrics /\ accepted \subseteq sent /\ TableInv(table)
    BY DEF ReceiverInv
<1>2. /\ keys' = keys \ {f} /\ accepted' = accepted /\ sent' = sent /\ rewound' = rewound
      /\ table' = IF SlotOf(table, f) = {} THEN table ELSE u
    BY DEF FabricRemoved, senderVars
<1>3. CASE SlotOf(table, f) = {}
    <2>1. table' = table
        BY <1>2, <1>3
    <2> QED BY <1>1, <1>2, <2>1 DEF ReceiverInv
<1>4. CASE SlotOf(table, f) # {}
    <2>1. slot \in SlotOf(table, f)
        BY <1>4
    <2> HIDE DEF slot
    <2>2. /\ TableInv(u)
          /\ \A g : \A h \in Kinds : g # f => PeersOf(u, g, h) = PeersOf(table, g, h)
        BY <1>1, <2>1, RemoveAndCompactFabricIs
    <2>3. table' = u
        BY <1>2, <1>4
    <2> HIDE DEF u
    <2>4. Sender.fabric # f /\ Windows(table, accepted, rewound) => Windows(u, accepted, rewound)
        BY <2>2, SameEntries
    <2> QED BY <1>1, <1>2, <2>2, <2>3, <2>4 DEF ReceiverInv
<1> QED BY <1>3, <1>4

LEMMA ReceiverRestartKeeps ==
    ASSUME ReceiverInv, ReceiverRestart
    PROVE  /\ (keys \subseteq Fabrics)' /\ (accepted \subseteq sent)'
           /\ TableInv(table)' /\ (Sender.fabric \in keys => Windows(table, accepted, rewound))'
BY EmptyTable, WindowsAtStart DEF ReceiverInv, ReceiverRestart

LEMMA ReceiverStep == ReceiverInv /\ [Next]_vars => ReceiverInv'
<1> SUFFICES ASSUME ReceiverInv, [Next]_vars PROVE ReceiverInv'
    OBVIOUS
<1>1. SenderInv'
    BY SenderStep DEF ReceiverInv
<1>2. SentInv'
    BY SentInvStep DEF ReceiverInv
<1> DEFINE Goal == /\ (keys \subseteq Fabrics)' /\ (accepted \subseteq sent)'
                   /\ TableInv(table)' /\ (Sender.fabric \in keys => Windows(table, accepted, rewound))'
<1> SUFFICES Goal
    BY <1>1, <1>2 DEF ReceiverInv
<1>3. CASE \/ InitRead \/ InitWrite \/ SenderPowerCut \/ UNCHANGED vars
           \/ \E k \in Kinds : SendGroupMessage(k)
    <2>1. UNCHANGED receiverVars /\ sent \subseteq sent' /\ rewound \subseteq rewound'
        BY <1>3 DEF InitRead, InitWrite, SenderPowerCut, vars, senderVars, SendGroupMessage
    <2> QED BY <2>1, SenderStepKeepsReceiver
<1>4. CASE \E m \in sent : ReceiveFromSender(m)
    BY <1>4, ReceiveFromSenderKeeps
<1>5. CASE \E p \in OtherPeers, k \in Kinds, policy \in {"trustFirst", "cacheAndSync"} :
               ReceiveFromOther(p, k, policy)
    BY <1>5, ReceiveFromOtherKeeps
<1>6. CASE \E f \in Fabrics : FabricRemoved(f)
    BY <1>6, FabricRemovedKeeps
<1>7. CASE ReceiverRestart
    BY <1>7, ReceiverRestartKeeps
<1> HIDE DEF Goal
<1> QED BY <1>3, <1>4, <1>5, <1>6, <1>7 DEF Next

LEMMA ReceiverInvariant == Spec => []ReceiverInv
BY ReceiverInit, ReceiverStep, PTL DEF Spec

\* Every variable keeps its type, and the receiver's table its size: MAX_FABRICS slots.
THEOREM TypeCorrect == Spec => []TypeOK
<1>1. ReceiverInv => TypeOK
    BY DEF ReceiverInv, SenderInv, SenderTypeOK, TableInv, TypeOK
<1> QED BY <1>1, ReceiverInvariant, PTL

\* What the window of the sender gives to the application.
LEMMA WouldAcceptIs ==
    ASSUME ReceiverInv, NEW m \in sent, NEW a \in accepted, a.kind = m.kind,
           m.kind \notin rewound, Sender.fabric \in keys
    PROVE  \E p \in Synced : NewestOf(accepted, m.kind, p)
                             /\ (WouldAccept(m) <=> Verify(p, m.counter, TRUE))
<1> DEFINE r == Dispatch(table, Sender.fabric, Sender.node, m.kind, m.counter, "trustFirst")
<1>1. /\ SenderInv /\ SentInv /\ accepted \subseteq sent
      /\ TableInv(table) /\ Windows(table, accepted, rewound)
    BY DEF ReceiverInv
<1>2. m.kind \in Kinds /\ m.counter \in Counter
    BY <1>1, SentFacts
<1>3. Dispatched(r, table, Sender.fabric, Sender.node, m.kind, m.counter, "trustFirst")
    BY <1>1, <1>2, SenderIs, DispatchIs
<1>4. WouldAccept(m) <=> r.given
    BY DEF WouldAccept
<1> HIDE DEF r
<1>5. PICK s \in Entry(table, m.kind) : s.synced
    BY <1>1, <1>2 DEF Windows
<1>6. s \in PeersOf(table, Sender.fabric, m.kind) /\ s.node = Sender.node
    BY DEF Entry
<1>7. s \in GroupSender
    BY <1>1, <1>2, <1>6, PeersType DEF TableInv
<1>8. r.given <=> VerifyOrTrustFirst(s, m.counter)
    BY <1>3, <1>6 DEF Dispatched
<1>9. VerifyOrTrustFirst(s, m.counter) <=> Verify(s.peer, m.counter, TRUE)
    BY <1>5, Zenon DEF VerifyOrTrustFirst
<1>10. NewestOf(accepted, m.kind, s.peer)
    BY <1>1, <1>2, <1>5 DEF Windows
<1>11. s.peer \in Synced
    BY <1>7 DEF GroupSender
<1>12. WouldAccept(m) <=> Verify(s.peer, m.counter, TRUE)
    BY <1>4, <1>8, <1>9, Zenon
<1> QED BY <1>10, <1>11, <1>12, Zenon

\* A message is accepted at most once while the receiver runs, in whatever order the
\* messages arrive and whatever fabrics are removed in between: for every window size,
\* table size, set of peers and history of power cuts in which the counters of the kind
\* do not go back.
THEOREM NoGroupReplay == Spec => []AcceptedOnce
<1>1. ASSUME ReceiverInv PROVE AcceptedOnce
    <2> SUFFICES ASSUME Sender.fabric \in keys, NEW m \in accepted,
                        m.kind \notin rewound, Recent(m)
                 PROVE  ~WouldAccept(m)
        BY DEF AcceptedOnce
    <2>1. SenderInv /\ SentInv /\ accepted \subseteq sent /\ m \in sent
        BY <1>1 DEF ReceiverInv
    <2>2. PICK p \in Synced : NewestOf(accepted, m.kind, p)
                              /\ (WouldAccept(m) <=> Verify(p, m.counter, TRUE))
        BY <1>1, <2>1, WouldAcceptIs
    <2>3. ~Verify(p, m.counter, TRUE)
        BY <2>1, <2>2, AcceptedNotAgain
    <2> QED BY <2>2, <2>3, Zenon
<1> QED BY <1>1, ReceiverInvariant, PTL

\* A message newer than all accepted ones of its kind is accepted, across the wrap of
\* the counter and the counters that power cuts of the sender skip, while the counters of
\* the kind do not go back.
THEOREM NoLockOut == Spec => []NewIsAccepted
<1>1. ASSUME ReceiverInv PROVE NewIsAccepted
    <2> SUFFICES ASSUME Sender.fabric \in keys, NEW m \in sent, NEW a \in accepted,
                        a.kind = m.kind, m.kind \notin rewound,
                        \A b \in accepted : b.kind = m.kind => b.id < m.id,
                        Recent(a)
                 PROVE  WouldAccept(m)
        BY DEF NewIsAccepted
    <2>1. SenderInv /\ SentInv /\ accepted \subseteq sent
        BY <1>1 DEF ReceiverInv
    <2>2. PICK p \in Synced : NewestOf(accepted, m.kind, p)
                              /\ (WouldAccept(m) <=> Verify(p, m.counter, TRUE))
        BY <1>1, WouldAcceptIs
    <2>3. Verify(p, m.counter, TRUE)
        BY <2>1, <2>2, NewerAccepted
    <2> QED BY <2>2, <2>3, Zenon
<1> QED BY <1>1, ReceiverInvariant, PTL
=================================================================================
