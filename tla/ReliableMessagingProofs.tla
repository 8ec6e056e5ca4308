------------------------ MODULE ReliableMessagingProofs ------------------------
(***************************************************************************)
(* Proofs about ReliableMessaging, for every set of exchanges, every pool   *)
(* and window size, every number of retransmissions and counter width.      *)
(***************************************************************************)
EXTENDS ReliableMessaging, FiniteSetTheorems, TLAPS

--------------------------------------------------------------------------------
(* The replay window of a unicast session *)

LEMMA CountersAreCounters == Counters \subseteq Counter /\ 0 \in Counter
BY CounterAssumption DEF Counters, Counter, kMessageCounterMax

LEMMA CommitType ==
    ASSUME NEW p \in Synced, NEW c \in Counter
    PROVE  Commit(p, c, FALSE) \in Synced
<1>1. CASE Position(p, c, FALSE) = "InWindow"
    <2>1. Sub(p.max, c) \in 1 .. WINDOW_SIZE
        BY <1>1, CounterAssumption DEF Position, IsFuture, Sub, Synced, Counter
    <2> QED BY <1>1, <2>1 DEF Commit, Synced, Window
<1>2. CASE Position(p, c, FALSE) = "MaxCounter"
    BY <1>2 DEF Commit
<1>3. CASE Position(p, c, FALSE) \notin {"InWindow", "MaxCounter"}
    BY <1>3 DEF Commit, Synced, Window, Shifted
<1> QED BY <1>1, <1>2, <1>3

\* A counter is a duplicate once it has been committed.
LEMMA CommittedIsDuplicate ==
    ASSUME NEW p \in Synced, NEW c \in Counter, Verify(p, c, FALSE)
    PROVE  ~Verify(Commit(p, c, FALSE), c, FALSE)
<1> DEFINE q == Commit(p, c, FALSE)
<1>1. CASE IsFuture(p, c, FALSE)
    <2>1. q.max = c
        BY <1>1 DEF Commit, Position
    <2> HIDE DEF q
    <2>2. ~Verify(q, c, FALSE)
        BY <2>1, CounterAssumption DEF Verify, Position, IsFuture, Counter
    <2> QED BY <2>2 DEF q
<1>2. CASE ~IsFuture(p, c, FALSE)
    <2>1. Position(p, c, FALSE) = "InWindow"
        BY <1>2 DEF Verify, Position
    <2>2. q.max = p.max /\ q.window = p.window \cup {Sub(p.max, c)}
        BY <2>1 DEF Commit, Synced
    <2> QED BY <1>2, <2>2 DEF Verify, Position, IsFuture
<1> QED BY <1>1, <1>2

\* A duplicate stays a duplicate whatever other counter is committed.
LEMMA DuplicateStays ==
    ASSUME NEW p \in Synced, NEW a \in Counter, NEW c \in Counter,
           ~Verify(p, a, FALSE), Verify(p, c, FALSE)
    PROVE  ~Verify(Commit(p, c, FALSE), a, FALSE)
<1> DEFINE q == Commit(p, c, FALSE)
<1>0. /\ p.max \in Nat /\ p.window \subseteq 1 .. WINDOW_SIZE /\ a \in Nat /\ c \in Nat
      /\ WINDOW_SIZE \in Nat /\ a < CounterMod /\ c < CounterMod /\ p.max < CounterMod
      /\ CounterMod \in Nat
    BY CounterAssumption DEF Synced, Window, Counter
<1>1. a <= p.max
    BY <1>0 DEF Verify, Position, IsFuture
<1>2. a = p.max \/ p.max - a > WINDOW_SIZE \/ p.max - a \in p.window
    BY <1>0, <1>1 DEF Verify, Position, IsFuture, Sub
<1>3. CASE IsFuture(p, c, FALSE)
    <2>1. q.max = c /\ q.window = Shifted(p, Sub(c, p.max)) /\ c > p.max
        BY <1>3 DEF Commit, Position, IsFuture
    <2>2. Sub(c, p.max) = c - p.max /\ Sub(c, a) = c - a /\ c > a
        BY <1>0, <1>1, <2>1 DEF Sub
    <2>3. ASSUME c - a <= WINDOW_SIZE
          PROVE  c - a \in q.window
        <3>1. c - p.max <= WINDOW_SIZE /\ c - a \in 1 .. WINDOW_SIZE
            BY <1>0, <1>1, <2>2, <2>3
        <3>2. c - a = c - p.max \/ (c - a) - (c - p.max) \in p.window
            BY <1>0, <1>1, <1>2, <2>1, <2>3
        <3>3. q.window = Shifted(p, c - p.max)
            BY <2>1, <2>2
        <3>4. c - a \in Shifted(p, c - p.max)
            BY <1>0, <3>1, <3>2 DEF Shifted
        <3> QED BY <3>3, <3>4
    <2> HIDE DEF q
    <2>4. ~Verify(q, a, FALSE)
        BY <1>0, <2>1, <2>2, <2>3 DEF Verify, Position, IsFuture
    <2> QED BY <2>4 DEF q
<1>4. CASE ~IsFuture(p, c, FALSE)
    <2>1. Position(p, c, FALSE) = "InWindow"
        BY <1>4 DEF Verify, Position
    <2>2. q.max = p.max /\ p.window \subseteq q.window
        BY <2>1 DEF Commit, Synced
    <2> QED BY <1>0, <1>1, <1>2, <2>2 DEF Verify, Position, IsFuture, Sub
<1> QED BY <1>3, <1>4

--------------------------------------------------------------------------------
(* Types of the functions that make up a handler, and what they leave alone *)

\* t is a node's state with the same history of deliveries and the same window as s.
Same(s, t) == t \in Node /\ t.given = s.given /\ t.rx = s.rx

LEMMA NoContextType == NoContext \in Context
BY ConstantsAssumption DEF NoContext, Context

\* A step that changes one context.
LEMMA WithContext ==
    ASSUME NEW s \in Node, NEW x \in Exchanges, NEW c \in Context
    PROVE  Same(s, [s EXCEPT !.ec[x] = c])
BY DEF Same, Node

LEMMA ContextOf == ASSUME NEW s \in Node, NEW x \in Exchanges PROVE s.ec[x] \in Context
BY DEF Node

\* The ways in which a context is updated.
LEMMA AckTaken ==
    ASSUME NEW c \in Context
    PROVE  [c EXCEPT !.ackPending = FALSE] \in Context
BY DEF Context

LEMMA AckSet ==
    ASSUME NEW c \in Context, NEW b \in BOOLEAN, NEW k \in Counters \cup {0}
    PROVE  [c EXCEPT !.ackPending = b, !.ackCtr = k] \in Context
BY DEF Context

LEMMA Closed ==
    ASSUME NEW c \in Context
    PROVE  [c EXCEPT !.state = "closed", !.resp = FALSE] \in Context
BY DEF Context

LEMMA EntryAdded ==
    ASSUME NEW c \in Context, NEW k \in Counters, NEW b \in BOOLEAN
    PROVE  [c EXCEPT !.entry = k, !.tries = 0, !.resp = b, !.send = FALSE] \in Context
<1>1. 0 \in 0 .. MAX_RETRANS
    BY ConstantsAssumption
<1> QED BY <1>1, Zenon DEF Context

LEMMA EntryRemoved ==
    ASSUME NEW c \in Context
    PROVE  [c EXCEPT !.entry = 0] \in Context
BY DEF Context

LEMMA WillSend ==
    ASSUME NEW c \in Context
    PROVE  [c EXCEPT !.send = TRUE] \in Context
BY DEF Context

LEMMA Opened ==
    ASSUME NEW c \in Context
    PROVE  [c EXCEPT !.state = "open"] \in Context
BY DEF Context

LEMMA OpenedToSend ==
    ASSUME NEW c \in Context
    PROVE  [c EXCEPT !.state = "open", !.send = TRUE] \in Context
BY DEF Context

LEMMA TriesSet ==
    ASSUME NEW c \in Context, NEW k \in 0 .. MAX_RETRANS
    PROVE  [c EXCEPT !.tries = k] \in Context
BY DEF Context

LEMMA GivenUp ==
    ASSUME NEW c \in Context
    PROVE  [c EXCEPT !.entry = 0, !.tries = 0] \in Context
<1>1. 0 \in 0 .. MAX_RETRANS
    BY ConstantsAssumption
<1> QED BY <1>1, Zenon DEF Context

LEMMA ActiveSet ==
    ASSUME NEW s \in Node, NEW b \in BOOLEAN
    PROVE  Same(s, [s EXCEPT !.active = b])
BY DEF Same, Node

LEMMA RespCleared ==
    ASSUME NEW c \in Context
    PROVE  [c EXCEPT !.resp = FALSE] \in Context
BY DEF Context

LEMMA ReleasedSame ==
    ASSUME NEW s \in Node, NEW x \in Exchanges
    PROVE  Same(s, Released(s, x))
BY WithContext, NoContextType DEF Released, Same

LEMMA SentSame ==
    ASSUME NEW s \in Node, NEW x \in Exchanges, NEW app \in BOOLEAN,
           NEW ack \in Counters \cup {0}, ~Exhausted(s)
    PROVE  Same(s, Sent(s, x, app, ack))
<1>1. s.last + 1 \in Counters /\ s.last + 1 \in 0 .. kMessageCounterMax
    BY CounterAssumption DEF Node, Exhausted, Counters, kMessageCounterMax
<1>2. [ctr |-> s.last + 1, x |-> x, app |-> app, ack |-> ack] \in Message
    BY <1>1 DEF Message
<1> QED BY <1>1, <1>2 DEF Sent, Same, Node

LEMMA StandaloneAckSame ==
    ASSUME NEW s \in Node, NEW x \in Exchanges, NEW c \in Counters \cup {0}
    PROVE  Same(s, StandaloneAck(s, x, c))
<1>1. CASE Exhausted(s)
    BY <1>1 DEF StandaloneAck, Same, Node
<1>2. CASE ~Exhausted(s)
    BY <1>2, SentSame DEF StandaloneAck
<1> QED BY <1>1, <1>2

LEMMA FlushAcksSame ==
    ASSUME NEW s \in Node, NEW x \in Exchanges
    PROVE  Same(s, FlushAcks(s, x))
<1> DEFINE t == [s EXCEPT !.ec[x].ackPending = FALSE]
           c == [s.ec[x] EXCEPT !.ackPending = FALSE]
<1>a. c \in Context
    BY ContextOf, AckTaken
<1>b. t = [s EXCEPT !.ec[x] = c]
    BY DEF Node
<1>1. Same(s, t)
    BY <1>a, <1>b, WithContext
<1>2. s.ec[x].ackCtr \in Counters \cup {0}
    BY DEF Node, Context
<1>3. Same(t, StandaloneAck(t, x, s.ec[x].ackCtr))
    BY <1>1, <1>2, StandaloneAckSame DEF Same
<1> QED BY <1>1, <1>3 DEF FlushAcks, Same

LEMMA CloseSame ==
    ASSUME NEW s \in Node, NEW x \in Exchanges
    PROVE  Same(s, Close(s, x))
<1> DEFINE t == [s EXCEPT !.ec[x].state = "closed", !.ec[x].resp = FALSE]
           c == [s.ec[x] EXCEPT !.state = "closed", !.resp = FALSE]
<1>a. c \in Context
    BY ContextOf, Closed
<1>b. t = [s EXCEPT !.ec[x] = c]
    BY DEF Node
<1>1. Same(s, t)
    BY <1>a, <1>b, WithContext
<1>2. Same(t, FlushAcks(t, x))
    BY <1>1, FlushAcksSame DEF Same
<1>3. Same(FlushAcks(t, x), Released(FlushAcks(t, x), x))
    BY <1>2, ReleasedSame DEF Same
<1> QED BY <1>1, <1>2, <1>3 DEF Close, Same

LEMMA AbortSame ==
    ASSUME NEW s \in Node, NEW x \in Exchanges
    PROVE  Same(s, Abort(s, x))
<1>1. Same(s, FlushAcks(s, x))
    BY FlushAcksSame
<1>2. Same(FlushAcks(s, x), [FlushAcks(s, x) EXCEPT !.ec[x] = NoContext])
    BY <1>1, WithContext, NoContextType DEF Same
<1> QED BY <1>1, <1>2 DEF Abort, Same

LEMMA MessageHandledSame ==
    ASSUME NEW s \in Node, NEW x \in Exchanges
    PROVE  Same(s, MessageHandled(s, x))
BY CloseSame DEF MessageHandled, Same

LEMMA EntryAddedSame ==
    ASSUME NEW s \in Node, NEW x \in Exchanges, NEW k \in Counters, NEW e \in BOOLEAN
    PROVE  Same(s, [s EXCEPT !.ec[x].entry = k, !.ec[x].tries = 0,
                             !.ec[x].resp = @ \/ e, !.ec[x].send = FALSE])
<1> DEFINE c == [s.ec[x] EXCEPT !.entry = k, !.tries = 0, !.resp = @ \/ e, !.send = FALSE]
<1>1. (s.ec[x].resp \/ e) \in BOOLEAN
    OBVIOUS
<1>2. c \in Context
    BY <1>1, ContextOf, EntryAdded, Zenon
<1>3. [s EXCEPT !.ec[x].entry = k, !.ec[x].tries = 0,
                !.ec[x].resp = @ \/ e, !.ec[x].send = FALSE] = [s EXCEPT !.ec[x] = c]
    BY <1>1, ZenonT(40) DEF Node
<1> QED BY <1>2, <1>3, WithContext

LEMMA SendMessageSame ==
    ASSUME NEW s \in Node, NEW x \in Exchanges, NEW e \in BOOLEAN
    PROVE  Same(s, SendMessage(s, x, e))
<1> DEFINE took == [s EXCEPT !.ec[x].ackPending = FALSE]
           sent == Sent(took, x, TRUE, s.ec[x].ackCtr)
           t == [sent EXCEPT !.ec[x].entry = s.last + 1, !.ec[x].tries = 0,
                             !.ec[x].resp = @ \/ e, !.ec[x].send = FALSE]
           c == [s.ec[x] EXCEPT !.ackPending = FALSE]
<1>a. c \in Context
    BY ContextOf, AckTaken
<1>b. took = [s EXCEPT !.ec[x] = c]
    BY DEF Node
<1>1. Same(s, took) /\ took.last = s.last
    BY <1>a, <1>b, WithContext DEF Node
<1>2. CASE s.ec[x].entry # 0
    BY <1>2 DEF SendMessage, Same, Node
<1>3. CASE s.ec[x].entry = 0 /\ Exhausted(s)
    <2>1. Same(took, [took EXCEPT !.active = FALSE])
        BY <1>1 DEF Same, Node
    <2> QED BY <1>1, <1>3, <2>1 DEF SendMessage, Same
<1>4. CASE s.ec[x].entry = 0 /\ ~Exhausted(s)
    <2>a. s.ec[x].ackCtr \in Counters \cup {0}
        BY ContextOf DEF Context
    <2>b. took \in Node /\ ~Exhausted(took)
        BY <1>1, <1>4 DEF Exhausted, Same
    <2>1. Same(took, sent)
        <3> HIDE DEF took
        <3> QED BY <2>a, <2>b, SentSame
    <2>2. s.last + 1 \in Counters
        BY <1>4, CounterAssumption DEF Node, Exhausted, Counters, kMessageCounterMax
    <2>3. Same(sent, t)
        <3> HIDE DEF sent
        <3>1. sent \in Node
            BY <2>1 DEF Same
        <3> QED BY <2>2, <3>1, EntryAddedSame, Zenon
    <2>4. Same(t, MessageHandled(t, x))
        BY <2>3, MessageHandledSame DEF Same
    <2> HIDE DEF t
    <2>5. SendMessage(s, x, e) = MessageHandled(t, x)
        BY <1>4 DEF SendMessage, t
    <2> QED BY <1>1, <2>1, <2>3, <2>4, <2>5 DEF Same
<1> QED BY <1>2, <1>3, <1>4

LEMMA SendOrAbortSame ==
    ASSUME NEW s \in Node, NEW x \in Exchanges, NEW e \in BOOLEAN
    PROVE  Same(s, SendOrAbort(s, x, e))
<1>1. Same(s, SendMessage(s, x, e))
    BY SendMessageSame
<1>2. Same(SendMessage(s, x, e), Abort(SendMessage(s, x, e), x))
    BY <1>1, AbortSame DEF Same
<1> QED BY <1>1, <1>2 DEF SendOrAbort, Same

LEMMA HandleRcvdAckSame ==
    ASSUME NEW s \in Node, NEW x \in Exchanges, NEW m \in Message
    PROVE  Same(s, HandleRcvdAck(s, x, m))
<1>1. CASE m.ack # 0 /\ s.ec[x].entry = m.ack
    <2>1. m.ack \in Counters
        BY <1>1 DEF Message
    <2> DEFINE d == [s.ec[x] EXCEPT !.entry = 0]
               t == [s EXCEPT !.ec[x] = d]
    <2>2. d \in Context
        BY ContextOf, EntryRemoved
    <2>3. Same(s, t)
        BY <2>2, WithContext
    <2>4. HandleRcvdAck(s, x, m) = [t EXCEPT !.acked = @ \cup {m.ack}]
        BY <1>1 DEF HandleRcvdAck, Node
    <2> HIDE DEF t
    <2>5. Same(t, [t EXCEPT !.acked = @ \cup {m.ack}])
        BY <2>1, <2>3 DEF Same, Node
    <2> QED BY <2>3, <2>4, <2>5 DEF Same
<1>2. CASE ~(m.ack # 0 /\ s.ec[x].entry = m.ack)
    BY <1>2 DEF HandleRcvdAck, Same
<1> QED BY <1>1, <1>2

LEMMA AckSetSame ==
    ASSUME NEW s \in Node, NEW x \in Exchanges, NEW b \in BOOLEAN,
           NEW k \in Counters \cup {0}
    PROVE  Same(s, [s EXCEPT !.ec[x].ackPending = b, !.ec[x].ackCtr = k])
<1> DEFINE c == [s.ec[x] EXCEPT !.ackPending = b, !.ackCtr = k]
<1>1. c \in Context
    BY ContextOf, AckSet
<1>2. [s EXCEPT !.ec[x].ackPending = b, !.ec[x].ackCtr = k] = [s EXCEPT !.ec[x] = c]
    BY DEF Node
<1> QED BY <1>1, <1>2, WithContext

LEMMA HandleNeedsAckSame ==
    ASSUME NEW s \in Node, NEW x \in Exchanges, NEW m \in Message, NEW dup \in BOOLEAN
    PROVE  Same(s, HandleNeedsAck(s, x, m, dup))
<1>0. m.ctr \in Counters /\ s.ec[x] \in Context
    BY DEF Message, Node
<1>1. CASE dup
    <2> DEFINE a == StandaloneAck(s, x, m.ctr)
               was == s.ec[x].ackPending /\ s.ec[x].ackCtr # m.ctr
               ctr == IF s.ec[x].ackCtr # 0 THEN s.ec[x].ackCtr ELSE m.ctr
    <2>1. Same(s, a)
        BY <1>0, StandaloneAckSame
    <2>2. was \in BOOLEAN /\ ctr \in Counters \cup {0}
        BY <1>0 DEF Context
    <2>3. HandleNeedsAck(s, x, m, dup) =
              [a EXCEPT !.ec[x].ackPending = was, !.ec[x].ackCtr = ctr]
        BY <1>1 DEF HandleNeedsAck
    <2> HIDE DEF a, was, ctr
    <2>a. a \in Node
        BY <2>1 DEF Same
    <2>4. Same(a, [a EXCEPT !.ec[x].ackPending = was, !.ec[x].ackCtr = ctr])
        BY <2>a, <2>2, AckSetSame, Zenon
    <2> QED BY <2>1, <2>3, <2>4 DEF Same
<1>2. CASE ~dup
    <2> DEFINE a == FlushAcks(s, x)
    <2>1. Same(s, a)
        BY FlushAcksSame
    <2>2. \/ HandleNeedsAck(s, x, m, dup) = a
          \/ HandleNeedsAck(s, x, m, dup) =
                 [a EXCEPT !.ec[x].ackPending = TRUE, !.ec[x].ackCtr = m.ctr]
        BY <1>2 DEF HandleNeedsAck
    <2> HIDE DEF a
    <2>3. Same(a, [a EXCEPT !.ec[x].ackPending = TRUE, !.ec[x].ackCtr = m.ctr])
        BY <1>0, <2>1, AckSetSame DEF Same
    <2> QED BY <2>1, <2>2, <2>3 DEF Same
<1> QED BY <1>1, <1>2

--------------------------------------------------------------------------------
(* Delivery *)

LEMMA NoteRefusalSame ==
    ASSUME NEW s \in Node, NEW m \in Message, NEW reply
    PROVE  Same(s, NoteRefusal(s, m, reply))
<1>1. m.ctr \in Counters
    BY DEF Message
<1> QED BY <1>1 DEF NoteRefusal, Same, Node

\* t is a node's state after message c was given to the application, otherwise Same.
Delivered(s, t, c) ==
    /\ t \in Node
    /\ t.given = [s.given EXCEPT ![c] = IF @ = 2 THEN 2 ELSE @ + 1]
    /\ t.rx = s.rx

RepliesType == Uses \cup Refusals

LEMMA DeliverDelivers ==
    ASSUME NEW s \in Node, NEW x \in Exchanges, NEW m \in Message, NEW reply \in Uses
    PROVE  Delivered(s, Deliver(s, x, m, reply), m.ctr)
<1> DEFINE t == [s EXCEPT !.given[m.ctr] = IF @ = 2 THEN 2 ELSE @ + 1]
<1>0. m.ctr \in Counters
    BY DEF Message
<1>1. Delivered(s, t, m.ctr)
    <2> DEFINE g == [s.given EXCEPT ![m.ctr] = IF @ = 2 THEN 2 ELSE @ + 1]
    <2>1. g \in [Counters -> 0 .. 2]
        BY <1>0 DEF Node
    <2>2. t = [s EXCEPT !.given = g]
        BY DEF Node
    <2> HIDE DEF g
    <2>3. [s EXCEPT !.given = g] \in Node
        BY <2>1 DEF Node
    <2>4. [s EXCEPT !.given = g].given = g /\ [s EXCEPT !.given = g].rx = s.rx
        BY DEF Node
    <2> QED BY <2>2, <2>3, <2>4 DEF Delivered, g
<1>2. t \in Node
    BY <1>1 DEF Delivered
<1>3. \A u : Same(t, u) => Delivered(s, u, m.ctr)
    BY <1>1 DEF Delivered, Same
<1>4. Deliver(s, x, m, reply) = CASE reply = "none" -> t
          [] reply = "later" -> [t EXCEPT !.ec[x].send = TRUE]
          [] reply = "last" -> SendMessage(t, x, FALSE)
          [] reply = "more" -> SendMessage(t, x, TRUE)
    BY DEF Deliver, Uses, Refusals
<1> HIDE DEF t
<1>5. CASE reply = "none"
    BY <1>1, <1>4, <1>5
<1>6. CASE reply = "later"
    <2> DEFINE c == [t.ec[x] EXCEPT !.send = TRUE]
    <2>1. c \in Context
        BY <1>2, ContextOf, WillSend
    <2>2. [t EXCEPT !.ec[x].send = TRUE] = [t EXCEPT !.ec[x] = c]
        BY <1>2 DEF Node
    <2>3. Same(t, [t EXCEPT !.ec[x].send = TRUE])
        BY <1>2, <2>1, <2>2, WithContext
    <2>4. Deliver(s, x, m, reply) = [t EXCEPT !.ec[x].send = TRUE]
        BY <1>4, <1>6
    <2> QED BY <1>3, <2>3, <2>4
<1>7. CASE reply = "last"
    BY <1>2, <1>3, <1>4, <1>7, SendMessageSame
<1>8. CASE reply = "more"
    BY <1>2, <1>3, <1>4, <1>8, SendMessageSame
<1> QED BY <1>5, <1>6, <1>7, <1>8 DEF Uses

\* A message that is refused is not given to the application.
LEMMA DeliverRefused ==
    ASSUME NEW s, NEW x, NEW m, NEW reply \in Refusals
    PROVE  Deliver(s, x, m, reply) = s
BY DEF Deliver, Refusals

\* HandleMessage gives a message to the application at most once, and a duplicate
\* never.
LEMMA HandleMessageDelivers ==
    ASSUME NEW s \in Node, NEW x \in Exchanges, NEW m \in Message, NEW dup \in BOOLEAN,
           NEW reply \in RepliesType
    PROVE  \/ Same(s, HandleMessage(s, x, m, dup, reply))
           \/ ~dup /\ Delivered(s, HandleMessage(s, x, m, dup, reply), m.ctr)
<1> DEFINE a == IF dup THEN s ELSE HandleRcvdAck(s, x, m)
           b == IF m.app THEN HandleNeedsAck(a, x, m, dup) ELSE a
           c == IF b.ec[x].state = "closed" THEN FlushAcks(b, x) ELSE b
           d == [c EXCEPT !.ec[x].resp = FALSE]
           h == IF ~m.app \/ dup THEN c
                ELSE IF c.ec[x].entry # 0 THEN MessageHandled([c EXCEPT !.dropped = TRUE], x)
                ELSE IF c.ec[x].state = "closed" THEN c
                ELSE MessageHandled(Deliver(d, x, m, reply), x)
<1>0. HandleMessage(s, x, m, dup, reply) = Released(h, x)
    BY DEF HandleMessage
<1>1. Same(s, a)
    BY HandleRcvdAckSame DEF Same
<1> HIDE DEF a
<1>2. Same(s, b)
    <2>1. a \in Node
        BY <1>1 DEF Same
    <2>2. Same(a, HandleNeedsAck(a, x, m, dup))
        BY <2>1, HandleNeedsAckSame
    <2> QED BY <1>1, <2>2 DEF Same
<1> HIDE DEF b
<1>3. Same(s, c)
    <2>1. Same(b, FlushAcks(b, x))
        BY <1>2, FlushAcksSame DEF Same
    <2> QED BY <1>2, <2>1 DEF Same
<1> HIDE DEF c
<1>4. c \in Node
    BY <1>3 DEF Same
<1>5. Same(c, d)
    <2> DEFINE e == [c.ec[x] EXCEPT !.resp = FALSE]
    <2>1. e \in Context
        BY <1>4, ContextOf, RespCleared
    <2>2. d = [c EXCEPT !.ec[x] = e]
        BY <1>4 DEF Node
    <2> QED BY <1>4, <2>1, <2>2, WithContext
<1> HIDE DEF d
<1>6. CASE ~m.app \/ dup \/ (c.ec[x].entry = 0 /\ c.ec[x].state = "closed")
    <2>1. h = c
        BY <1>6
    <2>2. Same(c, Released(c, x))
        BY <1>4, ReleasedSame
    <2> QED BY <1>0, <1>3, <2>1, <2>2 DEF Same
<1>7. CASE ~(~m.app \/ dup) /\ c.ec[x].entry # 0
    <2> DEFINE e == [c EXCEPT !.dropped = TRUE]
    <2>1. Same(c, e)
        BY <1>4 DEF Same, Node
    <2> HIDE DEF e
    <2>2. h = MessageHandled(e, x)
        BY <1>7 DEF e
    <2>3. Same(e, h)
        BY <2>1, <2>2, MessageHandledSame DEF Same
    <2> HIDE DEF h
    <2>4. Same(h, Released(h, x))
        BY <2>3, ReleasedSame DEF Same
    <2> QED BY <1>0, <1>3, <2>1, <2>3, <2>4 DEF Same
<1>8. CASE ~(~m.app \/ dup \/ c.ec[x].state = "closed") /\ c.ec[x].entry = 0
    <2> DEFINE e == Deliver(d, x, m, reply)
    <2>1. Delivered(d, e, m.ctr) \/ Same(d, e)
        BY <1>5, DeliverDelivers, DeliverRefused DEF Same, RepliesType
    <2> HIDE DEF e
    <2>2. h = MessageHandled(e, x)
        BY <1>8 DEF e
    <2>3. Same(e, h)
        BY <2>1, <2>2, MessageHandledSame DEF Delivered, Same
    <2> HIDE DEF h
    <2>4. Same(h, Released(h, x))
        BY <2>3, ReleasedSame DEF Same
    <2>5. Delivered(s, Released(h, x), m.ctr) \/ Same(s, Released(h, x))
        BY <1>3, <1>5, <2>1, <2>3, <2>4 DEF Same, Delivered
    <2> QED BY <1>0, <1>8, <2>5
<1> QED BY <1>6, <1>7, <1>8

LEMMA OnMessageReceivedDelivers ==
    ASSUME NEW n \in Nodes, NEW s \in Node, NEW m \in Message, NEW dup \in BOOLEAN,
           NEW reply \in RepliesType
    PROVE  \/ Same(s, OnMessageReceived(n, s, m, dup, reply))
           \/ ~dup /\ Delivered(s, OnMessageReceived(n, s, m, dup, reply), m.ctr)
<1> DEFINE t == [s EXCEPT !.ec[m.x].state = "open"]
           r == OnMessageReceived(n, s, m, dup, reply)
<1>0. m.x \in Exchanges /\ m.ctr \in Counters
    BY DEF Message
<1>1. \/ r = HandleMessage(s, m.x, m, dup, reply)
      \/ r = s
      \/ r = [s EXCEPT !.turnedAway = @ \cup {m.ctr}]
      \/ r = HandleMessage(t, m.x, m, dup, reply)
      \/ r = StandaloneAck(s, m.x, m.ctr)
    BY DEF OnMessageReceived
<1>2. Same(s, t)
    <2> DEFINE c == [s.ec[m.x] EXCEPT !.state = "open"]
    <2>1. c \in Context
        BY <1>0, ContextOf, Opened
    <2>2. t = [s EXCEPT !.ec[m.x] = c]
        BY <1>0 DEF Node
    <2> QED BY <1>0, <2>1, <2>2, WithContext
<1> HIDE DEF r, t
<1>3. CASE r = HandleMessage(s, m.x, m, dup, reply)
    BY <1>0, <1>3, HandleMessageDelivers DEF r
<1>4. CASE r = s
    BY <1>4 DEF Same, r
<1>5. CASE r = [s EXCEPT !.turnedAway = @ \cup {m.ctr}]
    BY <1>0, <1>5 DEF Same, Node, r
<1>6. CASE r = HandleMessage(t, m.x, m, dup, reply)
    <2>1. \/ Same(t, r)
          \/ ~dup /\ Delivered(t, r, m.ctr)
        BY <1>0, <1>2, <1>6, HandleMessageDelivers DEF Same
    <2> QED BY <1>2, <2>1 DEF Same, Delivered, r
<1>7. CASE r = StandaloneAck(s, m.x, m.ctr)
    BY <1>0, <1>7, StandaloneAckSame DEF r
<1> QED BY <1>1, <1>3, <1>4, <1>5, <1>6, <1>7

--------------------------------------------------------------------------------
(* The inductive invariant *)

\* What the application of a node was given it was given once, and is a duplicate
\* for the session's window.
Once(s) ==
    \A c \in Counters : /\ s.given[c] \in {0, 1}
                        /\ s.given[c] = 1 => ~Verify(s.rx, c, FALSE)

DeliveryInv == TypeOK /\ \A n \in Nodes : Once(node[n])

LEMMA OnceSame ==
    ASSUME NEW s \in Node, NEW t, Once(s), Same(s, t)
    PROVE  t \in Node /\ Once(t)
BY DEF Once, Same

LEMMA PeerType ==
    ASSUME NEW n \in Nodes
    PROVE  Peer(n) \in Nodes
<1>0. Cardinality({n}) = 1
    BY FS_Singleton
<1>1. Nodes # {n}
    BY <1>0, ConstantsAssumption
<1>2. \E q \in Nodes : q # n
    BY <1>1
<1> QED BY <1>2 DEF Peer

LEMMA DeliveryInit == Init => DeliveryInv
<1> SUFFICES ASSUME Init PROVE DeliveryInv
    OBVIOUS
<1> DEFINE new == [last |-> 0, rx |-> SetCounter(0), active |-> TRUE,
                   ec |-> [x \in Exchanges |-> NoContext], sent |-> {},
                   given |-> [c \in Counters |-> 0], acked |-> {}, turnedAway |-> {},
                   died |-> FALSE, dropped |-> FALSE]
<1>1. SetCounter(0) \in Synced
    BY CountersAreCounters DEF SetCounter, Synced, Window
<1>2. 0 \in 0 .. kMessageCounterMax
    BY CounterAssumption DEF kMessageCounterMax
<1>3. [x \in Exchanges |-> NoContext] \in [Exchanges -> Context]
    BY NoContextType
<1>4. [c \in Counters |-> 0] \in [Counters -> 0 .. 2]
    OBVIOUS
<1>5. new \in Node
    <2>1. /\ TRUE \in BOOLEAN /\ FALSE \in BOOLEAN /\ {} \in SUBSET Message
          /\ {} \in SUBSET Counters
        OBVIOUS
    <2> QED BY <1>1, <1>2, <1>3, <1>4, <2>1 DEF Node
<1>6. Once(new)
    BY DEF Once
<1>7. node = [n \in Nodes |-> new]
    BY DEF Init
<1> HIDE DEF new
<1> QED BY <1>5, <1>6, <1>7 DEF DeliveryInv, TypeOK

\* The window is moved on before the message is given to the application, which
\* happens only if the window had not seen it.
LEMMA ReceiveKeeps ==
    ASSUME DeliveryInv, NEW n \in Nodes, NEW m \in node[Peer(n)].sent,
           NEW reply \in Replies[m.x], Receive(n, m, reply)
    PROVE  DeliveryInv'
<1> DEFINE s == [node[n] EXCEPT !.active = TRUE]
           dup == ~Verify(s.rx, m.ctr, FALSE)
           t == IF dup THEN s
                ELSE NoteRefusal([s EXCEPT !.rx = Commit(@, m.ctr, FALSE)], m, reply)
           r == IF dup /\ ~m.app THEN s ELSE OnMessageReceived(n, t, m, dup, reply)
<1>1. node' = [node EXCEPT ![n] = r]
    BY DEF Receive
<1>2. node[n] \in Node /\ Once(node[n])
    BY DEF DeliveryInv, TypeOK
<1>3. m \in Message /\ m.ctr \in Counters /\ m.ctr \in Counter /\ m.x \in Exchanges
    <2>1. node[Peer(n)] \in Node
        BY PeerType DEF DeliveryInv, TypeOK
    <2>2. m \in Message
        BY <2>1 DEF Node
    <2> QED BY <2>2, CountersAreCounters DEF Message
<1>4. reply \in RepliesType
    BY <1>3, ConstantsAssumption DEF RepliesType
<1>5. Same(node[n], s)
    BY <1>2 DEF Same, Node
<1> HIDE DEF s
<1>6. s \in Node /\ Once(s) /\ s.rx \in Synced /\ s.given \in [Counters -> 0 .. 2]
    BY <1>2, <1>5, OnceSame DEF Node
<1>7. CASE dup
    <2>1. t = s
        BY <1>7
    <2>2. r = s \/ r = OnMessageReceived(n, s, m, TRUE, reply)
        BY <1>7
    <2>3. Same(s, OnMessageReceived(n, s, m, TRUE, reply))
        BY <1>3, <1>4, <1>6, OnMessageReceivedDelivers
    <2>4. Same(s, r)
        BY <1>6, <2>2, <2>3 DEF Same
    <2> HIDE DEF r
    <2> QED BY <1>1, <1>6, <2>4, OnceSame DEF DeliveryInv, TypeOK
<1>8. CASE ~dup
    <2> DEFINE w == [s EXCEPT !.rx = Commit(s.rx, m.ctr, FALSE)]
    <2>1. t = NoteRefusal(w, m, reply)
        BY <1>8
    <2>2. Commit(s.rx, m.ctr, FALSE) \in Synced
        BY <1>3, <1>6, CommitType
    <2>a. w \in Node /\ w.given = s.given /\ w.rx = Commit(s.rx, m.ctr, FALSE)
        BY <1>6, <2>2 DEF Node
    <2> HIDE DEF w
    <2>b. Same(w, t)
        BY <1>3, <2>1, <2>a, NoteRefusalSame
    <2>3. /\ t \in Node /\ t.given = s.given /\ t.rx = Commit(s.rx, m.ctr, FALSE)
        BY <2>a, <2>b DEF Same
    <2>4. r = OnMessageReceived(n, t, m, FALSE, reply)
        BY <1>8
    <2>5. Same(t, r) \/ Delivered(t, r, m.ctr)
        <3> HIDE DEF t, r
        <3> QED BY <1>3, <1>4, <2>3, <2>4, OnMessageReceivedDelivers
    <2>6. \A c \in Counters : s.given[c] = 1 => ~Verify(t.rx, c, FALSE)
        BY <1>3, <1>6, <1>8, <2>3, DuplicateStays, CountersAreCounters DEF Once
    <2>7. ~Verify(t.rx, m.ctr, FALSE)
        BY <1>3, <1>6, <1>8, <2>3, CommittedIsDuplicate
    <2>8. s.given[m.ctr] = 0
        BY <1>3, <1>6, <1>8 DEF Once
    <2> HIDE DEF t, r
    <2>9. r \in Node /\ Once(r)
        <3>1. CASE Same(t, r)
            BY <1>6, <2>3, <2>6, <3>1 DEF Same, Once
        <3>2. CASE Delivered(t, r, m.ctr)
            <4>1. r \in Node /\ r.rx = t.rx
                BY <3>2 DEF Delivered
            <4>2. \A c \in Counters : r.given[c] = IF c = m.ctr THEN 1 ELSE s.given[c]
                BY <1>3, <1>6, <2>3, <2>8, <3>2 DEF Delivered
            <4> QED BY <1>6, <2>6, <2>7, <4>1, <4>2 DEF Once
        <3> QED BY <2>5, <3>1, <3>2
    <2> QED BY <1>1, <2>9 DEF DeliveryInv, TypeOK
<1> QED BY <1>7, <1>8

\* A step of node n that gives nothing to the application.
LEMMA SameKeeps ==
    ASSUME DeliveryInv, NEW n \in Nodes, NEW r, Same(node[n], r),
           node' = [node EXCEPT ![n] = r]
    PROVE  DeliveryInv'
<1>1. r \in Node /\ Once(r)
    BY OnceSame DEF DeliveryInv, TypeOK
<1> QED BY <1>1 DEF DeliveryInv, TypeOK

LEMMA OpenKeeps ==
    ASSUME DeliveryInv, NEW n \in Nodes, NEW x \in Exchanges, NEW e \in BOOLEAN,
           Open(n, x, e)
    PROVE  DeliveryInv'
<1> DEFINE t == [node[n] EXCEPT !.ec[x].state = "open", !.ec[x].send = TRUE]
           c == [node[n].ec[x] EXCEPT !.state = "open", !.send = TRUE]
<1>1. node[n] \in Node
    BY DEF DeliveryInv, TypeOK
<1>2. c \in Context
    BY <1>1, ContextOf, OpenedToSend
<1>3. t = [node[n] EXCEPT !.ec[x] = c]
    BY <1>1 DEF Node
<1>4. Same(node[n], t)
    BY <1>1, <1>2, <1>3, WithContext
<1>5. Same(t, SendOrAbort(t, x, e))
    BY <1>4, SendOrAbortSame DEF Same
<1>6. Same(node[n], SendOrAbort(t, x, e))
    BY <1>4, <1>5 DEF Same
<1>7. node' = [node EXCEPT ![n] = SendOrAbort(t, x, e)]
    BY DEF Open
<1> QED BY <1>6, <1>7, SameKeeps

LEMMA SendAnnouncedKeeps ==
    ASSUME DeliveryInv, NEW n \in Nodes, NEW x \in Exchanges, NEW e \in BOOLEAN,
           SendAnnounced(n, x, e)
    PROVE  DeliveryInv'
<1>1. Same(node[n], SendOrAbort(node[n], x, e))
    BY SendOrAbortSame DEF DeliveryInv, TypeOK
<1>2. node' = [node EXCEPT ![n] = SendOrAbort(node[n], x, e)]
    BY DEF SendAnnounced
<1> QED BY <1>1, <1>2, SameKeeps

LEMMA ResponseTimeoutKeeps ==
    ASSUME DeliveryInv, NEW n \in Nodes, NEW x \in Exchanges, ResponseTimeout(n, x)
    PROVE  DeliveryInv'
<1> DEFINE c == [node[n].ec[x] EXCEPT !.resp = FALSE]
           u == [node[n] EXCEPT !.ec[x] = c]
           t == [node[n] EXCEPT !.ec[x].resp = FALSE, !.active = FALSE]
<1>1. node[n] \in Node
    BY DEF DeliveryInv, TypeOK
<1>2. c \in Context
    BY <1>1, ContextOf, RespCleared
<1>3. Same(node[n], u)
    BY <1>1, <1>2, WithContext
<1>4. t = [u EXCEPT !.active = FALSE]
    BY <1>1 DEF Node
<1> HIDE DEF u
<1>5. Same(u, [u EXCEPT !.active = FALSE])
    BY <1>3 DEF Same, Node
<1>6. Same(node[n], t)
    BY <1>3, <1>4, <1>5 DEF Same
<1>7. Same(t, MessageHandled(t, x))
    BY <1>6, MessageHandledSame DEF Same
<1>8. Same(node[n], MessageHandled(t, x))
    BY <1>6, <1>7 DEF Same
<1>9. node' = [node EXCEPT ![n] = MessageHandled(t, x)]
    BY DEF ResponseTimeout
<1> QED BY <1>8, <1>9, SameKeeps

LEMMA AckTimeoutKeeps ==
    ASSUME DeliveryInv, NEW n \in Nodes, NEW x \in Exchanges, AckTimeout(n, x)
    PROVE  DeliveryInv'
<1>1. Same(node[n], FlushAcks(node[n], x))
    BY FlushAcksSame DEF DeliveryInv, TypeOK
<1>2. node' = [node EXCEPT ![n] = FlushAcks(node[n], x)]
    BY DEF AckTimeout
<1> QED BY <1>1, <1>2, SameKeeps

LEMMA RetransTimeoutKeeps ==
    ASSUME DeliveryInv, NEW n \in Nodes, NEW x \in Exchanges, RetransTimeout(n, x)
    PROVE  DeliveryInv'
<1> DEFINE s == node[n]
           more == [s EXCEPT !.ec[x].tries = s.ec[x].tries + 1]
           c == [s.ec[x] EXCEPT !.entry = 0, !.tries = 0]
           u == [s EXCEPT !.ec[x] = c]
           t == [s EXCEPT !.ec[x].entry = 0, !.ec[x].tries = 0,
                          !.active = s.active /\ s.ec[x].resp]
<1>0. node' = [node EXCEPT ![n] = IF s.ec[x].tries < MAX_RETRANS THEN more
                                  ELSE Released(t, x)]
    BY Zenon DEF RetransTimeout
<1>1. s \in Node /\ s.ec[x] \in Context
    BY ContextOf DEF DeliveryInv, TypeOK
<1>2. CASE s.ec[x].tries < MAX_RETRANS
    <2> DEFINE d == [s.ec[x] EXCEPT !.tries = s.ec[x].tries + 1]
    <2>1. s.ec[x].tries + 1 \in 0 .. MAX_RETRANS
        BY <1>1, <1>2, ConstantsAssumption DEF Context
    <2>2. d \in Context
        BY <1>1, <2>1, TriesSet, Zenon
    <2>3. more = [s EXCEPT !.ec[x] = d]
        BY <1>1 DEF Node
    <2>4. Same(s, more)
        BY <1>1, <2>2, <2>3, WithContext
    <2>5. node' = [node EXCEPT ![n] = more]
        BY <1>0, <1>2, Zenon
    <2> QED BY <2>4, <2>5, SameKeeps
<1>3. CASE ~(s.ec[x].tries < MAX_RETRANS)
    <2>1. c \in Context
        BY <1>1, GivenUp
    <2>2. Same(s, u)
        BY <1>1, <2>1, WithContext
    <2>3. t = [u EXCEPT !.active = s.active /\ s.ec[x].resp]
        BY <1>1 DEF Node
    <2>4. Same(u, [u EXCEPT !.active = s.active /\ s.ec[x].resp])
        <3>1. (s.active /\ s.ec[x].resp) \in BOOLEAN
            OBVIOUS
        <3>2. u \in Node
            BY <2>2 DEF Same
        <3> HIDE DEF u
        <3> QED BY <3>1, <3>2, ActiveSet, Zenon
    <2>5. Same(s, t)
        BY <2>2, <2>3, <2>4 DEF Same
    <2>6. Same(t, Released(t, x))
        BY <2>5, ReleasedSame DEF Same
    <2>7. Same(s, Released(t, x))
        BY <2>5, <2>6 DEF Same
    <2>8. node' = [node EXCEPT ![n] = Released(t, x)]
        BY <1>0, <1>3, Zenon
    <2> QED BY <2>7, <2>8, SameKeeps
<1> QED BY <1>2, <1>3

LEMMA DeliveryStep == DeliveryInv /\ [Next]_vars => DeliveryInv'
<1> SUFFICES ASSUME DeliveryInv, [Next]_vars PROVE DeliveryInv'
    OBVIOUS
<1>1. CASE UNCHANGED vars
    BY <1>1 DEF vars, DeliveryInv, TypeOK, Once
<1>2. ASSUME NEW n \in Nodes, NEW m \in node[Peer(n)].sent, NEW reply \in Replies[m.x],
             Receive(n, m, reply)
      PROVE  DeliveryInv'
    BY <1>2, ReceiveKeeps
<1>3. ASSUME NEW n \in Nodes, NEW x \in Exchanges, NEW e \in BOOLEAN, Open(n, x, e)
      PROVE  DeliveryInv'
    BY <1>3, OpenKeeps
<1>4. ASSUME NEW n \in Nodes, NEW x \in Exchanges, NEW e \in BOOLEAN, SendAnnounced(n, x, e)
      PROVE  DeliveryInv'
    BY <1>4, SendAnnouncedKeeps
<1>5. ASSUME NEW n \in Nodes, NEW x \in Exchanges, ResponseTimeout(n, x)
      PROVE  DeliveryInv'
    BY <1>5, ResponseTimeoutKeeps
<1>6. ASSUME NEW n \in Nodes, NEW x \in Exchanges, AckTimeout(n, x)
      PROVE  DeliveryInv'
    BY <1>6, AckTimeoutKeeps
<1>7. ASSUME NEW n \in Nodes, NEW x \in Exchanges, RetransTimeout(n, x)
      PROVE  DeliveryInv'
    BY <1>7, RetransTimeoutKeeps
<1> QED BY <1>1, <1>2, <1>3, <1>4, <1>5, <1>6, <1>7 DEF Next

\* DeliveryInv is inductive.
THEOREM DeliveryInvariant == Spec => []DeliveryInv
BY DeliveryInit, DeliveryStep, PTL DEF Spec

\* The state of both nodes stays in its type: counters within their width, at most
\* MAX_RETRANS retransmissions.
THEOREM TypeCorrect == Spec => []TypeOK
<1>1. DeliveryInv => TypeOK
    BY DEF DeliveryInv
<1> QED BY <1>1, DeliveryInvariant, PTL

\* No message is given to the application twice, for every window size and number
\* of retransmissions and however the network duplicates and reorders.
THEOREM NoDoubleDelivery == Spec => []DeliveredOnce
<1>1. DeliveryInv => DeliveredOnce
    <2> SUFFICES ASSUME DeliveryInv, NEW n \in Nodes, NEW c \in Counters
                 PROVE  node[n].given[c] <= 1
        BY DEF DeliveredOnce
    <2>1. node[n].given[c] \in {0, 1}
        BY DEF DeliveryInv, Once
    <2> QED BY <2>1
<1> QED BY <1>1, DeliveryInvariant, PTL

--------------------------------------------------------------------------------
(* What a handler does to the exchange it works on *)

\* Message counters are given out in order, each to one message.
Numbered(s) ==
    /\ \A m \in s.sent : m.ctr <= s.last
    /\ \A a, b \in s.sent : a.ctr = b.ctr => a = b

\* A node acknowledges what it has received.
Received(rx, c) == c = 0 \/ ~Verify(rx, c, FALSE)
Acks(s) ==
    /\ \A m \in s.sent : Received(s.rx, m.ack)
    /\ \A x \in Exchanges : Received(s.rx, s.ec[x].ackCtr)

Sane(s) == s \in Node /\ Numbered(s) /\ Acks(s)

\* t is s after a handler worked on exchange x: it acknowledged ours in A and sent the
\* application messages P, and standalone acknowledgements.
Moved(s, t, x, A, P) ==
    /\ Sane(t)
    /\ \A y \in Exchanges : y # x => t.ec[y] = s.ec[y]
    /\ t.rx = s.rx /\ t.turnedAway = s.turnedAway
    /\ t.died = s.died /\ t.dropped = s.dropped
    /\ t.acked \subseteq s.acked \cup A
    /\ s.last <= t.last /\ s.sent \subseteq t.sent
    /\ \A a \in t.sent : a \in s.sent \/ ~a.app \/ a \in P

\* A context d that is c with less to do.
Shrunk(c, d) ==
    /\ d.entry \in {0, c.entry}
    /\ d.send => c.send
    /\ d.send /\ c.ackCtr # 0 => d.ackCtr = c.ackCtr
    /\ d.state # "none" => c.state # "none"

\* A context that is not lost, and whose application may send when it has announced it.
Good(c) ==
    /\ c.state = "open" => c.resp \/ c.send
    /\ c.state = "closed" => c.entry # 0
    /\ c.state = "none" => c = NoContext
    /\ c.send => c.entry = 0

LEMMA LastType == ASSUME NEW s \in Node PROVE s.last \in Int /\ kMessageCounterMax \in Int
BY CounterAssumption DEF Node, kMessageCounterMax

LEMMA MovedTrans ==
    ASSUME NEW s \in Node, NEW t, NEW u, NEW x, NEW A, NEW P,
           Moved(s, t, x, A, P), Moved(t, u, x, A, P)
    PROVE  Moved(s, u, x, A, P)
<1>1. s.last \in Int /\ t.last \in Int /\ u.last \in Int
    BY LastType DEF Moved, Sane
<1>2. s.last <= u.last
    BY <1>1 DEF Moved
<1> QED BY <1>2 DEF Moved

LEMMA MovedItself ==
    ASSUME NEW s, Sane(s), NEW x, NEW A, NEW P
    PROVE  Moved(s, s, x, A, P)
BY LastType DEF Moved, Sane

LEMMA MovedMore ==
    ASSUME NEW s, NEW t, NEW x, NEW A, NEW P, NEW B, NEW Q, Moved(s, t, x, A, P),
           A \subseteq B, P \subseteq Q
    PROVE  Moved(s, t, x, B, Q)
BY DEF Moved

\* A step that changes one context.
Put(s, x, c) == [s EXCEPT !.ec[x] = c]

LEMMA PutMoved ==
    ASSUME NEW s, Sane(s), NEW x \in Exchanges, NEW c \in Context,
           Received(s.rx, c.ackCtr), NEW A, NEW P
    PROVE  Moved(s, Put(s, x, c), x, A, P) /\ Put(s, x, c).ec[x] = c
<1> DEFINE t == Put(s, x, c)
<1>1. s \in Node
    BY DEF Sane
<1>2. /\ t \in Node /\ t.ec = [s.ec EXCEPT ![x] = c]
      /\ t.rx = s.rx /\ t.turnedAway = s.turnedAway /\ t.died = s.died
      /\ t.dropped = s.dropped /\ t.acked = s.acked /\ t.last = s.last /\ t.sent = s.sent
    BY <1>1 DEF Put, Node
<1> HIDE DEF t
<1>3. s.ec \in [Exchanges -> Context]
    BY <1>1 DEF Node
<1>4. Acks(t)
    BY <1>2, <1>3 DEF Acks, Sane
<1>5. Numbered(t)
    BY <1>2 DEF Numbered, Sane
<1>6. s.last <= t.last
    BY <1>1, <1>2, LastType
<1> QED BY <1>2, <1>3, <1>4, <1>5, <1>6 DEF Moved, Sane, t

\* Fields that say nothing of the exchange.
LEMMA ActiveMoved ==
    ASSUME NEW s, Sane(s), NEW x, NEW b \in BOOLEAN, NEW A, NEW P
    PROVE  /\ Moved(s, [s EXCEPT !.active = b], x, A, P)
           /\ [s EXCEPT !.active = b].ec = s.ec
<1> DEFINE t == [s EXCEPT !.active = b]
<1>1. s \in Node
    BY DEF Sane
<1>2. /\ t \in Node /\ t.ec = s.ec
      /\ t.rx = s.rx /\ t.turnedAway = s.turnedAway /\ t.died = s.died
      /\ t.dropped = s.dropped /\ t.acked = s.acked /\ t.last = s.last /\ t.sent = s.sent
    BY <1>1 DEF Node
<1> HIDE DEF t
<1>3. Acks(t) /\ Numbered(t)
    BY <1>2 DEF Acks, Numbered, Sane
<1>4. s.last <= t.last
    BY <1>1, <1>2, LastType
<1> QED BY <1>2, <1>3, <1>4 DEF Moved, Sane, t

LEMMA SentMoved ==
    ASSUME NEW s, Sane(s), NEW x \in Exchanges, NEW app \in BOOLEAN,
           NEW ack \in Counters \cup {0}, Received(s.rx, ack), ~Exhausted(s), NEW A, NEW P,
           ~app \/ [ctr |-> s.last + 1, x |-> x, app |-> app, ack |-> ack] \in P
    PROVE  LET t == Sent(s, x, app, ack)
           IN  /\ Moved(s, t, x, A, P) /\ t.ec = s.ec /\ t.last = s.last + 1
               /\ [ctr |-> s.last + 1, x |-> x, app |-> app, ack |-> ack] \in t.sent
<1> DEFINE m == [ctr |-> s.last + 1, x |-> x, app |-> app, ack |-> ack]
           t == Sent(s, x, app, ack)
<1>1. s \in Node /\ s.last \in Int
    BY LastType DEF Sane
<1>2. t \in Node
    BY <1>1, SentSame DEF Same
<1>3. m.ctr = s.last + 1 /\ m.ack = ack /\ m.app = app
    OBVIOUS
<1>4. ~m.app \/ m \in P
    BY <1>3
<1>5. t = [s EXCEPT !.last = s.last + 1, !.sent = s.sent \cup {m}]
    BY DEF Sent
<1> HIDE DEF m, t
<1>6. /\ t.ec = s.ec /\ t.rx = s.rx /\ t.turnedAway = s.turnedAway /\ t.died = s.died
      /\ t.dropped = s.dropped /\ t.acked = s.acked
      /\ t.last = s.last + 1 /\ t.sent = s.sent \cup {m}
    BY <1>1, <1>5 DEF Node
<1>7. Acks(t)
    BY <1>3, <1>6 DEF Acks, Sane
<1>8. \A a \in s.sent : a.ctr <= s.last /\ a.ctr \in Int
    BY <1>1 DEF Numbered, Sane, Node, Message, Counters
<1>9. Numbered(t)
    BY <1>1, <1>3, <1>6, <1>8 DEF Numbered, Sane
<1>10. Moved(s, t, x, A, P)
    BY <1>1, <1>2, <1>4, <1>6, <1>7, <1>9 DEF Moved, Sane
<1> QED BY <1>6, <1>10 DEF t, m

LEMMA StandaloneAckMoved ==
    ASSUME NEW s, Sane(s), NEW x \in Exchanges, NEW c \in Counters \cup {0},
           Received(s.rx, c), NEW A, NEW P
    PROVE  /\ Moved(s, StandaloneAck(s, x, c), x, A, P)
           /\ StandaloneAck(s, x, c).ec = s.ec
<1>1. CASE Exhausted(s)
    <2>1. StandaloneAck(s, x, c) = [s EXCEPT !.active = FALSE]
        BY <1>1 DEF StandaloneAck
    <2> DEFINE b == FALSE
    <2>2. b \in BOOLEAN
        OBVIOUS
    <2> HIDE DEF b
    <2>3. Moved(s, [s EXCEPT !.active = b], x, A, P) /\ [s EXCEPT !.active = b].ec = s.ec
        BY <2>2, ActiveMoved
    <2> QED BY <2>1, <2>3, Zenon DEF b
<1>2. CASE ~Exhausted(s)
    <2>1. StandaloneAck(s, x, c) = Sent(s, x, FALSE, c)
        BY <1>2 DEF StandaloneAck
    <2>2. Moved(s, Sent(s, x, FALSE, c), x, A, P) /\ Sent(s, x, FALSE, c).ec = s.ec
        BY <1>2, SentMoved
    <2> QED BY <2>1, <2>2, Zenon
<1> QED BY <1>1, <1>2

\* Contexts that differ in no more than the acknowledgement that is pending.
Kept(c, d) ==
    /\ d.state = c.state /\ d.resp = c.resp /\ d.send = c.send
    /\ d.ackCtr = c.ackCtr /\ d.entry = c.entry

LEMMA AckReceived ==
    ASSUME NEW s, Sane(s), NEW x \in Exchanges
    PROVE  /\ s \in Node /\ s.ec[x] \in Context
           /\ s.ec[x].ackCtr \in Counters \cup {0} /\ Received(s.rx, s.ec[x].ackCtr)
BY ContextOf DEF Sane, Acks, Context

LEMMA FlushAcksMoved ==
    ASSUME NEW s, Sane(s), NEW x \in Exchanges, NEW A, NEW P
    PROVE  Moved(s, FlushAcks(s, x), x, A, P) /\ Kept(s.ec[x], FlushAcks(s, x).ec[x])
<1> DEFINE c == [s.ec[x] EXCEPT !.ackPending = FALSE]
           t == Put(s, x, c)
           u == StandaloneAck(t, x, s.ec[x].ackCtr)
<1>1. /\ s \in Node /\ s.ec[x] \in Context
      /\ s.ec[x].ackCtr \in Counters \cup {0} /\ Received(s.rx, s.ec[x].ackCtr)
    BY AckReceived
<1>2. c \in Context /\ Kept(s.ec[x], c) /\ c.ackCtr = s.ec[x].ackCtr
    BY <1>1 DEF Context, Kept
<1>3. [s EXCEPT !.ec[x].ackPending = FALSE] = t
    BY <1>1 DEF Node, Put
<1>4. FlushAcks(s, x) = IF s.ec[x].ackPending THEN u ELSE s
    BY <1>3 DEF FlushAcks
<1> HIDE DEF c
<1>5. Moved(s, t, x, A, P) /\ t.ec[x] = c
    BY <1>1, <1>2, PutMoved
<1> HIDE DEF t
<1>6. Sane(t) /\ t.rx = s.rx
    BY <1>5 DEF Moved
<1>7. Moved(t, u, x, A, P) /\ u.ec = t.ec
    BY <1>1, <1>6, StandaloneAckMoved
<1> HIDE DEF u
<1>8. Moved(s, u, x, A, P) /\ Kept(s.ec[x], u.ec[x])
    BY <1>1, <1>2, <1>5, <1>7, MovedTrans
<1>9. Moved(s, s, x, A, P) /\ Kept(s.ec[x], s.ec[x])
    BY MovedItself DEF Kept
<1> QED BY <1>4, <1>8, <1>9

LEMMA NoContextReceived == ASSUME NEW rx PROVE Received(rx, NoContext.ackCtr)
BY DEF Received, NoContext

LEMMA ReleasedMoved ==
    ASSUME NEW s, Sane(s), NEW x \in Exchanges, NEW A, NEW P
    PROVE  /\ Moved(s, Released(s, x), x, A, P)
           /\ Released(s, x).ec[x] = IF s.ec[x].state = "closed" /\ s.ec[x].entry = 0
                                     THEN NoContext ELSE s.ec[x]
<1>1. Moved(s, Put(s, x, NoContext), x, A, P) /\ Put(s, x, NoContext).ec[x] = NoContext
    BY NoContextType, NoContextReceived, PutMoved
<1>2. Released(s, x) = IF s.ec[x].state = "closed" /\ s.ec[x].entry = 0
                       THEN Put(s, x, NoContext) ELSE s
    BY DEF Released, Put
<1>3. Moved(s, s, x, A, P)
    BY MovedItself
<1> QED BY <1>1, <1>2, <1>3

\* What Close leaves of an open context.
Shut(c, d) ==
    IF c.entry = 0 THEN d = NoContext
    ELSE d.state = "closed" /\ d.send = c.send /\ d.entry = c.entry /\ d.ackCtr = c.ackCtr

LEMMA CloseMoved ==
    ASSUME NEW s, Sane(s), NEW x \in Exchanges, NEW A, NEW P
    PROVE  Moved(s, Close(s, x), x, A, P) /\ Shut(s.ec[x], Close(s, x).ec[x])
<1> DEFINE c == [s.ec[x] EXCEPT !.state = "closed", !.resp = FALSE]
           t == Put(s, x, c)
           u == FlushAcks(t, x)
           v == Released(u, x)
<1>1. /\ s \in Node /\ s.ec[x] \in Context
      /\ s.ec[x].ackCtr \in Counters \cup {0} /\ Received(s.rx, s.ec[x].ackCtr)
    BY AckReceived
<1>2. /\ c \in Context /\ c.ackCtr = s.ec[x].ackCtr /\ c.state = "closed"
      /\ c.send = s.ec[x].send /\ c.entry = s.ec[x].entry
    BY <1>1 DEF Context
<1>3. [s EXCEPT !.ec[x].state = "closed", !.ec[x].resp = FALSE] = t
    BY <1>1 DEF Node, Put
<1>4. Close(s, x) = v
    BY <1>3 DEF Close
<1> HIDE DEF c
<1>5. Moved(s, t, x, A, P) /\ t.ec[x] = c
    BY <1>1, <1>2, PutMoved
<1> HIDE DEF t
<1>6. Moved(t, u, x, A, P) /\ Kept(t.ec[x], u.ec[x])
    BY <1>5, FlushAcksMoved DEF Moved
<1> HIDE DEF u
<1>7. /\ Moved(u, v, x, A, P)
      /\ v.ec[x] = IF u.ec[x].state = "closed" /\ u.ec[x].entry = 0
                   THEN NoContext ELSE u.ec[x]
    BY <1>6, ReleasedMoved DEF Moved
<1> HIDE DEF v
<1>8. t \in Node
    BY <1>5 DEF Moved, Sane
<1>9. Moved(s, v, x, A, P)
    BY <1>1, <1>5, <1>6, <1>7, <1>8, MovedTrans
<1>10. Shut(s.ec[x], v.ec[x])
    BY <1>2, <1>5, <1>6, <1>7 DEF Shut, Kept
<1> QED BY <1>4, <1>9, <1>10

\* MessageHandled closes an open context of which nothing more is expected.
Done(c) == c.state = "open" /\ ~c.resp /\ ~c.send

LEMMA MessageHandledMoved ==
    ASSUME NEW s, Sane(s), NEW x \in Exchanges, NEW A, NEW P
    PROVE  /\ Moved(s, MessageHandled(s, x), x, A, P)
           /\ ~Done(s.ec[x]) => MessageHandled(s, x).ec[x] = s.ec[x]
           /\ Done(s.ec[x]) => Shut(s.ec[x], MessageHandled(s, x).ec[x])
<1>1. MessageHandled(s, x) = IF Done(s.ec[x]) THEN Close(s, x) ELSE s
    BY DEF MessageHandled, Done
<1>2. Moved(s, s, x, A, P)
    BY MovedItself
<1>3. Moved(s, Close(s, x), x, A, P) /\ Shut(s.ec[x], Close(s, x).ec[x])
    BY CloseMoved
<1> QED BY <1>1, <1>2, <1>3

\* The retransmission is over if the acknowledgement is for it.
AckHandled(s, t, x, m, A, P) ==
    /\ Moved(s, t, x, A, P)
    /\ t.ec[x].state = s.ec[x].state /\ t.ec[x].resp = s.ec[x].resp
    /\ t.ec[x].send = s.ec[x].send /\ t.ec[x].ackCtr = s.ec[x].ackCtr
    /\ t.ec[x].entry = IF m.ack # 0 /\ s.ec[x].entry = m.ack THEN 0 ELSE s.ec[x].entry

LEMMA HandleRcvdAckMoved ==
    ASSUME NEW s, Sane(s), NEW x \in Exchanges, NEW m \in Message, NEW A, NEW P,
           m.ack # 0 => m.ack \in A
    PROVE  AckHandled(s, HandleRcvdAck(s, x, m), x, m, A, P)
<1> DEFINE c == [s.ec[x] EXCEPT !.entry = 0]
           t == Put(s, x, c)
           u == [t EXCEPT !.acked = @ \cup {m.ack}]
<1>1. /\ s \in Node /\ s.ec[x] \in Context
      /\ s.ec[x].ackCtr \in Counters \cup {0} /\ Received(s.rx, s.ec[x].ackCtr)
    BY AckReceived
<1>2. CASE m.ack # 0 /\ s.ec[x].entry = m.ack
    <2>1. /\ c \in Context /\ c.ackCtr = s.ec[x].ackCtr /\ c.state = s.ec[x].state
          /\ c.send = s.ec[x].send /\ c.resp = s.ec[x].resp /\ c.entry = 0
        BY <1>1 DEF Context
    <2>2. HandleRcvdAck(s, x, m) = u
        BY <1>1, <1>2 DEF HandleRcvdAck, Put, Node
    <2> HIDE DEF c
    <2>3. Moved(s, t, x, A, P) /\ t.ec[x] = c
        BY <1>1, <2>1, PutMoved
    <2> HIDE DEF t
    <2>4. t \in Node /\ Sane(t) /\ t.last \in Int
        BY <2>3, LastType DEF Moved, Sane
    <2>5. m.ack \in Counters /\ m.ack \in A
        BY <1>2 DEF Message
    <2>6. /\ u \in Node /\ u.ec = t.ec
          /\ u.rx = t.rx /\ u.turnedAway = t.turnedAway /\ u.died = t.died
          /\ u.dropped = t.dropped /\ u.acked = t.acked \cup {m.ack}
          /\ u.last = t.last /\ u.sent = t.sent
        BY <2>4, <2>5 DEF Node
    <2> HIDE DEF u
    <2>7. Acks(u) /\ Numbered(u)
        BY <2>4, <2>6 DEF Acks, Numbered, Sane
    <2>8. Moved(t, u, x, A, P)
        BY <2>4, <2>5, <2>6, <2>7 DEF Moved, Sane
    <2>9. Moved(s, u, x, A, P)
        BY <1>1, <2>3, <2>8, MovedTrans
    <2> QED BY <1>2, <2>1, <2>2, <2>3, <2>6, <2>9 DEF AckHandled
<1>3. CASE ~(m.ack # 0 /\ s.ec[x].entry = m.ack)
    <2>1. HandleRcvdAck(s, x, m) = s
        BY <1>3 DEF HandleRcvdAck
    <2>2. Moved(s, s, x, A, P)
        BY MovedItself
    <2> QED BY <1>3, <2>1, <2>2 DEF AckHandled
<1> QED BY <1>2, <1>3

SetAck(s, x, b, k) == [s EXCEPT !.ec[x].ackPending = b, !.ec[x].ackCtr = k]

AckIsSet(s, t, x, k, A, P) ==
    /\ Moved(s, t, x, A, P)
    /\ t.ec[x].state = s.ec[x].state /\ t.ec[x].resp = s.ec[x].resp
    /\ t.ec[x].send = s.ec[x].send /\ t.ec[x].entry = s.ec[x].entry
    /\ t.ec[x].ackCtr = k

LEMMA AckSetMoved ==
    ASSUME NEW s, Sane(s), NEW x \in Exchanges, NEW b \in BOOLEAN,
           NEW k \in Counters \cup {0}, Received(s.rx, k), NEW A, NEW P
    PROVE  AckIsSet(s, SetAck(s, x, b, k), x, k, A, P)
<1> DEFINE c == [s.ec[x] EXCEPT !.ackPending = b, !.ackCtr = k]
           t == SetAck(s, x, b, k)
<1>1. s \in Node /\ s.ec[x] \in Context
    BY AckReceived
<1>2. /\ c \in Context /\ c.ackCtr = k /\ c.state = s.ec[x].state
      /\ c.send = s.ec[x].send /\ c.resp = s.ec[x].resp /\ c.entry = s.ec[x].entry
    BY <1>1 DEF Context
<1>3. t = Put(s, x, c)
    BY <1>1 DEF Node, Put, SetAck
<1> HIDE DEF c, t
<1>4. Moved(s, Put(s, x, c), x, A, P) /\ Put(s, x, c).ec[x] = c
    BY <1>2, PutMoved
<1> QED BY <1>2, <1>3, <1>4 DEF t, AckIsSet

\* A new message is the one to acknowledge, unless no counter is left.
AckNoted(s, t, x, m, dup, A, P) ==
    /\ Moved(s, t, x, A, P)
    /\ t.ec[x].state = s.ec[x].state /\ t.ec[x].resp = s.ec[x].resp
    /\ t.ec[x].send = s.ec[x].send /\ t.ec[x].entry = s.ec[x].entry
    /\ dup /\ s.ec[x].ackCtr # 0 => t.ec[x].ackCtr = s.ec[x].ackCtr
    /\ ~dup /\ ~Exhausted(t) => t.ec[x].ackCtr = m.ctr

LEMMA HandleNeedsAckMoved ==
    ASSUME NEW s, Sane(s), NEW x \in Exchanges, NEW m \in Message, NEW dup \in BOOLEAN,
           Received(s.rx, m.ctr), NEW A, NEW P
    PROVE  AckNoted(s, HandleNeedsAck(s, x, m, dup), x, m, dup, A, P)
<1>0. /\ m.ctr \in Counters \cup {0} /\ s \in Node /\ s.ec[x] \in Context
      /\ s.ec[x].ackCtr \in Counters \cup {0} /\ Received(s.rx, s.ec[x].ackCtr)
    BY AckReceived DEF Message
<1> DEFINE r == HandleNeedsAck(s, x, m, dup)
<1>1. CASE dup
    <2> DEFINE a == StandaloneAck(s, x, m.ctr)
               was == s.ec[x].ackPending /\ s.ec[x].ackCtr # m.ctr
               ctr == IF s.ec[x].ackCtr # 0 THEN s.ec[x].ackCtr ELSE m.ctr
    <2>1. Moved(s, a, x, A, P) /\ a.ec = s.ec
        BY <1>0, StandaloneAckMoved
    <2>2. was \in BOOLEAN /\ ctr \in Counters \cup {0} /\ Received(s.rx, ctr)
        BY <1>0
    <2>3. r = SetAck(a, x, was, ctr)
        BY <1>1 DEF HandleNeedsAck, SetAck
    <2>4. s.ec[x].ackCtr # 0 => ctr = s.ec[x].ackCtr
        OBVIOUS
    <2> HIDE DEF a, was, ctr, r
    <2>5. Sane(a) /\ a.rx = s.rx
        BY <2>1 DEF Moved
    <2> DEFINE t == SetAck(a, x, was, ctr)
    <2>6. AckIsSet(a, t, x, ctr, A, P)
        <3>1. Received(a.rx, ctr)
            BY <2>2, <2>5
        <3> QED BY <2>2, <2>5, <3>1, AckSetMoved
    <2> HIDE DEF t
    <2>7. r = t
        BY <2>3 DEF t
    <2>8. Moved(s, r, x, A, P)
        BY <1>0, <2>1, <2>6, <2>7, MovedTrans DEF AckIsSet
    <2> QED BY <1>1, <2>1, <2>4, <2>6, <2>7, <2>8 DEF r, AckIsSet, AckNoted
<1>2. CASE ~dup
    <2> DEFINE a == FlushAcks(s, x)
               b == TRUE
               t == SetAck(a, x, b, m.ctr)
    <2>1. Moved(s, a, x, A, P) /\ Kept(s.ec[x], a.ec[x])
        BY FlushAcksMoved
    <2>2. \/ r = a /\ Exhausted(s)
          \/ r = t
        BY <1>2 DEF HandleNeedsAck, SetAck
    <2>3. b \in BOOLEAN
        OBVIOUS
    <2> HIDE DEF a, b, r
    <2>4. Sane(a) /\ a.rx = s.rx
        BY <2>1 DEF Moved
    <2>5. AckIsSet(a, t, x, m.ctr, A, P)
        <3>1. Received(a.rx, m.ctr)
            BY <2>4
        <3> QED BY <1>0, <2>3, <2>4, <3>1, AckSetMoved
    <2> HIDE DEF t
    <2>6. CASE r = a /\ Exhausted(s)
        <3>1. Exhausted(a)
            <4>1. /\ s.last = kMessageCounterMax /\ s.last <= a.last
                  /\ a.last \in 0 .. kMessageCounterMax
                BY <2>1, <2>6 DEF Exhausted, Moved, Sane, Node
            <4>2. kMessageCounterMax \in Int
                BY <1>0, LastType
            <4> QED BY <4>1, <4>2 DEF Exhausted
        <3> QED BY <1>2, <2>1, <2>6, <3>1 DEF Kept, r, AckNoted
    <2>7. CASE r = t
        <3>1. Moved(s, r, x, A, P)
            BY <1>0, <2>1, <2>5, <2>7, MovedTrans DEF AckIsSet
        <3> QED BY <1>2, <2>1, <2>5, <2>7, <3>1 DEF Kept, r, AckNoted, AckIsSet
    <2> QED BY <2>2, <2>6, <2>7
<1> QED BY <1>1, <1>2

\* The message that an application sends in exchange x.
NextMessage(s, x) ==
    [ctr |-> s.last + 1, x |-> x, app |-> TRUE, ack |-> s.ec[x].ackCtr]

AddEntry(s, x, k, e) ==
    [s EXCEPT !.ec[x].entry = k, !.ec[x].tries = 0,
              !.ec[x].resp = @ \/ e, !.ec[x].send = FALSE]

EntryIsAdded(s, t, x, k, A, P) ==
    /\ Moved(s, t, x, A, P) /\ t.sent = s.sent
    /\ t.ec[x].state = s.ec[x].state /\ t.ec[x].entry = k /\ ~t.ec[x].send

LEMMA AddEntryMoved ==
    ASSUME NEW s, Sane(s), NEW x \in Exchanges, NEW k \in Counters, NEW e \in BOOLEAN,
           NEW A, NEW P
    PROVE  EntryIsAdded(s, AddEntry(s, x, k, e), x, k, A, P)
<1> DEFINE b == s.ec[x].resp \/ e
           c == [s.ec[x] EXCEPT !.entry = k, !.tries = 0, !.resp = b, !.send = FALSE]
           t == AddEntry(s, x, k, e)
<1>1. s \in Node /\ s.ec[x] \in Context /\ Received(s.rx, s.ec[x].ackCtr)
    BY AckReceived
<1>2. b \in BOOLEAN
    OBVIOUS
<1>3. t = Put(s, x, c)
    BY <1>1, <1>2 DEF Node, Put, AddEntry
<1> HIDE DEF b
<1>4. c \in Context
    BY <1>1, <1>2, EntryAdded
<1>5. /\ c.state = s.ec[x].state /\ c.entry = k /\ c.send = FALSE
      /\ c.ackCtr = s.ec[x].ackCtr
    BY <1>1 DEF Context
<1>6. t.sent = s.sent
    BY <1>1, <1>3 DEF Put, Node
<1> HIDE DEF c, t
<1>7. Moved(s, Put(s, x, c), x, A, P) /\ Put(s, x, c).ec[x] = c
    BY <1>1, <1>4, <1>5, PutMoved
<1> QED BY <1>3, <1>5, <1>6, <1>7 DEF t, EntryIsAdded

\* The message is sent and goes to the retransmission table.
Said(s, t, x, A, P) ==
    /\ Moved(s, t, x, A, P) /\ NextMessage(s, x) \in t.sent
    /\ t.ec[x].entry = s.last + 1 /\ t.ec[x].entry # 0 /\ ~t.ec[x].send
    /\ t.ec[x].state = "closed" \/ (t.ec[x].state = "open" /\ t.ec[x].resp)

LEMMA SendMessageMoved ==
    ASSUME NEW s, Sane(s), NEW x \in Exchanges, NEW e \in BOOLEAN, NEW A, NEW P,
           NextMessage(s, x) \in P, s.ec[x].state = "open", s.ec[x].entry = 0,
           ~Exhausted(s)
    PROVE  Said(s, SendMessage(s, x, e), x, A, P)
<1> DEFINE c == [s.ec[x] EXCEPT !.ackPending = FALSE]
           took == Put(s, x, c)
           ctr == s.last + 1
           app == TRUE
           sent == Sent(took, x, app, s.ec[x].ackCtr)
           t == AddEntry(sent, x, ctr, e)
           d == t.ec[x]
           r == MessageHandled(t, x)
<1>1. /\ s \in Node /\ s.ec[x] \in Context
      /\ s.ec[x].ackCtr \in Counters \cup {0} /\ Received(s.rx, s.ec[x].ackCtr)
    BY AckReceived
<1>2. c \in Context /\ Kept(s.ec[x], c) /\ c.ackCtr = s.ec[x].ackCtr
    BY <1>1 DEF Context, Kept
<1>3. [s EXCEPT !.ec[x].ackPending = FALSE] = took
    BY <1>1 DEF Node, Put
<1>4. ctr \in Counters /\ ctr # 0 /\ app \in BOOLEAN
    BY <1>1, CounterAssumption DEF Node, Exhausted, Counters, kMessageCounterMax
<1> HIDE DEF c
<1>5. Moved(s, took, x, A, P) /\ took.ec[x] = c /\ took.last = s.last
    <2>1. took.last = s.last
        BY <1>1 DEF Put, Node
    <2> HIDE DEF took
    <2>2. Moved(s, Put(s, x, c), x, A, P) /\ Put(s, x, c).ec[x] = c
        BY <1>1, <1>2, PutMoved
    <2> QED BY <2>1, <2>2 DEF took
<1>6. SendMessage(s, x, e) =
          MessageHandled(
               [Sent(took, x, TRUE, s.ec[x].ackCtr) EXCEPT
                   !.ec[x].entry = s.last + 1, !.ec[x].tries = 0,
                   !.ec[x].resp = @ \/ e, !.ec[x].send = FALSE], x)
    BY <1>3 DEF SendMessage
<1> HIDE DEF took
<1>7. Sane(took) /\ took.rx = s.rx /\ ~Exhausted(took) /\ took \in Node
    BY <1>5 DEF Moved, Exhausted, Sane
<1>8. [ctr |-> took.last + 1, x |-> x, app |-> app, ack |-> s.ec[x].ackCtr]
          = NextMessage(s, x)
    BY <1>5 DEF NextMessage
<1> HIDE DEF app
<1>9. /\ Moved(took, sent, x, A, P) /\ sent.ec = took.ec
      /\ NextMessage(s, x) \in sent.sent
    <2> DEFINE m == [ctr |-> took.last + 1, x |-> x, app |-> app, ack |-> s.ec[x].ackCtr]
    <2>1. Received(took.rx, s.ec[x].ackCtr) /\ m \in P
        BY <1>1, <1>7, <1>8
    <2>2. Moved(took, sent, x, A, P) /\ sent.ec = took.ec /\ m \in sent.sent
        BY <1>1, <1>4, <1>7, <2>1, SentMoved, Zenon
    <2> QED BY <1>8, <2>2
<1>10. sent = Sent(took, x, TRUE, s.ec[x].ackCtr)
    BY DEF app
<1> HIDE DEF sent
<1>11. sent \in Node /\ Sane(sent) /\ sent.rx = s.rx /\ sent.ec[x] = c
    BY <1>5, <1>7, <1>9 DEF Moved, Sane
<1>12. SendMessage(s, x, e) = r
    BY <1>6, <1>10 DEF AddEntry
<1> HIDE DEF ctr
<1>13. Moved(sent, t, x, A, P) /\ t.sent = sent.sent
    BY <1>4, <1>11, AddEntryMoved DEF EntryIsAdded
<1>14. d.state = "open" /\ d.entry = ctr /\ ~d.send
    <2>1. EntryIsAdded(sent, t, x, ctr, A, P)
        BY <1>4, <1>11, AddEntryMoved
    <2>2. c.state = "open"
        BY <1>2 DEF Kept
    <2> HIDE DEF t
    <2> QED BY <1>11, <2>1, <2>2 DEF EntryIsAdded
<1> HIDE DEF t
<1>15. /\ Moved(t, r, x, A, P)
       /\ ~Done(d) => r.ec[x] = d
       /\ Done(d) => Shut(d, r.ec[x])
    BY <1>13, MessageHandledMoved DEF Moved
<1> HIDE DEF r
<1>16. Moved(s, r, x, A, P) /\ NextMessage(s, x) \in r.sent
    <2>1. Moved(s, sent, x, A, P)
        BY <1>1, <1>5, <1>9, MovedTrans
    <2>2. Moved(s, t, x, A, P)
        BY <1>1, <2>1, <1>13, MovedTrans
    <2>3. Moved(s, r, x, A, P)
        BY <1>1, <2>2, <1>15, MovedTrans
    <2> QED BY <2>3, <1>9, <1>13, <1>15 DEF Moved
<1>17. r.ec[x].entry = ctr /\ ~r.ec[x].send
       /\ (r.ec[x].state = "closed" \/ (r.ec[x].state = "open" /\ r.ec[x].resp))
    <2>1. CASE Done(d)
        BY <1>4, <1>14, <1>15, <2>1 DEF Shut
    <2>2. CASE ~Done(d)
        BY <1>14, <1>15, <2>2 DEF Done
    <2> QED BY <2>1, <2>2
<1> QED BY <1>4, <1>12, <1>16, <1>17 DEF ctr, Said

\* A send that fails leaves the exchange as it was.
LEMMA SendMessageFails ==
    ASSUME NEW s, Sane(s), NEW x \in Exchanges, NEW e, NEW A, NEW P,
           s.ec[x].entry = 0, Exhausted(s)
    PROVE  /\ Moved(s, SendMessage(s, x, e), x, A, P)
           /\ Kept(s.ec[x], SendMessage(s, x, e).ec[x])
<1> DEFINE c == [s.ec[x] EXCEPT !.ackPending = FALSE]
           took == Put(s, x, c)
           b == FALSE
           t == [took EXCEPT !.active = b]
<1>1. /\ s \in Node /\ s.ec[x] \in Context
      /\ s.ec[x].ackCtr \in Counters \cup {0} /\ Received(s.rx, s.ec[x].ackCtr)
    BY AckReceived
<1>2. c \in Context /\ Kept(s.ec[x], c) /\ c.ackCtr = s.ec[x].ackCtr
    BY <1>1 DEF Context, Kept
<1>3. [s EXCEPT !.ec[x].ackPending = FALSE] = took
    BY <1>1 DEF Node, Put
<1>4. SendMessage(s, x, e) = t
    BY <1>3 DEF SendMessage
<1>5. b \in BOOLEAN
    OBVIOUS
<1> HIDE DEF c, b
<1>6. Moved(s, took, x, A, P) /\ took.ec[x] = c
    BY <1>1, <1>2, PutMoved
<1> HIDE DEF took
<1>7. Moved(took, t, x, A, P) /\ t.ec = took.ec
    BY <1>5, <1>6, ActiveMoved, Zenon DEF Moved
<1> HIDE DEF t
<1>8. Moved(s, t, x, A, P)
    BY <1>1, <1>6, <1>7, MovedTrans
<1> QED BY <1>2, <1>4, <1>6, <1>7, <1>8

--------------------------------------------------------------------------------
(* What HandleMessage does *)

\* The handler leaves no more to do in exchange x than there was.
Quieted(s, t, x, A) ==
    Moved(s, t, x, A, {}) /\ Shrunk(s.ec[x], t.ec[x]) /\ Good(t.ec[x])

\* A duplicate is acknowledged; a standalone acknowledgement ends the retransmission.
LEMMA HandleMessageQuiet ==
    ASSUME NEW s, Sane(s), NEW x \in Exchanges, NEW m \in Message, NEW dup \in BOOLEAN,
           NEW reply, NEW A, Good(s.ec[x]), s.ec[x].state # "none",
           \/ dup /\ m.app /\ Received(s.rx, m.ctr)
           \/ ~dup /\ ~m.app /\ (m.ack # 0 => m.ack \in A)
    PROVE  Quieted(s, HandleMessage(s, x, m, dup, reply), x, A)
<1> DEFINE a == IF dup THEN s ELSE HandleRcvdAck(s, x, m)
           b == IF m.app THEN HandleNeedsAck(a, x, m, dup) ELSE a
           c == IF b.ec[x].state = "closed" THEN FlushAcks(b, x) ELSE b
           t == Released(c, x)
           old == s.ec[x]
<1>0. s \in Node /\ old \in Context
    BY AckReceived
<1>1. HandleMessage(s, x, m, dup, reply) = t
    BY DEF HandleMessage
<1>2. /\ Moved(s, b, x, A, {})
      /\ b.ec[x].state = old.state /\ b.ec[x].resp = old.resp /\ b.ec[x].send = old.send
      /\ b.ec[x].entry \in {0, old.entry}
      /\ old.ackCtr # 0 => b.ec[x].ackCtr = old.ackCtr
    <2>1. CASE dup
        <3>1. b = HandleNeedsAck(s, x, m, dup)
            BY <2>1
        <3> HIDE DEF b
        <3>2. AckNoted(s, b, x, m, dup, A, {})
            BY <2>1, <3>1, HandleNeedsAckMoved
        <3> QED BY <2>1, <3>2 DEF AckNoted
    <2>2. CASE ~dup
        <3>1. b = HandleRcvdAck(s, x, m)
            BY <2>2
        <3> HIDE DEF b
        <3>2. AckHandled(s, b, x, m, A, {})
            BY <2>2, <3>1, HandleRcvdAckMoved
        <3> QED BY <3>2 DEF AckHandled
    <2> QED BY <2>1, <2>2
<1> HIDE DEF b
<1>3. Sane(b)
    BY <1>2 DEF Moved
<1>4. Moved(b, c, x, A, {}) /\ Kept(b.ec[x], c.ec[x])
    <2>1. Moved(b, b, x, A, {}) /\ Kept(b.ec[x], b.ec[x])
        BY <1>3, MovedItself DEF Kept
    <2>2. Moved(b, FlushAcks(b, x), x, A, {}) /\ Kept(b.ec[x], FlushAcks(b, x).ec[x])
        BY <1>3, FlushAcksMoved
    <2> QED BY <2>1, <2>2
<1> HIDE DEF c
<1>5. /\ Moved(c, t, x, A, {})
      /\ t.ec[x] = IF c.ec[x].state = "closed" /\ c.ec[x].entry = 0
                   THEN NoContext ELSE c.ec[x]
    BY <1>4, ReleasedMoved DEF Moved
<1> HIDE DEF t
<1>6. Moved(s, t, x, A, {})
    <2>1. Moved(s, c, x, A, {})
        BY <1>0, <1>2, <1>4, MovedTrans
    <2> QED BY <1>0, <1>5, <2>1, MovedTrans
<1>7. /\ c.ec[x].state = old.state /\ c.ec[x].resp = old.resp /\ c.ec[x].send = old.send
      /\ c.ec[x].entry \in {0, old.entry}
      /\ old.ackCtr # 0 => c.ec[x].ackCtr = old.ackCtr
    BY <1>2, <1>4 DEF Kept
<1>8. old.state \in {"open", "closed"}
    BY <1>0 DEF Context
<1> HIDE DEF old
<1>9. CASE c.ec[x].state = "closed" /\ c.ec[x].entry = 0
    <2>1. t.ec[x] = NoContext
        BY <1>5, <1>9
    <2>2. Shrunk(old, NoContext) /\ Good(NoContext)
        BY DEF Shrunk, Good, NoContext
    <2> QED BY <1>1, <1>6, <2>1, <2>2 DEF Quieted, old
<1>10. CASE ~(c.ec[x].state = "closed" /\ c.ec[x].entry = 0)
    <2> DEFINE d == c.ec[x]
    <2>1. t.ec[x] = d
        BY <1>5, <1>10
    <2>2. Good(old)
        BY DEF old
    <2> HIDE DEF d
    <2>3. Shrunk(old, d)
        BY <1>7, <1>8 DEF Shrunk, d
    <2>4. Good(d)
        BY <1>7, <1>8, <1>10, <2>2 DEF Good, d
    <2> QED BY <1>1, <1>6, <2>1, <2>3, <2>4 DEF Quieted, old
<1> QED BY <1>9, <1>10

\* The three ways in which the handling of a new message can end: the context is gone,
\* it waits for the application to send, or the application has answered.
Ended(s, t, x, A) == Moved(s, t, x, A, {}) /\ t.ec[x] = NoContext
Waits(s, t, x, A, c) ==
    /\ Moved(s, t, x, A, {})
    /\ t.ec[x].state = "open" /\ t.ec[x].send /\ t.ec[x].entry = 0
    /\ ~Exhausted(t) => t.ec[x].ackCtr = c
Answers(s, t, x, A, ack) ==
    \E p \in t.sent :
        /\ Moved(s, t, x, A, {p})
        /\ p.app /\ p.x = x /\ p.ack = ack /\ p.ctr > s.last
        /\ t.ec[x].entry = p.ctr /\ p.ctr # 0 /\ ~t.ec[x].send
        /\ t.ec[x].state = "closed" \/ (t.ec[x].state = "open" /\ t.ec[x].resp)

LEMMA GivenMoved ==
    ASSUME NEW s, Sane(s), NEW x \in Exchanges, NEW c \in Counters, NEW A, NEW P
    PROVE  LET t == [s EXCEPT !.given[c] = IF @ = 2 THEN 2 ELSE @ + 1]
           IN  Moved(s, t, x, A, P) /\ t.ec = s.ec /\ t.last = s.last
<1> DEFINE g == [s.given EXCEPT ![c] = IF @ = 2 THEN 2 ELSE @ + 1]
           t == [s EXCEPT !.given[c] = IF @ = 2 THEN 2 ELSE @ + 1]
<1>1. s \in Node /\ s.last \in Int
    BY LastType DEF Sane
<1>2. g \in [Counters -> 0 .. 2]
    BY <1>1 DEF Node
<1>3. t = [s EXCEPT !.given = g]
    BY <1>1 DEF Node
<1> HIDE DEF g, t
<1>4. /\ t \in Node /\ t.ec = s.ec
      /\ t.rx = s.rx /\ t.turnedAway = s.turnedAway /\ t.died = s.died
      /\ t.dropped = s.dropped /\ t.acked = s.acked /\ t.last = s.last /\ t.sent = s.sent
    BY <1>1, <1>2, <1>3 DEF Node
<1>5. Acks(t) /\ Numbered(t)
    BY <1>4 DEF Acks, Numbered, Sane
<1>6. Moved(s, t, x, A, P)
    BY <1>1, <1>4, <1>5 DEF Moved, Sane
<1> QED BY <1>4, <1>6 DEF t

\* What the application does with a message it is given.
LEMMA DeliverMoved ==
    ASSUME NEW s, Sane(s), NEW x \in Exchanges, NEW m \in Message, NEW reply \in RepliesType,
           NEW A, s.ec[x].state = "open", ~s.ec[x].resp, ~s.ec[x].send, s.ec[x].entry = 0,
           ~Exhausted(s) => s.ec[x].ackCtr = m.ctr
    PROVE  LET t == MessageHandled(Deliver(s, x, m, reply), x)
           IN  Ended(s, t, x, A) \/ Waits(s, t, x, A, m.ctr) \/ Answers(s, t, x, A, m.ctr)
<1> DEFINE g == [s EXCEPT !.given[m.ctr] = IF @ = 2 THEN 2 ELSE @ + 1]
           e == Deliver(s, x, m, reply)
           t == MessageHandled(e, x)
           p == NextMessage(s, x)
<1> SUFFICES Ended(s, t, x, A) \/ Waits(s, t, x, A, m.ctr) \/ Answers(s, t, x, A, m.ctr)
    OBVIOUS
<1>0. m.ctr \in Counters /\ s \in Node /\ s.ec[x] \in Context /\ s.last \in Int
    BY AckReceived, LastType DEF Message
<1>1. \A P : Moved(s, g, x, A, P) /\ g.ec = s.ec /\ g.last = s.last
    BY <1>0, GivenMoved
<1>2. reply \in Uses => e = CASE reply = "none" -> g
          [] reply = "later" -> [g EXCEPT !.ec[x].send = TRUE]
          [] reply = "last" -> SendMessage(g, x, FALSE)
          [] reply = "more" -> SendMessage(g, x, TRUE)
    BY DEF Deliver, Uses, Refusals
<1>r. reply \in Refusals => e = s
    BY DeliverRefused
<1> HIDE DEF g, e
<1>3. Sane(g) /\ g.ec[x] = s.ec[x] /\ (Exhausted(g) <=> Exhausted(s)) /\ g \in Node
    BY <1>1 DEF Moved, Exhausted, Sane
<1>4. NextMessage(g, x) = p
    BY <1>1 DEF NextMessage
\* With nothing more to expect the context is closed.
<1>5. ASSUME NEW u, Moved(s, u, x, A, {}), Kept(s.ec[x], u.ec[x]), e = u
      PROVE  Ended(s, t, x, A)
    <2>1. Done(u.ec[x]) /\ u.ec[x].entry = 0
        BY <1>5 DEF Kept, Done
    <2>2. Moved(u, t, x, A, {}) /\ Shut(u.ec[x], t.ec[x])
        <3>1. Sane(u)
            BY <1>5 DEF Moved
        <3>2. t = MessageHandled(u, x)
            BY <1>5
        <3> HIDE DEF t
        <3> QED BY <2>1, <3>1, <3>2, MessageHandledMoved
    <2> HIDE DEF t
    <2>3. Moved(s, t, x, A, {})
        BY <1>0, <1>5, <2>2, MovedTrans
    <2> QED BY <2>1, <2>2, <2>3 DEF Shut, Ended
<1>6. CASE reply = "none"
    <2>1. e = g /\ Kept(s.ec[x], g.ec[x])
        BY <1>2, <1>3, <1>6 DEF Kept, Uses
    <2> QED BY <1>1, <1>5, <2>1
<1>7. CASE reply = "later"
    <2> DEFINE c == [g.ec[x] EXCEPT !.send = TRUE]
    <2>1. /\ c \in Context /\ c.state = "open" /\ c.send = TRUE /\ c.entry = 0
          /\ c.ackCtr = s.ec[x].ackCtr
        BY <1>0, <1>3 DEF Context
    <2>2. e = Put(g, x, c)
        BY <1>2, <1>3, <1>7 DEF Put, Node, Uses
    <2> HIDE DEF c
    <2>3. Received(g.rx, c.ackCtr)
        BY <1>3, <2>1, AckReceived
    <2>4. Moved(g, e, x, A, {}) /\ e.ec[x] = c
        BY <1>3, <2>1, <2>2, <2>3, PutMoved
    <2>5. ~Done(e.ec[x])
        BY <2>1, <2>4 DEF Done
    <2>6. Moved(e, t, x, A, {}) /\ t.ec[x] = c
        BY <2>4, <2>5, MessageHandledMoved DEF Moved
    <2> HIDE DEF t
    <2>7. Moved(s, t, x, A, {})
        <3>1. Moved(s, e, x, A, {})
            BY <1>0, <1>1, <2>4, MovedTrans
        <3> QED BY <1>0, <2>6, <3>1, MovedTrans
    <2>8. ~Exhausted(t) => ~Exhausted(s)
        <3>1. s.last <= t.last /\ t.last \in 0 .. kMessageCounterMax /\ kMessageCounterMax \in Int
            BY <1>0, <2>7, LastType DEF Moved, Sane, Node
        <3> QED BY <1>0, <3>1 DEF Exhausted
    <2> QED BY <2>1, <2>6, <2>7, <2>8 DEF Waits, t
<1>8. ASSUME NEW b \in BOOLEAN, e = SendMessage(g, x, b)
      PROVE  Ended(s, t, x, A) \/ Answers(s, t, x, A, m.ctr)
    <2>1. CASE Exhausted(s)
        <3>1. Moved(g, e, x, A, {}) /\ Kept(g.ec[x], e.ec[x])
            BY <1>3, <1>8, <2>1, SendMessageFails
        <3>2. Moved(s, e, x, A, {})
            BY <1>0, <1>1, <3>1, MovedTrans
        <3> QED BY <1>3, <1>5, <3>1, <3>2
    <2>2. CASE ~Exhausted(s)
        <3>1. Said(g, e, x, A, {p})
            BY <1>3, <1>4, <1>8, <2>2, SendMessageMoved
        <3>2. p.app /\ p.x = x /\ p.ack = m.ctr /\ p.ctr = s.last + 1
            BY <2>2 DEF NextMessage
        <3> HIDE DEF p
        <3>3. /\ Moved(g, e, x, A, {p}) /\ p \in e.sent
              /\ e.ec[x].entry = p.ctr /\ e.ec[x].entry # 0 /\ ~e.ec[x].send
              /\ e.ec[x].state = "closed" \/ (e.ec[x].state = "open" /\ e.ec[x].resp)
            BY <1>1, <1>4, <3>1, <3>2 DEF Said
        <3>4. ~Done(e.ec[x])
            BY <3>3 DEF Done
        <3>5. Moved(e, t, x, A, {p}) /\ t.ec[x] = e.ec[x]
            BY <3>3, <3>4, MessageHandledMoved DEF Moved
        <3> HIDE DEF t
        <3>6. Moved(s, t, x, A, {p})
            <4>1. Moved(s, e, x, A, {p})
                BY <1>0, <1>1, <3>3, MovedTrans
            <4> QED BY <1>0, <3>5, <4>1, MovedTrans
        <3>7. p \in t.sent
            BY <3>3, <3>5 DEF Moved
        <3>8. p.ctr > s.last
            BY <1>0, <3>2
        <3> QED BY <3>2, <3>3, <3>5, <3>6, <3>7, <3>8 DEF Answers
    <2> QED BY <2>1, <2>2
<1>9. CASE reply \in {"last", "more"}
    <2>1. \E b \in BOOLEAN : e = SendMessage(g, x, b)
        <3>1. TRUE \in BOOLEAN /\ FALSE \in BOOLEAN
            OBVIOUS
        <3>2. e = SendMessage(g, x, FALSE) \/ e = SendMessage(g, x, TRUE)
            BY <1>2, <1>9 DEF Uses
        <3> QED BY <3>1, <3>2, Zenon
    <2> QED BY <1>8, <2>1
<1>10. CASE reply \in Refusals
    <2>1. Moved(s, s, x, A, {}) /\ Kept(s.ec[x], s.ec[x])
        BY MovedItself DEF Kept
    <2> QED BY <1>5, <1>r, <1>10, <2>1
<1> QED BY <1>6, <1>7, <1>9, <1>10 DEF RepliesType, Uses

\* How the handling of message c can end.
Outcome(s, t, x, A, c) == Ended(s, t, x, A) \/ Waits(s, t, x, A, c) \/ Answers(s, t, x, A, c)

LEMMA OutcomeFollows ==
    ASSUME NEW s \in Node, NEW d \in Node, NEW h, NEW x, NEW A, NEW c,
           Moved(s, d, x, A, {}), Outcome(d, h, x, A, c)
    PROVE  Outcome(s, h, x, A, c)
<1>1. CASE Ended(d, h, x, A) \/ Waits(d, h, x, A, c)
    BY <1>1, MovedTrans DEF Ended, Waits, Outcome
<1>2. CASE Answers(d, h, x, A, c)
    <2>1. PICK p \in h.sent :
            /\ Moved(d, h, x, A, {p})
            /\ p.app /\ p.x = x /\ p.ack = c /\ p.ctr > d.last
            /\ h.ec[x].entry = p.ctr /\ p.ctr # 0 /\ ~h.ec[x].send
            /\ h.ec[x].state = "closed" \/ (h.ec[x].state = "open" /\ h.ec[x].resp)
        BY <1>2 DEF Answers
    <2>2. Moved(s, d, x, A, {p})
        BY MovedMore
    <2>3. Moved(s, h, x, A, {p})
        BY <2>1, <2>2, MovedTrans
    <2>4. p.ctr > s.last
        <3>1. s.last <= d.last /\ s.last \in Int /\ d.last \in Int
            BY LastType DEF Moved
        <3>2. p.ctr \in Int
            BY <2>1 DEF Moved, Sane, Node, Message, Counters
        <3> QED BY <2>1, <3>1, <3>2
    <2> QED BY <2>1, <2>3, <2>4 DEF Answers, Outcome
<1> QED BY <1>1, <1>2 DEF Outcome

\* A new message whose acknowledgement, if we wait for one, is for our last message.
HandledNew(s, t, x, A, c, reply) ==
    /\ Outcome(s, t, x, A, c)
    /\ s.ec[x].state = "closed" \/ reply \in Refusals \/ Delivered(s, t, c)

LEMMA HandleMessageNew ==
    ASSUME NEW s, Sane(s), NEW x \in Exchanges, NEW m \in Message, NEW dup \in BOOLEAN,
           NEW reply \in RepliesType, NEW A, ~dup, m.app, Received(s.rx, m.ctr),
           m.ack # 0 => m.ack \in A, s.ec[x].state # "none", ~s.ec[x].send,
           s.ec[x].entry # 0 => s.ec[x].entry = m.ack
    PROVE  HandledNew(s, HandleMessage(s, x, m, dup, reply), x, A, m.ctr, reply)
<1> DEFINE a == HandleRcvdAck(s, x, m)
           b == HandleNeedsAck(a, x, m, dup)
           c == IF b.ec[x].state = "closed" THEN FlushAcks(b, x) ELSE b
           d == [c EXCEPT !.ec[x].resp = FALSE]
           h == IF c.ec[x].state = "closed" THEN c
                ELSE MessageHandled(Deliver(d, x, m, reply), x)
           t == Released(h, x)
<1>0. s \in Node /\ s.ec[x] \in Context
    BY AckReceived
<1>1. AckHandled(s, a, x, m, A, {}) /\ Same(s, a)
    BY <1>0, HandleRcvdAckMoved, HandleRcvdAckSame
<1>2. HandleMessage(s, x, m, dup, reply) =
          Released(IF c.ec[x].entry # 0 THEN MessageHandled([c EXCEPT !.dropped = TRUE], x)
                   ELSE h, x)
    BY DEF HandleMessage
<1> HIDE DEF a
<1>3. /\ Moved(s, a, x, A, {}) /\ Sane(a) /\ a.rx = s.rx /\ a \in Node
      /\ a.ec[x].state = s.ec[x].state /\ a.ec[x].entry = 0 /\ ~a.ec[x].send
    BY <1>1 DEF AckHandled, Moved, Sane
<1>4. AckNoted(a, b, x, m, dup, A, {}) /\ Same(a, b)
    BY <1>3, HandleNeedsAckMoved, HandleNeedsAckSame
<1> HIDE DEF b
<1>5. /\ Moved(s, b, x, A, {}) /\ Sane(b) /\ b \in Node
      /\ b.ec[x].state = s.ec[x].state /\ b.ec[x].entry = 0 /\ ~b.ec[x].send
      /\ ~Exhausted(b) => b.ec[x].ackCtr = m.ctr
    <2>1. Moved(a, b, x, A, {})
        BY <1>4 DEF AckNoted
    <2>2. Moved(s, b, x, A, {})
        BY <1>0, <1>3, <2>1, MovedTrans
    <2> QED BY <1>3, <1>4, <2>2 DEF AckNoted, Moved, Sane
<1>6. /\ Moved(s, c, x, A, {}) /\ Sane(c) /\ c \in Node /\ Same(b, c)
      /\ c.ec[x].state = s.ec[x].state /\ c.ec[x].entry = 0 /\ ~c.ec[x].send
      /\ c.ec[x].state # "closed" => c = b
    <2>1. Moved(b, FlushAcks(b, x), x, A, {}) /\ Kept(b.ec[x], FlushAcks(b, x).ec[x])
        BY <1>5, FlushAcksMoved
    <2>2. Moved(s, FlushAcks(b, x), x, A, {})
        BY <1>0, <1>5, <2>1, MovedTrans
    <2>3. Same(b, FlushAcks(b, x)) /\ Same(b, b)
        BY <1>5, FlushAcksSame DEF Same
    <2>4. CASE b.ec[x].state = "closed"
        <3>1. c = FlushAcks(b, x)
            BY <2>4
        <3> HIDE DEF c
        <3> QED BY <1>5, <2>1, <2>2, <2>3, <2>4, <3>1 DEF Kept, Moved, Sane
    <2>5. CASE b.ec[x].state # "closed"
        <3>1. c = b
            BY <2>5
        <3> HIDE DEF c
        <3> QED BY <1>5, <2>3, <3>1
    <2> QED BY <2>4, <2>5
<1> HIDE DEF c
<1>7. HandleMessage(s, x, m, dup, reply) = t
    BY <1>2, <1>6
<1>8. CASE c.ec[x].state = "closed"
    <2>1. h = c
        BY <1>8
    <2>2. Moved(c, t, x, A, {}) /\ t.ec[x] = NoContext
        BY <1>6, <1>8, <2>1, ReleasedMoved
    <2> HIDE DEF t
    <2>3. Moved(s, t, x, A, {})
        BY <1>0, <1>6, <2>2, MovedTrans
    <2> QED BY <1>6, <1>7, <1>8, <2>2, <2>3 DEF HandledNew, Outcome, Ended
<1>9. CASE c.ec[x].state # "closed"
    <2> DEFINE k == [c.ec[x] EXCEPT !.resp = FALSE]
    <2>1. c.ec[x] \in Context /\ c.ec[x].state = "open" /\ Received(c.rx, c.ec[x].ackCtr)
        BY <1>0, <1>6, <1>9, AckReceived DEF Context
    <2>2. /\ k \in Context /\ k.state = "open" /\ k.resp = FALSE /\ k.send = c.ec[x].send
          /\ k.entry = c.ec[x].entry /\ k.ackCtr = c.ec[x].ackCtr
        BY <2>1 DEF Context
    <2>3. d = Put(c, x, k)
        BY <1>6 DEF Put, Node
    <2>4. d.last = c.last /\ Same(c, d)
        BY <1>6, <2>2, <2>3 DEF Put, Node, Same
    <2> HIDE DEF k, d
    <2>5. Moved(c, d, x, A, {}) /\ d.ec[x] = k
        BY <1>6, <2>1, <2>2, <2>3, PutMoved
    <2>6. Sane(d) /\ ~Exhausted(d) => d.ec[x].ackCtr = m.ctr
        BY <1>5, <1>6, <1>9, <2>2, <2>4, <2>5 DEF Exhausted
    <2>7. h = MessageHandled(Deliver(d, x, m, reply), x)
        BY <1>9
    <2>8. Ended(d, h, x, A) \/ Waits(d, h, x, A, m.ctr) \/ Answers(d, h, x, A, m.ctr)
        BY <1>6, <2>2, <2>5, <2>6, <2>7, DeliverMoved DEF Moved
    <2>9. reply \notin Refusals => Delivered(s, h, m.ctr)
        <3> SUFFICES ASSUME reply \in Uses PROVE Delivered(s, h, m.ctr)
            BY DEF RepliesType
        <3>1. Delivered(d, Deliver(d, x, m, reply), m.ctr)
            BY <2>4, DeliverDelivers DEF Same
        <3>2. Same(Deliver(d, x, m, reply), h)
            BY <2>7, <3>1, MessageHandledSame DEF Delivered
        <3> QED BY <1>1, <1>4, <1>6, <2>4, <3>1, <3>2 DEF Same, Delivered
    <2> HIDE DEF h
    <2>10. Moved(s, d, x, A, {}) /\ d \in Node
        BY <1>0, <1>6, <2>4, <2>5, MovedTrans DEF Same
    <2>11. Ended(s, h, x, A) \/ Waits(s, h, x, A, m.ctr) \/ Answers(s, h, x, A, m.ctr)
        BY <1>0, <2>8, <2>10, OutcomeFollows DEF Outcome
    <2>12. t = h
        <3>1. ~(h.ec[x].state = "closed" /\ h.ec[x].entry = 0)
            <4>1. CASE Ended(s, h, x, A)
                BY <4>1 DEF Ended, NoContext
            <4>2. CASE Waits(s, h, x, A, m.ctr)
                BY <4>2 DEF Waits
            <4>3. CASE Answers(s, h, x, A, m.ctr)
                BY <4>3 DEF Answers
            <4> QED BY <2>11, <4>1, <4>2, <4>3
        <3> QED BY <3>1 DEF Released
    <2> QED BY <1>7, <2>9, <2>11, <2>12 DEF HandledNew, Outcome
<1> QED BY <1>8, <1>9

--------------------------------------------------------------------------------
(* The two ends of an exchange *)

\* The application messages of exchange x that o has sent and s has not received.
Fresh(s, o, x) == {m \in o.sent : m.app /\ m.x = x /\ Verify(s.rx, m.ctr, FALSE)}

\* Whose turn it is in exchange x, seen from s: one message is on its way, or one end has
\* announced an answer.  A message on its way acknowledges what its receiver still
\* retransmits, and is what its sender still retransmits.
Turn(s, o, x) ==
    /\ \A a, b \in Fresh(s, o, x) : a = b
    /\ \A m \in Fresh(s, o, x) :
          /\ ~s.ec[x].send /\ ~o.ec[x].send /\ Fresh(o, s, x) = {}
          /\ s.ec[x].entry # 0 => m.ack = s.ec[x].entry
          /\ o.ec[x].entry # 0 => m.ctr = o.ec[x].entry
    /\ s.ec[x].send =>
          /\ ~o.ec[x].send
          /\ ~Exhausted(s) => /\ s.ec[x].ackCtr # 0
                              /\ o.ec[x].entry # 0 => s.ec[x].ackCtr = o.ec[x].entry

LEMMA ExhaustedStays ==
    ASSUME NEW s \in Node, NEW t \in Node, s.last <= t.last, Exhausted(s)
    PROVE  Exhausted(t)
<1>1. t.last \in 0 .. kMessageCounterMax /\ kMessageCounterMax \in Int /\ s.last \in Int
    BY LastType DEF Node
<1> QED BY <1>1 DEF Exhausted

LEMMA TurnShrinks ==
    ASSUME NEW s \in Node, NEW t \in Node, NEW o, NEW x, Turn(s, o, x), Turn(o, s, x),
           Shrunk(s.ec[x], t.ec[x]), s.last <= t.last,
           Fresh(t, o, x) \subseteq Fresh(s, o, x), Fresh(o, t, x) \subseteq Fresh(o, s, x)
    PROVE  Turn(t, o, x) /\ Turn(o, t, x)
<1>1. Exhausted(s) => Exhausted(t)
    BY ExhaustedStays
<1>2. Turn(t, o, x)
    <2>1. \A a, b \in Fresh(t, o, x) : a = b
        BY DEF Turn
    <2>2. \A m \in Fresh(t, o, x) :
             /\ ~t.ec[x].send /\ ~o.ec[x].send /\ Fresh(o, t, x) = {}
             /\ t.ec[x].entry # 0 => m.ack = t.ec[x].entry
             /\ o.ec[x].entry # 0 => m.ctr = o.ec[x].entry
        BY DEF Turn, Shrunk
    <2>3. t.ec[x].send =>
             /\ ~o.ec[x].send
             /\ ~Exhausted(t) => /\ t.ec[x].ackCtr # 0
                                 /\ o.ec[x].entry # 0 => t.ec[x].ackCtr = o.ec[x].entry
        BY <1>1 DEF Turn, Shrunk
    <2> QED BY <2>1, <2>2, <2>3 DEF Turn
<1>3. Turn(o, t, x)
    <2>1. \A a, b \in Fresh(o, t, x) : a = b
        BY DEF Turn
    <2>2. \A m \in Fresh(o, t, x) :
             /\ ~o.ec[x].send /\ ~t.ec[x].send /\ Fresh(t, o, x) = {}
             /\ o.ec[x].entry # 0 => m.ack = o.ec[x].entry
             /\ t.ec[x].entry # 0 => m.ctr = t.ec[x].entry
        BY DEF Turn, Shrunk
    <2>3. o.ec[x].send =>
             /\ ~t.ec[x].send
             /\ ~Exhausted(o) => /\ o.ec[x].ackCtr # 0
                                 /\ t.ec[x].entry # 0 => o.ec[x].ackCtr = t.ec[x].entry
        BY DEF Turn, Shrunk
    <2> QED BY <2>1, <2>2, <2>3 DEF Turn
<1> QED BY <1>2, <1>3

LEMMA TurnOver ==
    ASSUME NEW t, NEW o, NEW x, Fresh(t, o, x) = {}, Fresh(o, t, x) = {},
           ~t.ec[x].send, ~o.ec[x].send
    PROVE  Turn(t, o, x) /\ Turn(o, t, x)
BY DEF Turn

LEMMA TurnWaits ==
    ASSUME NEW t, NEW o, NEW x, Fresh(t, o, x) = {}, Fresh(o, t, x) = {},
           t.ec[x].send, ~o.ec[x].send,
           ~Exhausted(t) => /\ t.ec[x].ackCtr # 0
                            /\ o.ec[x].entry # 0 => t.ec[x].ackCtr = o.ec[x].entry
    PROVE  Turn(t, o, x) /\ Turn(o, t, x)
BY DEF Turn

LEMMA TurnPasses ==
    ASSUME NEW t, NEW o, NEW x, NEW p, Fresh(t, o, x) = {}, Fresh(o, t, x) \subseteq {p},
           ~t.ec[x].send, ~o.ec[x].send, o.ec[x].entry # 0 => p.ack = o.ec[x].entry,
           t.ec[x].entry = p.ctr
    PROVE  Turn(t, o, x) /\ Turn(o, t, x)
<1>1. Turn(t, o, x)
    BY DEF Turn
<1>2. Turn(o, t, x)
    BY DEF Turn
<1> QED BY <1>1, <1>2

LEMMA FreshMoved ==
    ASSUME NEW s, NEW t, NEW o, NEW x, NEW A, NEW P, Moved(s, t, x, A, P), NEW y
    PROVE  /\ Fresh(t, o, y) = Fresh(s, o, y)
           /\ Fresh(o, t, y) \subseteq Fresh(o, s, y) \cup {p \in P : p.x = y}
BY DEF Moved, Fresh

LEMMA ShrunkItself == ASSUME NEW c PROVE Shrunk(c, c)
BY DEF Shrunk

--------------------------------------------------------------------------------
(* The window moves on *)

LEMMA CommitMax ==
    ASSUME NEW p \in Synced, NEW c \in Counter, Verify(p, c, FALSE)
    PROVE  /\ Commit(p, c, FALSE).max = IF c > p.max THEN c ELSE p.max
           /\ Commit(p, c, FALSE).max \in Int /\ p.max \in Int /\ c \in Int
<1> DEFINE q == Commit(p, c, FALSE)
<1>0. p.max \in Int /\ c \in Int
    BY DEF Synced, Counter
<1>1. CASE c > p.max
    <2>1. Position(p, c, FALSE) = "FutureCounter"
        BY <1>1 DEF Position, IsFuture
    <2>2. q.max = c
        BY <2>1 DEF Commit
    <2> HIDE DEF q
    <2> QED BY <1>0, <1>1, <2>2 DEF q
<1>2. CASE ~(c > p.max)
    <2>1. Position(p, c, FALSE) = "InWindow"
        BY <1>2 DEF Verify, Position, IsFuture
    <2>2. q.max = p.max
        BY <2>1 DEF Commit, Synced
    <2> HIDE DEF q
    <2> QED BY <1>0, <1>2, <2>2 DEF q
<1> QED BY <1>1, <1>2

\* What is no longer accepted was committed or has left the window.
LEMMA PushedOut ==
    ASSUME NEW p \in Synced, NEW a \in Counter, NEW c \in Counter, a # c,
           Verify(p, a, FALSE), Verify(p, c, FALSE), ~Verify(Commit(p, c, FALSE), a, FALSE)
    PROVE  Commit(p, c, FALSE).max - a > WINDOW_SIZE
<1> DEFINE q == Commit(p, c, FALSE)
<1>0. /\ p.max \in Nat /\ p.window \subseteq 1 .. WINDOW_SIZE /\ a \in Nat /\ c \in Nat
      /\ WINDOW_SIZE \in Nat /\ a < CounterMod /\ c < CounterMod /\ p.max < CounterMod
      /\ CounterMod \in Nat
    BY CounterAssumption DEF Synced, Window, Counter
<1>1. a > p.max \/ (a < p.max /\ p.max - a <= WINDOW_SIZE /\ p.max - a \notin p.window)
    BY <1>0 DEF Verify, Position, IsFuture, Sub
<1>2. c > p.max \/ (c < p.max /\ p.max - c <= WINDOW_SIZE /\ p.max - c \notin p.window)
    BY <1>0 DEF Verify, Position, IsFuture, Sub
<1>3. CASE c > p.max
    <2>1. Position(p, c, FALSE) = "FutureCounter" /\ Sub(c, p.max) = c - p.max
        BY <1>0, <1>3 DEF Position, IsFuture, Sub
    <2>2. q.max = c /\ q.window = Shifted(p, c - p.max)
        BY <2>1 DEF Commit
    <2> HIDE DEF q
    <2>3. a < c /\ Sub(c, a) = c - a
        <3>1. ~(a > c)
            <4>1. ASSUME a > c PROVE Verify(q, a, FALSE)
                BY <2>2, <4>1 DEF Verify, Position, IsFuture
            <4> QED BY <4>1 DEF q
        <3> QED BY <1>0, <3>1 DEF Sub
    <2>4. c - a \notin Shifted(p, c - p.max)
        <3>1. CASE a > p.max
            <4>1. c - a # c - p.max /\ (c - a) - (c - p.max) < 0
                BY <1>0, <3>1
            <4> QED BY <1>0, <4>1 DEF Shifted
        <3>2. CASE a < p.max /\ p.max - a \notin p.window
            <4>1. c - a # c - p.max /\ (c - a) - (c - p.max) = p.max - a
                BY <1>0, <3>2
            <4> QED BY <3>2, <4>1 DEF Shifted
        <3> QED BY <1>1, <3>1, <3>2
    <2>5. ASSUME c - a <= WINDOW_SIZE PROVE FALSE
        <3>1. Position(q, a, FALSE) = "InWindow"
            BY <1>0, <2>2, <2>3, <2>5 DEF Position, IsFuture
        <3>2. Verify(q, a, FALSE)
            BY <2>2, <2>3, <2>4, <3>1 DEF Verify
        <3> QED BY <3>2 DEF q
    <2>6. q.max - a > WINDOW_SIZE
        BY <1>0, <2>2, <2>5
    <2> QED BY <2>6 DEF q
<1>4. CASE c < p.max /\ p.max - c <= WINDOW_SIZE
    <2>1. Position(p, c, FALSE) = "InWindow" /\ Sub(p.max, c) = p.max - c
        BY <1>0, <1>4 DEF Position, IsFuture, Sub
    <2>2. q.max = p.max /\ q.window = p.window \cup {p.max - c}
        BY <2>1 DEF Commit, Synced
    <2> HIDE DEF q
    <2>3. Verify(q, a, FALSE)
        <3>1. CASE a > p.max
            BY <2>2, <3>1 DEF Verify, Position, IsFuture
        <3>2. CASE a < p.max /\ p.max - a <= WINDOW_SIZE /\ p.max - a \notin p.window
            <4>1. p.max - a # p.max - c /\ Sub(q.max, a) = p.max - a
                BY <1>0, <1>4, <2>2, <3>2 DEF Sub
            <4>2. Position(q, a, FALSE) = "InWindow"
                BY <1>0, <2>2, <3>2, <4>1 DEF Position, IsFuture
            <4> QED BY <2>2, <3>2, <4>1, <4>2 DEF Verify
        <3> QED BY <1>1, <3>1, <3>2
    <2> QED BY <2>3 DEF q
<1> QED BY <1>2, <1>3, <1>4

--------------------------------------------------------------------------------
(* The invariant of the two nodes *)

Request(m) == m.app /\ m.ack = 0

\* What became of a request that was received.
Served(s, c) == s.given[c] = 1 \/ c \in s.turnedAway \/ s.rx.max - c > WINDOW_SIZE

\* A request of o that s has not received finds no context of its exchange at s.
Heard(s, o) ==
    \A m \in o.sent : Request(m) =>
        IF Verify(s.rx, m.ctr, FALSE) THEN s.ec[m.x].state = "none" ELSE Served(s, m.ctr)

\* Node n requests in the exchanges it opens and has a part in another one only after the
\* peer has sent a message of it.
Started(n, s, o) ==
    /\ \A m \in s.sent : Request(m) => Opener[m.x] = n
    /\ \A x \in Exchanges :
          Opener[x] # n /\ (s.ec[x].state # "none" \/ \E m \in s.sent : m.x = x /\ m.app) =>
              \E m \in o.sent : m.x = x

\* What o has received is what s has sent, and what o acknowledged o has received.
Passed(s, o) == o.rx.max <= s.last /\ \A c \in s.acked : ~Verify(o.rx, c, FALSE)

\* The state s of node n and the state o of its peer.
Pair(n, s, o) ==
    /\ ~s.died /\ ~s.dropped /\ Sane(s)
    /\ Heard(s, o) /\ Started(n, s, o) /\ Passed(s, o)
    /\ \A x \in Exchanges : Good(s.ec[x]) /\ Turn(s, o, x)

\* A step from s to t of node n in exchange x, in which it sends the application
\* messages P.
Advanced(n, s, t, o, x, P) ==
    /\ Sane(t) /\ ~t.died /\ ~t.dropped
    /\ \A y \in Exchanges : y # x => t.ec[y] = s.ec[y]
    /\ s.last <= t.last /\ s.sent \subseteq t.sent
    /\ \A a \in t.sent : a \in s.sent \/ ~a.app \/ a \in P
    /\ t.rx.max <= o.last
    /\ \A c \in Counters : ~Verify(s.rx, c, FALSE) => ~Verify(t.rx, c, FALSE)
    /\ \A c \in t.acked : ~Verify(o.rx, c, FALSE)
    /\ Good(t.ec[x]) /\ Heard(t, o)
    /\ \A q \in P : /\ q.x = x
                    /\ Request(q) => /\ Opener[x] = n /\ Verify(o.rx, q.ctr, FALSE)
                                     /\ o.ec[x].state = "none"
    /\ Opener[x] # n /\ (t.ec[x].state # "none" \/ P # {}) => \E m \in o.sent : m.x = x
    /\ Turn(t, o, x) /\ Turn(o, t, x)

LEMMA PairAdvances ==
    ASSUME NEW n, NEW p, NEW s, NEW t, NEW o, NEW x, NEW P,
           Pair(n, s, o), Pair(p, o, s), Advanced(n, s, t, o, x, P)
    PROVE  Pair(n, t, o) /\ Pair(p, o, t)
<1>0. s \in Node /\ t \in Node /\ o \in Node
    BY DEF Pair, Advanced, Sane
<1>1. ASSUME NEW y \in Exchanges
      PROVE  Turn(t, o, y) /\ Turn(o, t, y)
    <2>1. CASE y = x
        BY <2>1 DEF Advanced
    <2>2. CASE y # x
        <3>1. Shrunk(s.ec[y], t.ec[y])
            BY <2>2, ShrunkItself DEF Advanced
        <3>2. \A m \in o.sent : m.ctr \in Counters
            BY <1>0 DEF Node, Message
        <3>3. Fresh(t, o, y) \subseteq Fresh(s, o, y)
            BY <3>2 DEF Fresh, Advanced
        <3>4. Fresh(o, t, y) \subseteq Fresh(o, s, y)
            BY <2>2 DEF Fresh, Advanced
        <3>5. Turn(s, o, y) /\ Turn(o, s, y) /\ s.last <= t.last
            BY DEF Pair, Advanced
        <3> QED BY <1>0, <3>1, <3>3, <3>4, <3>5, TurnShrinks
    <2> QED BY <2>1, <2>2
<1>2. \A y \in Exchanges : Good(t.ec[y]) /\ Good(o.ec[y])
    BY DEF Pair, Advanced
<1>3. Heard(o, t)
    BY DEF Heard, Pair, Advanced, Request
<1>4. Passed(t, o) /\ Passed(o, t)
    <2>1. o.rx.max <= t.last
        <3>1. o.rx.max \in Int
            BY <1>0 DEF Node, Synced, Counter
        <3>2. o.rx.max <= s.last /\ s.last <= t.last
            BY DEF Pair, Passed, Advanced
        <3> QED BY <1>0, <3>1, <3>2, LastType
    <2>2. o.acked \subseteq Counters
        BY <1>0 DEF Node
    <2>3. \A c \in o.acked : ~Verify(t.rx, c, FALSE)
        BY <2>2 DEF Pair, Passed, Advanced
    <2> QED BY <2>1, <2>3 DEF Passed, Advanced
<1>5. Started(n, t, o)
    <2>1. \A m \in t.sent : Request(m) => Opener[m.x] = n
        BY DEF Started, Pair, Advanced, Request
    <2>2. ASSUME NEW y \in Exchanges, Opener[y] # n,
                 t.ec[y].state # "none" \/ \E m \in t.sent : m.x = y /\ m.app
          PROVE  \E m \in o.sent : m.x = y
        <3>1. CASE y = x /\ (t.ec[y].state # "none" \/ P # {})
            BY <2>2, <3>1 DEF Advanced
        <3>2. CASE y # x \/ ~(t.ec[y].state # "none" \/ P # {})
            <4>1. s.ec[y].state # "none" \/ \E m \in s.sent : m.x = y /\ m.app
                BY <2>2, <3>2 DEF Advanced
            <4> QED BY <2>2, <4>1 DEF Started, Pair
        <3> QED BY <3>1, <3>2
    <2> QED BY <2>1, <2>2 DEF Started
<1>6. Started(p, o, t)
    BY DEF Started, Pair, Advanced
<1>7. Sane(t) /\ Sane(o) /\ ~t.died /\ ~t.dropped /\ ~o.died /\ ~o.dropped /\ Heard(t, o)
    BY DEF Pair, Advanced
<1> QED BY <1>1, <1>2, <1>3, <1>4, <1>5, <1>6, <1>7 DEF Pair

\* The messages that were on their way when r follows s are the ones to look at.
LEMMA HeardStays ==
    ASSUME NEW s \in Node, NEW r \in Node, NEW o \in Node, Heard(s, o),
           \A c \in Counters : s.given[c] = 1 => r.given[c] = 1,
           s.turnedAway \subseteq r.turnedAway, s.rx.max <= r.rx.max,
           \A c \in Counters : ~Verify(s.rx, c, FALSE) => ~Verify(r.rx, c, FALSE),
           \A q \in o.sent : Request(q) /\ Verify(s.rx, q.ctr, FALSE) =>
               IF Verify(r.rx, q.ctr, FALSE) THEN r.ec[q.x].state = "none"
               ELSE Served(r, q.ctr)
    PROVE  Heard(r, o)
<1> SUFFICES ASSUME NEW q \in o.sent, Request(q), ~Verify(s.rx, q.ctr, FALSE)
             PROVE  ~Verify(r.rx, q.ctr, FALSE) /\ Served(r, q.ctr)
    BY DEF Heard
<1>1. q.ctr \in Counters /\ q.ctr \in Int
    BY DEF Node, Message, Counters
<1>2. Served(s, q.ctr)
    BY DEF Heard
<1>3. s.rx.max \in Int /\ r.rx.max \in Int /\ WINDOW_SIZE \in Int
    BY CounterAssumption DEF Node, Synced, Counter
<1>4. Served(r, q.ctr)
    <2>1. CASE s.given[q.ctr] = 1 \/ q.ctr \in s.turnedAway
        BY <1>1, <2>1 DEF Served
    <2>2. CASE s.rx.max - q.ctr > WINDOW_SIZE
        <3>1. r.rx.max - q.ctr > WINDOW_SIZE
            BY <1>1, <1>3, <2>2
        <3> QED BY <3>1 DEF Served
    <2> QED BY <1>2, <2>1, <2>2 DEF Served
<1> QED BY <1>1, <1>4

\* o has received what it acknowledges.
Honest(A, o) == \A c \in A : ~Verify(o.rx, c, FALSE)

LEMMA NothingIsHonest == ASSUME NEW o PROVE Honest({}, o)
BY DEF Honest

\* A step that receives nothing new and leaves no more to do in exchange x.
LEMMA QuietAdvances ==
    ASSUME NEW n, NEW p, NEW s, NEW t, NEW o, NEW x \in Exchanges, NEW A,
           Pair(n, s, o), Pair(p, o, s), Same(s, t), Quieted(s, t, x, A),
           Honest(A, o)
    PROVE  Pair(n, t, o) /\ Pair(p, o, t)
<1>0. s \in Node /\ t \in Node /\ o \in Node
    BY DEF Pair, Same, Sane
<1>1. Moved(s, t, x, A, {}) /\ Shrunk(s.ec[x], t.ec[x]) /\ Good(t.ec[x])
    BY DEF Quieted
<1>2. t.rx = s.rx /\ t.given = s.given /\ t.turnedAway = s.turnedAway
    BY <1>1 DEF Moved, Same
<1>3. Heard(t, o)
    <2>1. ASSUME NEW q \in o.sent, s.ec[q.x].state = "none" PROVE t.ec[q.x].state = "none"
        <3>1. q.x \in Exchanges
            BY <1>0 DEF Node, Message
        <3> QED BY <1>1, <2>1, <3>1 DEF Shrunk, Moved
    <2>2. Heard(s, o)
        BY DEF Pair
    <2> QED BY <1>2, <2>1, <2>2 DEF Heard, Served
<1>4. Turn(t, o, x) /\ Turn(o, t, x)
    <2>1. Fresh(t, o, x) \subseteq Fresh(s, o, x) /\ Fresh(o, t, x) \subseteq Fresh(o, s, x)
        BY <1>1, FreshMoved
    <2>2. Turn(s, o, x) /\ Turn(o, s, x) /\ s.last <= t.last
        BY <1>1 DEF Pair, Moved
    <2> QED BY <1>0, <1>1, <2>1, <2>2, TurnShrinks
<1>5. Opener[x] # n /\ t.ec[x].state # "none" => \E m \in o.sent : m.x = x
    BY <1>1 DEF Pair, Started, Shrunk
<1>6. t.rx.max <= o.last /\ \A c \in t.acked : ~Verify(o.rx, c, FALSE)
    BY <1>1, <1>2 DEF Pair, Passed, Moved, Honest
<1>7. ~t.died /\ ~t.dropped /\ Sane(t)
    BY <1>1 DEF Pair, Moved
<1>8. Advanced(n, s, t, o, x, {})
    BY <1>1, <1>2, <1>3, <1>4, <1>5, <1>6, <1>7 DEF Advanced, Moved
<1> QED BY <1>8, PairAdvances

LEMMA AbortMoved ==
    ASSUME NEW s, Sane(s), NEW x \in Exchanges, NEW A, NEW P
    PROVE  Moved(s, Abort(s, x), x, A, P) /\ Abort(s, x).ec[x] = NoContext
<1> DEFINE f == FlushAcks(s, x)
<1>1. Moved(s, f, x, A, P)
    BY FlushAcksMoved
<1>2. Abort(s, x) = Put(f, x, NoContext)
    BY DEF Abort, Put
<1> HIDE DEF f
<1>3. Sane(f) /\ s \in Node
    BY <1>1 DEF Moved, Sane
<1>4. Moved(f, Put(f, x, NoContext), x, A, P) /\ Put(f, x, NoContext).ec[x] = NoContext
    BY <1>3, PutMoved, NoContextType, NoContextReceived
<1> QED BY <1>1, <1>2, <1>3, <1>4, MovedTrans

LEMMA GoneIsQuiet ==
    ASSUME NEW s, NEW t, NEW x, NEW A, Moved(s, t, x, A, {}), t.ec[x] = NoContext
    PROVE  Quieted(s, t, x, A)
BY DEF Quieted, Shrunk, Good, NoContext

--------------------------------------------------------------------------------
(* The application and the timers keep the invariant *)

\* A send that fails takes the context with it.
LEMMA FailedSendIsQuiet ==
    ASSUME NEW s, Sane(s), NEW x \in Exchanges, NEW e \in BOOLEAN, NEW A,
           s.ec[x].entry = 0, Exhausted(s)
    PROVE  /\ Moved(s, SendOrAbort(s, x, e), x, A, {})
           /\ SendOrAbort(s, x, e).ec[x] = NoContext
<1> DEFINE f == SendMessage(s, x, e)
<1>1. Moved(s, f, x, A, {})
    BY SendMessageFails
<1>2. SendOrAbort(s, x, e) = Abort(f, x)
    BY DEF SendOrAbort
<1> HIDE DEF f
<1>3. Sane(f) /\ s \in Node
    BY <1>1 DEF Moved, Sane
<1>4. Moved(f, Abort(f, x), x, A, {}) /\ Abort(f, x).ec[x] = NoContext
    BY <1>3, AbortMoved
<1> QED BY <1>1, <1>2, <1>3, <1>4, MovedTrans

\* Node n, whose turn it is, sends q.
Says(n, s, t, o, x, q) ==
    /\ Same(s, t) /\ Moved(s, t, x, {}, {q})
    /\ q.x = x /\ q.ctr # 0 /\ t.ec[x].entry = q.ctr /\ ~t.ec[x].send
    /\ t.ec[x].state = "closed" \/ (t.ec[x].state = "open" /\ t.ec[x].resp)
    /\ Fresh(s, o, x) = {} /\ Fresh(o, s, x) = {} /\ ~o.ec[x].send
    /\ o.ec[x].entry # 0 => q.ack = o.ec[x].entry
    /\ Request(q) => /\ Opener[x] = n /\ Verify(o.rx, q.ctr, FALSE)
                     /\ o.ec[x].state = "none"
    /\ Opener[x] # n => \E m \in o.sent : m.x = x

LEMMA SayingAdvances ==
    ASSUME NEW n, NEW p, NEW s, NEW t, NEW o, NEW x \in Exchanges, NEW q,
           Pair(n, s, o), Pair(p, o, s), Says(n, s, t, o, x, q)
    PROVE  Pair(n, t, o) /\ Pair(p, o, t)
<1> USE DEF Says
<1>0. s \in Node /\ t \in Node /\ o \in Node
    BY DEF Pair, Same, Sane
<1>1. t.rx = s.rx /\ t.given = s.given /\ t.turnedAway = s.turnedAway
    BY DEF Moved, Same
<1>2. Heard(t, o)
    <2>1. ASSUME NEW r \in o.sent, Request(r), Verify(s.rx, r.ctr, FALSE)
          PROVE  t.ec[r.x].state = "none"
        <3>1. r.x \in Exchanges
            BY <1>0 DEF Node, Message
        <3>2. r.x # x
            BY <2>1 DEF Fresh, Request
        <3>3. s.ec[r.x].state = "none"
            BY <2>1 DEF Pair, Heard
        <3> QED BY <3>1, <3>2, <3>3 DEF Moved
    <2>2. Heard(s, o)
        BY DEF Pair
    <2> QED BY <1>1, <2>1, <2>2 DEF Heard, Served
<1>3. Turn(t, o, x) /\ Turn(o, t, x)
    <2>0. /\ Fresh(t, o, x) = Fresh(s, o, x)
          /\ Fresh(o, t, x) \subseteq Fresh(o, s, x) \cup {a \in {q} : a.x = x}
        BY FreshMoved
    <2>1. Fresh(t, o, x) = {} /\ Fresh(o, t, x) \subseteq {q}
        BY <2>0
    <2> QED BY <2>1, TurnPasses
<1>4. Good(t.ec[x])
    BY DEF Good
<1>5. t.rx.max <= o.last /\ \A c \in t.acked : ~Verify(o.rx, c, FALSE)
    BY <1>1 DEF Pair, Passed, Moved
<1>6. ~t.died /\ ~t.dropped /\ Sane(t)
    BY DEF Pair, Moved
<1>7. Advanced(n, s, t, o, x, {q})
    BY <1>1, <1>2, <1>3, <1>4, <1>5, <1>6 DEF Advanced, Moved
<1> QED BY <1>7, PairAdvances

LEMMA SendAnnouncedAdvances ==
    ASSUME NEW n, NEW p, NEW s, NEW o, NEW x \in Exchanges, NEW e \in BOOLEAN,
           Pair(n, s, o), Pair(p, o, s), s.ec[x].state = "open", s.ec[x].send
    PROVE  Pair(n, SendOrAbort(s, x, e), o) /\ Pair(p, o, SendOrAbort(s, x, e))
<1> DEFINE t == SendOrAbort(s, x, e)
           q == NextMessage(s, x)
<1>0. Sane(s) /\ s \in Node /\ s.ec[x].entry = 0
    BY DEF Pair, Sane, Good
<1>1. Same(s, t)
    BY <1>0, SendOrAbortSame
<1>2. CASE Exhausted(s)
    <2>1. Moved(s, t, x, {}, {}) /\ t.ec[x] = NoContext
        BY <1>0, <1>2, FailedSendIsQuiet
    <2> HIDE DEF t
    <2>2. Quieted(s, t, x, {})
        BY <2>1, GoneIsQuiet
    <2>3. Pair(n, t, o) /\ Pair(p, o, t)
        BY <1>1, <2>2, NothingIsHonest, QuietAdvances
    <2> QED BY <2>3 DEF t
<1>3. CASE ~Exhausted(s)
    <2>1. t = SendMessage(s, x, e)
        BY <1>3 DEF SendOrAbort
    <2>2. Said(s, t, x, {}, {q})
        BY <1>0, <1>3, <2>1, SendMessageMoved
    <2>3. q.x = x /\ q.ctr = s.last + 1 /\ q.ack = s.ec[x].ackCtr
        BY DEF NextMessage
    <2> HIDE DEF t, q
    <2>4. Turn(s, o, x) /\ Turn(o, s, x)
        BY DEF Pair
    <2>5. Fresh(s, o, x) = {} /\ Fresh(o, s, x) = {} /\ ~o.ec[x].send
        BY <2>4 DEF Turn
    <2>6. q.ack # 0 /\ (o.ec[x].entry # 0 => q.ack = o.ec[x].entry)
        BY <1>3, <2>3, <2>4 DEF Turn
    <2>7. Opener[x] # n => \E m \in o.sent : m.x = x
        BY DEF Pair, Started
    <2>8. /\ Moved(s, t, x, {}, {q}) /\ q.ctr # 0 /\ t.ec[x].entry = q.ctr /\ ~t.ec[x].send
          /\ t.ec[x].state = "closed" \/ (t.ec[x].state = "open" /\ t.ec[x].resp)
        BY <2>2, <2>3 DEF Said
    <2>9. ~Request(q)
        BY <2>6 DEF Request
    <2>10. Says(n, s, t, o, x, q)
        BY <1>1, <2>3, <2>5, <2>6, <2>7, <2>8, <2>9 DEF Says
    <2>11. Pair(n, t, o) /\ Pair(p, o, t)
        BY <2>10, SayingAdvances
    <2> QED BY <2>11 DEF t
<1> QED BY <1>2, <1>3

\* The first message of an exchange: the peer has no part in it yet.
LEMMA OpenAdvances ==
    ASSUME NEW n, NEW p, NEW s, NEW o, NEW x \in Exchanges, NEW e \in BOOLEAN, n # p,
           Pair(n, s, o), Pair(p, o, s), Opener[x] = n, s.ec[x].state = "none",
           \A m \in s.sent : m.x # x
    PROVE  LET u == [s EXCEPT !.ec[x].state = "open", !.ec[x].send = TRUE]
           IN  Pair(n, SendOrAbort(u, x, e), o) /\ Pair(p, o, SendOrAbort(u, x, e))
<1> DEFINE u == [s EXCEPT !.ec[x].state = "open", !.ec[x].send = TRUE]
           c == [NoContext EXCEPT !.state = "open", !.send = TRUE]
           t == SendOrAbort(u, x, e)
           q == NextMessage(u, x)
<1>a. SUFFICES Pair(n, t, o) /\ Pair(p, o, t)
    OBVIOUS
<1>0. Sane(s) /\ s \in Node /\ o \in Node /\ s.ec[x] = NoContext
    BY DEF Pair, Sane, Good
<1>1. c \in Context /\ Received(s.rx, c.ackCtr) /\ u = Put(s, x, c)
    <2>1. c \in Context
        BY NoContextType, OpenedToSend
    <2>2. c.ackCtr = 0
        BY DEF NoContext
    <2>3. u = Put(s, x, c)
        BY <1>0 DEF Put, Node
    <2> QED BY <2>1, <2>2, <2>3 DEF Received
<1>2. c.entry = 0 /\ c.state = "open" /\ c.ackCtr = 0
    BY DEF NoContext
<1>3. Same(s, u) /\ u.last = s.last
    BY <1>0, <1>1, WithContext DEF Put, Node
<1> HIDE DEF c, u
<1>4. \A P : Moved(s, u, x, {}, P) /\ u.ec[x] = c
    BY <1>0, <1>1, PutMoved
<1>5. Sane(u) /\ u \in Node
    BY <1>4 DEF Moved, Sane
<1>6. Same(s, t)
    BY <1>3, <1>5, SendOrAbortSame DEF Same
<1>7. CASE Exhausted(u)
    <2>1. Moved(u, t, x, {}, {}) /\ t.ec[x] = NoContext
        BY <1>2, <1>4, <1>5, <1>7, FailedSendIsQuiet
    <2> HIDE DEF t
    <2>2. Moved(s, t, x, {}, {})
        BY <1>0, <1>4, <2>1, MovedTrans
    <2>3. Quieted(s, t, x, {})
        BY <2>1, <2>2, GoneIsQuiet
    <2> QED BY <1>6, <2>3, NothingIsHonest, QuietAdvances
<1>8. CASE ~Exhausted(u)
    <2>1. t = SendMessage(u, x, e)
        BY <1>8 DEF SendOrAbort
    <2>2. Said(u, t, x, {}, {q})
        BY <1>2, <1>4, <1>5, <1>8, <2>1, SendMessageMoved
    <2>3. q.x = x /\ q.ctr = s.last + 1 /\ q.ack = 0
        BY <1>2, <1>3, <1>4 DEF NextMessage
    <2> HIDE DEF t, q
    <2>4. /\ Moved(u, t, x, {}, {q}) /\ q.ctr # 0 /\ t.ec[x].entry = q.ctr /\ ~t.ec[x].send
          /\ t.ec[x].state = "closed" \/ (t.ec[x].state = "open" /\ t.ec[x].resp)
        BY <1>3, <2>2, <2>3 DEF Said
    <2>5. Moved(s, t, x, {}, {q})
        BY <1>0, <1>4, <2>4, MovedTrans
    <2>6. o.ec[x].state = "none" /\ \A m \in o.sent : ~(m.x = x /\ m.app)
        BY DEF Pair, Started
    <2>7. o.ec[x].entry = 0 /\ ~o.ec[x].send
        BY <2>6 DEF Pair, Good, NoContext
    <2>8. Fresh(s, o, x) = {} /\ Fresh(o, s, x) = {}
        BY <2>6 DEF Fresh
    <2>9. Verify(o.rx, q.ctr, FALSE)
        <3>1. o.rx.max \in Int /\ o.rx.max <= s.last
            BY <1>0 DEF Pair, Passed, Node, Synced, Counter
        <3>2. q.ctr > o.rx.max
            BY <1>0, <2>3, <3>1, LastType
        <3> QED BY <3>2 DEF Verify, Position, IsFuture
    <2>10. Says(n, s, t, o, x, q)
        BY <1>6, <2>3, <2>4, <2>5, <2>6, <2>7, <2>8, <2>9 DEF Says
    <2> QED BY <2>10, SayingAdvances
<1> QED BY <1>7, <1>8

LEMMA ResponseTimeoutAdvances ==
    ASSUME NEW n, NEW p, NEW s, NEW o, NEW x \in Exchanges,
           Pair(n, s, o), Pair(p, o, s), s.ec[x].resp
    PROVE  LET t == MessageHandled([s EXCEPT !.ec[x].resp = FALSE, !.active = FALSE], x)
           IN  Pair(n, t, o) /\ Pair(p, o, t)
<1> DEFINE c == [s.ec[x] EXCEPT !.resp = FALSE]
           v == Put(s, x, c)
           u == [s EXCEPT !.ec[x].resp = FALSE, !.active = FALSE]
           t == MessageHandled(u, x)
<1>a. SUFFICES Pair(n, t, o) /\ Pair(p, o, t)
    OBVIOUS
<1>0. Sane(s) /\ s \in Node /\ s.ec[x] \in Context /\ Received(s.rx, s.ec[x].ackCtr)
    BY AckReceived DEF Pair
<1>1. /\ c \in Context /\ c.state = s.ec[x].state /\ c.send = s.ec[x].send
      /\ c.entry = s.ec[x].entry /\ c.ackCtr = s.ec[x].ackCtr /\ ~c.resp
    BY <1>0 DEF Context
<1>2. u = [v EXCEPT !.active = FALSE]
    BY <1>0 DEF Put, Node
<1> HIDE DEF c
<1>3. Moved(s, v, x, {}, {}) /\ v.ec[x] = c /\ Same(s, v)
    BY <1>0, <1>1, PutMoved, WithContext DEF Put
<1> HIDE DEF v
<1>4. Sane(v) /\ v \in Node
    BY <1>3 DEF Moved, Sane
<1>5. Moved(v, u, x, {}, {}) /\ u.ec = v.ec /\ Same(v, u)
    <2> DEFINE b == FALSE
               w == [v EXCEPT !.active = b]
    <2>1. b \in BOOLEAN
        OBVIOUS
    <2>2. u = w
        BY <1>2
    <2> HIDE DEF b, u
    <2>3. Moved(v, w, x, {}, {}) /\ w.ec = v.ec /\ Same(v, w)
        BY <1>4, <2>1, ActiveMoved, ActiveSet, Zenon
    <2> QED BY <2>2, <2>3
<1> HIDE DEF u
<1>6. Moved(s, u, x, {}, {}) /\ u.ec[x] = c /\ Same(s, u) /\ Sane(u) /\ u \in Node
    BY <1>0, <1>3, <1>5, MovedTrans DEF Same, Moved
<1>7. /\ Moved(u, t, x, {}, {}) /\ Same(u, t)
      /\ ~Done(u.ec[x]) => t.ec[x] = u.ec[x]
      /\ Done(u.ec[x]) => Shut(u.ec[x], t.ec[x])
    BY <1>6, MessageHandledMoved, MessageHandledSame
<1> HIDE DEF t
<1>8. Moved(s, t, x, {}, {}) /\ Same(s, t)
    BY <1>0, <1>6, <1>7, MovedTrans DEF Same
<1>9. Good(s.ec[x])
    BY DEF Pair
<1>10. s.ec[x].state \in {"none", "open", "closed"} /\ s.ec[x].state # "none"
    BY <1>0, <1>9 DEF Good, NoContext, Context
<1>11. Shrunk(s.ec[x], t.ec[x]) /\ Good(t.ec[x])
    <2>1. CASE Done(c)
        <3>1. Shut(c, t.ec[x])
            BY <1>6, <1>7, <2>1
        <3>2. CASE c.entry = 0
            BY <3>1, <3>2 DEF Shut, Shrunk, Good, NoContext
        <3>3. CASE c.entry # 0
            BY <1>1, <1>10, <2>1, <3>1, <3>3 DEF Shut, Shrunk, Good, Done
        <3> QED BY <3>2, <3>3
    <2>2. CASE ~Done(c)
        <3>1. t.ec[x] = c
            BY <1>6, <1>7, <2>2
        <3> QED BY <1>1, <1>9, <1>10, <2>2, <3>1 DEF Shrunk, Good, Done
    <2> QED BY <2>1, <2>2
<1>12. Quieted(s, t, x, {})
    BY <1>8, <1>11 DEF Quieted
<1> QED BY <1>8, <1>12, NothingIsHonest, QuietAdvances

\* A step in which the context of exchange x, if anything, loses an acknowledgement.
LEMMA KeptAdvances ==
    ASSUME NEW n, NEW p, NEW s, NEW o, NEW t, NEW x \in Exchanges,
           Pair(n, s, o), Pair(p, o, s), Moved(s, t, x, {}, {}), Same(s, t),
           Kept(s.ec[x], t.ec[x]), s.ec[x].state # "none" \/ t.ec[x] = s.ec[x]
    PROVE  Pair(n, t, o) /\ Pair(p, o, t)
<1>1. Good(s.ec[x])
    BY DEF Pair
<1>2. Good(t.ec[x]) /\ Shrunk(s.ec[x], t.ec[x])
    BY <1>1 DEF Good, Shrunk, Kept
<1>3. Quieted(s, t, x, {})
    BY <1>2 DEF Quieted
<1> QED BY <1>3, NothingIsHonest, QuietAdvances

LEMMA KeptItself == ASSUME NEW c PROVE Kept(c, c)
BY DEF Kept

LEMMA AckTimeoutAdvances ==
    ASSUME NEW n, NEW p, NEW s, NEW o, NEW x \in Exchanges,
           Pair(n, s, o), Pair(p, o, s), s.ec[x].ackPending
    PROVE  Pair(n, FlushAcks(s, x), o) /\ Pair(p, o, FlushAcks(s, x))
<1>1. Sane(s) /\ s \in Node
    BY DEF Pair, Sane
<1>2. /\ Moved(s, FlushAcks(s, x), x, {}, {}) /\ Kept(s.ec[x], FlushAcks(s, x).ec[x])
      /\ Same(s, FlushAcks(s, x))
    BY <1>1, FlushAcksMoved, FlushAcksSame
<1>3. s.ec[x].state # "none"
    BY DEF Pair, Good, NoContext
<1> QED BY <1>2, <1>3, KeptAdvances

LEMMA ActiveAdvances ==
    ASSUME NEW n, NEW p, NEW s, NEW o, NEW b \in BOOLEAN, NEW x \in Exchanges,
           Pair(n, s, o), Pair(p, o, s)
    PROVE  Pair(n, [s EXCEPT !.active = b], o) /\ Pair(p, o, [s EXCEPT !.active = b])
<1> DEFINE t == [s EXCEPT !.active = b]
<1>a. SUFFICES Pair(n, t, o) /\ Pair(p, o, t)
    OBVIOUS
<1>1. Sane(s) /\ s \in Node
    BY DEF Pair, Sane
<1>2. Moved(s, t, x, {}, {}) /\ t.ec = s.ec /\ Same(s, t)
    BY <1>1, ActiveMoved, ActiveSet
<1> HIDE DEF t
<1> QED BY <1>2, KeptItself, KeptAdvances

LEMMA RetransTimeoutAdvances ==
    ASSUME NEW n, NEW p, NEW s, NEW o, NEW x \in Exchanges,
           Pair(n, s, o), Pair(p, o, s), s.ec[x].entry # 0
    PROVE  LET t == IF s.ec[x].tries < MAX_RETRANS
                    THEN [s EXCEPT !.ec[x].tries = s.ec[x].tries + 1]
                    ELSE Released([s EXCEPT !.ec[x].entry = 0, !.ec[x].tries = 0,
                                            !.active = s.active /\ s.ec[x].resp], x)
           IN  Pair(n, t, o) /\ Pair(p, o, t)
<1>0. Sane(s) /\ s \in Node /\ s.ec[x] \in Context /\ Received(s.rx, s.ec[x].ackCtr)
    BY AckReceived DEF Pair
<1>b. Good(s.ec[x])
    BY DEF Pair
<1>1. CASE s.ec[x].tries < MAX_RETRANS
    <2> DEFINE t == [s EXCEPT !.ec[x].tries = s.ec[x].tries + 1]
               c == [s.ec[x] EXCEPT !.tries = s.ec[x].tries + 1]
    <2>1. SUFFICES Pair(n, t, o) /\ Pair(p, o, t)
        BY <1>1
    <2>2. s.ec[x].tries + 1 \in 0 .. MAX_RETRANS
        BY <1>0, <1>1, ConstantsAssumption DEF Context
    <2>3. c \in Context /\ Kept(s.ec[x], c) /\ t = Put(s, x, c)
        <3>1. c \in Context
            BY <1>0, <2>2, TriesSet
        <3>2. Kept(s.ec[x], c)
            BY <1>0 DEF Context, Kept
        <3>3. t = Put(s, x, c)
            BY <1>0 DEF Put, Node
        <3> QED BY <3>1, <3>2, <3>3
    <2> HIDE DEF c, t
    <2>4. Moved(s, t, x, {}, {}) /\ t.ec[x] = c /\ Same(s, t)
        BY <1>0, <2>3, PutMoved, WithContext DEF Put, Kept
    <2>5. s.ec[x].state # "none"
        BY <1>b DEF Good, NoContext
    <2> QED BY <2>3, <2>4, <2>5, KeptAdvances
<1>2. CASE ~(s.ec[x].tries < MAX_RETRANS)
    <2> DEFINE b == s.active /\ s.ec[x].resp
               u == [s EXCEPT !.ec[x].entry = 0, !.ec[x].tries = 0, !.active = b]
               c == [s.ec[x] EXCEPT !.entry = 0, !.tries = 0]
               v == Put(s, x, c)
               t == Released(u, x)
    <2>1. SUFFICES Pair(n, t, o) /\ Pair(p, o, t)
        BY <1>2
    <2>2. b \in BOOLEAN /\ u = [v EXCEPT !.active = b]
        BY <1>0 DEF Put, Node
    <2>3. /\ c \in Context /\ c.entry = 0 /\ c.state = s.ec[x].state /\ c.resp = s.ec[x].resp
          /\ c.send = s.ec[x].send /\ c.ackCtr = s.ec[x].ackCtr
        <3>1. c \in Context
            BY <1>0, GivenUp
        <3> QED BY <1>0, <3>1 DEF Context
    <2> HIDE DEF b, c
    <2>4. Moved(s, v, x, {}, {}) /\ v.ec[x] = c /\ Same(s, v)
        BY <1>0, <2>3, PutMoved, WithContext DEF Put
    <2> HIDE DEF v
    <2>5. Sane(v) /\ v \in Node
        BY <2>4 DEF Moved, Sane
    <2>6. Moved(v, u, x, {}, {}) /\ u.ec = v.ec /\ Same(v, u)
        <3> DEFINE w == [v EXCEPT !.active = b]
        <3>1. Moved(v, w, x, {}, {}) /\ w.ec = v.ec /\ Same(v, w)
            BY <2>2, <2>5, ActiveMoved, ActiveSet, Zenon
        <3> HIDE DEF u
        <3> QED BY <2>2, <3>1
    <2> HIDE DEF u
    <2>7. Moved(s, u, x, {}, {}) /\ u.ec[x] = c /\ Same(s, u) /\ Sane(u) /\ u \in Node
        BY <1>0, <2>4, <2>6, MovedTrans DEF Same, Moved
    <2>8. /\ Moved(u, t, x, {}, {}) /\ Same(u, t)
          /\ t.ec[x] = IF u.ec[x].state = "closed" /\ u.ec[x].entry = 0
                       THEN NoContext ELSE u.ec[x]
        BY <2>7, ReleasedMoved, ReleasedSame
    <2> HIDE DEF t
    <2>9. Moved(s, t, x, {}, {}) /\ Same(s, t)
        BY <1>0, <2>7, <2>8, MovedTrans DEF Same
    <2>10. Shrunk(s.ec[x], t.ec[x]) /\ Good(t.ec[x])
        <3>1. CASE c.state = "closed"
            <4>1. t.ec[x] = NoContext
                BY <2>3, <2>7, <2>8, <3>1
            <4> QED BY <4>1 DEF Shrunk, Good, NoContext
        <3>2. CASE c.state # "closed"
            <4>1. t.ec[x] = c
                BY <2>7, <2>8, <3>2
            <4>2. c.state # "none"
                BY <1>b, <2>3 DEF Good, NoContext
            <4> QED BY <1>b, <2>3, <3>2, <4>1, <4>2 DEF Shrunk, Good
        <3> QED BY <3>1, <3>2
    <2>11. Quieted(s, t, x, {})
        BY <2>9, <2>10 DEF Quieted
    <2> QED BY <2>9, <2>11, NothingIsHonest, QuietAdvances
<1> QED BY <1>1, <1>2

--------------------------------------------------------------------------------
(* Receiving keeps the invariant *)

\* t is s after the window has taken counter c of a message of o.
Committed(s, t, o, c) ==
    /\ Sane(t) /\ t.ec = s.ec /\ t.sent = s.sent /\ t.last = s.last /\ t.given = s.given
    /\ t.acked = s.acked /\ s.turnedAway \subseteq t.turnedAway
    /\ t.died = s.died /\ t.dropped = s.dropped
    /\ t.rx.max <= o.last /\ s.rx.max <= t.rx.max /\ ~Verify(t.rx, c, FALSE)
    /\ \A d \in Counters : ~Verify(s.rx, d, FALSE) => ~Verify(t.rx, d, FALSE)
    /\ \A d \in Counters : d # c /\ Verify(s.rx, d, FALSE) /\ ~Verify(t.rx, d, FALSE) =>
                               t.rx.max - d > WINDOW_SIZE

LEMMA CommitCommits ==
    ASSUME NEW n, NEW p, NEW s, NEW o, Pair(n, s, o), Pair(p, o, s), NEW m \in o.sent,
           Verify(s.rx, m.ctr, FALSE)
    PROVE  Committed(s, [s EXCEPT !.rx = Commit(s.rx, m.ctr, FALSE)], o, m.ctr)
<1> DEFINE rx == Commit(s.rx, m.ctr, FALSE)
           t == [s EXCEPT !.rx = rx]
<1>0. s \in Node /\ o \in Node /\ Numbered(s) /\ Acks(s) /\ Numbered(o)
    BY DEF Pair, Sane
<1>1. m.ctr \in Counters /\ m.ctr \in Counter /\ s.rx \in Synced
    BY <1>0, CountersAreCounters DEF Node, Message
<1>2. rx \in Synced /\ ~Verify(rx, m.ctr, FALSE)
    BY <1>1, CommitType, CommittedIsDuplicate
<1>3. ASSUME NEW d \in Counters, ~Verify(s.rx, d, FALSE) PROVE ~Verify(rx, d, FALSE)
    BY <1>1, <1>3, DuplicateStays, CountersAreCounters
<1>4. ASSUME NEW d \in Counters, d # m.ctr, Verify(s.rx, d, FALSE), ~Verify(rx, d, FALSE)
      PROVE  rx.max - d > WINDOW_SIZE
    BY <1>1, <1>4, PushedOut, CountersAreCounters
<1>5. rx.max <= o.last /\ s.rx.max <= rx.max
    <2>1. /\ rx.max = IF m.ctr > s.rx.max THEN m.ctr ELSE s.rx.max
          /\ rx.max \in Int /\ s.rx.max \in Int /\ m.ctr \in Int
        BY <1>1, CommitMax
    <2>2. m.ctr <= o.last /\ s.rx.max <= o.last
        BY <1>0 DEF Numbered, Pair, Passed
    <2> HIDE DEF rx
    <2> QED BY <2>1, <2>2
<1> HIDE DEF rx
<1>6. /\ t \in Node /\ t.rx = rx /\ t.ec = s.ec /\ t.sent = s.sent /\ t.last = s.last
      /\ t.given = s.given /\ t.acked = s.acked /\ t.turnedAway = s.turnedAway
      /\ t.died = s.died /\ t.dropped = s.dropped
    BY <1>0, <1>2 DEF Node
<1> HIDE DEF t
<1>7. Numbered(t)
    BY <1>0, <1>6 DEF Numbered
<1>8. Acks(t)
    <2>1. ASSUME NEW a \in s.sent PROVE Received(rx, a.ack)
        <3>1. a.ack \in Counters \cup {0} /\ Received(s.rx, a.ack)
            BY <1>0 DEF Acks, Node, Message
        <3> QED BY <1>3, <3>1 DEF Received
    <2>2. ASSUME NEW x \in Exchanges PROVE Received(rx, s.ec[x].ackCtr)
        <3>1. s.ec[x].ackCtr \in Counters \cup {0} /\ Received(s.rx, s.ec[x].ackCtr)
            BY <1>0, ContextOf DEF Acks, Context
        <3> QED BY <1>3, <3>1 DEF Received
    <2> QED BY <1>6, <2>1, <2>2 DEF Acks
<1>9. Committed(s, t, o, m.ctr)
    BY <1>2, <1>3, <1>4, <1>5, <1>6, <1>7, <1>8 DEF Committed, Sane
<1> QED BY <1>9 DEF t, rx

LEMMA NoteRefusalCommits ==
    ASSUME NEW s, NEW t, NEW o \in Node, NEW m \in o.sent, NEW reply,
           Committed(s, t, o, m.ctr)
    PROVE  /\ Committed(s, NoteRefusal(t, m, reply), o, m.ctr)
           /\ m.app /\ reply \in Refusals => m.ctr \in NoteRefusal(t, m, reply).turnedAway
<1> DEFINE r == NoteRefusal(t, m, reply)
<1>1. t \in Node /\ m.ctr \in Counters
    BY DEF Committed, Sane, Node, Message
<1>2. /\ r \in Node /\ t.turnedAway \subseteq r.turnedAway /\ r.rx = t.rx
      /\ r.ec = t.ec /\ r.sent = t.sent /\ r.last = t.last /\ r.given = t.given
      /\ r.acked = t.acked /\ r.died = t.died /\ r.dropped = t.dropped
      /\ m.app /\ reply \in Refusals => m.ctr \in r.turnedAway
    BY <1>1 DEF NoteRefusal, Node
<1> HIDE DEF r
<1>3. Sane(r)
    BY <1>2 DEF Committed, Sane, Numbered, Acks
<1>4. Committed(s, r, o, m.ctr)
    BY <1>2, <1>3 DEF Committed
<1> QED BY <1>2, <1>4 DEF r

\* What was given stays given.
GivenStays(s, r) == \A c \in Counters : s.given[c] = 1 => r.given[c] = 1

\* r follows t, which is s with the counter of the new message m of o committed.
LEMMA HeardNew ==
    ASSUME NEW s \in Node, NEW t, NEW r \in Node, NEW o \in Node, NEW m \in o.sent,
           Heard(s, o), Numbered(o), Committed(s, t, o, m.ctr), r.rx = t.rx,
           s.turnedAway \subseteq r.turnedAway, GivenStays(s, r),
           \A y \in Exchanges : y # m.x => r.ec[y] = s.ec[y],
           Request(m) => Served(r, m.ctr),
           \A q \in Fresh(s, o, m.x) : Request(q) => q = m \/ r.ec[m.x].state = "none"
    PROVE  Heard(r, o)
<1>1. ASSUME NEW q \in o.sent, Request(q), Verify(s.rx, q.ctr, FALSE)
      PROVE  IF Verify(r.rx, q.ctr, FALSE) THEN r.ec[q.x].state = "none"
             ELSE Served(r, q.ctr)
    <2>0. q.ctr \in Counters /\ q.x \in Exchanges
        BY DEF Node, Message
    <2>1. CASE q = m
        BY <1>1, <2>1 DEF Committed
    <2>2. CASE q # m /\ Verify(r.rx, q.ctr, FALSE)
        <3>1. CASE q.x = m.x
            <4>1. q \in Fresh(s, o, m.x)
                BY <1>1, <3>1 DEF Fresh, Request
            <4> QED BY <1>1, <2>2, <3>1, <4>1
        <3>2. CASE q.x # m.x
            BY <1>1, <2>0, <2>2, <3>2 DEF Heard
        <3> QED BY <3>1, <3>2
    <2>3. CASE q # m /\ ~Verify(r.rx, q.ctr, FALSE)
        <3>1. q.ctr # m.ctr
            BY <2>3 DEF Numbered
        <3>2. r.rx.max - q.ctr > WINDOW_SIZE
            BY <1>1, <2>0, <2>3, <3>1 DEF Committed
        <3> QED BY <2>3, <3>2 DEF Served
    <2> QED BY <2>1, <2>2, <2>3
<1>2. s.rx.max <= r.rx.max
    BY DEF Committed
<1>3. \A c \in Counters : ~Verify(s.rx, c, FALSE) => ~Verify(r.rx, c, FALSE)
    BY DEF Committed
<1>4. \A c \in Counters : s.given[c] = 1 => r.given[c] = 1
    BY DEF GivenStays
<1> QED BY <1>1, <1>2, <1>3, <1>4, HeardStays

\* Answers: application messages of exchange x that acknowledge something.
NoRequests(P, x) == \A q \in P : q.x = x /\ ~Request(q)

\* The node n has taken the counter of the new message m and handled it.
LEMMA NewAdvances ==
    ASSUME NEW n, NEW p, NEW s, NEW t, NEW r, NEW o, NEW m \in o.sent, NEW A, NEW P,
           Pair(n, s, o), Pair(p, o, s), Committed(s, t, o, m.ctr), Honest(A, o),
           Moved(t, r, m.x, A, P), Good(r.ec[m.x]), Heard(r, o),
           NoRequests(P, m.x),
           Turn(r, o, m.x), Turn(o, r, m.x)
    PROVE  Pair(n, r, o) /\ Pair(p, o, r)
<1>1. r.rx = t.rx
    BY DEF Moved
<1>2. \A c \in r.acked : ~Verify(o.rx, c, FALSE)
    BY DEF Moved, Committed, Pair, Passed, Honest
<1>3. ~r.died /\ ~r.dropped /\ Sane(r) /\ s.last <= r.last
    BY DEF Moved, Committed, Pair
<1>4. Advanced(n, s, r, o, m.x, P)
    BY <1>1, <1>2, <1>3 DEF Advanced, Moved, Committed, NoRequests
<1> QED BY <1>4, PairAdvances

\* What is fresh after m was received was fresh before, and is not m.
FreshAfter(s, r, o, m, x, P) ==
    /\ Fresh(r, o, x) \subseteq Fresh(s, o, x) \ {m}
    /\ Fresh(o, r, x) \subseteq Fresh(o, s, x) \cup P

LEMMA FreshCommitted ==
    ASSUME NEW s, NEW t, NEW r, NEW o \in Node, NEW m \in o.sent, NEW A, NEW P, NEW x,
           Committed(s, t, o, m.ctr), Moved(t, r, x, A, P)
    PROVE  FreshAfter(s, r, o, m, x, P)
<1>1. \A q \in o.sent : q.ctr \in Counters
    BY DEF Node, Message
<1>2. r.rx = t.rx
    BY DEF Moved
<1> QED BY <1>1, <1>2 DEF Committed, Moved, Fresh, FreshAfter

\* A new message that leaves no more to do in its exchange.
LEMMA NewQuietAdvances ==
    ASSUME NEW n, NEW p, NEW s, NEW t, NEW r, NEW o, NEW m \in o.sent, NEW A,
           Pair(n, s, o), Pair(p, o, s), Committed(s, t, o, m.ctr), Honest(A, o),
           Quieted(t, r, m.x, A), GivenStays(s, r), Request(m) => Served(r, m.ctr)
    PROVE  Pair(n, r, o) /\ Pair(p, o, r)
<1> DEFINE x == m.x
<1>0. s \in Node /\ r \in Node /\ o \in Node /\ x \in Exchanges
    BY DEF Pair, Quieted, Moved, Sane, Node, Message
<1> HIDE DEF x
<1>1. /\ Moved(t, r, x, A, {}) /\ Shrunk(s.ec[x], r.ec[x]) /\ Good(r.ec[x])
      /\ r.rx = t.rx /\ s.turnedAway \subseteq r.turnedAway /\ s.last <= r.last
      /\ \A y \in Exchanges : y # x => r.ec[y] = s.ec[y]
    BY DEF Quieted, Committed, Moved, x
<1>2. FreshAfter(s, r, o, m, x, {})
    BY <1>0, <1>1, FreshCommitted
<1>3. Turn(r, o, x) /\ Turn(o, r, x)
    <2>1. Turn(s, o, x) /\ Turn(o, s, x)
        BY <1>0 DEF Pair
    <2>2. Fresh(r, o, x) \subseteq Fresh(s, o, x) /\ Fresh(o, r, x) \subseteq Fresh(o, s, x)
        BY <1>2 DEF FreshAfter
    <2> QED BY <1>0, <1>1, <2>1, <2>2, TurnShrinks
<1>4. Heard(s, o) /\ Numbered(o)
    BY DEF Pair, Sane
<1>5. \A q \in Fresh(s, o, x) : Request(q) => q = m \/ r.ec[x].state = "none"
    BY <1>1, <1>4 DEF Fresh, Heard, Shrunk
<1>6. Heard(r, o)
    BY <1>0, <1>1, <1>4, <1>5, HeardNew DEF x
<1>7. NoRequests({}, x)
    BY DEF NoRequests
<1> QED BY <1>1, <1>3, <1>6, <1>7, NewAdvances DEF x

\* A new application message that is handled in its exchange.
LEMMA NewHandledAdvances ==
    ASSUME NEW n, NEW p, NEW s, NEW t, NEW r, NEW o, NEW m \in o.sent, NEW A,
           Pair(n, s, o), Pair(p, o, s), Committed(s, t, o, m.ctr), Honest(A, o),
           m.app, Verify(s.rx, m.ctr, FALSE), Outcome(t, r, m.x, A, m.ctr),
           GivenStays(s, r), Request(m) => Served(r, m.ctr)
    PROVE  Pair(n, r, o) /\ Pair(p, o, r)
<1> DEFINE x == m.x
<1>0. /\ s \in Node /\ t \in Node /\ o \in Node /\ x \in Exchanges
      /\ m.ctr \in Counters /\ m.ctr # 0
    BY DEF Pair, Committed, Sane, Node, Message, Counters
<1>1. m \in Fresh(s, o, x) /\ Turn(s, o, x)
    BY <1>0 DEF Fresh, Pair
<1>2. Heard(s, o) /\ Numbered(o)
    BY DEF Pair, Sane
<1> HIDE DEF x
<1>3. /\ ~o.ec[x].send /\ Fresh(o, s, x) = {} /\ Fresh(s, o, x) = {m}
      /\ o.ec[x].entry # 0 => m.ctr = o.ec[x].entry
    BY <1>1 DEF Turn
<1>4. ASSUME NEW P, Moved(t, r, x, A, P), NoRequests(P, x),
             Good(r.ec[x]), Turn(r, o, x), Turn(o, r, x)
      PROVE  Pair(n, r, o) /\ Pair(p, o, r)
    <2>1. /\ r \in Node /\ r.rx = t.rx /\ s.turnedAway \subseteq r.turnedAway
          /\ \A y \in Exchanges : y # x => r.ec[y] = s.ec[y]
        BY <1>4 DEF Moved, Committed, Sane
    <2>2. \A q \in Fresh(s, o, x) : Request(q) => q = m \/ r.ec[x].state = "none"
        BY <1>3
    <2>3. Heard(r, o)
        BY <1>0, <1>2, <2>1, <2>2, HeardNew DEF x
    <2> QED BY <1>4, <2>3, NewAdvances DEF x
<1>5. CASE Ended(t, r, x, A)
    <2>1. Moved(t, r, x, A, {}) /\ r.ec[x] = NoContext
        BY <1>5 DEF Ended
    <2>2. Good(r.ec[x]) /\ ~r.ec[x].send
        BY <2>1 DEF Good, NoContext
    <2>3. FreshAfter(s, r, o, m, x, {})
        BY <1>0, <2>1, FreshCommitted
    <2>4. Turn(r, o, x) /\ Turn(o, r, x)
        <3>1. Fresh(r, o, x) = {} /\ Fresh(o, r, x) = {}
            BY <1>3, <2>3 DEF FreshAfter
        <3> QED BY <1>3, <2>2, <3>1, TurnOver
    <2>5. NoRequests({}, x)
        BY DEF NoRequests
    <2> QED BY <1>4, <2>1, <2>2, <2>4, <2>5
<1>6. CASE Waits(t, r, x, A, m.ctr)
    <2>1. /\ Moved(t, r, x, A, {}) /\ r.ec[x].state = "open" /\ r.ec[x].send
          /\ r.ec[x].entry = 0 /\ (~Exhausted(r) => r.ec[x].ackCtr = m.ctr)
        BY <1>6 DEF Waits
    <2>2. Good(r.ec[x])
        BY <2>1 DEF Good
    <2>3. FreshAfter(s, r, o, m, x, {})
        BY <1>0, <2>1, FreshCommitted
    <2>4. Fresh(r, o, x) = {} /\ Fresh(o, r, x) = {}
        BY <1>3, <2>3 DEF FreshAfter
    <2>5. Turn(r, o, x) /\ Turn(o, r, x)
        BY <1>0, <1>3, <2>1, <2>4, TurnWaits
    <2>6. NoRequests({}, x)
        BY DEF NoRequests
    <2> QED BY <1>4, <2>1, <2>2, <2>5, <2>6
<1>7. CASE Answers(t, r, x, A, m.ctr)
    <2>1. PICK a \in r.sent :
            /\ Moved(t, r, x, A, {a})
            /\ a.app /\ a.x = x /\ a.ack = m.ctr /\ a.ctr > t.last
            /\ r.ec[x].entry = a.ctr /\ a.ctr # 0 /\ ~r.ec[x].send
            /\ r.ec[x].state = "closed" \/ (r.ec[x].state = "open" /\ r.ec[x].resp)
        BY <1>7 DEF Answers
    <2>2. Good(r.ec[x])
        BY <2>1 DEF Good
    <2>3. FreshAfter(s, r, o, m, x, {a})
        BY <1>0, <2>1, FreshCommitted
    <2>4. Fresh(r, o, x) = {} /\ Fresh(o, r, x) \subseteq {a}
        BY <1>3, <2>3 DEF FreshAfter
    <2>5. Turn(r, o, x) /\ Turn(o, r, x)
        BY <1>3, <2>1, <2>4, TurnPasses
    <2>6. NoRequests({a}, x)
        BY <1>0, <2>1 DEF Request, NoRequests
    <2> QED BY <1>4, <2>1, <2>2, <2>5, <2>6
<1> QED BY <1>5, <1>6, <1>7 DEF Outcome, x

\* A duplicate is acknowledged and otherwise ignored.
LEMMA DuplicateAdvances ==
    ASSUME NEW n, NEW p, NEW s, NEW o, NEW m \in o.sent, NEW dup \in BOOLEAN,
           NEW reply \in RepliesType, Pair(n, s, o), Pair(p, o, s),
           m.app, dup, ~Verify(s.rx, m.ctr, FALSE)
    PROVE  LET r == OnMessageReceived(n, s, m, dup, reply)
           IN  Pair(n, r, o) /\ Pair(p, o, r)
<1> DEFINE x == m.x
           r == OnMessageReceived(n, s, m, dup, reply)
<1>a. SUFFICES Pair(n, r, o) /\ Pair(p, o, r)
    OBVIOUS
<1>0. Sane(s) /\ s \in Node /\ o \in Node /\ m \in Message /\ m.ctr \in Counters
    BY DEF Pair, Sane, Node, Message
<1>1. x \in Exchanges /\ Received(s.rx, m.ctr)
    BY <1>0 DEF Message, Received
<1>2. CASE s.ec[x].state # "none"
    <2>1. r = HandleMessage(s, x, m, dup, reply)
        BY <1>2 DEF OnMessageReceived
    <2> HIDE DEF x, r
    <2>2. Good(s.ec[x])
        BY <1>1 DEF Pair
    <2>3. Quieted(s, r, x, {})
        BY <1>0, <1>1, <1>2, <2>1, <2>2, HandleMessageQuiet
    <2>4. Same(s, r)
        BY <1>0, <1>1, <2>1, HandleMessageDelivers
    <2> QED BY <1>1, <2>3, <2>4, NothingIsHonest, QuietAdvances
<1>3. CASE s.ec[x].state = "none"
    <2>1. r = s \/ r = StandaloneAck(s, x, m.ctr)
        BY <1>3 DEF OnMessageReceived
    <2> HIDE DEF x, r
    <2>2. CASE r = s
        BY <2>2
    <2>3. CASE r = StandaloneAck(s, x, m.ctr)
        <3>1. Moved(s, r, x, {}, {}) /\ r.ec = s.ec /\ Same(s, r)
            BY <1>0, <1>1, <2>3, StandaloneAckMoved, StandaloneAckSame
        <3> QED BY <1>1, <3>1, KeptItself, KeptAdvances
    <2> QED BY <2>1, <2>2, <2>3
<1> QED BY <1>2, <1>3

\* What the application was given before it keeps, and a message it is given now was not
\* given before.
LEMMA GivenOnce ==
    ASSUME NEW s \in Node, Once(s), NEW t \in Node, NEW r, NEW c \in Counters,
           t.given = s.given, Verify(s.rx, c, FALSE), Same(t, r) \/ Delivered(t, r, c)
    PROVE  GivenStays(s, r) /\ (Delivered(t, r, c) => r.given[c] = 1)
<1>1. s.given[c] = 0 /\ t.given \in [Counters -> 0 .. 2]
    BY DEF Once, Node
<1>2. CASE Delivered(t, r, c)
    BY <1>1, <1>2 DEF Delivered, GivenStays
<1>3. CASE ~Delivered(t, r, c)
    BY <1>3 DEF Same, GivenStays
<1> QED BY <1>2, <1>3

\* The acknowledgement that m carries, if any.
Carried(m) == {c \in {m.ack} : c # 0}

LEMMA CarriedIsHonest ==
    ASSUME NEW o, NEW m \in o.sent, Sane(o)
    PROVE  Honest(Carried(m), o) /\ (m.ack # 0 => m.ack \in Carried(m))
BY DEF Sane, Acks, Received, Honest, Carried

LEMMA QuietItself ==
    ASSUME NEW s, Sane(s), NEW x, NEW A, Good(s.ec[x])
    PROVE  Quieted(s, s, x, A)
BY MovedItself, ShrunkItself DEF Quieted

\* A standalone acknowledgement that is no duplicate.
LEMMA NewAckAdvances ==
    ASSUME NEW n \in Nodes, NEW p, NEW s, NEW t, NEW o, NEW m \in o.sent, NEW dup \in BOOLEAN,
           NEW reply \in RepliesType, Pair(n, s, o), Pair(p, o, s), Once(s),
           Committed(s, t, o, m.ctr), ~m.app, ~dup, Verify(s.rx, m.ctr, FALSE)
    PROVE  LET r == OnMessageReceived(n, t, m, dup, reply)
           IN  Pair(n, r, o) /\ Pair(p, o, r)
<1> DEFINE x == m.x
           r == OnMessageReceived(n, t, m, dup, reply)
           A == Carried(m)
<1>a. SUFFICES Pair(n, r, o) /\ Pair(p, o, r)
    OBVIOUS
<1>0. /\ Sane(t) /\ t \in Node /\ s \in Node /\ o \in Node /\ Sane(o) /\ m \in Message
      /\ m.ctr \in Counters /\ t.given = s.given
    BY DEF Pair, Committed, Sane, Node, Message
<1>1. x \in Exchanges
    BY <1>0 DEF Message
<1>2. Good(t.ec[x])
    BY <1>1 DEF Pair, Committed
<1>3. Honest(A, o) /\ (m.ack # 0 => m.ack \in A)
    BY <1>0, CarriedIsHonest
<1>4. Same(t, r) \/ Delivered(t, r, m.ctr)
    BY <1>0, OnMessageReceivedDelivers
<1>5. r = t \/ (t.ec[x].state # "none" /\ r = HandleMessage(t, x, m, dup, reply))
    BY DEF OnMessageReceived
<1> HIDE DEF x, r, A
<1>6. Quieted(t, r, x, A)
    <2>1. CASE r = t
        BY <1>0, <1>2, <2>1, QuietItself
    <2>2. CASE t.ec[x].state # "none" /\ r = HandleMessage(t, x, m, dup, reply)
        BY <1>0, <1>1, <1>2, <1>3, <2>2, HandleMessageQuiet
    <2> QED BY <1>5, <2>1, <2>2
<1>7. GivenStays(s, r)
    BY <1>0, <1>4, GivenOnce
<1>8. ~Request(m)
    BY DEF Request
<1> QED BY <1>3, <1>6, <1>7, <1>8, NewQuietAdvances DEF x

\* An application message that is no duplicate.
LEMMA NewMessageAdvances ==
    ASSUME NEW n \in Nodes, NEW p, NEW s, NEW t, NEW o, NEW m \in o.sent, NEW dup \in BOOLEAN,
           NEW reply \in RepliesType, Pair(n, s, o), Pair(p, o, s), Once(s), n # p,
           Committed(s, t, o, m.ctr), m.app, ~dup, Verify(s.rx, m.ctr, FALSE),
           reply \in Refusals => m.ctr \in t.turnedAway
    PROVE  LET r == OnMessageReceived(n, t, m, dup, reply)
           IN  Pair(n, r, o) /\ Pair(p, o, r)
<1> DEFINE x == m.x
           r == OnMessageReceived(n, t, m, dup, reply)
           A == Carried(m)
<1>a. SUFFICES Pair(n, r, o) /\ Pair(p, o, r)
    OBVIOUS
<1>0. /\ Sane(t) /\ t \in Node /\ s \in Node /\ o \in Node /\ Sane(o) /\ m \in Message
      /\ m.ctr \in Counters /\ t.given = s.given /\ t.ec = s.ec
    BY DEF Pair, Committed, Sane, Node, Message
<1>1. x \in Exchanges /\ Received(t.rx, m.ctr)
    BY <1>0 DEF Message, Committed, Received
<1>2. Good(t.ec[x])
    BY <1>0, <1>1 DEF Pair
<1>3. Honest(A, o) /\ (m.ack # 0 => m.ack \in A)
    BY <1>0, CarriedIsHonest
<1>4. Same(t, r) \/ Delivered(t, r, m.ctr)
    BY <1>0, OnMessageReceivedDelivers
<1>5. GivenStays(s, r) /\ (Delivered(t, r, m.ctr) => Served(r, m.ctr))
    <2> HIDE DEF r
    <2>1. GivenStays(s, r) /\ (Delivered(t, r, m.ctr) => r.given[m.ctr] = 1)
        BY <1>0, <1>4, GivenOnce
    <2> QED BY <2>1 DEF Served
<1>6. ~t.ec[x].send /\ (t.ec[x].entry # 0 => t.ec[x].entry = m.ack)
    <2>1. m \in Fresh(s, o, x) /\ Turn(s, o, x)
        BY <1>1 DEF Fresh, Pair
    <2> QED BY <1>0, <2>1 DEF Turn
<1>7. Request(m) => t.ec[x].state = "none" /\ Opener[x] = p
    BY <1>0 DEF Pair, Heard, Started
<1>8. CASE t.ec[x].state # "none"
    <2>1. r = HandleMessage(t, x, m, dup, reply)
        BY <1>8 DEF OnMessageReceived
    <2> HIDE DEF x, r, A
    <2>2. HandledNew(t, r, x, A, m.ctr, reply)
        BY <1>0, <1>1, <1>3, <1>6, <1>8, <2>1, HandleMessageNew
    <2>3. Outcome(t, r, x, A, m.ctr)
        BY <2>2 DEF HandledNew
    <2>4. ~Request(m)
        BY <1>7, <1>8
    <2> QED BY <1>3, <1>5, <2>3, <2>4, NewHandledAdvances DEF x
<1>9. CASE t.ec[x].state = "none" /\ PoolFull(n, t)
    <2>1. r = [t EXCEPT !.turnedAway = @ \cup {m.ctr}]
        BY <1>9 DEF OnMessageReceived
    <2>2. /\ r \in Node /\ r.turnedAway = t.turnedAway \cup {m.ctr} /\ r.rx = t.rx
          /\ r.ec = t.ec /\ r.sent = t.sent /\ r.last = t.last /\ r.given = t.given
          /\ r.acked = t.acked /\ r.died = t.died /\ r.dropped = t.dropped
        BY <1>0, <2>1 DEF Node
    <2> HIDE DEF x, r, A
    <2>3. Sane(r)
        BY <1>0, <2>2 DEF Sane, Numbered, Acks
    <2>4. Committed(s, r, o, m.ctr)
        BY <2>2, <2>3 DEF Committed
    <2>5. Quieted(r, r, x, A)
        BY <1>2, <2>2, <2>3, QuietItself
    <2>6. Served(r, m.ctr)
        BY <2>2 DEF Served
    <2> QED BY <1>3, <1>5, <2>4, <2>5, <2>6, NewQuietAdvances DEF x
<1>10. CASE t.ec[x].state = "none" /\ ~PoolFull(n, t) /\ Opener[x] # n
              /\ reply # "unhandled"
    <2> DEFINE u == [t EXCEPT !.ec[x].state = "open"]
               c == [t.ec[x] EXCEPT !.state = "open"]
    <2>0. t.ec[x] = NoContext
        BY <1>2, <1>10 DEF Good
    <2>1. /\ c \in Context /\ c.state = "open" /\ c.ackCtr = 0 /\ ~c.send /\ c.entry = 0
          /\ u = Put(t, x, c)
        <3>1. c \in Context
            BY <2>0, NoContextType, Opened
        <3>2. c.state = "open" /\ c.ackCtr = 0 /\ ~c.send /\ c.entry = 0
            BY <2>0 DEF NoContext
        <3>3. u = Put(t, x, c)
            BY <1>0 DEF Put, Node
        <3> QED BY <3>1, <3>2, <3>3
    <2>2. r = HandleMessage(u, x, m, dup, reply)
        BY <1>10 DEF OnMessageReceived
    <2> HIDE DEF u, c, x, r, A
    <2>3. Moved(t, u, x, A, {}) /\ u.ec[x] = c
        BY <1>0, <1>1, <2>1, PutMoved DEF Received
    <2>4. Sane(u) /\ u \in Node /\ Received(u.rx, m.ctr)
        BY <1>1, <2>3 DEF Moved, Sane
    <2>5. HandledNew(u, r, x, A, m.ctr, reply)
        BY <1>0, <1>1, <1>3, <2>1, <2>2, <2>3, <2>4, HandleMessageNew
    <2>6. Outcome(u, r, x, A, m.ctr) /\ (reply \in Refusals \/ Delivered(u, r, m.ctr))
        BY <2>1, <2>3, <2>5 DEF HandledNew
    <2>7. Outcome(t, r, x, A, m.ctr)
        BY <1>0, <2>3, <2>4, <2>6, OutcomeFollows
    <2>8. Served(r, m.ctr)
        <3>1. CASE reply \in Refusals
            <4>1. t.turnedAway = u.turnedAway
                BY <1>0, <2>1 DEF Put, Node
            <4>2. u.turnedAway = r.turnedAway
                BY <2>6 DEF Outcome, Ended, Waits, Answers, Moved
            <4> QED BY <3>1, <4>1, <4>2 DEF Served
        <3>2. CASE Delivered(u, r, m.ctr)
            <4>1. u.given = t.given /\ u.rx = t.rx
                BY <1>0, <2>1 DEF Put, Node
            <4>2. Delivered(t, r, m.ctr)
                BY <3>2, <4>1 DEF Delivered
            <4> QED BY <1>5, <4>2
        <3> QED BY <2>6, <3>1, <3>2
    <2> QED BY <1>3, <1>5, <2>7, <2>8, NewHandledAdvances DEF x
<1>11. CASE t.ec[x].state = "none" /\ ~PoolFull(n, t)
              /\ (Opener[x] = n \/ reply = "unhandled")
    <2>1. r = StandaloneAck(t, x, m.ctr)
        BY <1>11 DEF OnMessageReceived
    <2> HIDE DEF x, r, A
    <2>2. Moved(t, r, x, A, {}) /\ r.ec = t.ec
        BY <1>0, <1>1, <2>1, StandaloneAckMoved
    <2>3. Quieted(t, r, x, A)
        BY <1>2, <2>2, ShrunkItself DEF Quieted
    <2>4. Request(m) => Served(r, m.ctr)
        <3>1. CASE Opener[x] = n
            BY <1>7, <1>11, <3>1
        <3>2. CASE reply = "unhandled"
            <4>1. m.ctr \in t.turnedAway /\ r.turnedAway = t.turnedAway
                BY <2>2, <3>2 DEF Refusals, Moved
            <4> QED BY <4>1 DEF Served
        <3> QED BY <1>11, <3>1, <3>2
    <2> QED BY <1>3, <1>5, <2>3, <2>4, NewQuietAdvances DEF x
<1> QED BY <1>8, <1>9, <1>10, <1>11

--------------------------------------------------------------------------------
(* The inductive invariant of the session *)

Inv == DeliveryInv /\ \A n \in Nodes : Pair(n, node[n], node[Peer(n)])

\* The session has two ends.
LEMMA PeersAre ==
    ASSUME NEW n \in Nodes
    PROVE  Peer(n) \in Nodes /\ Peer(n) # n /\ \A k \in Nodes : k = n \/ k = Peer(n)
<1>1. IsFiniteSet(Nodes \ {n}) /\ Cardinality(Nodes \ {n}) = 1
    BY FS_RemoveElement, ConstantsAssumption
<1>2. PICK q : Nodes \ {n} = {q}
    BY <1>1, FS_Singleton
<1>3. \A k : k \in Nodes /\ k # n <=> k = q
    BY <1>2
<1>4. Peer(n) = q
    BY <1>3 DEF Peer
<1> QED BY <1>3, <1>4

LEMMA PeerOfPeer == ASSUME NEW n \in Nodes PROVE Peer(Peer(n)) = n
<1>1. Peer(n) \in Nodes /\ Peer(n) # n
    BY PeersAre
<1>2. Peer(Peer(n)) \in Nodes /\ Peer(Peer(n)) # Peer(n)
    BY <1>1, PeersAre
<1> QED BY <1>1, <1>2, PeersAre

\* A step of node n to r is seen by both ends.
LEMMA BothAdvance ==
    ASSUME TypeOK, NEW n \in Nodes, NEW r, node' = [node EXCEPT ![n] = r],
           Pair(n, r, node[Peer(n)]), Pair(Peer(n), node[Peer(n)], r)
    PROVE  \A k \in Nodes : Pair(k, node'[k], node'[Peer(k)])
<1>1. Peer(n) \in Nodes /\ Peer(n) # n /\ Peer(Peer(n)) = n
    BY PeersAre, PeerOfPeer
<1>2. node'[n] = r /\ node'[Peer(n)] = node[Peer(n)]
    BY <1>1 DEF TypeOK
<1>3. Pair(n, node'[n], node'[Peer(n)]) /\ Pair(Peer(n), node'[Peer(n)], node'[n])
    BY <1>2
<1> QED BY <1>1, <1>3, PeersAre

LEMMA InvInit == Init => Inv
<1> SUFFICES ASSUME Init PROVE Inv
    OBVIOUS
<1>1. DeliveryInv
    BY DeliveryInit
<1> SUFFICES ASSUME NEW n \in Nodes PROVE Pair(n, node[n], node[Peer(n)])
    BY <1>1 DEF Inv
<1> DEFINE s == node[n]
           o == node[Peer(n)]
<1>2. Peer(n) \in Nodes
    BY PeersAre
<1>3. s \in Node
    BY <1>1 DEF DeliveryInv, TypeOK
<1>4. /\ s.last = 0 /\ s.sent = {} /\ s.acked = {} /\ ~s.died /\ ~s.dropped
      /\ \A x \in Exchanges : s.ec[x] = NoContext
    BY DEF Init
<1>5. o.sent = {} /\ o.rx.max = 0 /\ \A x \in Exchanges : o.ec[x] = NoContext
    BY <1>2 DEF Init, SetCounter
<1> HIDE DEF s, o
<1>6. Sane(s)
    BY <1>3, <1>4, NoContextReceived DEF Sane, Numbered, Acks
<1>7. Heard(s, o) /\ Started(n, s, o) /\ Passed(s, o)
    BY <1>4, <1>5 DEF Heard, Started, Passed, NoContext
<1>8. ASSUME NEW x \in Exchanges PROVE Good(s.ec[x]) /\ Turn(s, o, x)
    <2>1. s.ec[x] = NoContext /\ o.ec[x] = NoContext
        BY <1>4, <1>5
    <2>2. Fresh(s, o, x) = {} /\ Fresh(o, s, x) = {}
        BY <1>4, <1>5 DEF Fresh
    <2> QED BY <2>1, <2>2, TurnOver DEF Good, NoContext
<1> QED BY <1>4, <1>6, <1>7, <1>8 DEF Pair, s, o

LEMMA ReceiveAdvances ==
    ASSUME Inv, NEW n \in Nodes, NEW m \in node[Peer(n)].sent, NEW reply \in Replies[m.x],
           Receive(n, m, reply)
    PROVE  \A k \in Nodes : Pair(k, node'[k], node'[Peer(k)])
<1> DEFINE p == Peer(n)
           o == node[p]
           s == [node[n] EXCEPT !.active = TRUE]
           dup == ~Verify(s.rx, m.ctr, FALSE)
           t == IF dup THEN s
                ELSE NoteRefusal([s EXCEPT !.rx = Commit(@, m.ctr, FALSE)], m, reply)
           r == IF dup /\ ~m.app THEN s ELSE OnMessageReceived(n, t, m, dup, reply)
<1>1. node' = [node EXCEPT ![n] = r]
    BY DEF Receive
<1>2. /\ TypeOK /\ p \in Nodes /\ p # n /\ Pair(n, node[n], o) /\ Pair(p, o, node[n])
      /\ Once(node[n]) /\ node[n] \in Node /\ o \in Node
    BY PeersAre, PeerOfPeer DEF Inv, DeliveryInv, TypeOK
<1>3. m \in o.sent /\ m.x \in Exchanges /\ reply \in RepliesType
    <2>1. m \in Message
        BY <1>2 DEF Node
    <2> QED BY <2>1, ConstantsAssumption DEF Message, RepliesType
<1>4. Pair(n, s, o) /\ Pair(p, o, s) /\ Same(node[n], s)
    <2> DEFINE b == TRUE
               w == [node[n] EXCEPT !.active = b]
    <2>1. b \in BOOLEAN /\ s = w
        OBVIOUS
    <2> HIDE DEF b, s, o, p
    <2>2. Pair(n, w, o) /\ Pair(p, o, w) /\ Same(node[n], w)
        BY <1>2, <1>3, <2>1, ActiveAdvances, ActiveSet
    <2> QED BY <2>1, <2>2
<1> HIDE DEF s, o, p
<1>5. Once(s)
    BY <1>2, <1>4, OnceSame
<1>6. dup \in BOOLEAN
    OBVIOUS
<1>7. Pair(n, r, o) /\ Pair(p, o, r)
    <2>1. CASE dup /\ ~m.app
        <3>1. r = s
            BY <2>1
        <3> QED BY <1>4, <3>1
    <2>2. CASE dup /\ m.app
        <3>1. r = OnMessageReceived(n, s, m, dup, reply) /\ ~Verify(s.rx, m.ctr, FALSE) /\ dup
            BY <2>2
        <3> HIDE DEF dup, r
        <3> QED BY <1>3, <1>4, <1>6, <2>2, <3>1, DuplicateAdvances
    <2>3. CASE ~dup
        <3> DEFINE w == [s EXCEPT !.rx = Commit(s.rx, m.ctr, FALSE)]
        <3>1. Verify(s.rx, m.ctr, FALSE) /\ t = NoteRefusal(w, m, reply)
            BY <2>3
        <3>2. /\ Committed(s, t, o, m.ctr)
              /\ m.app /\ reply \in Refusals => m.ctr \in t.turnedAway
            <4> HIDE DEF t, dup
            <4>1. Committed(s, w, o, m.ctr)
                BY <1>3, <1>4, <3>1, CommitCommits
            <4> HIDE DEF w
            <4> QED BY <1>2, <1>3, <3>1, <4>1, NoteRefusalCommits
        <3>3. r = OnMessageReceived(n, t, m, dup, reply)
            BY <2>3
        <3> HIDE DEF t, dup, r, w
        <3>4. CASE m.app
            BY <1>2, <1>3, <1>4, <1>5, <1>6, <2>3, <3>1, <3>2, <3>3, <3>4, NewMessageAdvances
        <3>5. CASE ~m.app
            BY <1>2, <1>3, <1>4, <1>5, <1>6, <2>3, <3>1, <3>2, <3>3, <3>5, NewAckAdvances
        <3> QED BY <3>4, <3>5
    <2> QED BY <2>1, <2>2, <2>3
<1> HIDE DEF r
<1> QED BY <1>1, <1>2, <1>7, BothAdvance DEF p, o

LEMMA InvStep == Inv /\ [Next]_vars => Inv'
<1> SUFFICES ASSUME Inv, [Next]_vars PROVE Inv'
    OBVIOUS
<1>0. DeliveryInv' /\ TypeOK
    BY DeliveryStep DEF Inv, DeliveryInv
<1> SUFFICES \A k \in Nodes : Pair(k, node'[k], node'[Peer(k)])
    BY <1>0 DEF Inv, Peer
<1>1. ASSUME NEW n \in Nodes
      PROVE  /\ Peer(n) # n /\ Pair(n, node[n], node[Peer(n)])
             /\ Pair(Peer(n), node[Peer(n)], node[n])
    BY PeersAre, PeerOfPeer DEF Inv
<1>2. ASSUME NEW n \in Nodes, NEW m \in node[Peer(n)].sent, NEW reply \in Replies[m.x],
             Receive(n, m, reply)
      PROVE  \A k \in Nodes : Pair(k, node'[k], node'[Peer(k)])
    BY <1>2, ReceiveAdvances
<1>3. ASSUME NEW n \in Nodes, NEW x \in Exchanges, NEW e \in BOOLEAN, Open(n, x, e)
      PROVE  \A k \in Nodes : Pair(k, node'[k], node'[Peer(k)])
    <2> DEFINE s == node[n]
               u == [s EXCEPT !.ec[x].state = "open", !.ec[x].send = TRUE]
               r == SendOrAbort(u, x, e)
    <2>1. /\ Opener[x] = n /\ s.ec[x].state = "none" /\ \A m \in s.sent : m.x # x
          /\ node' = [node EXCEPT ![n] = r]
        BY <1>3 DEF Open
    <2>2. Pair(n, r, node[Peer(n)]) /\ Pair(Peer(n), node[Peer(n)], r)
        BY <1>1, <2>1, OpenAdvances
    <2> HIDE DEF r
    <2> QED BY <1>0, <2>1, <2>2, BothAdvance
<1>4. ASSUME NEW n \in Nodes, NEW x \in Exchanges, NEW e \in BOOLEAN, SendAnnounced(n, x, e)
      PROVE  \A k \in Nodes : Pair(k, node'[k], node'[Peer(k)])
    <2> DEFINE r == SendOrAbort(node[n], x, e)
    <2>1. node[n].ec[x].state = "open" /\ node[n].ec[x].send /\ node' = [node EXCEPT ![n] = r]
        BY <1>4 DEF SendAnnounced
    <2>2. Pair(n, r, node[Peer(n)]) /\ Pair(Peer(n), node[Peer(n)], r)
        BY <1>1, <2>1, SendAnnouncedAdvances
    <2> HIDE DEF r
    <2> QED BY <1>0, <2>1, <2>2, BothAdvance
<1>5. ASSUME NEW n \in Nodes, NEW x \in Exchanges, ResponseTimeout(n, x)
      PROVE  \A k \in Nodes : Pair(k, node'[k], node'[Peer(k)])
    <2> DEFINE s == node[n]
               r == MessageHandled([s EXCEPT !.ec[x].resp = FALSE, !.active = FALSE], x)
    <2>1. s.ec[x].resp /\ node' = [node EXCEPT ![n] = r]
        BY <1>5 DEF ResponseTimeout
    <2>2. Pair(n, r, node[Peer(n)]) /\ Pair(Peer(n), node[Peer(n)], r)
        BY <1>1, <2>1, ResponseTimeoutAdvances
    <2> HIDE DEF r
    <2> QED BY <1>0, <2>1, <2>2, BothAdvance
<1>6. ASSUME NEW n \in Nodes, NEW x \in Exchanges, AckTimeout(n, x)
      PROVE  \A k \in Nodes : Pair(k, node'[k], node'[Peer(k)])
    <2> DEFINE r == FlushAcks(node[n], x)
    <2>1. node[n].ec[x].ackPending /\ node' = [node EXCEPT ![n] = r]
        BY <1>6 DEF AckTimeout
    <2>2. Pair(n, r, node[Peer(n)]) /\ Pair(Peer(n), node[Peer(n)], r)
        BY <1>1, <2>1, AckTimeoutAdvances
    <2> HIDE DEF r
    <2> QED BY <1>0, <2>1, <2>2, BothAdvance
<1>7. ASSUME NEW n \in Nodes, NEW x \in Exchanges, RetransTimeout(n, x)
      PROVE  \A k \in Nodes : Pair(k, node'[k], node'[Peer(k)])
    <2> DEFINE s == node[n]
               r == IF s.ec[x].tries < MAX_RETRANS
                    THEN [s EXCEPT !.ec[x].tries = s.ec[x].tries + 1]
                    ELSE Released([s EXCEPT !.ec[x].entry = 0, !.ec[x].tries = 0,
                                            !.active = s.active /\ s.ec[x].resp], x)
    <2>1. s.ec[x].entry # 0 /\ node' = [node EXCEPT ![n] = r]
        BY <1>7 DEF RetransTimeout
    <2>2. Pair(n, r, node[Peer(n)]) /\ Pair(Peer(n), node[Peer(n)], r)
        BY <1>1, <2>1, RetransTimeoutAdvances
    <2> HIDE DEF r
    <2> QED BY <1>0, <2>1, <2>2, BothAdvance
<1>8. CASE UNCHANGED vars
    BY <1>8 DEF vars, Inv
<1> QED BY <1>2, <1>3, <1>4, <1>5, <1>6, <1>7, <1>8 DEF Next

\* Inv is inductive.
THEOREM SessionInvariant == Spec => []Inv
BY InvInit, InvStep, PTL DEF Spec

\* No application that answers what it is given, or sends what it has announced, runs into
\* the VerifyOrDie of AddToRetransTable, whatever is lost, duplicated or reordered.
THEOREM NoDeath == Spec => []NeverDies
<1>1. Inv => NeverDies
    BY DEF Inv, Pair, NeverDies
<1> QED BY <1>1, SessionInvariant, PTL

\* Between two nodes that run this code HandleMessage drops no message for not
\* acknowledging ours.
THEOREM NoMessageDropped == Spec => []OnlyBySpecViolation
<1>1. Inv => OnlyBySpecViolation
    BY DEF Inv, Pair, OnlyBySpecViolation
<1> QED BY <1>1, SessionInvariant, PTL

\* A context that is in the pool awaits something.
THEOREM ContextsReturn == Spec => []NoContextLeak
<1>1. Inv => NoContextLeak
    BY DEF Inv, Pair, Good, NoContextLeak
<1> QED BY <1>1, SessionInvariant, PTL

\* An acknowledgement of a request tells the truth: the peer's application has it, or it
\* came to a full pool, to nobody who takes it, or too late for the window.
THEOREM AcknowledgementsHold == Spec => []AckedRequestWasGiven
<1>1. Inv => AckedRequestWasGiven
    <2> SUFFICES ASSUME Inv, NEW n \in Nodes, NEW m \in node[n].sent, m.app, m.ack = 0,
                        m.ctr \in node[n].acked
                 PROVE  Served(node[Peer(n)], m.ctr)
        BY DEF AckedRequestWasGiven, Served
    <2>1. Pair(n, node[n], node[Peer(n)]) /\ Pair(Peer(n), node[Peer(n)], node[n])
        BY PeersAre, PeerOfPeer DEF Inv
    <2>2. ~Verify(node[Peer(n)].rx, m.ctr, FALSE)
        BY <2>1 DEF Pair, Passed
    <2> QED BY <2>1, <2>2 DEF Pair, Heard, Request
<1> QED BY <1>1, SessionInvariant, PTL
================================================================================
