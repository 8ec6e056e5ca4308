--------------------------- MODULE ReliableMessaging ---------------------------
(***************************************************************************)
(* Exchanges and the message reliability protocol (MRP) between the relay   *)
(* and one controller, over one CASE session and a network that loses,     *)
(* duplicates, delays and reorders messages.                               *)
(*                                                                         *)
(* src/src/messaging/ExchangeContext.cpp, ExchangeMgr.cpp,                 *)
(* ExchangeMessageDispatch.cpp, ReliableMessageMgr.cpp,                    *)
(* ReliableMessageContext.cpp, and of src/src/transport the session's      *)
(* message counters (MessageCounter.h, PeerMessageCounter.h) and           *)
(* SessionManager::SecureUnicastMessageDispatch.                           *)
(*                                                                         *)
(* Both nodes run this code.  A handler runs with the stack lock held, so  *)
(* it is one step; it is written as a composition of functions on the      *)
(* record of the node that runs it.                                        *)
(***************************************************************************)
EXTENDS PeerMessageCounter, FiniteSets

CONSTANTS Nodes,                  \* the two ends of the session
          Exchanges,              \* exchange identifiers
          Opener,                 \* the node that opens each exchange
          Replies,                \* what the application may do with a message
          MAX_RETRANS,            \* CHIP_CONFIG_RMP_DEFAULT_MAX_RETRANS, 4
          MAX_EXCHANGE_CONTEXTS   \* contexts in each node's pool, 8 in the relay

\* The application may do nothing more with a message, give a last answer, an
\* answer that expects one in turn, or an answer later (WillSendMessage).  It
\* may have no handler that takes the message ("unhandled"), or the exchange's
\* dispatch may not permit its type ("barred").
Refusals == {"unhandled", "barred"}
Uses == {"none", "last", "more", "later"}

ASSUME ConstantsAssumption ==
    /\ IsFiniteSet(Nodes) /\ Cardinality(Nodes) = 2
    /\ Opener \in [Exchanges -> Nodes]
    /\ Replies \in [Exchanges -> SUBSET (Uses \cup Refusals)]
    /\ MAX_RETRANS \in Nat
    /\ MAX_EXCHANGE_CONTEXTS \in [Nodes -> Nat]

VARIABLE node   \* the state of each node

vars == <<node>>

Peer(n) == CHOOSE p \in Nodes : p # n
kMessageCounterMax == CounterMod - 1
Counters == 1 .. kMessageCounterMax

\* An exchange context: state is "none" when it is not in the pool, "closed"
\* when the application has let go of it and only the retransmission table
\* holds it.  ackCtr is 0 until a message that wants an acknowledgement has
\* come, entry is the counter of the message in the retransmission table.
Context == [state : {"none", "open", "closed"}, resp : BOOLEAN, send : BOOLEAN,
            ackPending : BOOLEAN, ackCtr : Counters \cup {0},
            entry : Counters \cup {0}, tries : 0 .. MAX_RETRANS]
NoContext == [state |-> "none", resp |-> FALSE, send |-> FALSE,
              ackPending |-> FALSE, ackCtr |-> 0, entry |-> 0, tries |-> 0]

\* A message of exchange x: an application message, which wants to be
\* acknowledged, or a standalone acknowledgement; ack is 0 if it carries none.
Message == [ctr : Counters, x : Exchanges, app : BOOLEAN, ack : Counters \cup {0}]

\* last: the local message counter; rx: the counters received from the peer;
\* active: whether the session is not defunct; ec: the contexts;
\* sent: every message sent, any of which may arrive, once, often or never.
\* The rest is history: how often a message was given to the application,
\* which messages were acknowledged, which ones found the pool full or no taker,
\* whether VerifyOrDie failed, whether a message was dropped for not
\* acknowledging ours.
Node == [last : 0 .. kMessageCounterMax, rx : Synced, active : BOOLEAN,
         ec : [Exchanges -> Context], sent : SUBSET Message,
         given : [Counters -> 0 .. 2], acked : SUBSET Counters,
         turnedAway : SUBSET Counters, died : BOOLEAN, dropped : BOOLEAN]

TypeOK == node \in [Nodes -> Node]
-------------------------------------------------------------------------------
(* Sending.                                                                *)

\* Whether node n has a free context.
PoolFull(n, s) ==
    Cardinality({x \in Exchanges : s.ec[x].state # "none"}) >= MAX_EXCHANGE_CONTEXTS[n]

\* A closed context goes back to the pool when its retransmission is over.
Released(s, x) ==
    IF s.ec[x].state = "closed" /\ s.ec[x].entry = 0
    THEN [s EXCEPT !.ec[x] = NoContext] ELSE s

\* LocalSessionMessageCounter::AdvanceAndConsume refuses at the maximum.
Exhausted(s) == s.last = kMessageCounterMax

\* PrepareMessage and SendPreparedMessage.
Sent(s, x, app, ack) ==
    [s EXCEPT !.last = @ + 1,
              !.sent = @ \cup {[ctr |-> s.last + 1, x |-> x, app |-> app, ack |-> ack]}]

\* SendStandaloneAckMessage for counter c.  A send that fails leaves the
\* session defunct.
StandaloneAck(s, x, c) ==
    IF Exhausted(s) THEN [s EXCEPT !.active = FALSE] ELSE Sent(s, x, FALSE, c)

\* FlushAcks: TakePendingPeerAckMessageCounter comes first, so the
\* acknowledgement is no longer pending whether or not it can be sent.
FlushAcks(s, x) ==
    IF s.ec[x].ackPending
    THEN StandaloneAck([s EXCEPT !.ec[x].ackPending = FALSE], x, s.ec[x].ackCtr)
    ELSE s

\* Close: DoClose without, and Abort: DoClose with clearing the retransmission.
Close(s, x) ==
    Released(FlushAcks([s EXCEPT !.ec[x].state = "closed", !.ec[x].resp = FALSE], x), x)
Abort(s, x) == [FlushAcks(s, x) EXCEPT !.ec[x] = NoContext]

\* MessageHandled.
MessageHandled(s, x) ==
    IF s.ec[x].state = "open" /\ ~s.ec[x].resp /\ ~s.ec[x].send
    THEN Close(s, x) ELSE s

\* Mutant: kFlagWillSendMessage stays set after the message.
SendMessageAndExpectMore(s, x, expectResponse) ==
    LET took == [s EXCEPT !.ec[x].ackPending = FALSE]
    IN  IF s.ec[x].entry # 0 THEN [s EXCEPT !.died = TRUE]
        ELSE IF Exhausted(s) THEN [took EXCEPT !.active = FALSE]
        ELSE MessageHandled(
               [Sent(took, x, TRUE, s.ec[x].ackCtr) EXCEPT
                   !.ec[x].entry = s.last + 1, !.ec[x].tries = 0,
                   !.ec[x].resp = @ \/ expectResponse], x)

\* ExchangeContext::SendMessage and ExchangeMessageDispatch::SendMessage of an
\* application message.  The last acknowledgement is sent along whether or not
\* it is still pending.  AddToRetransTable dies if the exchange has a message
\* that is not acknowledged.  A send that fails leaves the exchange as it was,
\* apart from the acknowledgement it took, and the session defunct.
SendMessage(s, x, expectResponse) ==
    LET took == [s EXCEPT !.ec[x].ackPending = FALSE]
    IN  IF s.ec[x].entry # 0 THEN [s EXCEPT !.died = TRUE]
        ELSE IF Exhausted(s) THEN [took EXCEPT !.active = FALSE]
        ELSE MessageHandled(
               [Sent(took, x, TRUE, s.ec[x].ackCtr) EXCEPT
                   !.ec[x].entry = s.last + 1, !.ec[x].tries = 0,
                   !.ec[x].resp = @ \/ expectResponse, !.ec[x].send = FALSE], x)
-------------------------------------------------------------------------------
(* Receiving.                                                              *)

\* HandleRcvdAck.
HandleRcvdAck(s, x, m) ==
    IF m.ack # 0 /\ s.ec[x].entry = m.ack
    THEN [s EXCEPT !.ec[x].entry = 0, !.acked = @ \cup {m.ack}] ELSE s

\* Mutant: the acknowledgement of a duplicate replaces what was valid before.
AckDuplicateInPlace(s, x, m, dup) ==
    LET c == s.ec[x]
    IN  IF dup
        THEN [StandaloneAck(s, x, m.ctr) EXCEPT !.ec[x].ackPending = FALSE,
                                               !.ec[x].ackCtr = m.ctr]
        ELSE IF c.ackPending /\ Exhausted(s) THEN FlushAcks(s, x)
        ELSE [FlushAcks(s, x) EXCEPT !.ec[x].ackPending = TRUE, !.ec[x].ackCtr = m.ctr]

\* HandleNeedsAckInner.  A duplicate is acknowledged at once; what was pending
\* before stays pending, and what was valid stays valid.
HandleNeedsAck(s, x, m, dup) ==
    LET c == s.ec[x]
        was == c.ackPending /\ c.ackCtr # m.ctr
    IN  IF dup
        THEN [StandaloneAck(s, x, m.ctr) EXCEPT
                 !.ec[x].ackPending = was,
                 !.ec[x].ackCtr = IF c.ackCtr # 0 THEN c.ackCtr ELSE m.ctr]
        ELSE IF c.ackPending /\ Exhausted(s) THEN FlushAcks(s, x)
        ELSE [FlushAcks(s, x) EXCEPT !.ec[x].ackPending = TRUE, !.ec[x].ackCtr = m.ctr]

\* OnMessageReceived of the delegate, and what the application does then;
\* DefaultOnMessageReceived does nothing with a message that is not permitted.
Deliver(s, x, m, reply) ==
    LET t == [s EXCEPT !.given[m.ctr] = IF @ = 2 THEN 2 ELSE @ + 1]
    IN  CASE reply \in Refusals -> s
          [] reply = "none" -> t
          [] reply = "later" -> [t EXCEPT !.ec[x].send = TRUE]
          [] reply = "last" -> SendMessage(t, x, FALSE)
          [] reply = "more" -> SendMessage(t, x, TRUE)

\* Mutant: a duplicate is acknowledged and then handled like a first message.
HandleMessageAgain(s, x, m, dup, reply) ==
    LET a == IF dup THEN s ELSE HandleRcvdAck(s, x, m)
        b == IF m.app THEN HandleNeedsAck(a, x, m, dup) ELSE a
        c == IF b.ec[x].state = "closed" THEN FlushAcks(b, x) ELSE b
        d == [c EXCEPT !.ec[x].resp = FALSE]
    IN  Released(
          IF ~m.app \/ c.ec[x].state = "closed" THEN c
          ELSE IF c.ec[x].entry # 0 THEN MessageHandled(c, x)
          ELSE MessageHandled(Deliver(d, x, m, reply), x), x)

\* ExchangeContext::HandleMessage.
HandleMessage(s, x, m, dup, reply) ==
    LET a == IF dup THEN s ELSE HandleRcvdAck(s, x, m)
        b == IF m.app THEN HandleNeedsAck(a, x, m, dup) ELSE a
        c == IF b.ec[x].state = "closed" THEN FlushAcks(b, x) ELSE b
        d == [c EXCEPT !.ec[x].resp = FALSE]
    IN  Released(
          IF ~m.app \/ dup THEN c
          ELSE IF c.ec[x].entry # 0 THEN MessageHandled([c EXCEPT !.dropped = TRUE], x)
          ELSE IF c.ec[x].state = "closed" THEN c
          ELSE MessageHandled(Deliver(d, x, m, reply), x), x)

\* Mutant: a message for which there is no context left is acknowledged as well.
AcknowledgeTurnedAway(n, s, m, dup, reply) ==
    IF s.ec[m.x].state # "none" THEN HandleMessage(s, m.x, m, dup, reply)
    ELSE IF ~m.app THEN s
    ELSE IF ~dup /\ Opener[m.x] # n /\ reply # "unhandled" /\ ~PoolFull(n, s)
    THEN HandleMessage([s EXCEPT !.ec[m.x].state = "open"], m.x, m, dup, reply)
    ELSE StandaloneAck(s, m.x, m.ctr)

\* ExchangeManager::OnMessageReceived.  A message of the opener that is no
\* duplicate, matches no context and finds a handler gets a new context, and is
\* dropped if the pool is full.  Any other message without a context is
\* acknowledged through an ephemeral one, if it wants to be and the pool is not
\* full.
OnMessageReceived(n, s, m, dup, reply) ==
    IF s.ec[m.x].state # "none" THEN HandleMessage(s, m.x, m, dup, reply)
    ELSE IF ~m.app THEN s
    ELSE IF PoolFull(n, s) THEN IF dup THEN s ELSE [s EXCEPT !.turnedAway = @ \cup {m.ctr}]
    ELSE IF ~dup /\ Opener[m.x] # n /\ reply # "unhandled"
    THEN HandleMessage([s EXCEPT !.ec[m.x].state = "open"], m.x, m, dup, reply)
    ELSE StandaloneAck(s, m.x, m.ctr)

\* History: the message came for the first time, and nobody takes it.
NoteRefusal(s, m, reply) ==
    IF m.app /\ reply \in Refusals THEN [s EXCEPT !.turnedAway = @ \cup {m.ctr}] ELSE s

\* SecureUnicastMessageDispatch.  MarkActiveRx revives a defunct session.
Receive(n, m, reply) ==
    LET s == [node[n] EXCEPT !.active = TRUE]
        dup == ~Verify(s.rx, m.ctr, FALSE)
        t == IF dup THEN s
             ELSE NoteRefusal([s EXCEPT !.rx = Commit(@, m.ctr, FALSE)], m, reply)
    IN  /\ m \in node[Peer(n)].sent
        /\ node' = [node EXCEPT ![n] =
             IF dup /\ ~m.app THEN s
             ELSE OnMessageReceived(n, t, m, dup, reply)]
-------------------------------------------------------------------------------
(* The application and the timers.                                         *)

\* After a send that failed the application aborts the exchange.
SendOrAbort(s, x, expectResponse) ==
    IF Exhausted(s) THEN Abort(SendMessage(s, x, expectResponse), x)
    ELSE SendMessage(s, x, expectResponse)

\* NewContext and the first message.
Open(n, x, expectResponse) ==
    /\ Opener[x] = n
    /\ node[n].active
    /\ ~PoolFull(n, node[n])
    /\ node[n].ec[x].state = "none"
    /\ \A m \in node[n].sent : m.x # x
    /\ node' = [node EXCEPT ![n] =
                  SendOrAbort([@ EXCEPT !.ec[x].state = "open", !.ec[x].send = TRUE],
                              x, expectResponse)]

\* The message that WillSendMessage announced.
SendAnnounced(n, x, expectResponse) ==
    /\ node[n].ec[x].state = "open"
    /\ node[n].ec[x].send
    /\ node' = [node EXCEPT ![n] = SendOrAbort(@, x, expectResponse)]

\* HandleResponseTimeout.
ResponseTimeout(n, x) ==
    /\ node[n].ec[x].resp
    /\ node' = [node EXCEPT ![n] =
                  MessageHandled([@ EXCEPT !.ec[x].resp = FALSE, !.active = FALSE], x)]

\* ExecuteActions for an acknowledgement that is due.
AckTimeout(n, x) ==
    /\ node[n].ec[x].ackPending
    /\ node' = [node EXCEPT ![n] = FlushAcks(@, x)]

\* Mutant: the limit is checked after the count.
RetransTimeoutOneMore(n, x) ==
    LET s == node[n]
        c == s.ec[x]
    IN  /\ c.entry # 0
        /\ node' = [node EXCEPT ![n] =
             IF c.tries <= MAX_RETRANS THEN [s EXCEPT !.ec[x].tries = c.tries + 1]
             ELSE Released([s EXCEPT !.ec[x].entry = 0, !.ec[x].tries = 0,
                                     !.active = s.active /\ c.resp], x)]

\* Mutant: an entry that is given up does not release its exchange.
RetransTimeoutHolding(n, x) ==
    LET s == node[n]
        c == s.ec[x]
    IN  /\ c.entry # 0
        /\ node' = [node EXCEPT ![n] =
             IF c.tries < MAX_RETRANS THEN [s EXCEPT !.ec[x].tries = c.tries + 1]
             ELSE [s EXCEPT !.ec[x].entry = 0, !.ec[x].tries = 0,
                            !.active = s.active /\ c.resp]]

\* ExecuteActions for a message that is due: it is sent once more, or given up
\* after MAX_RETRANS times, which leaves the session defunct unless a response
\* is awaited.
RetransTimeout(n, x) ==
    LET s == node[n]
        c == s.ec[x]
    IN  /\ c.entry # 0
        /\ node' = [node EXCEPT ![n] =
             IF c.tries < MAX_RETRANS THEN [s EXCEPT !.ec[x].tries = c.tries + 1]
             ELSE Released([s EXCEPT !.ec[x].entry = 0, !.ec[x].tries = 0,
                                     !.active = s.active /\ c.resp], x)]
-------------------------------------------------------------------------------
Init ==
    node = [n \in Nodes |->
              [last |-> 0, rx |-> SetCounter(0), active |-> TRUE,
               ec |-> [x \in Exchanges |-> NoContext], sent |-> {},
               given |-> [c \in Counters |-> 0], acked |-> {}, turnedAway |-> {},
               died |-> FALSE, dropped |-> FALSE]]

Next ==
    \E n \in Nodes :
        \/ \E m \in node[Peer(n)].sent : \E reply \in Replies[m.x] : Receive(n, m, reply)
        \/ \E x \in Exchanges :
             \/ \E expectResponse \in BOOLEAN :
                   Open(n, x, expectResponse) \/ SendAnnounced(n, x, expectResponse)
             \/ ResponseTimeout(n, x)
             \/ AckTimeout(n, x)
             \/ RetransTimeout(n, x)

Spec == Init /\ [][Next]_vars
-------------------------------------------------------------------------------
(* Properties.                                                             *)

\* However often a message is retransmitted or duplicated, and in whatever
\* order messages arrive, the application gets it at most once.
DeliveredOnce == \A n \in Nodes, c \in Counters : node[n].given[c] <= 1

\* AddToRetransTable's VerifyOrDie: the application, which answers when it has
\* been given a message or has announced an answer, never finds an earlier
\* message of the exchange still unacknowledged.
NeverDies == \A n \in Nodes : ~node[n].died

\* HandleMessage: "The only way we can get here is a spec violation on the
\* other side: we sent a message that needs an ack, and the other side responded
\* with a message that does not contain an ack for the message we sent."
OnlyBySpecViolation == \A n \in Nodes : ~node[n].dropped

\* An acknowledged request has been given to the other side's application,
\* unless when it first came it found that side's pool full, no handler that
\* takes it or a dispatch that does not permit it, or came when more than a
\* window of later messages had come: its counter is taken as received then,
\* and what is retransmitted is acknowledged as a duplicate.
AckedRequestWasGiven ==
    \A n \in Nodes : \A m \in node[n].sent :
        LET peer == node[Peer(n)]
        IN  (m.app /\ m.ack = 0 /\ m.ctr \in node[n].acked) =>
                \/ peer.given[m.ctr] = 1
                \/ m.ctr \in peer.turnedAway
                \/ peer.rx.max - m.ctr > WINDOW_SIZE

\* No context is lost from the pool: each one in use awaits a response, has
\* an answer announced or a message in the retransmission table, and for the
\* first and the last of these a timer runs.
NoContextLeak ==
    \A n \in Nodes, x \in Exchanges :
        LET c == node[n].ec[x]
        IN  /\ c.state = "open" => c.resp \/ c.send
            /\ c.state = "closed" => c.entry # 0
            /\ c.state = "none" => c = NoContext
===============================================================================
