-------------------------- MODULE CommissioningWindow --------------------------
(***************************************************************************)
(* The commissioning window: who may start a PASE session and when, the    *)
(* time-outs that end an attempt or the window, and the fail-safe that a   *)
(* PASE session and its commissioning run under.                           *)
(*                                                                         *)
(* src/src/app/server/CommissioningWindowManager.cpp with the commands of  *)
(* the Administrator Commissioning server, and what FailSafeContext.cpp,   *)
(* the General Commissioning and the Operational Credentials servers do to *)
(* the same state.  Handlers run one at a time under the stack lock and    *)
(* call each other, so each is a function on the record of the device and  *)
(* one step.  Commands the code refuses without a change are not steps.    *)
(***************************************************************************)
EXTENDS Integers, Sequences

CONSTANTS Fabrics,      \* fabric indices
          Sessions,     \* names of PASE sessions
          QueueSize,    \* entries of the CHIP event queue
          kMaxFailedCommissioningAttempts   \* 20 in the code

ASSUME ConstantsAssumption ==
    /\ Fabrics \subseteq Nat \ {0}
    /\ Sessions \subseteq Nat \ {0}
    /\ QueueSize \in Nat
    /\ kMaxFailedCommissioningAttempts \in Nat \ {0}

VARIABLE dev   \* the device

vars == <<dev>>

NoFabric == 0    \* kUndefinedFabricIndex, and a null opener
NoSession == 0   \* mPASESession is empty; as owner, a CASE session
Gone == -1       \* in place of its fabric index, a session that does not exist

Expired(i, add) == [type |-> "expired", index |-> i, add |-> add]
Disarm == [type |-> "disarm", index |-> NoFabric, add |-> FALSE]
Complete == [type |-> "complete", index |-> NoFabric, add |-> FALSE]
Event == [type : {"expired", "disarm", "complete"}, index : Fabrics \cup {NoFabric},
          add : BOOLEAN]

Disarmed == [state |-> "off", index |-> NoFabric, add |-> FALSE]

\* open, opener, timer, listening, attempts, held: mWindowStatus,
\* mOpenerFabricIndex, mCommissioningTimeoutTimerArmed, mListeningForPASE,
\* mFailedCommissioningAttempts, mPASESession.  registered: the handler of
\* PBKDFParamRequest; handler: the platform event handler; pairing: what
\* mPairingSession is doing; attempt: the session establishment timer.
\* session: the fabric index of each PASE session.  History: owner, the
\* session that first armed the fail-safe; lost, whether an event found the
\* queue full.
Device == [open : BOOLEAN, opener : Fabrics \cup {NoFabric}, timer : BOOLEAN,
           listening : BOOLEAN, registered : BOOLEAN,
           pairing : {"idle", "waiting", "started"}, attempt : BOOLEAN,
           attempts : 0 .. kMaxFailedCommissioningAttempts + 1, handler : BOOLEAN,
           session : [Sessions -> Fabrics \cup {NoFabric, Gone}],
           held : Sessions \cup {NoSession},
           failSafe : [state : {"off", "armed", "busy"},
                       index : Fabrics \cup {NoFabric}, add : BOOLEAN],
           owner : Sessions \cup {NoSession}, fabrics : SUBSET Fabrics,
           queue : Seq(Event), lost : BOOLEAN]

TypeOK == dev \in Device /\ Len(dev.queue) <= QueueSize
--------------------------------------------------------------------------------
(* The fail-safe and the PASE sessions.                                    *)

Post(s, event) ==
    IF Len(s.queue) < QueueSize THEN [s EXCEPT !.queue = Append(@, event)]
    ELSE [s EXCEPT !.lost = TRUE]

\* FailSafeTimerExpired, ForceFailSafeTimerExpiry and ScheduleFailSafeCleanup.
FailSafeTimerExpired(s) ==
    IF s.failSafe.state # "armed" THEN s
    ELSE Post(Post([s EXCEPT !.failSafe.state = "busy"],
                   Expired(s.failSafe.index, s.failSafe.add)), Disarm)

\* MarkForEviction of the sessions in P.  OnSessionReleased of mPASESession
\* expires the fail-safe.
Evict(s, P) ==
    LET t == [s EXCEPT !.session = [p \in Sessions |-> IF p \in P THEN Gone ELSE @[p]]]
    IN  IF s.held \in P THEN FailSafeTimerExpired([t EXCEPT !.held = NoSession]) ELSE t

\* The sessions of a fabric, a PASE session that has adopted it included.
SessionsOf(s, f) == {p \in Sessions : s.session[p] = f}

\* FabricTable::Delete as far as it matters here, and the sessions of the
\* fabric; OnFabricRemoved clears a stale opener.
Removed(s, f) ==
    Evict([s EXCEPT !.fabrics = @ \ {f}, !.opener = IF @ = f THEN NoFabric ELSE @],
          SessionsOf(s, f))
--------------------------------------------------------------------------------
(* Opening and closing the window.                                         *)

\* Mutant: mPairingSession is not cleared.
StopAdvertisementOnly(s) == [s EXCEPT !.registered = FALSE, !.listening = FALSE]

StopAdvertisement(s) ==
    [s EXCEPT !.registered = FALSE, !.listening = FALSE, !.pairing = "idle"]

\* Mutant: the window timer is not cancelled.
ResetStateTimerLeft(s) == [s EXCEPT !.open = FALSE, !.opener = NoFabric, !.handler = FALSE]

\* ResetState, which does not touch the session establishment timer.
ResetState(s) ==
    [s EXCEPT !.open = FALSE, !.opener = NoFabric, !.timer = FALSE, !.handler = FALSE]

Cleanup(s) == ResetState(StopAdvertisement(s))

\* Mutant: the window timer is not asked for.
CanAdvertiseAnyTime(s, ok) == ok

\* AdvertiseAndListenForPASE: whether it succeeds, and its effect if it does.
\* Whatever it had done before it failed, its callers undo with Cleanup.
CanAdvertise(s, ok) == s.timer /\ ok
Listening(s) ==
    [s EXCEPT !.registered = TRUE, !.listening = TRUE, !.pairing = "waiting", !.open = TRUE]

\* Mutant: one attempt too many.
HandleFailedAttemptLate(s, ok) ==
    LET t == [s EXCEPT !.attempts = @ + 1]
    IN  IF t.attempts <= kMaxFailedCommissioningAttempts /\ CanAdvertise(t, ok)
        THEN Listening(t) ELSE Cleanup(t)

HandleFailedAttempt(s, ok) ==
    LET t == [s EXCEPT !.attempts = @ + 1]
    IN  IF t.attempts < kMaxFailedCommissioningAttempts /\ CanAdvertise(t, ok)
        THEN Listening(t) ELSE Cleanup(t)

\* Mutant: the window does not wait for the fail-safe.
OpenAnyTime(f, ok) ==
    LET t == [dev EXCEPT !.attempts = 0, !.timer = TRUE]
    IN  /\ f \in dev.fabrics
        /\ ~dev.open
        /\ dev' = IF CanAdvertise(t, ok) THEN [Listening(t) EXCEPT !.opener = f]
                  ELSE Cleanup(t)

\* Mutant: the failed attempts of the last window are held against this one.
OpenKeepsCount(f, ok) ==
    LET t == [dev EXCEPT !.timer = TRUE]
    IN  /\ f \in dev.fabrics
        /\ ~dev.open
        /\ dev.failSafe.state = "off"
        /\ dev' = IF CanAdvertise(t, ok) THEN [Listening(t) EXCEPT !.opener = f]
                  ELSE Cleanup(t)

\* OpenCommissioningWindow and OpenBasicCommissioningWindow from fabric f.
OpenCommissioningWindow(f, ok) ==
    LET t == [dev EXCEPT !.attempts = 0, !.timer = TRUE]
    IN  /\ f \in dev.fabrics
        /\ ~dev.open
        /\ dev.failSafe.state = "off"
        /\ dev' = IF CanAdvertise(t, ok) THEN [Listening(t) EXCEPT !.opener = f]
                  ELSE Cleanup(t)

CloseCommissioningWindow(s) == IF s.open THEN Cleanup(s) ELSE s

\* RevokeCommissioning, from an administrator or over PASE.
RevokeCommissioning ==
    /\ dev.fabrics # {} \/ \E p \in Sessions : dev.session[p] # Gone
    /\ dev' = CloseCommissioningWindow(FailSafeTimerExpired(dev))

HandleCommissioningWindowTimeout ==
    /\ dev.timer
    /\ dev' = CloseCommissioningWindow([dev EXCEPT !.timer = FALSE])
--------------------------------------------------------------------------------
(* Pairing.                                                                *)

\* OnSessionEstablishmentError.
OnSessionEstablishmentError(s, ok) ==
    HandleFailedAttempt([s EXCEPT !.attempt = FALSE], ok)

\* OnUnsolicitedMessageReceived and HandlePBKDFParamRequest, which may fail.
PBKDFParamRequest(valid, ok) ==
    LET t == [dev EXCEPT !.registered = FALSE]
    IN  /\ dev.registered
        /\ dev' = IF valid /\ dev.pairing = "waiting"
                  THEN [t EXCEPT !.pairing = "started", !.attempt = TRUE]
                  ELSE OnSessionEstablishmentError(t, ok)

\* An error or a response time-out of mPairingSession.
PairingFails(ok) ==
    /\ dev.pairing = "started"
    /\ dev' = OnSessionEstablishmentError(dev, ok)

\* HandleSessionEstablishmentTimeout, perhaps of an attempt that ended when
\* its window was closed.
SessionEstablishmentTimeout(ok) ==
    /\ dev.attempt
    /\ dev' = OnSessionEstablishmentError(dev, ok)

\* Mutant: the event handler is not registered again.
SessionEstablishedUnheard(p, ok) ==
    LET t == StopAdvertisement([dev EXCEPT !.attempt = FALSE, !.session[p] = NoFabric])
    IN  /\ dev.pairing = "started"
        /\ dev.session[p] = Gone
        /\ dev' = CASE t.failSafe.state = "armed" -> [t EXCEPT !.held = p]
                    [] t.failSafe.state = "busy" -> HandleFailedAttempt(Evict(t, {p}), ok)
                    [] t.failSafe.state = "off" ->
                         [t EXCEPT !.failSafe.state = "armed", !.owner = p, !.held = p]

\* OnSessionEstablished: the fail-safe is armed unless it already is; one that
\* is busy cannot be.
OnSessionEstablished(p, ok) ==
    LET t == StopAdvertisement([dev EXCEPT !.attempt = FALSE, !.session[p] = NoFabric,
                                           !.handler = TRUE])
    IN  /\ dev.pairing = "started"
        /\ dev.session[p] = Gone
        /\ dev' = CASE t.failSafe.state = "armed" -> [t EXCEPT !.held = p]
                    [] t.failSafe.state = "busy" -> HandleFailedAttempt(Evict(t, {p}), ok)
                    [] t.failSafe.state = "off" ->
                         [t EXCEPT !.failSafe.state = "armed", !.owner = p, !.held = p]

\* The peer closes the session, or the table evicts it.
SessionReleased(p) ==
    /\ dev.session[p] # Gone
    /\ dev' = Evict(dev, {p})
--------------------------------------------------------------------------------
(* Commissioning commands.                                                 *)

\* A first ArmFailSafe over PASE, and over CASE, where it is refused while the
\* window is open.
ArmFailSafeOverPASE(p) ==
    /\ dev.session[p] # Gone
    /\ dev.failSafe.state = "off"
    /\ dev' = [dev EXCEPT !.failSafe = [Disarmed EXCEPT !.state = "armed",
                                                        !.index = dev.session[p]],
                          !.owner = p]

ArmFailSafeOverCASE(f) ==
    /\ f \in dev.fabrics
    /\ dev.failSafe.state = "off"
    /\ ~dev.open
    /\ dev' = [dev EXCEPT !.failSafe = [Disarmed EXCEPT !.state = "armed", !.index = f],
                          !.owner = NoSession]

\* AddNOC of fabric f under the fail-safe; over PASE the session adopts it.
AddNOC(f) ==
    /\ dev.failSafe.state = "armed"
    /\ ~dev.failSafe.add
    /\ f \in Fabrics \ dev.fabrics
    /\ \/ /\ dev.failSafe.index \in dev.fabrics
          /\ dev' = [dev EXCEPT !.fabrics = @ \cup {f}, !.failSafe.index = f,
                                !.failSafe.add = TRUE]
       \/ \E p \in Sessions :
             /\ dev.session[p] = dev.failSafe.index
             /\ dev' = [dev EXCEPT !.fabrics = @ \cup {f}, !.failSafe.index = f,
                                   !.failSafe.add = TRUE, !.session[p] = f]

\* CommissioningComplete over CASE, its commit taken as successful.
CommissioningComplete ==
    /\ dev.failSafe.state = "armed"
    /\ dev.failSafe.index \in dev.fabrics
    /\ dev' = Post([dev EXCEPT !.failSafe = Disarmed], Complete)

\* Mutant: the window manager is not told.
RemoveFabricUntold(f) ==
    /\ f \in dev.fabrics
    /\ dev' = Evict([dev EXCEPT !.fabrics = @ \ {f}], SessionsOf(dev, f))

RemoveFabric(f) ==
    /\ f \in dev.fabrics
    /\ dev' = Removed(dev, f)

\* The fail-safe timer, or an ArmFailSafe of zero seconds.
FailSafeExpires ==
    /\ dev.failSafe.state = "armed"
    /\ dev' = FailSafeTimerExpired(dev)
--------------------------------------------------------------------------------
(* The event queue.                                                        *)

\* OnPlatformEvent for an expired fail-safe, if the handler is registered.
OnFailSafeTimerExpired(s, ok) ==
    IF s.handler
    THEN HandleFailedAttempt(Evict(s, {s.held} \cap Sessions), ok)
    ELSE s

\* OnPlatformEvent for a completed commissioning.
OnCommissioningComplete(s) ==
    IF s.handler THEN Evict(Cleanup(s), Sessions) ELSE s

\* FailSafeCleanup of the Operational Credentials server comes after the window
\* manager, whose handler was added last.
Dispatch(ok) ==
    LET e == Head(dev.queue)
        s == [dev EXCEPT !.queue = Tail(@)]
    IN  /\ dev.queue # <<>>
        /\ dev' = CASE e.type = "expired" ->
                         LET t == OnFailSafeTimerExpired(s, ok)
                         IN  IF e.add THEN Removed(t, e.index) ELSE t
                    [] e.type = "disarm" -> [s EXCEPT !.failSafe = Disarmed]
                    [] e.type = "complete" -> OnCommissioningComplete(s)
--------------------------------------------------------------------------------
\* The device after a start with the fabrics F of its storage: one that is not
\* commissioned opens the window.
Boot(F) ==
    LET s == [open |-> FALSE, opener |-> NoFabric, timer |-> F = {},
              listening |-> FALSE, registered |-> FALSE, pairing |-> "idle",
              attempt |-> FALSE, attempts |-> 0, handler |-> FALSE,
              session |-> [p \in Sessions |-> Gone], held |-> NoSession,
              failSafe |-> Disarmed, owner |-> NoSession, fabrics |-> F,
              queue |-> <<>>, lost |-> FALSE]
    IN  IF F = {} THEN Listening(s) ELSE s

Init == \E F \in SUBSET Fabrics : dev = Boot(F)

\* A power cycle; a fabric that the fail-safe still held was never stored.
Restart ==
    dev' = Boot(dev.fabrics \ {f \in Fabrics : dev.failSafe.add /\ f = dev.failSafe.index})

Commands ==
    \/ \E f \in Fabrics, ok \in BOOLEAN : OpenCommissioningWindow(f, ok)
    \/ \E f \in Fabrics : ArmFailSafeOverCASE(f) \/ AddNOC(f) \/ RemoveFabric(f)
    \/ \E p \in Sessions : ArmFailSafeOverPASE(p) \/ SessionReleased(p)
    \/ RevokeCommissioning
    \/ CommissioningComplete

Pairing ==
    \/ \E valid, ok \in BOOLEAN : PBKDFParamRequest(valid, ok)
    \/ \E ok \in BOOLEAN : PairingFails(ok)
    \/ \E p \in Sessions, ok \in BOOLEAN : OnSessionEstablished(p, ok)

AttemptTimer == \E ok \in BOOLEAN : SessionEstablishmentTimeout(ok)
EventLoop == \E ok \in BOOLEAN : Dispatch(ok)

Next ==
    \/ Commands
    \/ Pairing
    \/ AttemptTimer
    \/ EventLoop
    \/ FailSafeExpires
    \/ HandleCommissioningWindowTimeout
    \/ Restart

Spec == Init /\ [][Next]_vars

\* Timers that run fire, and the event loop takes the events of its queue.
Fairness ==
    /\ WF_vars(HandleCommissioningWindowTimeout)
    /\ WF_vars(AttemptTimer)
    /\ WF_vars(FailSafeExpires)
    /\ WF_vars(EventLoop)

FairSpec == Spec /\ Fairness
--------------------------------------------------------------------------------
(* Properties.                                                             *)

\* The window is open exactly while its timer runs: no failed attempt, and no
\* time-out of an attempt that outlived its window, opens it again.
WindowHasTimer == dev.open <=> dev.timer

\* Outside the window nobody can pair, and the window manager hears of no
\* events; inside it, what is advertised is what is being done.
PairingOnlyInWindow ==
    /\ dev.listening \/ dev.handler => dev.open
    /\ dev.listening <=> dev.pairing # "idle"
    /\ dev.registered <=> dev.pairing = "waiting"

\* An open window is never deaf: a commissioner can start, one is pairing under
\* a timer, or a fail-safe is armed or has ended whose event the window manager
\* will hear of, unless the event queue was full.
WindowNotDeaf ==
    dev.open /\ ~dev.lost =>
        \/ dev.registered
        \/ dev.pairing = "started" /\ dev.attempt
        \/ /\ dev.handler
           /\ \/ dev.failSafe.state = "armed"
              \/ \E i \in 1 .. Len(dev.queue) : dev.queue[i].type \in {"expired", "complete"}

\* The window is closed after kMaxFailedCommissioningAttempts failed attempts.
GivesUp == dev.open => dev.attempts < kMaxFailedCommissioningAttempts

\* While the window is open no administrator holds the fail-safe: an armed one
\* was armed over PASE.
FailSafeForCommissioner ==
    dev.open /\ dev.failSafe.state = "armed" => dev.owner \in Sessions

\* AdminFabricIndex names a fabric that exists.
OpenerExists == dev.opener # NoFabric => dev.opener \in dev.fabrics

\* Every window closes, whatever the commissioners do and whichever time-outs
\* come late.
WindowCloses == dev.open ~> ~dev.open

\* OnSessionReleased: "at this point the fail-safe _must_ be associated with our
\* PASE session, since we arm it when the PASE session is set up, and anything
\* that disarms the fail-safe would also tear down the PASE session."
PaseOwnsFailSafe ==
    dev.held # NoSession /\ dev.failSafe.state = "armed" => dev.owner = dev.held
================================================================================
