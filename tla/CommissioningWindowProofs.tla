----------------------- MODULE CommissioningWindowProofs -----------------------
(***************************************************************************)
(* Proofs about CommissioningWindow, for every set of fabrics and sessions, *)
(* every size of the event queue and every limit of failed attempts.        *)
(***************************************************************************)
EXTENDS CommissioningWindow, SequenceTheorems, TLAPS

\* r has the window, the opener and the fabrics of s.
SameWindow(s, r) ==
    /\ r.open = s.open /\ r.timer = s.timer /\ r.opener = s.opener
    /\ r.listening = s.listening /\ r.registered = s.registered
    /\ r.pairing = s.pairing /\ r.attempt = s.attempt
    /\ r.attempts = s.attempts /\ r.handler = s.handler
    /\ r.owner = s.owner /\ r.fabrics = s.fabrics

\* A device whose event queue is within its size.
Sized(s) == s \in Device /\ Len(s.queue) <= QueueSize

\* What holds of the window, the fail-safe and the opener in every state.
WindowOK(s) ==
    /\ s.open <=> s.timer
    /\ s.open => s.attempts < kMaxFailedCommissioningAttempts
    /\ s.open /\ s.failSafe.state = "armed" => s.owner \in Sessions
    /\ s.opener # NoFabric => s.opener \in s.fabrics

\* What holds between handlers of what the window does, and of the attempts: a
\* late time-out can count one attempt more than the limit, and only one.
PairingOK(s) ==
    /\ s.listening \/ s.handler => s.open
    /\ s.listening <=> s.pairing # "idle"
    /\ s.registered <=> s.pairing = "waiting"
    /\ s.attempts > kMaxFailedCommissioningAttempts => ~s.attempt

WindowInv == Sized(dev) /\ WindowOK(dev) /\ PairingOK(dev)
--------------------------------------------------------------------------------
(* The functions that make up the handlers *)

LEMMA EventTypes ==
    /\ Disarm \in Event
    /\ Complete \in Event
    /\ \A i \in Fabrics \cup {NoFabric}, add \in BOOLEAN : Expired(i, add) \in Event
BY DEF Disarm, Complete, Expired, Event

LEMMA DisarmedType ==
    Disarmed \in [state : {"off", "armed", "busy"}, index : Fabrics \cup {NoFabric},
                  add : BOOLEAN]
BY DEF Disarmed

LEMMA PostType ==
    ASSUME NEW s, Sized(s), NEW e \in Event
    PROVE  /\ Sized(Post(s, e))
           /\ SameWindow(s, Post(s, e))
           /\ Post(s, e).failSafe = s.failSafe
<1>1. CASE Len(s.queue) < QueueSize
    <2>1. s.queue \in Seq(Event)
        BY DEF Sized, Device
    <2>2. Append(s.queue, e) \in Seq(Event) /\ Len(Append(s.queue, e)) = Len(s.queue) + 1
        BY <2>1
    <2>3. Post(s, e) = [s EXCEPT !.queue = Append(s.queue, e)]
        BY <1>1 DEF Post
    <2>4. Post(s, e) \in Device /\ Post(s, e).queue = Append(s.queue, e)
        BY <2>2, <2>3 DEF Sized, Device
    <2>5. Len(Append(s.queue, e)) <= QueueSize
        BY <1>1, <2>1, <2>2, ConstantsAssumption
    <2> QED BY <2>3, <2>4, <2>5 DEF Sized, SameWindow, Device
<1>2. CASE ~(Len(s.queue) < QueueSize)
    BY <1>2 DEF Post, Sized, SameWindow, Device
<1> QED BY <1>1, <1>2

LEMMA ExpiryType ==
    ASSUME NEW s, Sized(s)
    PROVE  /\ Sized(FailSafeTimerExpired(s))
           /\ SameWindow(s, FailSafeTimerExpired(s))
           /\ FailSafeTimerExpired(s).failSafe.state # "armed"
<1>1. CASE s.failSafe.state # "armed"
    BY <1>1 DEF FailSafeTimerExpired, SameWindow
<1>2. CASE s.failSafe.state = "armed"
    <2> DEFINE a == [s EXCEPT !.failSafe.state = "busy"]
               x == Expired(s.failSafe.index, s.failSafe.add)
    <2>1. /\ Sized(a) /\ SameWindow(s, a) /\ a.failSafe.state = "busy"
        BY DEF Sized, SameWindow, Device
    <2>2. x \in Event
        BY EventTypes DEF Sized, Device
    <2> HIDE DEF a, x
    <2>3. /\ Sized(Post(a, x)) /\ SameWindow(a, Post(a, x))
          /\ Post(a, x).failSafe = a.failSafe
        BY <2>1, <2>2, PostType
    <2>4. /\ Sized(Post(Post(a, x), Disarm))
          /\ SameWindow(Post(a, x), Post(Post(a, x), Disarm))
          /\ Post(Post(a, x), Disarm).failSafe = Post(a, x).failSafe
        BY <2>3, EventTypes, PostType
    <2>5. FailSafeTimerExpired(s) = Post(Post(a, x), Disarm)
        BY <1>2 DEF FailSafeTimerExpired, a, x
    <2>6. SameWindow(s, Post(Post(a, x), Disarm))
        BY <2>1, <2>3, <2>4 DEF SameWindow
    <2> QED BY <2>1, <2>3, <2>4, <2>5, <2>6
<1> QED BY <1>1, <1>2

LEMMA EvictType ==
    ASSUME NEW s, Sized(s), NEW P \in SUBSET Sessions
    PROVE  /\ Sized(Evict(s, P))
           /\ SameWindow(s, Evict(s, P))
           /\ Evict(s, P).failSafe.state = "armed" => s.failSafe.state = "armed"
<1> DEFINE gone == [p \in Sessions |-> IF p \in P THEN Gone ELSE s.session[p]]
           t == [s EXCEPT !.session = gone]
           u == [t EXCEPT !.held = NoSession]
<1>1. gone \in [Sessions -> Fabrics \cup {NoFabric, Gone}]
    BY DEF Sized, Device
<1> HIDE DEF gone
<1>2. Sized(t) /\ SameWindow(s, t) /\ t.failSafe = s.failSafe
    BY <1>1 DEF Sized, SameWindow, Device
<1> HIDE DEF t
<1>3. Sized(u) /\ SameWindow(t, u) /\ u.failSafe = t.failSafe
    BY <1>2 DEF Sized, SameWindow, Device
<1> HIDE DEF u
<1>4. Evict(s, P) = IF s.held \in P THEN FailSafeTimerExpired(u) ELSE t
    BY DEF Evict, gone, t, u, Sized, Device
<1>5. /\ Sized(FailSafeTimerExpired(u)) /\ SameWindow(u, FailSafeTimerExpired(u))
      /\ FailSafeTimerExpired(u).failSafe.state # "armed"
    BY <1>3, ExpiryType
<1>6. SameWindow(s, FailSafeTimerExpired(u))
    BY <1>2, <1>3, <1>5 DEF SameWindow
<1> QED BY <1>2, <1>4, <1>5, <1>6

\* What SameWindow carries from one device to another.
LEMMA Carried ==
    ASSUME NEW s, NEW r, SameWindow(s, r),
           r.failSafe.state = "armed" => s.failSafe.state = "armed"
    PROVE  (WindowOK(s) => WindowOK(r)) /\ (PairingOK(s) => PairingOK(r))
BY DEF SameWindow, WindowOK, PairingOK

LEMMA RemovedType ==
    ASSUME NEW s, Sized(s), WindowOK(s), PairingOK(s), NEW f
    PROVE  Sized(Removed(s, f)) /\ WindowOK(Removed(s, f)) /\ PairingOK(Removed(s, f))
<1> DEFINE t == [s EXCEPT !.fabrics = @ \ {f}, !.opener = IF @ = f THEN NoFabric ELSE @]
<1>1. Sized(t) /\ t.failSafe = s.failSafe
    BY DEF Sized, Device
<1>2. WindowOK(t) /\ PairingOK(t)
    BY DEF Sized, Device, WindowOK, PairingOK
<1>3. SessionsOf(s, f) \in SUBSET Sessions
    BY DEF SessionsOf
<1>4. Removed(s, f) = Evict(t, SessionsOf(s, f))
    BY DEF Removed
<1> HIDE DEF t
<1> QED BY <1>1, <1>2, <1>3, <1>4, EvictType, Carried

LEMMA CleanupType ==
    ASSUME NEW s, Sized(s)
    PROVE  /\ Sized(Cleanup(s))
           /\ WindowOK(Cleanup(s))
           /\ ~Cleanup(s).open
           /\ (s.attempts > kMaxFailedCommissioningAttempts => ~s.attempt) => PairingOK(Cleanup(s))
BY DEF Sized, Device, Cleanup, ResetState, StopAdvertisement, WindowOK, PairingOK, NoFabric

LEMMA ListeningType ==
    ASSUME NEW s, Sized(s), s.timer,
           s.attempts < kMaxFailedCommissioningAttempts,
           s.failSafe.state = "armed" => s.owner \in Sessions,
           s.opener # NoFabric => s.opener \in s.fabrics
    PROVE  /\ Sized(Listening(s))
           /\ WindowOK(Listening(s))
           /\ PairingOK(Listening(s))
           /\ Listening(s).registered
<1>1. Sized(Listening(s)) /\ Listening(s).registered
    BY DEF Sized, Device, Listening
<1>2. /\ Listening(s).open = TRUE /\ Listening(s).timer = s.timer
      /\ Listening(s).attempts = s.attempts /\ Listening(s).failSafe = s.failSafe
      /\ Listening(s).owner = s.owner /\ Listening(s).opener = s.opener
      /\ Listening(s).fabrics = s.fabrics /\ Listening(s).listening = TRUE
      /\ Listening(s).pairing = "waiting" /\ Listening(s).registered = TRUE
      /\ Listening(s).handler = s.handler
    BY DEF Sized, Device, Listening
<1>3. s.attempts \in Nat
    BY DEF Sized, Device
<1> QED BY <1>1, <1>2, <1>3, ConstantsAssumption DEF WindowOK, PairingOK

\* HandleFailedAttempt leaves the window closed or listening.
LEMMA FailedAttemptType ==
    ASSUME NEW s, Sized(s), WindowOK(s), NEW ok \in BOOLEAN,
           s.attempts <= kMaxFailedCommissioningAttempts,
           s.attempts = kMaxFailedCommissioningAttempts => ~s.attempt
    PROVE  /\ Sized(HandleFailedAttempt(s, ok))
           /\ WindowOK(HandleFailedAttempt(s, ok))
           /\ PairingOK(HandleFailedAttempt(s, ok))
           /\ HandleFailedAttempt(s, ok).open => HandleFailedAttempt(s, ok).registered
<1> DEFINE t == [s EXCEPT !.attempts = @ + 1]
<1>0. s.attempts \in Nat /\ kMaxFailedCommissioningAttempts \in Nat
    BY ConstantsAssumption DEF Sized, Device
<1>1. s.attempts + 1 \in 0 .. kMaxFailedCommissioningAttempts + 1
    BY <1>0
<1>2. /\ Sized(t) /\ t.attempts = s.attempts + 1 /\ t.attempt = s.attempt
      /\ t.timer = s.timer /\ t.open = s.open /\ t.failSafe = s.failSafe
      /\ t.owner = s.owner /\ t.opener = s.opener /\ t.fabrics = s.fabrics
    BY <1>1 DEF Sized, Device
<1>3. t.attempts > kMaxFailedCommissioningAttempts => ~t.attempt
    BY <1>0, <1>2
<1>4. HandleFailedAttempt(s, ok) =
          IF t.attempts < kMaxFailedCommissioningAttempts /\ CanAdvertise(t, ok)
          THEN Listening(t) ELSE Cleanup(t)
    BY DEF HandleFailedAttempt
<1> HIDE DEF t
<1>5. CASE t.attempts < kMaxFailedCommissioningAttempts /\ CanAdvertise(t, ok)
    <2>1. t.timer
        BY <1>5 DEF CanAdvertise
    <2>2. s.open
        BY <1>2, <2>1 DEF WindowOK
    <2>3. /\ t.failSafe.state = "armed" => t.owner \in Sessions
          /\ t.opener # NoFabric => t.opener \in t.fabrics
        BY <1>2, <2>2 DEF WindowOK
    <2> QED BY <1>2, <1>4, <1>5, <2>1, <2>3, ListeningType
<1>6. CASE ~(t.attempts < kMaxFailedCommissioningAttempts /\ CanAdvertise(t, ok))
    BY <1>2, <1>3, <1>4, <1>6, CleanupType
<1> QED BY <1>5, <1>6

\* An attempt that ends while its window is open, or by its own time-out.
LEMMA ErrorType ==
    ASSUME NEW s, Sized(s), WindowOK(s), NEW ok \in BOOLEAN,
           s.attempts <= kMaxFailedCommissioningAttempts
    PROVE  /\ Sized(OnSessionEstablishmentError(s, ok))
           /\ WindowOK(OnSessionEstablishmentError(s, ok))
           /\ PairingOK(OnSessionEstablishmentError(s, ok))
<1> DEFINE t == [s EXCEPT !.attempt = FALSE]
<1>1. Sized(t) /\ WindowOK(t) /\ t.attempts = s.attempts /\ ~t.attempt
    BY DEF Sized, Device, WindowOK
<1>2. OnSessionEstablishmentError(s, ok) = HandleFailedAttempt(t, ok)
    BY DEF OnSessionEstablishmentError
<1> HIDE DEF t
<1> QED BY <1>1, <1>2, FailedAttemptType

\* While the window is open the limit has not been reached.
LEMMA OpenHasAttempts ==
    ASSUME NEW s, Sized(s), WindowOK(s), s.open
    PROVE  /\ s.attempts < kMaxFailedCommissioningAttempts
           /\ s.attempts <= kMaxFailedCommissioningAttempts
           /\ s.attempts # kMaxFailedCommissioningAttempts
BY ConstantsAssumption DEF Sized, Device, WindowOK

LEMMA DeviceFields ==
    ASSUME Sized(dev)
    PROVE  /\ dev.open \in BOOLEAN /\ dev.attempts \in Nat
           /\ dev.session \in [Sessions -> Fabrics \cup {NoFabric, Gone}]
           /\ dev.queue \in Seq(Event) /\ dev.fabrics \in SUBSET Fabrics
           /\ dev.failSafe \in [state : {"off", "armed", "busy"},
                               index : Fabrics \cup {NoFabric}, add : BOOLEAN]
BY ConstantsAssumption DEF Sized, Device
--------------------------------------------------------------------------------
(* Each action keeps the invariant *)

LEMMA BootOK ==
    ASSUME NEW F \in SUBSET Fabrics
    PROVE  Sized(Boot(F)) /\ WindowOK(Boot(F)) /\ PairingOK(Boot(F))
<1> DEFINE none == [p \in Sessions |-> Gone]
           empty == F = {}
           s == [open |-> FALSE, opener |-> NoFabric, timer |-> empty,
                 listening |-> FALSE, registered |-> FALSE, pairing |-> "idle",
                 attempt |-> FALSE, attempts |-> 0, handler |-> FALSE,
                 session |-> none, held |-> NoSession,
                 failSafe |-> Disarmed, owner |-> NoSession, fabrics |-> F,
                 queue |-> <<>>, lost |-> FALSE]
<1>1. none \in [Sessions -> Fabrics \cup {NoFabric, Gone}] /\ empty \in BOOLEAN
    OBVIOUS
<1>2. 0 \in 0 .. kMaxFailedCommissioningAttempts + 1
    BY ConstantsAssumption
<1>3. <<>> \in Seq(Event) /\ Len(<<>>) <= QueueSize
    BY ConstantsAssumption
<1>4. Boot(F) = IF F = {} THEN Listening(s) ELSE s
    BY DEF Boot
<1>5. Disarmed.state = "off"
    BY DEF Disarmed
<1> HIDE DEF none
<1>6. /\ Sized(s)
      /\ s.timer = empty /\ s.attempts = 0 /\ s.failSafe.state = "off"
      /\ s.opener = NoFabric
      /\ ~empty => WindowOK(s) /\ PairingOK(s)
    <2> HIDE DEF empty
    <2>1. s \in Device
        BY <1>1, <1>2, <1>3, DisarmedType DEF Device
    <2> QED BY <1>3, <1>5, <2>1, ConstantsAssumption DEF Sized, WindowOK, PairingOK
<1>7. 0 < kMaxFailedCommissioningAttempts
    BY ConstantsAssumption
<1> HIDE DEF s
<1> QED BY <1>4, <1>6, <1>7, ListeningType

LEMMA OpenOK ==
    ASSUME WindowInv, NEW f \in Fabrics, NEW ok \in BOOLEAN, OpenCommissioningWindow(f, ok)
    PROVE  WindowInv'
<1> DEFINE t == [dev EXCEPT !.attempts = 0, !.timer = TRUE]
           r == [Listening(t) EXCEPT !.opener = f]
<1>0. Sized(dev) /\ WindowOK(dev) /\ PairingOK(dev)
    BY DEF WindowInv
<1>1. 0 \in 0 .. kMaxFailedCommissioningAttempts + 1 /\ 0 < kMaxFailedCommissioningAttempts
    BY ConstantsAssumption
<1>2. /\ Sized(t) /\ t.timer = TRUE /\ t.attempts = 0 /\ t.failSafe.state = "off"
      /\ t.fabrics = dev.fabrics /\ t.opener = dev.opener
    BY <1>0, <1>1 DEF OpenCommissioningWindow, Sized, Device
<1>3. f \in dev.fabrics
      /\ dev' = IF CanAdvertise(t, ok) THEN r ELSE Cleanup(t)
    BY DEF OpenCommissioningWindow
<1> HIDE DEF t
<1>4. t.opener # NoFabric => t.opener \in t.fabrics
    BY <1>0, <1>2 DEF WindowOK
<1>5. /\ Sized(Listening(t)) /\ WindowOK(Listening(t)) /\ PairingOK(Listening(t))
      /\ Listening(t).fabrics = t.fabrics
    BY <1>1, <1>2, <1>4, ListeningType DEF Listening, Sized, Device
<1>6. Sized(r) /\ WindowOK(r) /\ PairingOK(r)
    <2> DEFINE l == Listening(t)
    <2> HIDE DEF l
    <2>1. Sized(l) /\ WindowOK(l) /\ PairingOK(l) /\ l.fabrics = dev.fabrics
        BY <1>2, <1>5 DEF l
    <2>2. LET q == [l EXCEPT !.opener = f] IN Sized(q) /\ WindowOK(q) /\ PairingOK(q)
        BY <1>3, <2>1 DEF Sized, Device, WindowOK, PairingOK
    <2> QED BY <2>2 DEF l
<1>7. Sized(Cleanup(t)) /\ WindowOK(Cleanup(t)) /\ PairingOK(Cleanup(t))
    BY <1>1, <1>2, CleanupType, ConstantsAssumption
<1> HIDE DEF r
<1> QED BY <1>3, <1>6, <1>7 DEF WindowInv

LEMMA CloseOK ==
    ASSUME NEW s, Sized(s), s.attempts > kMaxFailedCommissioningAttempts => ~s.attempt,
           ~s.open => WindowOK(s) /\ PairingOK(s)
    PROVE  /\ Sized(CloseCommissioningWindow(s))
           /\ WindowOK(CloseCommissioningWindow(s))
           /\ PairingOK(CloseCommissioningWindow(s))
BY CleanupType DEF CloseCommissioningWindow

LEMMA RevokeOK ==
    ASSUME WindowInv, RevokeCommissioning
    PROVE  WindowInv'
<1> DEFINE s == FailSafeTimerExpired(dev)
<1>1. Sized(s) /\ WindowOK(s) /\ PairingOK(s)
    BY ExpiryType, Carried DEF WindowInv
<1>2. dev' = CloseCommissioningWindow(s)
    BY DEF RevokeCommissioning
<1> HIDE DEF s
<1>3. s.attempts > kMaxFailedCommissioningAttempts => ~s.attempt
    BY <1>1 DEF PairingOK
<1> QED BY <1>1, <1>2, <1>3, CloseOK DEF WindowInv

LEMMA TimeoutOK ==
    ASSUME WindowInv, HandleCommissioningWindowTimeout
    PROVE  WindowInv'
<1> DEFINE s == [dev EXCEPT !.timer = FALSE]
<1>1. /\ Sized(s) /\ s.open = dev.open /\ s.attempts = dev.attempts
      /\ s.attempt = dev.attempt
    BY DEF WindowInv, Sized, Device
<1>2. s.open /\ dev' = CloseCommissioningWindow(s)
    BY <1>1 DEF HandleCommissioningWindowTimeout, WindowInv, WindowOK
<1>3. s.attempts > kMaxFailedCommissioningAttempts => ~s.attempt
    BY <1>1 DEF WindowInv, PairingOK
<1> HIDE DEF s
<1> QED BY <1>1, <1>2, <1>3, CloseOK DEF WindowInv

LEMMA RequestOK ==
    ASSUME WindowInv, NEW valid \in BOOLEAN, NEW ok \in BOOLEAN, PBKDFParamRequest(valid, ok)
    PROVE  WindowInv'
<1> DEFINE t == [dev EXCEPT !.registered = FALSE]
           u == [t EXCEPT !.pairing = "started", !.attempt = TRUE]
<1>1. dev.open /\ dev.pairing = "waiting"
    BY DEF WindowInv, PairingOK, PBKDFParamRequest
<1>2. dev.attempts < kMaxFailedCommissioningAttempts
    BY <1>1, OpenHasAttempts DEF WindowInv
<1>3. Sized(t) /\ WindowOK(t) /\ t.open /\ t.attempts = dev.attempts
    BY <1>1 DEF WindowInv, Sized, Device, WindowOK
<1>4. Sized(u) /\ WindowOK(u) /\ PairingOK(u)
    <2>1. Sized(u) /\ WindowOK(u)
        BY <1>1 DEF WindowInv, Sized, Device, WindowOK
    <2>2. /\ u.attempts = dev.attempts /\ u.registered = FALSE /\ u.pairing = "started"
          /\ u.open = dev.open /\ u.listening = dev.listening /\ u.handler = dev.handler
        BY DEF WindowInv, Sized, Device
    <2>3. dev.attempts \in Nat
        BY DeviceFields DEF WindowInv
    <2> QED BY <1>1, <1>2, <2>1, <2>2, <2>3, ConstantsAssumption DEF WindowInv, PairingOK
<1>5. dev' = IF valid /\ dev.pairing = "waiting" THEN u ELSE OnSessionEstablishmentError(t, ok)
    BY DEF PBKDFParamRequest
<1> HIDE DEF t, u
<1>6. /\ Sized(OnSessionEstablishmentError(t, ok)) /\ WindowOK(OnSessionEstablishmentError(t, ok))
      /\ PairingOK(OnSessionEstablishmentError(t, ok))
    BY <1>3, OpenHasAttempts, ErrorType
<1> QED BY <1>4, <1>5, <1>6 DEF WindowInv

LEMMA PairingFailsOK ==
    ASSUME WindowInv, NEW ok \in BOOLEAN, PairingFails(ok)
    PROVE  WindowInv'
<1>1. dev.open
    BY DEF WindowInv, PairingOK, PairingFails
<1> QED BY <1>1, OpenHasAttempts, ErrorType DEF WindowInv, PairingFails

LEMMA LateTimeoutOK ==
    ASSUME WindowInv, NEW ok \in BOOLEAN, SessionEstablishmentTimeout(ok)
    PROVE  WindowInv'
<1>1. ~(dev.attempts > kMaxFailedCommissioningAttempts)
    BY DEF WindowInv, PairingOK, SessionEstablishmentTimeout
<1>2. dev.attempts <= kMaxFailedCommissioningAttempts
    BY <1>1, DeviceFields, ConstantsAssumption DEF WindowInv
<1> QED BY <1>2, ErrorType DEF WindowInv, SessionEstablishmentTimeout

LEMMA EstablishedOK ==
    ASSUME WindowInv, NEW p \in Sessions, NEW ok \in BOOLEAN, OnSessionEstablished(p, ok)
    PROVE  WindowInv'
<1> DEFINE d == [dev EXCEPT !.attempt = FALSE, !.session[p] = NoFabric, !.handler = TRUE]
           t == StopAdvertisement(d)
<1>1. dev.open
    BY DEF WindowInv, PairingOK, OnSessionEstablished
<1>2. /\ Sized(d) /\ d.open = dev.open /\ d.timer = dev.timer /\ d.attempts = dev.attempts
      /\ d.failSafe = dev.failSafe /\ d.owner = dev.owner /\ d.opener = dev.opener
      /\ d.fabrics = dev.fabrics /\ d.attempt = FALSE
    BY DEF WindowInv, Sized, Device
<1>3. WindowOK(d)
    BY <1>2 DEF WindowInv, WindowOK
<1>4. /\ dev' = CASE t.failSafe.state = "armed" -> [t EXCEPT !.held = p]
                  [] t.failSafe.state = "busy" -> HandleFailedAttempt(Evict(t, {p}), ok)
                  [] t.failSafe.state = "off" ->
                       [t EXCEPT !.failSafe.state = "armed", !.owner = p, !.held = p]
    BY DEF OnSessionEstablished
<1> HIDE DEF d
<1>5. Sized(t) /\ WindowOK(t) /\ t.open = TRUE /\ t.attempt = FALSE
      /\ t.listening = FALSE /\ t.pairing = "idle" /\ t.registered = FALSE
    BY <1>1, <1>2, <1>3 DEF StopAdvertisement, Sized, Device, WindowOK
<1> HIDE DEF t
<1>6. t.failSafe.state \in {"off", "armed", "busy"}
    BY <1>5 DEF Sized, Device
<1>7. PairingOK(t)
    BY <1>5 DEF PairingOK
<1>8. CASE t.failSafe.state = "armed"
    <2>1. dev' = [t EXCEPT !.held = p]
        BY <1>4, <1>8
    <2>2. LET q == [t EXCEPT !.held = p] IN Sized(q) /\ WindowOK(q) /\ PairingOK(q)
        BY <1>5, <1>7 DEF Sized, Device, WindowOK, PairingOK
    <2> QED BY <2>1, <2>2 DEF WindowInv
<1>9. CASE t.failSafe.state = "busy"
    <2> DEFINE q == Evict(t, {p})
    <2>1. dev' = HandleFailedAttempt(q, ok)
        BY <1>4, <1>9
    <2>2. Sized(q) /\ WindowOK(q) /\ SameWindow(t, q)
        BY <1>5, EvictType, Carried
    <2> HIDE DEF q
    <2>3. q.open /\ ~q.attempt
        BY <1>5, <2>2 DEF SameWindow
    <2> QED BY <2>1, <2>2, <2>3, OpenHasAttempts, FailedAttemptType DEF WindowInv
<1>10. CASE t.failSafe.state = "off"
    <2>1. dev' = [t EXCEPT !.failSafe.state = "armed", !.owner = p, !.held = p]
        BY <1>4, <1>10
    <2>2. LET q == [t EXCEPT !.failSafe.state = "armed", !.owner = p, !.held = p]
          IN  Sized(q) /\ WindowOK(q) /\ PairingOK(q)
        BY <1>5, <1>7 DEF Sized, Device, WindowOK, PairingOK
    <2> QED BY <2>1, <2>2 DEF WindowInv
<1> QED BY <1>6, <1>8, <1>9, <1>10

LEMMA ReleasedOK ==
    ASSUME WindowInv, NEW p \in Sessions, SessionReleased(p)
    PROVE  WindowInv'
<1>1. {p} \in SUBSET Sessions /\ dev' = Evict(dev, {p})
    BY DEF SessionReleased
<1> QED BY <1>1, EvictType, Carried DEF WindowInv

LEMMA ArmOverPASEOK ==
    ASSUME WindowInv, NEW p \in Sessions, ArmFailSafeOverPASE(p)
    PROVE  WindowInv'
<1> DEFINE fs == [Disarmed EXCEPT !.state = "armed", !.index = dev.session[p]]
<1>1. dev.session[p] \in Fabrics \cup {NoFabric}
    BY DeviceFields DEF WindowInv, ArmFailSafeOverPASE
<1>2. /\ fs \in [state : {"off", "armed", "busy"}, index : Fabrics \cup {NoFabric},
                 add : BOOLEAN]
      /\ fs.state = "armed"
    BY <1>1 DEF Disarmed
<1>3. dev' = [dev EXCEPT !.failSafe = fs, !.owner = p]
    BY DEF ArmFailSafeOverPASE
<1> HIDE DEF fs
<1>4. Sized(dev') /\ WindowOK(dev') /\ PairingOK(dev')
    BY <1>2, <1>3 DEF WindowInv, Sized, Device, WindowOK, PairingOK
<1> QED BY <1>4 DEF WindowInv

LEMMA ArmOverCASEOK ==
    ASSUME WindowInv, NEW f \in Fabrics, ArmFailSafeOverCASE(f)
    PROVE  WindowInv'
<1> DEFINE fs == [Disarmed EXCEPT !.state = "armed", !.index = f]
<1>1. /\ fs \in [state : {"off", "armed", "busy"}, index : Fabrics \cup {NoFabric},
                 add : BOOLEAN]
      /\ fs.state = "armed"
    BY DEF Disarmed
<1>2. ~dev.open /\ dev' = [dev EXCEPT !.failSafe = fs, !.owner = NoSession]
    BY DEF ArmFailSafeOverCASE
<1> HIDE DEF fs
<1>3. Sized(dev') /\ WindowOK(dev') /\ PairingOK(dev')
    BY <1>1, <1>2 DEF WindowInv, Sized, Device, WindowOK, PairingOK
<1> QED BY <1>3 DEF WindowInv

LEMMA AddNOCOK ==
    ASSUME WindowInv, NEW f \in Fabrics, AddNOC(f)
    PROVE  WindowInv'
<1> DEFINE a == [dev EXCEPT !.fabrics = @ \cup {f}, !.failSafe.index = f, !.failSafe.add = TRUE]
<1>1. Sized(a) /\ WindowOK(a) /\ PairingOK(a)
    BY DEF WindowInv, Sized, Device, WindowOK, PairingOK
<1>2. CASE dev' = a
    BY <1>1, <1>2 DEF WindowInv
<1>3. ASSUME NEW p \in Sessions,
             dev' = [dev EXCEPT !.fabrics = @ \cup {f}, !.failSafe.index = f,
                                !.failSafe.add = TRUE, !.session[p] = f]
      PROVE  WindowInv'
    <2>1. Sized(dev') /\ WindowOK(dev') /\ PairingOK(dev')
        BY <1>3 DEF WindowInv, Sized, Device, WindowOK, PairingOK
    <2> QED BY <2>1 DEF WindowInv
<1> QED BY <1>2, <1>3 DEF AddNOC

LEMMA CompleteOK ==
    ASSUME WindowInv, CommissioningComplete
    PROVE  WindowInv'
<1> DEFINE d == [dev EXCEPT !.failSafe = Disarmed]
<1>1. Disarmed.state = "off"
    BY DEF Disarmed
<1>2. Sized(d) /\ SameWindow(dev, d) /\ d.failSafe.state = "off"
    BY <1>1, DisarmedType DEF WindowInv, Sized, Device, SameWindow
<1>3. dev' = Post(d, Complete)
    BY DEF CommissioningComplete
<1> HIDE DEF d
<1>4. /\ Sized(Post(d, Complete)) /\ SameWindow(d, Post(d, Complete))
      /\ Post(d, Complete).failSafe = d.failSafe
    BY <1>2, EventTypes, PostType
<1>5. SameWindow(dev, Post(d, Complete))
    BY <1>2, <1>4 DEF SameWindow
<1> QED BY <1>2, <1>3, <1>4, <1>5, Carried DEF WindowInv

LEMMA ExpiresOK ==
    ASSUME WindowInv, FailSafeExpires
    PROVE  WindowInv'
BY ExpiryType, Carried DEF WindowInv, FailSafeExpires

LEMMA DispatchOK ==
    ASSUME WindowInv, NEW ok \in BOOLEAN, Dispatch(ok)
    PROVE  WindowInv'
<1> DEFINE e == Head(dev.queue)
           s == [dev EXCEPT !.queue = Tail(@)]
           h == {s.held} \cap Sessions
           t == OnFailSafeTimerExpired(s, ok)
<1>1. /\ e \in Event /\ Tail(dev.queue) \in Seq(Event)
      /\ Len(Tail(dev.queue)) <= QueueSize
    BY DeviceFields, ConstantsAssumption DEF WindowInv, Sized, Dispatch
<1>2. Sized(s) /\ SameWindow(dev, s) /\ s.failSafe = dev.failSafe
    BY <1>1 DEF WindowInv, Sized, Device, SameWindow
<1>3. WindowOK(s) /\ PairingOK(s)
    BY <1>2, Carried DEF WindowInv
<1>4. /\ e.type \in {"expired", "disarm", "complete"}
      /\ dev' = CASE e.type = "expired" -> IF e.add THEN Removed(t, e.index) ELSE t
                  [] e.type = "disarm" -> [s EXCEPT !.failSafe = Disarmed]
                  [] e.type = "complete" -> OnCommissioningComplete(s)
    BY <1>1 DEF Dispatch, Event
<1> HIDE DEF e, s
<1>5. Sized(t) /\ WindowOK(t) /\ PairingOK(t)
    <2>1. CASE ~s.handler
        BY <1>2, <1>3, <2>1 DEF OnFailSafeTimerExpired
    <2>2. CASE s.handler
        <3>1. /\ Sized(Evict(s, h)) /\ SameWindow(s, Evict(s, h))
              /\ WindowOK(Evict(s, h))
            BY <1>2, <1>3, EvictType, Carried
        <3>2. s.open
            BY <1>3, <2>2 DEF PairingOK
        <3>3. Evict(s, h).open
            BY <3>1, <3>2 DEF SameWindow
        <3>4. t = HandleFailedAttempt(Evict(s, h), ok)
            BY <2>2 DEF OnFailSafeTimerExpired
        <3> HIDE DEF h
        <3> QED BY <3>1, <3>3, <3>4, OpenHasAttempts, FailedAttemptType
    <2> QED BY <2>1, <2>2
<1> HIDE DEF t
<1>6. CASE e.type = "expired"
    BY <1>4, <1>5, <1>6, RemovedType DEF WindowInv
<1>7. CASE e.type = "disarm"
    <2>1. dev' = [s EXCEPT !.failSafe = Disarmed]
        BY <1>4, <1>7
    <2>2. Disarmed.state = "off"
        BY DEF Disarmed
    <2>3. Sized(dev') /\ WindowOK(dev') /\ PairingOK(dev')
        BY <1>2, <1>3, <2>1, <2>2, DisarmedType DEF Sized, Device, WindowOK, PairingOK
    <2> QED BY <2>3 DEF WindowInv
<1>8. CASE e.type = "complete"
    <2>1. dev' = OnCommissioningComplete(s)
        BY <1>4, <1>8
    <2>2. CASE ~s.handler
        BY <1>2, <1>3, <2>1, <2>2 DEF OnCommissioningComplete, WindowInv
    <2>3. CASE s.handler
        <3>1. Sized(Cleanup(s)) /\ WindowOK(Cleanup(s)) /\ PairingOK(Cleanup(s))
            BY <1>2, <1>3, CleanupType DEF PairingOK
        <3>2. dev' = Evict(Cleanup(s), Sessions)
            BY <2>1, <2>3 DEF OnCommissioningComplete
        <3> QED BY <3>1, <3>2, EvictType, Carried DEF WindowInv
    <2> QED BY <2>2, <2>3
<1> QED BY <1>4, <1>6, <1>7, <1>8

LEMMA RestartOK ==
    ASSUME WindowInv, Restart
    PROVE  WindowInv'
<1> DEFINE F == dev.fabrics \ {f \in Fabrics : dev.failSafe.add /\ f = dev.failSafe.index}
<1>1. F \in SUBSET Fabrics /\ dev' = Boot(F)
    BY DeviceFields DEF WindowInv, Restart
<1> HIDE DEF F
<1> QED BY <1>1, BootOK DEF WindowInv
--------------------------------------------------------------------------------
(* The theorems *)

LEMMA WindowInvInit == Init => WindowInv
BY BootOK DEF Init, WindowInv

LEMMA WindowInvNext == WindowInv /\ [Next]_vars => WindowInv'
<1> SUFFICES ASSUME WindowInv, [Next]_vars PROVE WindowInv'
    OBVIOUS
<1>1. CASE Commands
    <2>1. ASSUME NEW f \in Fabrics, RemoveFabric(f) PROVE WindowInv'
        BY <2>1, RemovedType DEF WindowInv, RemoveFabric
    <2> QED BY <1>1, <2>1, OpenOK, ArmOverCASEOK, AddNOCOK, ArmOverPASEOK, ReleasedOK,
               RevokeOK, CompleteOK DEF Commands
<1>2. CASE Pairing
    BY <1>2, RequestOK, PairingFailsOK, EstablishedOK DEF Pairing
<1>3. CASE AttemptTimer
    BY <1>3, LateTimeoutOK DEF AttemptTimer
<1>4. CASE EventLoop
    BY <1>4, DispatchOK DEF EventLoop
<1>5. CASE FailSafeExpires
    BY <1>5, ExpiresOK
<1>6. CASE HandleCommissioningWindowTimeout
    BY <1>6, TimeoutOK
<1>7. CASE Restart
    BY <1>7, RestartOK
<1>8. CASE UNCHANGED vars
    BY <1>8 DEF vars, WindowInv
<1> QED BY <1>1, <1>2, <1>3, <1>4, <1>5, <1>6, <1>7, <1>8 DEF Next

LEMMA WindowInvAlways == Spec => []WindowInv
BY WindowInvInit, WindowInvNext, PTL DEF Spec

\* The device keeps its type: the failed attempts never pass the limit by more
\* than one late time-out, and the event queue stays within its size.
THEOREM TypeCorrect == Spec => []TypeOK
<1>1. WindowInv => TypeOK
    BY DEF WindowInv, Sized, TypeOK
<1> QED BY <1>1, WindowInvAlways, PTL

\* The window is open exactly while HandleCommissioningWindowTimeout is due.
THEOREM OpenOnlyOnTime == Spec => []WindowHasTimer
<1>1. WindowInv => WindowHasTimer
    BY DEF WindowInv, WindowOK, WindowHasTimer
<1> QED BY <1>1, WindowInvAlways, PTL

\* Nobody pairs, and mPairingSession is idle, outside the window.
THEOREM NoPairingOutside == Spec => []PairingOnlyInWindow
<1>1. WindowInv => PairingOnlyInWindow
    BY DEF WindowInv, PairingOK, PairingOnlyInWindow
<1> QED BY <1>1, WindowInvAlways, PTL

\* HandleFailedAttempt closes the window at the limit, whichever failure it is.
THEOREM LimitCloses == Spec => []GivesUp
<1>1. WindowInv => GivesUp
    BY DEF WindowInv, WindowOK, GivesUp
<1> QED BY <1>1, WindowInvAlways, PTL

\* An open window keeps the fail-safe for those who pair.
THEOREM NoAdminFailSafe == Spec => []FailSafeForCommissioner
<1>1. WindowInv => FailSafeForCommissioner
    BY DEF WindowInv, WindowOK, FailSafeForCommissioner
<1> QED BY <1>1, WindowInvAlways, PTL

\* AdminFabricIndex is null or the index of a fabric of the device.
THEOREM OpenerIsFabric == Spec => []OpenerExists
<1>1. WindowInv => OpenerExists
    BY DEF WindowInv, WindowOK, OpenerExists
<1> QED BY <1>1, WindowInvAlways, PTL
--------------------------------------------------------------------------------
(* An open window is not deaf *)

\* An event is queued that tells the window manager that its attempt has ended.
Announces(s) ==
    \E i \in 1 .. Len(s.queue) : s.queue[i].type \in {"expired", "complete"}

\* WindowNotDeaf of the device s.
Hears(s) ==
    s.open /\ ~s.lost =>
        \/ s.registered
        \/ s.pairing = "started" /\ s.attempt
        \/ s.handler /\ (s.failSafe.state = "armed" \/ Announces(s))

\* A disarming is queued only while the fail-safe is busy, and only once: it
\* never ends a fail-safe that was armed again.
OneDisarm(s) ==
    \A i \in 1 .. Len(s.queue) : s.queue[i].type = "disarm" =>
        /\ s.failSafe.state = "busy"
        /\ \A j \in 1 .. Len(s.queue) : s.queue[j].type = "disarm" => j = i

\* From s to r no announcement is lost unnoticed, and no disarming is misplaced.
Keeps(s, r) ==
    /\ s.failSafe.state = "armed" => r.failSafe.state = "armed" \/ r.lost \/ Announces(r)
    /\ Announces(s) => Announces(r)
    /\ s.lost => r.lost
    /\ OneDisarm(s) => OneDisarm(r)

\* The parts of a device that Hears and OneDisarm look at besides the window.
SameEvents(s, r) == r.queue = s.queue /\ r.lost = s.lost /\ r.failSafe = s.failSafe

HearInv == Hears(dev) /\ OneDisarm(dev)

LEMMA HearsCarried ==
    ASSUME NEW s, NEW r, SameWindow(s, r), Keeps(s, r), Hears(s), OneDisarm(s)
    PROVE  Hears(r) /\ OneDisarm(r)
BY DEF SameWindow, Keeps, Hears

LEMMA EventsCarried ==
    ASSUME NEW s, NEW r, SameEvents(s, r)
    PROVE  /\ Announces(s) <=> Announces(r)
           /\ OneDisarm(s) <=> OneDisarm(r)
           /\ Keeps(s, r)
BY DEF SameEvents, Announces, OneDisarm, Keeps

LEMMA PostKeeps ==
    ASSUME NEW s, Sized(s), NEW e \in Event
    PROVE  /\ Announces(s) => Announces(Post(s, e))
           /\ s.lost => Post(s, e).lost
           /\ e.type \in {"expired", "complete"} => Post(s, e).lost \/ Announces(Post(s, e))
           /\ e.type # "disarm" \/ (s.failSafe.state = "busy"
                 /\ \A i \in 1 .. Len(s.queue) : s.queue[i].type # "disarm")
                 => (OneDisarm(s) => OneDisarm(Post(s, e)))
           /\ e.type # "disarm" /\ (\A i \in 1 .. Len(s.queue) : s.queue[i].type # "disarm")
                 => \A i \in 1 .. Len(Post(s, e).queue) : Post(s, e).queue[i].type # "disarm"
<1> DEFINE r == Post(s, e)
<1>1. CASE Len(s.queue) < QueueSize
    <2>0. s.queue \in Seq(Event)
        BY DEF Sized, Device
    <2>1. r = [s EXCEPT !.queue = Append(s.queue, e)]
        BY <1>1 DEF Post
    <2>2. r.queue = Append(s.queue, e) /\ r.lost = s.lost /\ r.failSafe = s.failSafe
        BY <2>1 DEF Sized, Device
    <2> HIDE DEF r
    <2>3. /\ Len(r.queue) = Len(s.queue) + 1 /\ Len(s.queue) \in Nat
          /\ \A i \in 1 .. Len(s.queue) : r.queue[i] = s.queue[i]
          /\ r.queue[Len(s.queue) + 1] = e
        BY <2>0, <2>2
    <2>4. /\ Announces(s) => Announces(r)
          /\ e.type \in {"expired", "complete"} => Announces(r)
        BY <2>3 DEF Announces
    <2>5. ASSUME OneDisarm(s),
                 e.type # "disarm" \/ (s.failSafe.state = "busy"
                   /\ \A i \in 1 .. Len(s.queue) : s.queue[i].type # "disarm")
          PROVE  OneDisarm(r)
        <3>1. \A i \in 1 .. Len(r.queue) : i \in 1 .. Len(s.queue) \/ i = Len(s.queue) + 1
            BY <2>3
        <3>2. CASE e.type # "disarm"
            <4>1. \A i \in 1 .. Len(r.queue) :
                     r.queue[i].type = "disarm" =>
                        i \in 1 .. Len(s.queue) /\ s.queue[i].type = "disarm"
                BY <2>3, <3>1, <3>2
            <4> QED BY <2>2, <2>5, <4>1 DEF OneDisarm
        <3>3. CASE s.failSafe.state = "busy"
                   /\ \A i \in 1 .. Len(s.queue) : s.queue[i].type # "disarm"
            <4>1. \A i \in 1 .. Len(r.queue) :
                     r.queue[i].type = "disarm" => i = Len(s.queue) + 1
                BY <2>3, <3>1, <3>3
            <4> QED BY <2>2, <3>3, <4>1 DEF OneDisarm
        <3> QED BY <2>5, <3>2, <3>3
    <2>6. e.type # "disarm" /\ (\A i \in 1 .. Len(s.queue) : s.queue[i].type # "disarm")
             => \A i \in 1 .. Len(r.queue) : r.queue[i].type # "disarm"
        BY <2>3
    <2> QED BY <2>2, <2>4, <2>5, <2>6 DEF r
<1>2. CASE ~(Len(s.queue) < QueueSize)
    <2>1. r.lost = TRUE /\ r.queue = s.queue /\ r.failSafe = s.failSafe
        BY <1>2 DEF Post, Sized, Device
    <2> HIDE DEF r
    <2>2. (Announces(s) => Announces(r)) /\ (OneDisarm(s) => OneDisarm(r))
        BY <2>1 DEF Announces, OneDisarm
    <2> QED BY <2>1, <2>2 DEF r
<1> QED BY <1>1, <1>2

LEMMA ExpiryKeeps ==
    ASSUME NEW s, Sized(s), OneDisarm(s)
    PROVE  Keeps(s, FailSafeTimerExpired(s))
<1>1. CASE s.failSafe.state # "armed"
    BY <1>1 DEF FailSafeTimerExpired, Keeps
<1>2. CASE s.failSafe.state = "armed"
    <2> DEFINE a == [s EXCEPT !.failSafe.state = "busy"]
               x == Expired(s.failSafe.index, s.failSafe.add)
               b == Post(a, x)
               r == Post(b, Disarm)
    <2>1. /\ Sized(a) /\ a.failSafe.state = "busy" /\ a.queue = s.queue /\ a.lost = s.lost
        BY DEF Sized, Device
    <2>2. x \in Event /\ x.type = "expired"
        BY EventTypes DEF Sized, Device, Expired
    <2>3. Disarm \in Event /\ Disarm.type = "disarm"
        BY EventTypes DEF Disarm
    <2>4. \A i \in 1 .. Len(s.queue) : s.queue[i].type # "disarm"
        BY <1>2 DEF OneDisarm
    <2>5. FailSafeTimerExpired(s) = r
        BY <1>2 DEF FailSafeTimerExpired
    <2> HIDE DEF a, x
    <2>6. OneDisarm(a) /\ (Announces(s) => Announces(a))
        BY <2>1, <2>4 DEF OneDisarm, Announces
    <2>7. /\ Sized(b) /\ b.failSafe = a.failSafe
          /\ Announces(a) => Announces(b)
          /\ a.lost => b.lost
          /\ b.lost \/ Announces(b)
          /\ OneDisarm(b)
          /\ \A i \in 1 .. Len(b.queue) : b.queue[i].type # "disarm"
        BY <2>1, <2>2, <2>4, <2>6, PostType, PostKeeps
    <2> HIDE DEF b
    <2>8. /\ Announces(b) => Announces(r)
          /\ b.lost => r.lost
          /\ OneDisarm(r)
        BY <2>1, <2>3, <2>7, PostKeeps
    <2> HIDE DEF r
    <2> QED BY <2>1, <2>5, <2>6, <2>7, <2>8 DEF Keeps
<1> QED BY <1>1, <1>2

LEMMA EvictKeeps ==
    ASSUME NEW s, Sized(s), NEW P \in SUBSET Sessions, OneDisarm(s)
    PROVE  Keeps(s, Evict(s, P))
<1> DEFINE gone == [p \in Sessions |-> IF p \in P THEN Gone ELSE s.session[p]]
           t == [s EXCEPT !.session = gone]
           u == [t EXCEPT !.held = NoSession]
<1>1. gone \in [Sessions -> Fabrics \cup {NoFabric, Gone}]
    BY DEF Sized, Device
<1> HIDE DEF gone
<1>2. Sized(t) /\ SameEvents(s, t)
    BY <1>1 DEF Sized, SameEvents, Device
<1> HIDE DEF t
<1>3. Sized(u) /\ SameEvents(t, u)
    BY <1>2 DEF Sized, SameEvents, Device
<1> HIDE DEF u
<1>4. Evict(s, P) = IF s.held \in P THEN FailSafeTimerExpired(u) ELSE t
    BY DEF Evict, gone, t, u, Sized, Device
<1>5. Keeps(s, t) /\ SameEvents(s, u)
    BY <1>2, <1>3, EventsCarried DEF SameEvents
<1>6. OneDisarm(u) /\ Keeps(s, u)
    BY <1>5, EventsCarried
<1>7. Keeps(u, FailSafeTimerExpired(u))
    BY <1>3, <1>6, ExpiryKeeps
<1>8. Keeps(s, FailSafeTimerExpired(u))
    BY <1>5, <1>6, <1>7 DEF Keeps, SameEvents
<1> QED BY <1>4, <1>5, <1>8

LEMMA RemovedKeeps ==
    ASSUME NEW s, Sized(s), OneDisarm(s), Hears(s), NEW f
    PROVE  Hears(Removed(s, f)) /\ OneDisarm(Removed(s, f))
<1> DEFINE t == [s EXCEPT !.fabrics = @ \ {f}, !.opener = IF @ = f THEN NoFabric ELSE @]
<1>1. Sized(t) /\ SameEvents(s, t)
    BY DEF Sized, Device, SameEvents
<1>2. /\ t.open = s.open /\ t.registered = s.registered /\ t.pairing = s.pairing
      /\ t.attempt = s.attempt /\ t.handler = s.handler
    BY DEF Sized, Device
<1>3. SessionsOf(s, f) \in SUBSET Sessions
    BY DEF SessionsOf
<1>4. Removed(s, f) = Evict(t, SessionsOf(s, f))
    BY DEF Removed
<1> HIDE DEF t
<1>5. OneDisarm(t) /\ Hears(t)
    BY <1>1, <1>2, EventsCarried DEF Hears, SameEvents
<1> QED BY <1>1, <1>3, <1>4, <1>5, EvictType, EvictKeeps, HearsCarried

LEMMA CleanupKeeps ==
    ASSUME NEW s, Sized(s), OneDisarm(s)
    PROVE  SameEvents(s, Cleanup(s)) /\ Hears(Cleanup(s)) /\ OneDisarm(Cleanup(s))
<1>1. SameEvents(s, Cleanup(s)) /\ ~Cleanup(s).open
    BY DEF Sized, Device, SameEvents, Cleanup, ResetState, StopAdvertisement
<1> QED BY <1>1, EventsCarried DEF Hears

LEMMA ListeningKeeps ==
    ASSUME NEW s, Sized(s), OneDisarm(s)
    PROVE  SameEvents(s, Listening(s)) /\ Hears(Listening(s)) /\ OneDisarm(Listening(s))
<1>1. SameEvents(s, Listening(s)) /\ Listening(s).registered
    BY DEF Sized, Device, SameEvents, Listening
<1> QED BY <1>1, EventsCarried DEF Hears

LEMMA FailedAttemptKeeps ==
    ASSUME NEW s, Sized(s), OneDisarm(s), NEW ok \in BOOLEAN,
           s.attempts <= kMaxFailedCommissioningAttempts
    PROVE  /\ Hears(HandleFailedAttempt(s, ok))
           /\ OneDisarm(HandleFailedAttempt(s, ok))
<1> DEFINE t == [s EXCEPT !.attempts = @ + 1]
<1>1. s.attempts + 1 \in 0 .. kMaxFailedCommissioningAttempts + 1
    BY ConstantsAssumption DEF Sized, Device
<1>2. Sized(t) /\ SameEvents(s, t)
    BY <1>1 DEF Sized, Device, SameEvents
<1>3. HandleFailedAttempt(s, ok) \in {Listening(t), Cleanup(t)}
    BY DEF HandleFailedAttempt
<1> HIDE DEF t
<1>4. OneDisarm(t)
    BY <1>2, EventsCarried
<1> QED BY <1>2, <1>3, <1>4, ListeningKeeps, CleanupKeeps

LEMMA ErrorKeeps ==
    ASSUME NEW s, Sized(s), OneDisarm(s), NEW ok \in BOOLEAN,
           s.attempts <= kMaxFailedCommissioningAttempts
    PROVE  /\ Hears(OnSessionEstablishmentError(s, ok))
           /\ OneDisarm(OnSessionEstablishmentError(s, ok))
<1> DEFINE t == [s EXCEPT !.attempt = FALSE]
<1>1. Sized(t) /\ SameEvents(s, t) /\ t.attempts = s.attempts
    BY DEF Sized, Device, SameEvents
<1>2. OnSessionEstablishmentError(s, ok) = HandleFailedAttempt(t, ok)
    BY DEF OnSessionEstablishmentError
<1> HIDE DEF t
<1>3. OneDisarm(t)
    BY <1>1, EventsCarried
<1> QED BY <1>1, <1>2, <1>3, FailedAttemptKeeps

LEMMA CloseKeeps ==
    ASSUME NEW s, Sized(s), OneDisarm(s), Hears(s) \/ s.open
    PROVE  /\ Hears(CloseCommissioningWindow(s))
           /\ OneDisarm(CloseCommissioningWindow(s))
BY CleanupKeeps DEF CloseCommissioningWindow

LEMMA OpenHears ==
    ASSUME WindowInv, HearInv, NEW f \in Fabrics, NEW ok \in BOOLEAN,
           OpenCommissioningWindow(f, ok)
    PROVE  HearInv'
<1> DEFINE t == [dev EXCEPT !.attempts = 0, !.timer = TRUE]
           l == Listening(t)
           r == [l EXCEPT !.opener = f]
<1>1. 0 \in 0 .. kMaxFailedCommissioningAttempts + 1
    BY ConstantsAssumption
<1>2. Sized(t) /\ SameEvents(dev, t)
    BY <1>1 DEF WindowInv, Sized, Device, SameEvents
<1>3. dev' = IF CanAdvertise(t, ok) THEN r ELSE Cleanup(t)
    BY DEF OpenCommissioningWindow
<1> HIDE DEF t
<1>4. OneDisarm(t)
    BY <1>2, EventsCarried DEF HearInv
<1>5. SameEvents(t, l) /\ l.registered /\ l \in Device
    BY <1>2, <1>4, ListeningKeeps DEF Listening, Sized, Device
<1> HIDE DEF l
<1>6. SameEvents(l, r) /\ r.registered
    BY <1>5 DEF Device, SameEvents
<1> HIDE DEF r
<1>7. Hears(r) /\ OneDisarm(r)
    BY <1>4, <1>5, <1>6, EventsCarried DEF Hears
<1> QED BY <1>2, <1>3, <1>4, <1>7, CleanupKeeps DEF HearInv

LEMMA RevokeHears ==
    ASSUME WindowInv, HearInv, RevokeCommissioning
    PROVE  HearInv'
<1> DEFINE s == FailSafeTimerExpired(dev)
<1>1. Sized(s) /\ Hears(s) /\ OneDisarm(s)
    BY ExpiryType, ExpiryKeeps, HearsCarried DEF WindowInv, HearInv
<1>2. dev' = CloseCommissioningWindow(s)
    BY DEF RevokeCommissioning
<1> HIDE DEF s
<1> QED BY <1>1, <1>2, CloseKeeps DEF HearInv

LEMMA TimeoutHears ==
    ASSUME WindowInv, HearInv, HandleCommissioningWindowTimeout
    PROVE  HearInv'
<1> DEFINE s == [dev EXCEPT !.timer = FALSE]
<1>1. Sized(s) /\ s.open = dev.open /\ SameEvents(dev, s)
    BY DEF WindowInv, Sized, Device, SameEvents
<1>2. s.open /\ dev' = CloseCommissioningWindow(s)
    BY <1>1 DEF HandleCommissioningWindowTimeout, WindowInv, WindowOK
<1> HIDE DEF s
<1>3. OneDisarm(s)
    BY <1>1, EventsCarried DEF HearInv
<1> QED BY <1>1, <1>2, <1>3, CloseKeeps DEF HearInv

LEMMA RequestHears ==
    ASSUME WindowInv, HearInv, NEW valid \in BOOLEAN, NEW ok \in BOOLEAN,
           PBKDFParamRequest(valid, ok)
    PROVE  HearInv'
<1> DEFINE t == [dev EXCEPT !.registered = FALSE]
           u == [t EXCEPT !.pairing = "started", !.attempt = TRUE]
<1>1. dev.open
    BY DEF WindowInv, PairingOK, PBKDFParamRequest
<1>2. dev.attempts <= kMaxFailedCommissioningAttempts
    BY <1>1, OpenHasAttempts DEF WindowInv
<1>3. Sized(t) /\ SameEvents(dev, t) /\ t.attempts = dev.attempts
    BY DEF WindowInv, Sized, Device, SameEvents
<1>4. SameEvents(dev, u) /\ u.pairing = "started" /\ u.attempt = TRUE
    BY DEF WindowInv, Sized, Device, SameEvents
<1>5. dev' \in {u, OnSessionEstablishmentError(t, ok)}
    BY DEF PBKDFParamRequest
<1> HIDE DEF t, u
<1>6. OneDisarm(t) /\ OneDisarm(u) /\ Hears(u)
    BY <1>3, <1>4, EventsCarried DEF HearInv, Hears
<1>7. /\ Hears(OnSessionEstablishmentError(t, ok))
      /\ OneDisarm(OnSessionEstablishmentError(t, ok))
    BY <1>2, <1>3, <1>6, ErrorKeeps
<1> QED BY <1>5, <1>6, <1>7 DEF HearInv

LEMMA PairingFailsHears ==
    ASSUME WindowInv, HearInv, NEW ok \in BOOLEAN, PairingFails(ok)
    PROVE  HearInv'
<1>1. dev.open
    BY DEF WindowInv, PairingOK, PairingFails
<1> QED BY <1>1, OpenHasAttempts, ErrorKeeps DEF WindowInv, HearInv, PairingFails

LEMMA LateTimeoutHears ==
    ASSUME WindowInv, HearInv, NEW ok \in BOOLEAN, SessionEstablishmentTimeout(ok)
    PROVE  HearInv'
<1>1. ~(dev.attempts > kMaxFailedCommissioningAttempts)
    BY DEF WindowInv, PairingOK, SessionEstablishmentTimeout
<1>2. dev.attempts <= kMaxFailedCommissioningAttempts
    BY <1>1, DeviceFields, ConstantsAssumption DEF WindowInv
<1> QED BY <1>2, ErrorKeeps DEF WindowInv, HearInv, SessionEstablishmentTimeout

LEMMA EstablishedHears ==
    ASSUME WindowInv, HearInv, NEW p \in Sessions, NEW ok \in BOOLEAN,
           OnSessionEstablished(p, ok)
    PROVE  HearInv'
<1> DEFINE d == [dev EXCEPT !.attempt = FALSE, !.session[p] = NoFabric, !.handler = TRUE]
           t == StopAdvertisement(d)
<1>1. dev.open
    BY DEF WindowInv, PairingOK, OnSessionEstablished
<1>2. /\ Sized(d) /\ SameEvents(dev, d) /\ d.handler = TRUE /\ d.attempts = dev.attempts
    BY DEF WindowInv, Sized, Device, SameEvents
<1>3. /\ dev' = CASE t.failSafe.state = "armed" -> [t EXCEPT !.held = p]
                  [] t.failSafe.state = "busy" -> HandleFailedAttempt(Evict(t, {p}), ok)
                  [] t.failSafe.state = "off" ->
                       [t EXCEPT !.failSafe.state = "armed", !.owner = p, !.held = p]
    BY DEF OnSessionEstablished
<1> HIDE DEF d
<1>4. Sized(t) /\ SameEvents(d, t) /\ t.handler = TRUE /\ t.attempts = d.attempts
    BY <1>2 DEF StopAdvertisement, Sized, Device, SameEvents
<1> HIDE DEF t
<1>5. OneDisarm(t)
    BY <1>2, <1>4, EventsCarried DEF HearInv
<1>6. t.failSafe.state \in {"off", "armed", "busy"}
    BY <1>4 DEF Sized, Device
<1>7. CASE t.failSafe.state = "armed"
    <2> DEFINE q == [t EXCEPT !.held = p]
    <2>1. SameEvents(t, q) /\ q.handler = TRUE
        BY <1>4 DEF Sized, Device, SameEvents
    <2>2. dev' = q
        BY <1>3, <1>7
    <2> HIDE DEF q
    <2>3. OneDisarm(q) /\ Hears(q)
        BY <1>5, <1>7, <2>1, EventsCarried DEF Hears, SameEvents
    <2> QED BY <2>2, <2>3 DEF HearInv
<1>8. CASE t.failSafe.state = "busy"
    <2> DEFINE q == Evict(t, {p})
    <2>1. dev' = HandleFailedAttempt(q, ok)
        BY <1>3, <1>8
    <2>2. Sized(q) /\ SameWindow(t, q) /\ OneDisarm(q)
        BY <1>4, <1>5, EvictType, EvictKeeps DEF Keeps
    <2> HIDE DEF q
    <2>3. q.attempts <= kMaxFailedCommissioningAttempts
        BY <1>1, <1>2, <1>4, <2>2, OpenHasAttempts DEF SameWindow, WindowInv
    <2> QED BY <2>1, <2>2, <2>3, FailedAttemptKeeps DEF HearInv
<1>9. CASE t.failSafe.state = "off"
    <2> DEFINE q == [t EXCEPT !.failSafe.state = "armed", !.owner = p, !.held = p]
    <2>1. dev' = q
        BY <1>3, <1>9
    <2>2. q.handler = TRUE /\ q.failSafe.state = "armed" /\ q.queue = t.queue
        BY <1>4 DEF Sized, Device
    <2> HIDE DEF q
    <2>3. Hears(q) /\ OneDisarm(q)
        BY <1>5, <1>9, <2>2 DEF Hears, OneDisarm
    <2> QED BY <2>1, <2>3 DEF HearInv
<1> QED BY <1>6, <1>7, <1>8, <1>9

LEMMA ReleasedHears ==
    ASSUME WindowInv, HearInv, NEW p \in Sessions, SessionReleased(p)
    PROVE  HearInv'
<1>1. {p} \in SUBSET Sessions /\ dev' = Evict(dev, {p})
    BY DEF SessionReleased
<1> QED BY <1>1, EvictType, EvictKeeps, HearsCarried DEF WindowInv, HearInv

\* A fail-safe is armed only when no disarming is queued.
LEMMA ArmedHears ==
    ASSUME WindowInv, HearInv, dev.failSafe.state = "off",
           NEW fs \in [state : {"off", "armed", "busy"}, index : Fabrics \cup {NoFabric},
                       add : BOOLEAN],
           NEW o, dev' = [dev EXCEPT !.failSafe = fs, !.owner = o]
    PROVE  HearInv'
<1>1. \A i \in 1 .. Len(dev.queue) : dev.queue[i].type # "disarm"
    BY DEF HearInv, OneDisarm
<1>2. /\ dev'.queue = dev.queue /\ dev'.lost = dev.lost /\ dev'.open = dev.open
      /\ dev'.registered = dev.registered /\ dev'.pairing = dev.pairing
      /\ dev'.attempt = dev.attempt /\ dev'.handler = dev.handler
    BY DEF WindowInv, Sized, Device
<1>3. Announces(dev) => Announces(dev')
    BY <1>2 DEF Announces
<1>4. Hears(dev')
    BY <1>2, <1>3 DEF HearInv, Hears
<1>5. OneDisarm(dev')
    BY <1>1, <1>2 DEF OneDisarm
<1> QED BY <1>4, <1>5 DEF HearInv

LEMMA ArmHears ==
    ASSUME WindowInv, HearInv,
           \/ \E p \in Sessions : ArmFailSafeOverPASE(p)
           \/ \E f \in Fabrics : ArmFailSafeOverCASE(f)
    PROVE  HearInv'
<1>1. ASSUME NEW p \in Sessions, ArmFailSafeOverPASE(p) PROVE HearInv'
    <2>1. dev.session[p] \in Fabrics \cup {NoFabric}
        BY <1>1, DeviceFields DEF WindowInv, ArmFailSafeOverPASE
    <2>2. [Disarmed EXCEPT !.state = "armed", !.index = dev.session[p]]
             \in [state : {"off", "armed", "busy"}, index : Fabrics \cup {NoFabric},
                  add : BOOLEAN]
        BY <2>1 DEF Disarmed
    <2> QED BY <1>1, <2>2, ArmedHears DEF ArmFailSafeOverPASE
<1>2. ASSUME NEW f \in Fabrics, ArmFailSafeOverCASE(f) PROVE HearInv'
    <2>1. [Disarmed EXCEPT !.state = "armed", !.index = f]
             \in [state : {"off", "armed", "busy"}, index : Fabrics \cup {NoFabric},
                  add : BOOLEAN]
        BY DEF Disarmed
    <2> QED BY <1>2, <2>1, ArmedHears DEF ArmFailSafeOverCASE
<1> QED BY <1>1, <1>2

LEMMA AddNOCHears ==
    ASSUME WindowInv, HearInv, NEW f \in Fabrics, AddNOC(f)
    PROVE  HearInv'
<1>1. /\ dev'.queue = dev.queue /\ dev'.lost = dev.lost /\ dev'.open = dev.open
      /\ dev'.registered = dev.registered /\ dev'.pairing = dev.pairing
      /\ dev'.attempt = dev.attempt /\ dev'.handler = dev.handler
      /\ dev'.failSafe.state = dev.failSafe.state
    <2>1. CASE dev' = [dev EXCEPT !.fabrics = @ \cup {f}, !.failSafe.index = f,
                                  !.failSafe.add = TRUE]
        BY <2>1 DEF WindowInv, Sized, Device
    <2>2. ASSUME NEW p \in Sessions,
                 dev' = [dev EXCEPT !.fabrics = @ \cup {f}, !.failSafe.index = f,
                                    !.failSafe.add = TRUE, !.session[p] = f]
          PROVE  /\ dev'.queue = dev.queue /\ dev'.lost = dev.lost /\ dev'.open = dev.open
                 /\ dev'.registered = dev.registered /\ dev'.pairing = dev.pairing
                 /\ dev'.attempt = dev.attempt /\ dev'.handler = dev.handler
                 /\ dev'.failSafe.state = dev.failSafe.state
        BY <2>2 DEF WindowInv, Sized, Device
    <2> QED BY <2>1, <2>2 DEF AddNOC
<1>2. Announces(dev) => Announces(dev')
    BY <1>1 DEF Announces
<1>3. Hears(dev')
    BY <1>1, <1>2 DEF HearInv, Hears
<1>4. OneDisarm(dev')
    BY <1>1 DEF HearInv, OneDisarm
<1> QED BY <1>3, <1>4 DEF HearInv

LEMMA CompleteHears ==
    ASSUME WindowInv, HearInv, CommissioningComplete
    PROVE  HearInv'
<1> DEFINE d == [dev EXCEPT !.failSafe = Disarmed]
<1>1. \A i \in 1 .. Len(dev.queue) : dev.queue[i].type # "disarm"
    BY DEF HearInv, OneDisarm, CommissioningComplete
<1>2. /\ Sized(d) /\ SameWindow(dev, d) /\ d.queue = dev.queue /\ d.lost = dev.lost
    BY DisarmedType DEF WindowInv, Sized, Device, SameWindow
<1>3. dev' = Post(d, Complete)
    BY DEF CommissioningComplete
<1> HIDE DEF d
<1>4. OneDisarm(d)
    BY <1>1, <1>2 DEF OneDisarm
<1>5. Complete \in Event /\ Complete.type = "complete"
    BY EventTypes DEF Complete
<1>6. /\ SameWindow(d, dev') /\ OneDisarm(dev')
      /\ d.lost => dev'.lost
      /\ dev'.lost \/ Announces(dev')
    BY <1>2, <1>3, <1>4, <1>5, PostType, PostKeeps
<1>7. Hears(dev')
    BY <1>2, <1>6 DEF HearInv, Hears, SameWindow
<1> QED BY <1>6, <1>7 DEF HearInv

LEMMA ExpiresHears ==
    ASSUME WindowInv, HearInv, FailSafeExpires
    PROVE  HearInv'
BY ExpiryType, ExpiryKeeps, HearsCarried DEF WindowInv, HearInv, FailSafeExpires

LEMMA DispatchHears ==
    ASSUME WindowInv, HearInv, NEW ok \in BOOLEAN, Dispatch(ok)
    PROVE  HearInv'
<1> DEFINE e == Head(dev.queue)
           s == [dev EXCEPT !.queue = Tail(@)]
           h == {s.held} \cap Sessions
           t == OnFailSafeTimerExpired(s, ok)
<1>1. /\ e \in Event /\ e = dev.queue[1] /\ Len(dev.queue) \in Nat /\ Len(dev.queue) >= 1
      /\ Tail(dev.queue) \in Seq(Event) /\ Len(Tail(dev.queue)) = Len(dev.queue) - 1
      /\ Len(Tail(dev.queue)) <= QueueSize
      /\ \A i \in 1 .. Len(Tail(dev.queue)) : Tail(dev.queue)[i] = dev.queue[i + 1]
    BY DeviceFields, ConstantsAssumption DEF WindowInv, Sized, Dispatch
<1>2. /\ Sized(s) /\ SameWindow(dev, s) /\ s.failSafe = dev.failSafe /\ s.lost = dev.lost
      /\ s.queue = Tail(dev.queue)
    BY <1>1 DEF WindowInv, Sized, Device, SameWindow
<1>3. WindowOK(s) /\ PairingOK(s)
    BY <1>2, Carried DEF WindowInv
<1>4. /\ e.type \in {"expired", "disarm", "complete"}
      /\ dev' = CASE e.type = "expired" -> IF e.add THEN Removed(t, e.index) ELSE t
                  [] e.type = "disarm" -> [s EXCEPT !.failSafe = Disarmed]
                  [] e.type = "complete" -> OnCommissioningComplete(s)
    BY <1>1 DEF Dispatch, Event
<1> HIDE DEF e, s
<1>5. \A i \in 1 .. Len(s.queue) : i + 1 \in 1 .. Len(dev.queue) /\ s.queue[i] = dev.queue[i + 1]
    BY <1>1, <1>2
<1>6. OneDisarm(s)
    <2> SUFFICES ASSUME NEW i \in 1 .. Len(s.queue), s.queue[i].type = "disarm"
                 PROVE  /\ s.failSafe.state = "busy"
                        /\ \A j \in 1 .. Len(s.queue) : s.queue[j].type = "disarm" => j = i
        BY DEF OneDisarm
    <2>1. i + 1 \in 1 .. Len(dev.queue) /\ dev.queue[i + 1].type = "disarm"
        BY <1>5
    <2>2. /\ dev.failSafe.state = "busy"
          /\ \A j \in 1 .. Len(dev.queue) : dev.queue[j].type = "disarm" => j = i + 1
        BY <2>1 DEF HearInv, OneDisarm
    <2> QED BY <1>2, <1>5, <2>2
\* Without its event handler an open window listens or is pairing.
<1>7. ~s.handler => Hears(s)
    BY <1>2 DEF HearInv, Hears, SameWindow
<1>8. CASE e.type = "expired"
    <2>1. Sized(t) /\ Hears(t) /\ OneDisarm(t)
        <3>1. CASE ~s.handler
            BY <1>2, <1>6, <1>7, <3>1 DEF OnFailSafeTimerExpired
        <3>2. CASE s.handler
            <4>1. /\ Sized(Evict(s, h)) /\ SameWindow(s, Evict(s, h))
                  /\ WindowOK(Evict(s, h)) /\ OneDisarm(Evict(s, h))
                BY <1>2, <1>3, <1>6, EvictType, EvictKeeps, Carried DEF Keeps
            <4>2. Evict(s, h).open
                BY <1>3, <3>2, <4>1 DEF PairingOK, SameWindow
            <4>3. t = HandleFailedAttempt(Evict(s, h), ok)
                BY <3>2 DEF OnFailSafeTimerExpired
            <4> HIDE DEF h
            <4> QED BY <4>1, <4>2, <4>3, OpenHasAttempts, FailedAttemptType, FailedAttemptKeeps
        <3> QED BY <3>1, <3>2
    <2> HIDE DEF t
    <2> QED BY <1>4, <1>8, <2>1, RemovedKeeps DEF HearInv
<1>9. CASE e.type = "disarm"
    <2>1. dev' = [s EXCEPT !.failSafe = Disarmed]
        BY <1>4, <1>9
    <2>2. /\ dev'.queue = s.queue /\ dev'.lost = s.lost /\ dev'.open = s.open
          /\ dev'.registered = s.registered /\ dev'.pairing = s.pairing
          /\ dev'.attempt = s.attempt /\ dev'.handler = s.handler
        BY <1>2, <2>1 DEF Sized, Device
    <2>3. /\ dev.failSafe.state = "busy"
          /\ \A j \in 1 .. Len(dev.queue) : dev.queue[j].type = "disarm" => j = 1
        BY <1>1, <1>9 DEF HearInv, OneDisarm
    <2>4. \A i \in 1 .. Len(s.queue) : s.queue[i].type # "disarm"
        BY <1>1, <1>2, <1>5, <2>3
    <2>5. OneDisarm(dev')
        BY <2>2, <2>4 DEF OneDisarm
    <2>6. ASSUME Announces(dev) PROVE Announces(dev')
        <3>1. PICK i \in 1 .. Len(dev.queue) : dev.queue[i].type \in {"expired", "complete"}
            BY <2>6 DEF Announces
        <3>2. i # 1
            BY <1>1, <1>9, <3>1
        <3>3. i - 1 \in 1 .. Len(s.queue) /\ s.queue[i - 1] = dev.queue[i]
            BY <1>1, <1>2, <3>2
        <3> QED BY <2>2, <3>1, <3>3 DEF Announces
    <2>7. Hears(dev')
        BY <1>2, <2>2, <2>3, <2>6 DEF HearInv, Hears, SameWindow
    <2> QED BY <2>5, <2>7 DEF HearInv
<1>10. CASE e.type = "complete"
    <2>1. dev' = OnCommissioningComplete(s)
        BY <1>4, <1>10
    <2>2. CASE ~s.handler
        BY <1>6, <1>7, <2>1, <2>2 DEF OnCommissioningComplete, HearInv
    <2>3. CASE s.handler
        <3>1. Sized(Cleanup(s)) /\ Hears(Cleanup(s)) /\ OneDisarm(Cleanup(s))
            BY <1>2, <1>6, CleanupType, CleanupKeeps
        <3>2. dev' = Evict(Cleanup(s), Sessions)
            BY <2>1, <2>3 DEF OnCommissioningComplete
        <3> QED BY <3>1, <3>2, EvictType, EvictKeeps, HearsCarried DEF HearInv
    <2> QED BY <2>2, <2>3
<1> QED BY <1>4, <1>8, <1>9, <1>10

LEMMA BootHears == \A F : Hears(Boot(F)) /\ OneDisarm(Boot(F))
<1> TAKE F
<1>1. /\ Boot(F).queue = <<>>
      /\ Boot(F).open => Boot(F).registered
    BY Zenon DEF Boot, Listening
<1> QED BY <1>1 DEF Hears, OneDisarm

LEMMA HearInvNext == WindowInv /\ HearInv /\ [Next]_vars => HearInv'
<1> SUFFICES ASSUME WindowInv, HearInv, [Next]_vars PROVE HearInv'
    OBVIOUS
<1>1. CASE Commands
    <2>1. ASSUME NEW f \in Fabrics, RemoveFabric(f) PROVE HearInv'
        BY <2>1, RemovedKeeps DEF WindowInv, HearInv, RemoveFabric
    <2> QED BY <1>1, <2>1, OpenHears, ArmHears, AddNOCHears, ReleasedHears, RevokeHears,
               CompleteHears DEF Commands
<1>2. CASE Pairing
    BY <1>2, RequestHears, PairingFailsHears, EstablishedHears DEF Pairing
<1>3. CASE AttemptTimer
    BY <1>3, LateTimeoutHears DEF AttemptTimer
<1>4. CASE EventLoop
    BY <1>4, DispatchHears DEF EventLoop
<1>5. CASE FailSafeExpires
    BY <1>5, ExpiresHears
<1>6. CASE HandleCommissioningWindowTimeout
    BY <1>6, TimeoutHears
<1>7. CASE Restart
    BY <1>7, BootHears DEF Restart, HearInv
<1>8. CASE UNCHANGED vars
    BY <1>8 DEF vars, HearInv
<1> QED BY <1>1, <1>2, <1>3, <1>4, <1>5, <1>6, <1>7, <1>8 DEF Next

\* While no event was dropped, an open window listens, pairs under a timer, or is
\* about to hear that its attempt has ended.
THEOREM NeverDeaf == Spec => []WindowNotDeaf
<1>1. Init => HearInv
    BY BootHears DEF Init, HearInv
<1>2. HearInv => WindowNotDeaf
    BY DEF HearInv, Hears, Announces, WindowNotDeaf
<1> QED BY <1>1, <1>2, HearInvNext, WindowInvAlways, PTL DEF Spec
================================================================================
