--------------------------- MODULE PeerMessageCounter ---------------------------
(***************************************************************************)
(* The replay window of src/src/transport/PeerMessageCounter.h: the largest *)
(* counter received from a peer and one bit for each of the WINDOW_SIZE     *)
(* counters before it.  Counters are unsigned integers below CounterMod, on *)
(* which subtraction wraps.                                                *)
(***************************************************************************)
EXTENDS Integers

CONSTANTS CounterMod,   \* 2^32
          HalfRange,    \* 2^31
          WINDOW_SIZE   \* CHIP_CONFIG_MESSAGE_COUNTER_WINDOW_SIZE, 32

ASSUME CounterAssumption ==
    /\ HalfRange \in Nat \ {0}
    /\ CounterMod = 2 * HalfRange
    /\ WINDOW_SIZE \in 1 .. HalfRange - 1

Counter == 0 .. CounterMod - 1
Window == SUBSET (1 .. WINDOW_SIZE)

\* Unsigned addition and subtraction.
Add(a, b) == IF a + b < CounterMod THEN a + b ELSE a + b - CounterMod
Sub(a, b) == IF a >= b THEN a - b ELSE a - b + CounterMod

\* Synced; window has the offsets before mMaxCounter whose bit is set.
Synced == [max : Counter, window : Window]

\* SetCounter, also what VerifyOrTrustFirstGroup does with a first message.
SetCounter(c) == [max |-> c, window |-> {}]

\* ClassifyWithRollover (group messages) and ClassifyWithoutRollover (unicast):
\* whether c is a future counter.
IsFuture(p, c, rollover) ==
    IF rollover THEN Sub(c, p.max) \in 1 .. HalfRange - 1 ELSE c > p.max

\* ClassifyNonFutureCounter.
Position(p, c, rollover) ==
    IF IsFuture(p, c, rollover) THEN "FutureCounter"
    ELSE IF c = p.max THEN "MaxCounter"
    ELSE IF Sub(p.max, c) <= WINDOW_SIZE THEN "InWindow"
    ELSE "BeforeWindow"

\* VerifyPositionEncrypted: whether a message with counter c is accepted.
Verify(p, c, rollover) ==
    LET pos == Position(p, c, rollover)
    IN  \/ pos = "FutureCounter"
        \/ pos = "InWindow" /\ Sub(p.max, c) \notin p.window

\* CommitWithPosition: the largest counter moves on by shift, and the window
\* with it, the old largest counter becoming the bit at shift.
Shifted(p, shift) ==
    IF shift > WINDOW_SIZE THEN {}
    ELSE {o \in 1 .. WINDOW_SIZE : o = shift \/ o - shift \in p.window}

Commit(p, c, rollover) ==
    LET pos == Position(p, c, rollover)
    IN  CASE pos = "InWindow" -> [p EXCEPT !.window = @ \cup {Sub(p.max, c)}]
          [] pos = "MaxCounter" -> p
          [] OTHER -> [max |-> c, window |-> Shifted(p, Sub(c, p.max))]
=================================================================================
