------------------------- MODULE RelayGestureProofs -------------------------
(***************************************************************************)
(* When RelayApp wipes the device, proved for every value of the           *)
(* constants: the inductive invariant that ties the counter in flash, the  *)
(* armed confirm time, the notification bit and the CHIP event queue to    *)
(* what the user did.                                                      *)
(***************************************************************************)
EXTENDS RelayAppProofs

FlashPhase == pc \in {"boot", "read"}
Requested  == "FACTORY_RESET" \in notif \/ "FACTORY_RESET" \in appEvent
Queued     == \E i \in 1..Len(chipQ) : chipQ[i] = "reset"
Justified  == GestureMade \/ lowReads > FctRstMax

(* The counter in flash never runs ahead of the power-ups it counts, and a *)
(* boot that lasted long enough has cleared it.                            *)
CounterInv ==
  /\ FlashPhase => resetCnt <= quick - 1 /\ gpioCount = 0
  /\ resetCnt <= quick
  /\ gpioCount > ClearAt => resetCnt = 0

(* An armed boot is the last of the required run of power-ups; once it has *)
(* written its counter a power cut cancels, and once the event loop runs   *)
(* the clock is past mButtonPressedTime, so the subtraction cannot wrap.   *)
ArmedInv ==
  pressed # 0 =>
    /\ quick = APP_REBOOT_RESET_COUNT
    /\ pc # "read" => resetCnt = 0
    /\ pc \notin {"boot", "read", "suspended"} => uptime >= pressed

(* The FACTORY_RESET bit stands for a gesture that was completed.          *)
RequestInv ==
  /\ Requested => GestureMade /\ resetCnt = 0
  /\ FlashPhase => ~Requested

(* A reset in the CHIP event queue has one of its two causes: the marker   *)
(* of an armed fail-safe, the third one, is never set.                     *)
QueueInv ==
  /\ Queued => Justified
  /\ ~failSafe
  /\ lowReads <= FctRstMax => fctRst <= lowReads

GestureInv == CounterInv /\ ArmedInv /\ RequestInv /\ QueueInv

(* What most steps leave alone.                                            *)
gestureVars == <<resetCnt, failSafe, pc, appEvent, pressed, gpioCount, fctRst,
                 chipQ, uptime, quick, lowReads>>

-----------------------------------------------------------------------------
LEMMA GestureInit == Init => GestureInv
  BY ConstantsAssumption
     DEF Init, RamAtPowerUp, GestureInv, CounterInv, ArmedInv, RequestInv,
         QueueInv, FlashPhase, Requested, Queued, Justified

(* A step that posts no FACTORY_RESET and leaves the rest alone.           *)
LEMMA OtherStep ==
  ASSUME GestureInv, UNCHANGED gestureVars,
         chip' = "init" => chip = "init",
         "FACTORY_RESET" \in notif' => "FACTORY_RESET" \in notif
  PROVE  GestureInv'
  BY DEF gestureVars, GestureInv, CounterInv, ArmedInv, RequestInv, QueueInv,
         FlashPhase, Requested, Queued, Justified, GestureMade

(* A reboot, with or without a wipe.                                       *)
LEMMA RebootStep ==
  ASSUME TypeInv, GestureInv, PowerCycle \/ DoFactoryReset
  PROVE  GestureInv'
  <1>1. LoseRam
    BY Zenon DEF PowerCycle, DoFactoryReset
  <1>2. /\ pc' = "boot" /\ gpioCount' = 0 /\ pressed' = 0
        /\ notif' = {} /\ appEvent' = {} /\ chipQ' = <<>>
        /\ fctRst' = 0 /\ lowReads' = 0
    BY <1>1, Zenon DEF LoseRam
  <1>3. ArmedInv' /\ RequestInv'
    BY <1>2 DEF ArmedInv, RequestInv, Requested
  <1>4. CounterInv' /\ QueueInv'
    <2>1. CASE PowerCycle
      BY <1>2, <2>1, ConstantsAssumption
         DEF TypeInv, TypeOK, DataOK, GestureInv, PowerCycle, PowerUpCount,
             flash, CounterInv, QueueInv, FlashPhase, Queued
    <2>2. CASE DoFactoryReset
      BY <1>2, <2>2, ConstantsAssumption
         DEF DoFactoryReset, CounterInv, QueueInv, FlashPhase, Queued
    <2> QED
      BY <2>1, <2>2
  <1> QED
    BY <1>3, <1>4 DEF GestureInv

(* Reading the counter arms only the last of the run of power-ups.         *)
LEMMA ReadStep ==
  ASSUME TypeInv, GestureInv, ReadResetCnt
  PROVE  GestureInv'
  <1>1. /\ pc = "boot" /\ pc' = "read"
        /\ ~ResetAsked => pressed' = 0
        /\ UNCHANGED <<resetCnt, failSafe, appEvent, notif, gpioCount, fctRst,
                       chip, chipQ, uptime, quick, lowReads>>
    BY Zenon DEF ReadResetCnt, flash, notifVars, chipVars, history
  <1>2. CounterInv'
    BY <1>1 DEF GestureInv, CounterInv, FlashPhase
  <1>3. RequestInv'
    BY <1>1 DEF GestureInv, RequestInv, FlashPhase, Requested
  <1>4. QueueInv'
    BY <1>1 DEF GestureInv, QueueInv, Queued, Justified, GestureMade
  <1>5. ArmedInv'
    BY <1>1, ConstantsAssumption
       DEF GestureInv, CounterInv, ArmedInv, FlashPhase, ResetAsked, TypeInv,
           TypeOK, DataOK
  <1> QED
    BY <1>2, <1>3, <1>4, <1>5 DEF GestureInv

LEMMA WriteStep ==
  ASSUME TypeInv, GestureInv, WriteResetCnt
  PROVE  GestureInv'
  <1>1. /\ pc = "read" /\ pc' = "suspended" /\ resetCnt' = NewResetCnt
        /\ notif' = notif \cup {"TIMER", "LIGHTING"}
        /\ UNCHANGED <<failSafe, appEvent, pressed, gpioCount, fctRst, chip,
                       chipQ, uptime, quick, lowReads>>
    BY Zenon DEF WriteResetCnt, PostEvent, chipVars, history
  <1> QED
    BY <1>1, ConstantsAssumption
       DEF GestureInv, CounterInv, ArmedInv, RequestInv, QueueInv, FlashPhase,
           Requested, Queued, Justified, GestureMade, NewResetCnt, TypeInv,
           TypeOK, DataOK

(* Scheduling adds a reset to the queue only when one is wanted.           *)
LEMMA ScheduleQueued ==
  ASSUME NEW q \in Seq(ChipEvents), NEW wanted,
         \E i \in 1..Len(InitiateFactoryReset(q, wanted)) :
            InitiateFactoryReset(q, wanted)[i] = "reset"
  PROVE  wanted \/ \E i \in 1..Len(q) : q[i] = "reset"
  BY DEF InitiateFactoryReset, Enqueue

(* Any other event adds none.                                              *)
LEMMA EnqueueQueued ==
  ASSUME NEW q \in Seq(ChipEvents), NEW event \in ChipEvents \ {"reset"}
  PROVE  /\ Enqueue(q, event) \in Seq(ChipEvents)
         /\ (\E i \in 1..Len(Enqueue(q, event)) :
                Enqueue(q, event)[i] = "reset") =>
            \E i \in 1..Len(q) : q[i] = "reset"
  BY DEF Enqueue

(* No fail-safe marker is ever found at start-up.                          *)
LEMMA PlatformInitStep ==
  ASSUME TypeInv, GestureInv, PlatformInit
  PROVE  GestureInv'
  <1>1. /\ pc = "suspended" /\ pc' = "resumed"
        /\ chip = "init" /\ chip' = "run" /\ uptime >= pressed
        /\ chipQ' = InitiateFactoryReset(chipQ, failSafe)
        /\ UNCHANGED <<resetCnt, failSafe, appEvent, notif, pressed, gpioCount,
                       fctRst, uptime, quick, lowReads>>
    BY Zenon DEF PlatformInit, ConfigurationInit, flash, notifVars, history
  <1>2. Queued' => Justified
    <2>1. Queued' => failSafe \/ Queued
      BY <1>1, ScheduleQueued DEF Queued, TypeInv, TypeOK, DataOK
    <2> QED
      BY <1>1, <2>1, Zenon DEF GestureInv, QueueInv, Justified
  <1>3. CounterInv' /\ ArmedInv' /\ RequestInv'
    BY <1>1 DEF GestureInv, CounterInv, ArmedInv, RequestInv, FlashPhase,
                Requested, GestureMade
  <1>4. QueueInv'
    BY <1>1, <1>2 DEF GestureInv, QueueInv, Justified, GestureMade
  <1> QED
    BY <1>3, <1>4 DEF GestureInv

(* The steps of the App task that only move it along.                      *)
LEMMA AppStep ==
  ASSUME GestureInv, OptionRead \/ DisableEndpoints \/ WaitEvent \/ LockAndRead
  PROVE  GestureInv'
  <1>1. /\ pc \in {"resumed", "options", "loop", "handle"}
        /\ pc' \in {"options", "loop", "handle", "locked"}
        /\ UNCHANGED <<resetCnt, failSafe, pressed, gpioCount, fctRst, chip,
                       chipQ, uptime, quick, lowReads>>
    BY Zenon DEF OptionRead, DisableEndpoints, WaitEvent, LockAndRead, flash,
                 chipVars, history
  <1>2. Requested' => Requested
    BY Zenon DEF OptionRead, DisableEndpoints, WaitEvent, LockAndRead,
                 notifVars, Requested
  <1> QED
    BY <1>1, <1>2
       DEF GestureInv, CounterInv, ArmedInv, RequestInv, QueueInv, FlashPhase,
           Queued, Justified, GestureMade

LEMMA TickStep ==
  ASSUME TypeInv, GestureInv, Tick
  PROVE  GestureInv'
  <1>1. UNCHANGED <<resetCnt, failSafe, pc, appEvent, notif, pressed, gpioCount,
                    fctRst, chip, chipQ, quick, lowReads>>
    BY Zenon DEF Tick, flash, notifVars, chipVars, history
  <1>2. uptime' \in Nat /\ uptime' >= uptime /\ uptime \in Nat
    BY ConstantsAssumption DEF Tick, TypeInv, TypeOK, DataOK
  <1>3. GestureMade => GestureMade'
    BY <1>1, <1>2, ConstantsAssumption DEF GestureMade
  <1>4. CounterInv' /\ RequestInv' /\ QueueInv'
    BY <1>1, <1>3
       DEF GestureInv, CounterInv, RequestInv, QueueInv, FlashPhase, Requested,
           Queued, Justified
  <1>5. ArmedInv'
    BY <1>1, <1>2 DEF GestureInv, ArmedInv, TypeInv, TypeOK, DataOK
  <1> QED
    BY <1>4, <1>5 DEF GestureInv

(* The event loop, and what other tasks put into its queue.                *)
LEMMA QueueStep ==
  ASSUME TypeInv, GestureInv, PostOther \/ DispatchEvent
  PROVE  GestureInv'
  <1>1. UNCHANGED <<resetCnt, failSafe, pc, appEvent, pressed, gpioCount,
                    fctRst, chip, uptime, quick, lowReads>>
    BY DispatchFrame, Zenon DEF PostOther, flash, appVars, history
  <1>2. Queued' => Queued
    <2>1. chipQ \in Seq(ChipEvents)
      BY DEF TypeInv, TypeOK, DataOK
    <2>2. CASE chipQ' = Append(chipQ, "other")
      BY <2>1, <2>2 DEF Queued
    <2>3. CASE chipQ # <<>> /\ chipQ' = Tail(chipQ)
      <3>1. /\ Len(Tail(chipQ)) = Len(chipQ) - 1
            /\ \A i \in 1..Len(Tail(chipQ)) : Tail(chipQ)[i] = chipQ[i + 1]
            /\ Len(chipQ) \in Nat
        BY <2>1, <2>3
      <3>2. ASSUME NEW i \in 1..Len(chipQ'), chipQ'[i] = "reset" PROVE Queued
        <4>1. i \in 1..Len(Tail(chipQ)) /\ Tail(chipQ)[i] = "reset"
          BY <2>3, <3>2, Zenon
        <4>2. i + 1 \in 1..Len(chipQ) /\ chipQ[i + 1] = "reset"
          BY <3>1, <4>1
        <4> QED
          BY <4>2, Zenon DEF Queued
      <3> QED
        BY <3>2, Zenon DEF Queued
    <2> QED
      BY <2>2, <2>3, DispatchFrame, Zenon DEF PostOther, Dispatch
  <1>3. Requested' => Requested
    <2>1. notif' = notif \/ notif' = notif \cup {"LIGHTING"}
      BY DispatchFrame, Zenon DEF PostOther, notifVars
    <2> QED
      BY <1>1, <2>1 DEF Requested
  <1> QED
    BY <1>1, <1>2, <1>3
       DEF GestureInv, CounterInv, ArmedInv, RequestInv, QueueInv, FlashPhase,
           Justified, GestureMade

(* Commissioning leaves marker and counter alone and queues no reset.      *)
LEMMA FabricStep ==
  ASSUME TypeInv, GestureInv, Fabric
  PROVE  GestureInv'
  <1> USE DEF Fabric, ArmFailSafe, AddFabric, CommissioningComplete,
              FailSafeExpired, RemoveFabric
  <1>1. UNCHANGED <<resetCnt, failSafe, pc, appEvent, notif, pressed,
                    gpioCount, fctRst, chip, uptime, quick, lowReads>>
    BY Zenon DEF flash, appVars, notifVars, history
  <1>2. Queued' => Queued
    <2>1. /\ chipQ \in Seq(ChipEvents)
          /\ {"complete", "expired", "disarm"} \subseteq ChipEvents \ {"reset"}
      BY DEF TypeInv, TypeOK, DataOK, ChipEvents
    <2>2. \/ chipQ' = chipQ
          \/ chipQ' = Enqueue(chipQ, "complete")
          \/ chipQ' = Enqueue(Enqueue(chipQ, "expired"), "disarm")
      BY Zenon DEF ScheduleFailSafeCleanup
    <2> QED
      BY <2>1, <2>2, EnqueueQueued DEF Queued
  <1> QED
    BY <1>1, <1>2
       DEF GestureInv, CounterInv, ArmedInv, RequestInv, QueueInv, FlashPhase,
           Requested, Justified, GestureMade

(* One pass of the App task's loop: what it asks for, it may ask for.      *)
LEMMA HandleStep ==
  ASSUME TypeInv, GestureInv, NEW level, HandleEvent(level)
  PROVE  GestureInv'
  <1>1. /\ pc = "locked" /\ pc' = "loop" /\ appEvent' = {}
        /\ pressed' = IF Confirmed THEN 0 ELSE pressed
        /\ UNCHANGED <<failSafe, chip, uptime, quick>>
        /\ gpioCount = ClearAt => resetCnt' = 0
        /\ gpioCount # ClearAt => resetCnt' = resetCnt
    BY Zenon DEF HandleEvent
  <1>2. notif' = notif \/ (notif' = notif \cup Posted)
    BY Zenon DEF HandleEvent, PostEvent, notifVars
  <1>3. Confirmed => GestureMade /\ resetCnt = 0
    <2> SUFFICES ASSUME Confirmed PROVE GestureMade /\ resetCnt = 0
      OBVIOUS
    <2>1. /\ uptime >= pressed /\ resetCnt = 0
          /\ quick = APP_REBOOT_RESET_COUNT
      BY <1>1 DEF GestureInv, ArmedInv, Confirmed
    <2>2. /\ uptime - pressed \in Nat /\ uptime - pressed < ClockMod
          /\ ClockMod \in Nat /\ pressed >= 0
      BY <2>1, ConstantsAssumption DEF TypeInv, TypeOK, DataOK
    <2>3. Elapsed = uptime - pressed
      BY <2>2, ModSmall DEF Elapsed
    <2>4. uptime > APP_BUTTON_PRESS_LONG
      BY <2>2, <2>3, ConstantsAssumption
         DEF Confirmed, TypeInv, TypeOK, DataOK
    <2> QED
      BY <2>1, <2>4 DEF GestureMade
  <1>4. resetCnt' = 0 \/ resetCnt' = resetCnt
    BY <1>1
  <1>5. CounterInv'
    <2>1. gpioCount' > ClearAt => gpioCount >= ClearAt
      BY ConstantsAssumption DEF HandleEvent, Polling, TypeInv, TypeOK, DataOK
    <2> QED
      BY <1>1, <1>4, <2>1, ConstantsAssumption
         DEF GestureInv, CounterInv, FlashPhase, TypeInv, TypeOK, DataOK
  <1>6. ArmedInv'
    BY <1>1, <1>4 DEF GestureInv, ArmedInv
  <1>7. RequestInv'
    <2>1. "FACTORY_RESET" \in Posted => Confirmed
      BY DEF Posted
    <2>2. Requested' => Requested \/ Confirmed
      BY <1>1, <1>2, <2>1 DEF Requested
    <2>3. Requested' => GestureMade /\ resetCnt = 0
      BY <1>3, <2>2 DEF GestureInv, RequestInv
    <2> QED
      BY <1>1, <1>4, <2>3 DEF RequestInv, FlashPhase, GestureMade
  <1>8. /\ lowReads' <= FctRstMax => fctRst' <= lowReads'
        /\ PinReset(level) => lowReads' > FctRstMax
    <2>1. /\ fctRst' = IF PinLow(level) THEN (fctRst + 1) % ByteMod ELSE fctRst
          /\ lowReads' = IF Polling /\ level = 0 /\ lowReads <= FctRstMax
                           THEN lowReads + 1 ELSE lowReads
      BY Zenon DEF HandleEvent
    <2>2. lowReads <= FctRstMax =>
             fctRst <= lowReads /\ (fctRst + 1) % ByteMod = fctRst + 1
      <3>1. lowReads <= FctRstMax => fctRst <= lowReads
        BY Zenon DEF GestureInv, QueueInv
      <3> QED
        BY <3>1, ModSmall, ConstantsAssumption DEF TypeInv, TypeOK, DataOK
    <2> QED
      BY <2>1, <2>2, ConstantsAssumption
         DEF PinReset, PinLow, TypeInv, TypeOK, DataOK
  <1>9. Queued' => Justified'
    <2> DEFINE q == InitiateFactoryReset(chipQ, "FACTORY_RESET" \in appEvent)
    <2>1. q \in Seq(ChipEvents)
      BY DEF InitiateFactoryReset, Enqueue, ChipEvents, TypeInv, TypeOK, DataOK
    <2>2. chipQ' = InitiateFactoryReset(q, PinReset(level))
      BY Zenon DEF HandleEvent
    <2>3. (\E i \in 1..Len(q) : q[i] = "reset") => Requested \/ Queued
      <3>1. chipQ \in Seq(ChipEvents)
        BY DEF TypeInv, TypeOK, DataOK
      <3> QED
        BY <3>1 DEF InitiateFactoryReset, Enqueue, Queued, Requested
    <2> HIDE DEF q
    <2>4. Queued' => PinReset(level) \/ Requested \/ Queued
      BY <2>1, <2>2, <2>3, ScheduleQueued DEF Queued
    <2>5. lowReads > FctRstMax => lowReads' > FctRstMax
      BY ConstantsAssumption DEF HandleEvent, TypeInv, TypeOK, DataOK
    <2>6. Requested \/ Queued => Justified
      BY Zenon DEF GestureInv, RequestInv, QueueInv, Justified
    <2>7. Justified => Justified'
      BY <1>1, <2>5 DEF Justified, GestureMade
    <2> QED
      BY <1>8, <2>4, <2>6, <2>7, Zenon DEF Justified
  <1>10. QueueInv'
    BY <1>1, <1>8, <1>9 DEF GestureInv, QueueInv
  <1> QED
    BY <1>5, <1>6, <1>7, <1>10 DEF GestureInv

-----------------------------------------------------------------------------
LEMMA GestureNext == TypeInv /\ GestureInv /\ [Next]_vars => GestureInv'
  <1> SUFFICES ASSUME TypeInv, GestureInv, [Next]_vars PROVE GestureInv'
    OBVIOUS
  <1>1. CASE InitOnOffServer
    <2>1. UNCHANGED gestureVars /\ chip' = chip
      BY <1>1, Zenon DEF InitOnOffServer, appVars, gestureVars, history
    <2>2. notif' = notif \/ notif' = notif \cup {"LIGHTING"}
      BY <1>1, Zenon DEF InitOnOffServer, SetOnOff, PostEvent, notifVars
    <2> QED
      BY <2>1, <2>2, OtherStep
  <1>2. CASE TimerCallback
    <2>1. /\ UNCHANGED gestureVars /\ chip' = chip
          /\ notif' = notif \cup {"TIMER"}
      BY <1>2, Zenon DEF TimerCallback, PostEvent, flash, chipVars,
                         gestureVars, history
    <2> QED
      BY <2>1, OtherStep
  <1>3. ASSUME NEW ep, NEW value,
               OnOffCommand(ep, value) \/ WriteStartUpOnOff(ep, value)
        PROVE  GestureInv'
    <2>1. UNCHANGED gestureVars /\ chip' = chip
      BY <1>3, Zenon DEF OnOffCommand, WriteStartUpOnOff, appVars, chipVars,
                         gestureVars, history
    <2>2. notif' = notif \/ notif' = notif \cup {"LIGHTING"}
      BY <1>3, Zenon DEF OnOffCommand, WriteStartUpOnOff, SetOnOff, PostEvent,
                         notifVars
    <2> QED
      BY <2>1, <2>2, OtherStep
  <1>4. ASSUME NEW t, WriteIdentifyTime(t) PROVE GestureInv'
    <2>1. /\ UNCHANGED gestureVars /\ chip' = "identify"
          /\ notif' = notif \cup {"IDENTIFY_IDENTIFY"}
      BY <1>4, Zenon DEF WriteIdentifyTime, PostEvent, flash, appVars,
                         gestureVars, history
    <2> QED
      BY <2>1, OtherStep
  <1>5. CASE WriteOtherIdentifyTime
    <2>1. /\ UNCHANGED gestureVars /\ chip' = chip
          /\ notif' = notif \cup {"IDENTIFY_IDENTIFY"}
      BY <1>5, Zenon DEF WriteOtherIdentifyTime, PostEvent, flash, appVars,
                         chipVars, gestureVars, history
    <2> QED
      BY <2>1, OtherStep
  <1>6. CASE IdentifyTimeChanged
    <2>1. UNCHANGED gestureVars /\ chip' = "run"
      BY <1>6, Zenon DEF IdentifyTimeChanged, flash, appVars, gestureVars,
                         history
    <2>2. \/ notif' = notif
          \/ notif' = notif \cup {"IDENTIFY_STOP"}
          \/ notif' = notif \cup {"IDENTIFY_START"}
          \/ notif' = notif \cup EffectPosts
      BY <1>6, Zenon DEF IdentifyTimeChanged, PostEvent, notifVars
    <2>3. "FACTORY_RESET" \notin EffectPosts
      BY DEF EffectPosts
    <2> QED
      BY <2>1, <2>2, <2>3, OtherStep
  <1>7. ASSUME NEW effect, TriggerEffect(effect) PROVE GestureInv'
    <2>1. UNCHANGED gestureVars /\ chip' = chip /\ notif' = notif
      BY <1>7, Zenon DEF TriggerEffect, flash, appVars, notifVars, history,
                         gestureVars
    <2> QED
      BY <2>1, OtherStep
  <1>8. CASE UNCHANGED vars
    <2>1. UNCHANGED gestureVars /\ chip' = chip /\ notif' = notif
      BY <1>8, Zenon DEF vars, flash, appVars, notifVars, chipVars, history,
                         gestureVars
    <2> QED
      BY <2>1, OtherStep
  <1>9. CASE Boot
    BY <1>9, <1>1, ReadStep, WriteStep, PlatformInitStep, AppStep, Zenon
       DEF Boot
  <1>10. CASE Handle \/ WaitEvent \/ LockAndRead
    BY <1>10, HandleStep, AppStep, Zenon DEF Handle
  <1>11. CASE Client \/ IdentifyClusterTick
    BY <1>11, <1>3, <1>4, <1>5, <1>7, Zenon DEF Client, IdentifyClusterTick
  <1>12. CASE PowerCycle \/ EventLoop \/ PostOther
    BY <1>12, RebootStep, QueueStep, Zenon DEF EventLoop
  <1> QED
    BY <1>2, <1>6, <1>8, <1>9, <1>10, <1>11, <1>12, TickStep, FabricStep,
       Zenon DEF Next

LEMMA GestureInvariance == Spec => [](TypeInv /\ GestureInv)
  BY TypeInvariance, GestureInit, GestureNext, PTL DEF Spec

(* A factory reset is asked for only by the whole power-cycle gesture or   *)
(* by GPIO 2 read low more than the tolerated number of times, whatever    *)
(* the interleaving and wherever the power was cut.                        *)
THEOREM NoUnaskedWipe == Spec => []WipeOnlyOnRequest
  <1>1. GestureInv => WipeOnlyOnRequest
    BY DEF GestureInv, RequestInv, QueueInv, Requested, Queued, Justified,
           WipeOnlyOnRequest
  <1> QED
    BY <1>1, GestureInvariance, PTL

(* Once the armed boot has written its counter, any power cut up to the    *)
(* reset itself cancels it.                                                *)
THEOREM CutCancels == Spec => []PowerCutCancels
  <1>1. GestureInv => PowerCutCancels
    BY DEF GestureInv, ArmedInv, RequestInv, Requested, PowerCutCancels
  <1> QED
    BY <1>1, GestureInvariance, PTL
=============================================================================
