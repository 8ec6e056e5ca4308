--------------------------- MODULE RelayAppProofs ---------------------------
(* Theorems about RelayApp for every value of its constants.               *)
EXTENDS RelayApp, TLAPS

(* What TypeOK needs to be inductive: the clock stands at zero until the   *)
(* counter is read, and a boot that is not armed found it below the limit. *)
BootInv ==
  /\ pc = "boot" => uptime = 0 /\ pressed = 0
  /\ (pc = "read" /\ pressed = 0) => resetCnt < APP_REBOOT_RESET_COUNT - 1

TypeInv == TypeOK /\ BootInv

(* A number below the modulus is its own remainder.                        *)
LEMMA ModSmall ==
  ASSUME NEW a \in Nat, NEW m \in Nat, a < m
  PROVE  a % m = a
  OBVIOUS

LEMMA ModRange ==
  ASSUME NEW a \in Int, NEW m \in Nat, m > 0
  PROVE  a % m \in 0..(m - 1)
  OBVIOUS

-----------------------------------------------------------------------------
LedStates == [phys : Colours \cup {Dark}, on : BOOLEAN, hue : Colours]

LEMMA SetColorType ==
  ASSUME NEW l \in LedStates, NEW lit \in BOOLEAN, NEW hue \in Colours
  PROVE  SetColor(l, lit, hue) \in LedStates
  BY DEF SetColor, LedStates, Colours, Dark

(* Every step of the handler leaves the LED in a state it can be in.       *)
LEMMA LedSteps ==
  ASSUME NEW l \in LedStates, NEW level
  PROVE  PinResetLed(PollLed(ConfirmLed(IdentifyLed(LightingUpdate(l)))),
                     level) \in LedStates
  <1> USE DEF Colours
  <1>1. ASSUME NEW x \in LedStates PROVE LightingUpdate(x) \in LedStates
    BY SetColorType DEF LightingUpdate
  <1>2. ASSUME NEW x \in LedStates PROVE IdentifyLed(x) \in LedStates
    BY DEF IdentifyLed, Toggle, LedStates, Dark
  <1>3. ASSUME NEW x \in LedStates PROVE ConfirmLed(x) \in LedStates
    BY SetColorType DEF ConfirmLed
  <1>4. ASSUME NEW x \in LedStates PROVE PollLed(x) \in LedStates
    BY SetColorType DEF PollLed
  <1>5. ASSUME NEW x \in LedStates PROVE PinResetLed(x, level) \in LedStates
    BY SetColorType DEF PinResetLed
  <1> QED
    BY <1>1, <1>2, <1>3, <1>4, <1>5

LEMMA EnqueueType ==
  ASSUME NEW q \in Seq(ChipEvents), Len(q) <= QueueSize,
         NEW event \in ChipEvents
  PROVE  /\ Enqueue(q, event) \in Seq(ChipEvents)
         /\ Len(Enqueue(q, event)) <= QueueSize
  BY ConstantsAssumption DEF Enqueue

LEMMA ScheduleType ==
  ASSUME NEW q \in Seq(ChipEvents), Len(q) <= QueueSize,
         NEW wanted \in BOOLEAN
  PROVE  /\ InitiateFactoryReset(q, wanted) \in Seq(ChipEvents)
         /\ Len(InitiateFactoryReset(q, wanted)) <= QueueSize
  <1>1. "reset" \in ChipEvents
    BY DEF ChipEvents
  <1> QED
    BY <1>1, EnqueueType, Zenon DEF InitiateFactoryReset

(* The event loop takes the first event out of a queue of events.          *)
LEMMA TailType ==
  ASSUME NEW q \in Seq(ChipEvents), Len(q) <= QueueSize, q # <<>>
  PROVE  Tail(q) \in Seq(ChipEvents) /\ Len(Tail(q)) <= QueueSize
  BY ConstantsAssumption

(* What dispatching an event leaves alone, unless it is a reset.           *)
LEMMA DispatchFrame ==
  ASSUME DispatchEvent
  PROVE  /\ \E event \in ChipEvents : Dispatch(event)
         /\ UNCHANGED <<resetCnt, failSafe, onoff, startUp, strap, appVars,
                        lightVars, chip, initEp, enabled, identifyVars, uptime,
                        history>>
         /\ notif' = notif \/ notif' = notif \cup {"LIGHTING"}
         /\ pending' = pending \/ pending' = TRUE
  <1> USE DEF DispatchEvent, DispatchOther, DispatchComplete, DispatchExpired,
              DispatchDisarm
  <1>1. \E event \in ChipEvents : Dispatch(event)
    BY DEF ChipEvents
  <1>2. /\ notif' = notif \/ notif' = notif \cup {"LIGHTING"}
        /\ pending' = pending \/ pending' = TRUE
    BY Zenon DEF PostEvent, notifVars
  <1> QED
    BY <1>1, <1>2, Zenon DEF Dispatch

LEMMA FlagsInit == Init => FlagsOK
  BY Zenon DEF Init, RamAtPowerUp, FlagsOK

LEMMA FlagsNext == FlagsOK /\ [Next]_vars => FlagsOK'
  <1> SUFFICES ASSUME FlagsOK, [Next]_vars PROVE FlagsOK'
    OBVIOUS
  <1> USE DEF FlagsOK, PostEvent, flash, appVars, notifVars, lightVars,
              chipVars, identifyVars, history
  <1>1. CASE PowerCycle
    BY <1>1, Zenon DEF PowerCycle, LoseRam
  <1>2. CASE Boot
    BY <1>2, Zenon DEF Boot, ReadResetCnt, WriteResetCnt, InitOnOffServer,
           SetOnOff, PlatformInit, OptionRead, DisableEndpoints
  <1>3. CASE WaitEvent \/ LockAndRead \/ TimerCallback \/ Tick
    BY <1>3, Zenon DEF WaitEvent, LockAndRead, TimerCallback, Tick
  <1>4. CASE Handle
    <2>1. PICK level \in Gpio2Levels : HandleEvent(level)
      BY <1>4, Zenon DEF Handle
    <2>2. identifyState' \in BOOLEAN /\ synced' \in BOOLEAN
      BY <2>1, Zenon DEF HandleEvent, IdentifyHandleOp
    <2> QED
      BY <2>1, <2>2, Zenon DEF HandleEvent
  <1>5. CASE Client
    <2>1. ASSUME NEW ep, NEW value, OnOffCommand(ep, value) PROVE FlagsOK'
      BY <2>1, Zenon DEF OnOffCommand, SetOnOff
    <2>2. ASSUME NEW ep, NEW value, WriteStartUpOnOff(ep, value) PROVE FlagsOK'
      BY <2>2, Zenon DEF WriteStartUpOnOff
    <2>3. ASSUME NEW t, WriteIdentifyTime(t) PROVE FlagsOK'
      BY <2>3, Zenon DEF WriteIdentifyTime
    <2>4. CASE WriteOtherIdentifyTime
      BY <2>4, Zenon DEF WriteOtherIdentifyTime
    <2>5. ASSUME NEW effect, TriggerEffect(effect) PROVE FlagsOK'
      BY <2>5, Zenon DEF TriggerEffect
    <2> QED
      BY <1>5, <2>1, <2>2, <2>3, <2>4, <2>5, Zenon DEF Client
  <1>6. CASE IdentifyClusterTick \/ IdentifyTimeChanged
    BY <1>6, Zenon
       DEF IdentifyClusterTick, WriteIdentifyTime, IdentifyTimeChanged
  <1>7. CASE Fabric
    BY <1>7, Zenon DEF Fabric, ArmFailSafe, AddFabric, CommissioningComplete,
           FailSafeExpired, RemoveFabric
  <1>8. CASE PostOther \/ EventLoop
    BY <1>8, DispatchFrame, Zenon
       DEF PostOther, EventLoop, DoFactoryReset, LoseRam
  <1>9. CASE UNCHANGED vars
    BY <1>9, Zenon DEF vars
  <1> QED
    BY <1>1, <1>2, <1>3, <1>4, <1>5, <1>6, <1>7, <1>8, <1>9, Zenon DEF Next

(* One write of OnOff, with its callback, keeps the types.                 *)
LEMMA SetOnOffType ==
  ASSUME DataOK, NEW ep \in Endpoints, NEW value \in BOOLEAN,
         SetOnOff(ep, value)
  PROVE  /\ onoff' \in [Endpoints -> BOOLEAN]
         /\ relay' \in [Relays -> BOOLEAN]
         /\ u8LedState' \subseteq Endpoints
         /\ led' \in LedStates
         /\ notif' \subseteq AppEvents
  <1> USE DEF SetOnOff
  <1>1. onoff' \in [Endpoints -> BOOLEAN] /\ notif' \subseteq AppEvents
    BY DEF PostEvent, DataOK, AppEvents
  <1>2. RelayOf(ep, u8Config) \in Relays \cup {0}
    BY DEF RelayOf, Relays
  <1>3. /\ relay' \in [Relays -> BOOLEAN]
        /\ u8LedState' \subseteq Endpoints
    BY <1>2 DEF DataOK, DriveRelay, TRRelayControl, SetLedState, lightVars
  <1>4. led' \in LedStates
    BY DEF DataOK, DriveRelay, set_color, lightVars, LedStates, Colours, Dark
  <1> QED
    BY <1>1, <1>3, <1>4

LEMMA RefreshType ==
  ASSUME DataOK, RefreshRelays
  PROVE  /\ onoff' \in [Endpoints -> BOOLEAN]
         /\ relay' \in [Relays -> BOOLEAN]
         /\ u8LedState' \subseteq Endpoints
  <1>1. onoff' \in [Endpoints -> BOOLEAN]
    BY DEF DataOK, RefreshRelays
  <1>2. relay' \in [Relays -> BOOLEAN]
    <2> DEFINE Driven(r) == {ep \in SyncEndpoints(u8Config) :
                               RelayOf(ep, u8Config) = r}
               out(r) == IF Driven(r) = {} THEN relay[r]
                         ELSE \E ep \in Driven(r) : seen[ep]
    <2>1. relay' = [r \in Relays |-> out(r)]
      BY Zenon DEF RefreshRelays
    <2>2. ASSUME NEW r \in Relays PROVE out(r) \in BOOLEAN
      <3>1. relay[r] \in BOOLEAN
        BY DEF DataOK
      <3>2. (\E ep \in Driven(r) : seen[ep]) \in BOOLEAN
        BY Zenon
      <3> QED
        BY <3>1, <3>2, Zenon
    <2> HIDE DEF out
    <2> QED
      BY <2>1, <2>2, Zenon
  <1>3. SyncEndpoints(u8Config) \subseteq Endpoints
    BY DEF SyncEndpoints, Endpoints
  <1>4. u8LedState' \subseteq Endpoints
    BY <1>3, Zenon DEF DataOK, RefreshRelays
  <1> QED
    BY <1>1, <1>2, <1>4

LEMMA DataInit == Init => DataOK /\ BootInv
  BY ConstantsAssumption
     DEF Init, RamAtPowerUp, DataOK, BootInv, Endpoints, Relays, Colours,
         AppEvents, StartUpOnOffs, EffectIdentifiers, Dark, FailSafeStates

LEMMA DataNext == TypeInv /\ [Next]_vars => (DataOK /\ BootInv)'
  <1> SUFFICES ASSUME TypeInv, [Next]_vars PROVE (DataOK /\ BootInv)'
    OBVIOUS
  <1> USE DEF TypeInv, TypeOK, DataOK, BootInv, identifyVars
  <1>1. CASE PowerCycle
    BY <1>1, ConstantsAssumption
       DEF PowerCycle, LoseRam, PowerUpCount, flash, Endpoints, Relays,
           Colours, Dark, EffectIdentifiers, FailSafeStates
  <1>2. CASE ReadResetCnt
    <2>1. /\ ResetAsked => pressed' = (uptime + 1) % ClockMod
          /\ ~ResetAsked => pressed' = 0
          /\ uptime = 0
      BY <1>2, Zenon DEF ReadResetCnt
    <2>2. 1 % ClockMod = 1
      BY ModSmall, ConstantsAssumption
    <2>3. pressed' = IF ResetAsked THEN 1 ELSE 0
      BY <2>1, <2>2
    <2>4. led' \in LedStates
      <3>1. led \in LedStates /\ {"red", "blue"} \subseteq Colours
        BY DEF LedStates, Colours
      <3>2. ASSUME NEW hue \in Colours
            PROVE  SetColor(led, TRUE, hue) \in LedStates
        <4> TRUE \in BOOLEAN
          OBVIOUS
        <4> HIDE DEF TypeInv, TypeOK, DataOK, BootInv
        <4> QED
          BY <3>1, SetColorType, Zenon
      <3>3. \/ led' = SetColor(led, TRUE, "red")
            \/ led' = SetColor(led, TRUE, "blue")
        BY <1>2, Zenon DEF ReadResetCnt
      <3> QED
        BY <3>1, <3>2, <3>3, Zenon
    <2>5. pc' = "read" /\ UNCHANGED <<resetCnt, uptime>>
      BY <1>2, Zenon DEF ReadResetCnt, flash
    <2>6. BootInv'
      BY <2>3, <2>5, ConstantsAssumption DEF ResetAsked
    <2> QED
      BY <1>2, <2>3, <2>4, <2>5, <2>6
         DEF ReadResetCnt, LedStates, flash, notifVars, chipVars, history
  <1>3. CASE WriteResetCnt
    BY <1>3, ConstantsAssumption
       DEF WriteResetCnt, NewResetCnt, PostEvent, lightVars, chipVars,
           history, AppEvents
  <1>4. CASE InitOnOffServer
    <2>1. CASE SetOnOff(initEp, StartUpValue(initEp))
      <3>1. onoff[initEp] \in BOOLEAN
        BY <1>4 DEF InitOnOffServer
      <3>2. StartUpValue(initEp) \in BOOLEAN
        BY <3>1, Zenon DEF StartUpValue
      <3> QED
        BY <1>4, <2>1, <3>2, SetOnOffType
           DEF InitOnOffServer, appVars, history, LedStates, Endpoints
    <2>2. CASE UNCHANGED <<onoff, lightVars, notifVars>>
      BY <1>4, <2>2
         DEF InitOnOffServer, lightVars, notifVars, appVars, history, Endpoints
    <2> QED
      BY <1>4, <2>1, <2>2, Zenon DEF InitOnOffServer
  <1>5. CASE PlatformInit
    <2>1. chipQ' \in Seq(ChipEvents) /\ Len(chipQ') <= QueueSize
      BY <1>5, ScheduleType, Zenon DEF PlatformInit, ConfigurationInit, FlagsOK
    <2> QED
      BY <1>5, <2>1
         DEF PlatformInit, FabricTableInit, flash, notifVars, lightVars, history
  <1>6. CASE OptionRead
    BY <1>6 DEF OptionRead, flash, notifVars, lightVars, chipVars, history
  <1>7. CASE DisableEndpoints
    BY <1>7 DEF DisableEndpoints, flash, notifVars, lightVars, history
  <1>8. CASE WaitEvent
    BY <1>8 DEF WaitEvent, flash, lightVars, chipVars, history
  <1>9. CASE LockAndRead
    BY <1>9 DEF LockAndRead, flash, notifVars, lightVars, chipVars, history
  <1>10. CASE TimerCallback
    BY <1>10, ConstantsAssumption
       DEF TimerCallback, PostEvent, flash, lightVars, chipVars, history,
           AppEvents
  <1>11. CASE Tick
    BY <1>11, ConstantsAssumption
       DEF Tick, flash, notifVars, lightVars, chipVars, history
  <1>12. CASE IdentifyClusterTick
    BY <1>12, ConstantsAssumption
       DEF IdentifyClusterTick, WriteIdentifyTime, PostEvent, flash, appVars,
           lightVars, history, AppEvents
  <1>13. CASE IdentifyTimeChanged
    <2>1. notif' \subseteq AppEvents
      <3>1. \/ notif' = notif
            \/ notif' = notif \cup {"IDENTIFY_STOP"}
            \/ notif' = notif \cup {"IDENTIFY_START"}
            \/ notif' = notif \cup EffectPosts
        BY <1>13, Zenon DEF IdentifyTimeChanged, PostEvent, notifVars
      <3>2. EffectPosts \subseteq AppEvents
        BY DEF EffectPosts, AppEvents
      <3> QED
        BY <3>1, <3>2 DEF AppEvents
    <2> QED
      BY <1>13, <2>1, ConstantsAssumption
         DEF IdentifyTimeChanged, flash, appVars, lightVars, history
  <1>14. CASE PostOther
    <2>1. "other" \in ChipEvents
      BY DEF ChipEvents
    <2>2. chipQ' \in Seq(ChipEvents) /\ Len(chipQ') <= QueueSize
      BY <1>14, <2>1, ConstantsAssumption DEF PostOther
    <2> QED
      BY <1>14, <2>2
         DEF PostOther, flash, appVars, notifVars, lightVars, history
  <1>15. CASE DispatchEvent
    <2>1. PICK event \in ChipEvents : Dispatch(event)
      BY <1>15, DispatchFrame, Zenon
    <2>2. chipQ' \in Seq(ChipEvents) /\ Len(chipQ') <= QueueSize
      BY <2>1, TailType DEF Dispatch
    <2>3. notif' \subseteq AppEvents
      BY <1>15, DispatchFrame DEF AppEvents
    <2>4. /\ mFailSafe' \in FailSafeStates
          /\ fabric' \in 0..1 /\ fabricNV' \in 0..1
      BY <1>15
         DEF DispatchEvent, DispatchOther, DispatchComplete, DispatchExpired,
             DispatchDisarm, FailSafeStates
    <2> QED
      BY <2>1, <2>2, <2>3, <2>4 DEF Dispatch, flash, appVars, lightVars, history
  <1>16. CASE DoFactoryReset
    BY <1>16, ConstantsAssumption
       DEF DoFactoryReset, LoseRam, Endpoints, Relays, Colours, Dark,
           StartUpOnOffs, EffectIdentifiers, FailSafeStates
  <1>17. ASSUME NEW ep \in ClientEndpoints, NEW value \in BOOLEAN,
                OnOffCommand(ep, value)
         PROVE  (DataOK /\ BootInv)'
    <2>1. ep \in Endpoints
      BY ConstantsAssumption
    <2> QED
      BY <1>17, <2>1, SetOnOffType
         DEF OnOffCommand, appVars, chipVars, history, LedStates
  <1>18. ASSUME NEW ep \in ClientEndpoints, NEW value \in StartUpValues,
                WriteStartUpOnOff(ep, value)
         PROVE  (DataOK /\ BootInv)'
    BY <1>18, ConstantsAssumption
       DEF WriteStartUpOnOff, appVars, notifVars, lightVars, chipVars, history
  <1>19. ASSUME NEW t \in 0..MaxIdentifyTime, WriteIdentifyTime(t)
         PROVE  (DataOK /\ BootInv)'
    BY <1>19
       DEF WriteIdentifyTime, PostEvent, flash, appVars, lightVars, history,
           AppEvents
  <1>20. CASE WriteOtherIdentifyTime
    BY <1>20
       DEF WriteOtherIdentifyTime, PostEvent, flash, appVars, lightVars,
           chipVars, history, AppEvents
  <1>21. CASE Fabric
    <2>1. CASE ArmFailSafe
      BY <2>1
         DEF ArmFailSafe, flash, appVars, notifVars, lightVars, history,
             FailSafeStates, Armed
    <2>2. CASE AddFabric
      BY <2>2 DEF AddFabric, flash, appVars, notifVars, lightVars, history,
                  FailSafeStates, Armed
    <2>3. ASSUME NEW err \in BOOLEAN, CommissioningComplete(err)
          PROVE  (DataOK /\ BootInv)'
      <3>1. chipQ' \in Seq(ChipEvents) /\ Len(chipQ') <= QueueSize
        BY <2>3, EnqueueType DEF CommissioningComplete, ChipEvents
      <3>2. fabric' \in 0..1 /\ fabricNV' \in 0..1
        BY <2>3 DEF CommissioningComplete, CommitPendingFabricData
      <3>3. mFailSafe' \in FailSafeStates
        BY <2>3 DEF CommissioningComplete, FailSafeStates, Armed
      <3> QED
        BY <2>3, <3>1, <3>2, <3>3
           DEF CommissioningComplete, appVars, notifVars, lightVars, history
    <2>4. CASE FailSafeExpired
      <3>1. chipQ' \in Seq(ChipEvents) /\ Len(chipQ') <= QueueSize
        BY <2>4, EnqueueType
           DEF FailSafeExpired, ScheduleFailSafeCleanup, ChipEvents
      <3> QED
        BY <2>4, <3>1
           DEF FailSafeExpired, flash, appVars, notifVars, lightVars, history,
               FailSafeStates
    <2>5. ASSUME NEW own \in BOOLEAN, RemoveFabric(own)
          PROVE  (DataOK /\ BootInv)'
      BY <2>5 DEF RemoveFabric, appVars, notifVars, lightVars, history,
                  FailSafeStates, Armed
    <2> QED
      BY <1>21, <2>1, <2>2, <2>3, <2>4, <2>5, Zenon DEF Fabric
  <1>22. ASSUME NEW level \in Gpio2Levels, HandleEvent(level)
         PROVE  (DataOK /\ BootInv)'
    <2>1. led' \in LedStates
      BY <1>22, LedSteps, Zenon DEF HandleEvent, LedStates
    <2>2. notif' \subseteq AppEvents
      <3>1. Posted \subseteq AppEvents
        BY Zenon DEF Posted, AppEvents
      <3> QED
        BY <1>22, <3>1, Zenon DEF HandleEvent, PostEvent, notifVars
    <2>3. /\ onoff' \in [Endpoints -> BOOLEAN]
          /\ relay' \in [Relays -> BOOLEAN]
          /\ u8LedState' \subseteq Endpoints
      BY <1>22, RefreshType DEF HandleEvent
    <2>4. /\ fctRst' \in 0..(ByteMod - 1)
          /\ gpioCount' \in 0..SettleAt
          /\ lowReads' \in 0..(FctRstMax + 1)
          /\ resetCnt' \in 0..(APP_REBOOT_RESET_COUNT - 1)
          /\ pressed' \in 0..1
      BY <1>22, ModRange, ConstantsAssumption DEF HandleEvent, Polling, PinLow
    <2>5. chipQ' \in Seq(ChipEvents) /\ Len(chipQ') <= QueueSize
      <3>1. /\ ("FACTORY_RESET" \in appEvent) \in BOOLEAN
            /\ PinReset(level) \in BOOLEAN
        BY DEF PinReset
      <3> QED
        BY <1>22, <3>1, ScheduleType, Zenon DEF HandleEvent
    <2> QED
      BY <1>22, <2>1, <2>2, <2>3, <2>4, <2>5, ConstantsAssumption
         DEF HandleEvent, LedStates, StartTimer
  <1>23. ASSUME NEW effect \in Effects, TriggerEffect(effect)
         PROVE  (DataOK /\ BootInv)'
    BY <1>23, ConstantsAssumption
       DEF TriggerEffect, flash, appVars, notifVars, lightVars, history
  <1>24. CASE UNCHANGED vars
    BY <1>24
       DEF vars, flash, appVars, notifVars, lightVars, chipVars, history
  <1> QED
    BY <1>1, <1>2, <1>3, <1>4, <1>5, <1>6, <1>7, <1>8, <1>9, <1>10, <1>11,
       <1>12, <1>13, <1>14, <1>15, <1>16, <1>17, <1>18, <1>19, <1>20, <1>21,
       <1>22, <1>23, <1>24, Zenon
       DEF Next, Boot, Handle, Client, EventLoop

LEMMA TypeInvariance == Spec => []TypeInv
  BY FlagsInit, FlagsNext, DataInit, DataNext, PTL
     DEF Spec, TypeInv, TypeOK

(* Every variable of the device keeps its type: the boot counter and the   *)
(* 8-bit counters never leave their range, the queue never overflows.      *)
THEOREM TypeCorrect == Spec => []TypeOK
  BY TypeInvariance, PTL DEF TypeInv
=============================================================================
