------------------------------ MODULE RelayApp ------------------------------
(***************************************************************************)
(* The application of the ThirdReality relay: the App task (AppTask.cpp),  *)
(* the attribute callback that drives the relays (ZclCallbacks.cpp), the   *)
(* status LED, and the parts of the CHIP task they talk to.  Three actors  *)
(* share the device: the App task, the CHIP task and the FreeRTOS timer    *)
(* task; a fourth one, the user, may cut the power between any two steps.  *)
(*                                                                         *)
(* One step of the App or of the CHIP task is one stretch of code run with *)
(* the CHIP stack lock held (or without it, between two flash accesses).   *)
(* The only stretch that is split although the lock is held is a write of  *)
(* IdentifyTime, because the App task may pick up its notification bits    *)
(* between the two callbacks of that write.                                *)
(***************************************************************************)
EXTENDS Integers, Sequences

CONSTANTS
  APP_REBOOT_RESET_COUNT,  \* power-ups in a row that ask for a reset (7)
  APP_BUTTON_PRESS_LONG,   \* confirm time before the reset (5000 ms)
  TimerIntvl,              \* period of the App's one-shot timer (1000 ms)
  ClearAt,                 \* handler pass that clears the flash counter (10)
  SettleAt,                \* handler passes after which polling ends (120)
  FctRstMax,               \* low readings of GPIO 2 that are tolerated (6)
  ByteMod,                 \* 2^8, the width of fctRst
  ClockMod,                \* 2^64, the width of the millisecond clock
  MaxUptime,               \* the clock saturates here, past all comparisons
  QueueSize,               \* capacity of the CHIP event queue (50)
  Straps,                  \* option jumpers the board may be built with
  ClientEndpoints,         \* endpoints whose OnOff cluster clients use
  Gpio2Levels,             \* levels GPIO 2 may read
  StartUpValues,           \* values a client may write to StartUpOnOff
  MaxIdentifyTime,         \* largest IdentifyTime a client writes
  Effects,                 \* effects a client may trigger
  InitialFabrics,          \* fabrics stored when the device is first seen
  Commissioning            \* whether fabrics come and go

Endpoints == 1..3
Relays    == 1..3
Colours   == {"blue", "green", "pink", "red"}
AppEvents == {"TIMER", "FACTORY_RESET", "LIGHTING",
              "IDENTIFY_START", "IDENTIFY_IDENTIFY", "IDENTIFY_STOP"}
ChipEvents == {"other", "reset", "complete", "expired", "disarm"}

(* The fail-safe is idle, or armed: with no AddNOC yet, with its fabric    *)
(* pending (noc), with the certificates of that fabric dropped, with a     *)
(* commit that has failed; or it has expired, before an AddNOC (busy) or   *)
(* after one (revert).                                                     *)
Armed == {"armed", "noc", "dropped", "failed"}
FailSafeStates == {"idle", "busy", "revert"} \cup Armed
EffectIdentifiers == {"blink", "finish", "stop"}
StartUpOnOffs == {"null", "off", "on", "toggle"}

ASSUME ConstantsAssumption ==
  /\ APP_REBOOT_RESET_COUNT \in Nat /\ APP_REBOOT_RESET_COUNT > 1
  /\ APP_BUTTON_PRESS_LONG \in Nat
  /\ TimerIntvl \in Nat \ {0}
  /\ ClearAt \in Nat \ {0}
  /\ SettleAt \in Nat /\ SettleAt > ClearAt
  /\ FctRstMax \in Nat
  /\ ByteMod \in Nat /\ ByteMod > FctRstMax + 1
  /\ MaxUptime \in Nat /\ MaxUptime > APP_BUTTON_PRESS_LONG + 1
  /\ ClockMod \in Nat /\ ClockMod > MaxUptime
  /\ QueueSize \in Nat \ {0}
  /\ Straps \subseteq 1..4
  /\ ClientEndpoints \subseteq Endpoints
  /\ Gpio2Levels \subseteq {0, 1}
  /\ StartUpValues \subseteq StartUpOnOffs
  /\ MaxIdentifyTime \in Nat
  /\ Effects \subseteq EffectIdentifiers
  /\ InitialFabrics \subseteq {0, 1}
  /\ Commissioning \in BOOLEAN

VARIABLES
  \* flash (EasyFlash environment): survives a power cycle
  resetCnt,      \* APP_REBOOT_RESET_COUNT_KEY
  fabricNV,      \* number of fabrics stored, 0 or 1
  failSafe,      \* the fail-safe-armed marker, which no code ever sets
  onoff,         \* OnOff of every endpoint; its RAM copy is always the same
  startUp,       \* StartUpOnOff of every endpoint
  strap,         \* the option jumpers, read on GPIO 20 and GPIO 0
  \* RAM of the App task
  pc,            \* where AppTaskMain is
  notif,         \* bits of the task notification value
  pending,       \* a notification arrived since the last xTaskNotifyWait
  appEvent,      \* bits the running loop iteration took
  seen,          \* the OnOff values the running iteration read
  pressed,       \* mButtonPressedTime
  gpioCount, fctRst, u8Config, identifyState,
  u8LedState,    \* the endpoints whose bit is set
  led,           \* physical colour, and what ColorLEDWidget remembers
  timer,         \* ticks until lightTmr expires, 0 when due, -1 when idle
  \* RAM of the CHIP task, pins and the clock
  chip,          \* where the CHIP task is
  initEp,        \* next endpoint whose OnOff cluster is initialised
  enabled,       \* enabled endpoints
  fabric,        \* FabricTable::FabricCount()
  mFailSafe,     \* FailSafeContext and what is pending under it, see below
  identifyTime, identifyActive,  \* IdentifyTime and Identify::mActive
  targetEffect, currentEffect,   \* mTarget- and mCurrentEffectIdentifier
  chipQ,         \* the CHIP event queue
  relay,         \* the relay outputs
  uptime,        \* ticks since the boot read the counter, saturating
  \* history of what the user and the wires did, read by properties only
  quick,         \* power-ups in a row, saturating
  lowReads,      \* low readings of GPIO 2 since power-up, saturating
  synced         \* since power-up the relays were refreshed from OnOff

flash   == <<resetCnt, fabricNV, failSafe, onoff, startUp, strap>>
appVars == <<pc, appEvent, seen, pressed, gpioCount, fctRst, u8Config,
             identifyState, timer>>
notifVars == <<notif, pending>>
lightVars == <<u8LedState, led, relay>>
identifyVars == <<identifyTime, identifyActive, targetEffect, currentEffect>>
chipVars  == <<chip, initEp, enabled, fabric, mFailSafe, identifyVars,
               chipQ>>
history   == <<quick, lowReads, synced>>
vars == <<flash, appVars, notifVars, lightVars, chipVars, uptime, history>>

-----------------------------------------------------------------------------
(* The LED.  ColorLEDWidget caches what it was told last; set_color called *)
(* directly by the attribute callback changes the light and not the cache. *)
(* Every level the code uses is 0 or above 5, so a level is lit or dark.   *)

Dark == "dark"

SetColor(l, lit, hue) ==
  [phys |-> IF lit THEN hue ELSE Dark, on |-> lit, hue |-> hue]

Toggle(l) ==
  [phys |-> IF l.on THEN Dark ELSE l.hue, on |-> ~l.on, hue |-> l.hue]

set_color(l, colour) == [l EXCEPT !.phys = colour]

-----------------------------------------------------------------------------
(* Which relay an endpoint drives under a jumper setting; 0 is none.       *)
RelayOf(ep, cfg) ==
  CASE ep = 1                      -> 1
    [] ep = 2 /\ cfg \in {2, 4}    -> 2
    [] ep = 2 /\ cfg = 3           -> 3
    [] ep = 3 /\ cfg = 4           -> 3
    [] OTHER                       -> 0

(* Mutant: the branch for jumper setting 4 forgets endpoint 3.             *)
SyncEndpointsNoThird(cfg) ==
  CASE cfg \in {2, 3, 4} -> {1, 2}
    [] OTHER             -> {1}

(* The endpoints TimerEventHandler reads and writes back.                  *)
SyncEndpoints(cfg) ==
  CASE cfg \in {2, 3} -> {1, 2}
    [] cfg = 4        -> {1, 2, 3}
    [] OTHER          -> {1}

DisabledBy(cfg) ==
  CASE cfg = 1        -> {2, 3}
    [] cfg \in {2, 3} -> {3}
    [] OTHER          -> {}

(* AppTask::PostEvent: set bits, mark the notification as received.        *)
PostEvent(events) ==
  /\ notif' = notif \cup events
  /\ pending' = TRUE

(* Mutant: the mask names every event, FACTORY_RESET too.                  *)
FULL_MASK == AppEvents

ALL_MASK == AppEvents \ {"FACTORY_RESET"}

(* Mutant: clearing shifts by endpt, not by endpt - 1.                     *)
SetLedStateShifted(ep, value) ==
  IF value THEN u8LedState \cup {ep} ELSE u8LedState \ {ep + 1}

SetLedState(ep, value) ==
  IF value THEN u8LedState \cup {ep} ELSE u8LedState \ {ep}

(* Mutant: the branch that switches off has no case for setting 3.         *)
RelayOutputStuck(r, value) ==
  [relay EXCEPT ![r] = value \/ (u8Config = 3 /\ r = 3 /\ relay[r])]

(* TRRelayControl: set the output, read it back, set it once more.         *)
TRRelayControl(r, value) == [relay EXCEPT ![r] = value]

(* The OnOff branch of MatterPostAttributeChangeCallback, which runs at    *)
(* the end of every write of OnOff.                                       *)
DriveRelay(ep, value) ==
  LET r    == RelayOf(ep, u8Config)
      bits == SetLedState(ep, value)
  IN  IF r = 0
        THEN UNCHANGED lightVars
        ELSE /\ relay' = TRRelayControl(r, value)
             /\ u8LedState' = bits
             /\ led' = IF value THEN set_color(led, "green")
                       ELSE IF bits = {} THEN set_color(led, Dark)
                       ELSE led

(* OnOff::Set: store, persist, then call back.                             *)
SetOnOff(ep, value) ==
  /\ onoff' = [onoff EXCEPT ![ep] = value]
  /\ DriveRelay(ep, value)
  /\ PostEvent({"LIGHTING"})

(* PlatformManager::PostEvent and ScheduleWork: a full queue drops it.     *)
Enqueue(q, event) == IF Len(q) < QueueSize THEN Append(q, event) ELSE q

InitiateFactoryReset(q, wanted) == IF wanted THEN Enqueue(q, "reset") ELSE q

-----------------------------------------------------------------------------
(* Power.  Everything in RAM is lost; the pins fall back to low.           *)

RamAtPowerUp ==
  /\ pc = "boot" /\ notif = {} /\ pending = FALSE /\ appEvent = {}
  /\ seen = [ep \in Endpoints |-> FALSE]
  /\ pressed = 0 /\ gpioCount = 0 /\ fctRst = 0 /\ u8Config = 255
  /\ identifyState = FALSE /\ u8LedState = {} /\ timer = -1
  /\ led = [phys |-> Dark, on |-> FALSE, hue |-> "red"]
  /\ chip = "init" /\ initEp = 1 /\ enabled = Endpoints /\ fabric = 0
  /\ mFailSafe = "idle"
  /\ identifyTime = 0 /\ identifyActive = FALSE /\ chipQ = <<>>
  /\ targetEffect = "blink" /\ currentEffect = "blink"
  /\ relay = [r \in Relays |-> FALSE] /\ uptime = 0
  /\ lowReads = 0 /\ synced = FALSE

LoseRam ==
  /\ pc' = "boot" /\ notif' = {} /\ pending' = FALSE /\ appEvent' = {}
  /\ seen' = [ep \in Endpoints |-> FALSE]
  /\ pressed' = 0 /\ gpioCount' = 0 /\ fctRst' = 0 /\ u8Config' = 255
  /\ identifyState' = FALSE /\ u8LedState' = {} /\ timer' = -1
  /\ led' = [phys |-> Dark, on |-> FALSE, hue |-> "red"]
  /\ chip' = "init" /\ initEp' = 1 /\ enabled' = Endpoints /\ fabric' = 0
  /\ mFailSafe' = "idle"
  /\ identifyTime' = 0 /\ identifyActive' = FALSE /\ chipQ' = <<>>
  /\ targetEffect' = "blink" /\ currentEffect' = "blink"
  /\ relay' = [r \in Relays |-> FALSE] /\ uptime' = 0
  /\ lowReads' = 0 /\ synced' = FALSE

Init ==
  /\ resetCnt = 0 /\ fabricNV \in InitialFabrics /\ failSafe = FALSE
  /\ onoff = [ep \in Endpoints |-> FALSE]
  /\ startUp = [ep \in Endpoints |-> "null"]
  /\ strap \in Straps
  /\ RamAtPowerUp
  /\ quick = 1

(* A boot that stayed up until the counter was cleared ends the run.       *)
PowerUpCount ==
  IF gpioCount > ClearAt THEN 1
  ELSE IF quick < APP_REBOOT_RESET_COUNT THEN quick + 1 ELSE quick

PowerCycle ==
  /\ LoseRam
  /\ quick' = PowerUpCount
  /\ UNCHANGED flash

(* Mutant: the limit is one power-up too low.                              *)
ResetAskedEarly == resetCnt >= APP_REBOOT_RESET_COUNT - 2

ResetAsked == resetCnt >= APP_REBOOT_RESET_COUNT - 1

(* Mutant: arming leaves the counter as it is.                             *)
CounterKept == IF pressed # 0 THEN resetCnt ELSE resetCnt + 1

NewResetCnt == IF pressed # 0 THEN 0 ELSE resetCnt + 1

(* AppTaskMain up to the decision: a counter that has reached the limit    *)
(* arms the reset, +1 keeping mButtonPressedTime different from zero.      *)
ReadResetCnt ==
  /\ pc = "boot"
  /\ pc' = "read"
  /\ IF ResetAsked
       THEN /\ led' = SetColor(led, TRUE, "red")
            /\ pressed' = (uptime + 1) % ClockMod
       ELSE /\ led' = SetColor(led, TRUE, "blue")
            /\ pressed' = 0
  /\ UNCHANGED <<flash, appEvent, seen, gpioCount, fctRst, u8Config,
                 identifyState, timer, notifVars, u8LedState, relay, chipVars,
                 uptime, history>>

(* ef_set_env_blob, then start the CHIP task, post the first two events    *)
(* and suspend until PlatformInit resumes the task.                        *)
WriteResetCnt ==
  /\ pc = "read"
  /\ pc' = "suspended"
  /\ resetCnt' = NewResetCnt
  /\ PostEvent({"TIMER", "LIGHTING"})
  /\ UNCHANGED <<fabricNV, failSafe, onoff, startUp, strap, appEvent, seen,
                 pressed, gpioCount, fctRst, u8Config, identifyState, timer,
                 lightVars, chipVars, uptime, history>>

-----------------------------------------------------------------------------
(* The CHIP task comes up: PlatformInit.                                   *)

(* getOnOffValueForStartUp.                                                *)
StartUpValue(ep) ==
  CASE startUp[ep] = "off"    -> FALSE
    [] startUp[ep] = "on"     -> TRUE
    [] startUp[ep] = "toggle" -> ~onoff[ep]
    [] OTHER                  -> onoff[ep]

(* initOnOffServer of one endpoint.  setOnOffValue writes, and so calls    *)
(* back, only when the value changes; u8Config has not been read yet.      *)
InitOnOffServer ==
  /\ pc = "suspended" /\ chip = "init" /\ initEp \in Endpoints
  /\ initEp' = initEp + 1
  /\ IF StartUpValue(initEp) # onoff[initEp]
       THEN SetOnOff(initEp, StartUpValue(initEp))
       ELSE UNCHANGED <<onoff, lightVars, notifVars>>
  /\ UNCHANGED <<resetCnt, fabricNV, failSafe, startUp, strap, appVars, chip,
                 enabled, fabric, mFailSafe, identifyVars, chipQ, uptime,
                 history>>

(* ConfigurationManagerImpl::Init: a fail-safe marker schedules a reset.   *)
ConfigurationInit(q) == InitiateFactoryReset(q, failSafe)

(* FabricTable::Init: the fabrics in storage are the ones in use.          *)
FabricTableInit == fabricNV

(* The rest of PlatformInit, at the end of which the App task is resumed.  *)
(* Bringing the stack up takes more than one tick of the clock.            *)
PlatformInit ==
  /\ pc = "suspended" /\ chip = "init" /\ initEp \notin Endpoints
  /\ uptime >= pressed
  /\ pc' = "resumed" /\ chip' = "run"
  /\ fabric' = FabricTableInit
  /\ chipQ' = ConfigurationInit(chipQ)
  /\ UNCHANGED <<flash, appEvent, seen, pressed, gpioCount, fctRst, u8Config,
                 identifyState, timer, notifVars, lightVars, initEp, enabled,
                 mFailSafe, identifyVars, uptime, history>>

(* OptionRead: the jumpers first, the endpoints under the stack lock.      *)
OptionRead ==
  /\ pc = "resumed"
  /\ pc' = "options"
  /\ u8Config' = strap
  /\ UNCHANGED <<flash, appEvent, seen, pressed, gpioCount, fctRst,
                 identifyState, timer, notifVars, lightVars, chipVars, uptime,
                 history>>

DisableEndpoints ==
  /\ pc = "options" /\ chip = "run"
  /\ pc' = "loop"
  /\ enabled' = enabled \ DisabledBy(u8Config)
  /\ UNCHANGED <<flash, appEvent, seen, pressed, gpioCount, fctRst, u8Config,
                 identifyState, timer, notifVars, lightVars, chip, initEp,
                 fabric, mFailSafe, identifyVars, chipQ, uptime, history>>

-----------------------------------------------------------------------------
(* The loop of AppTaskMain.                                                *)

(* xTaskNotifyWait(0, APP_EVENT_ALL_MASK): returns the whole value, clears *)
(* the bits of the mask, and FACTORY_RESET is not one of them.             *)
WaitEvent ==
  /\ pc = "loop" /\ pending
  /\ pc' = "handle"
  /\ appEvent' = notif
  /\ notif' = notif \ ALL_MASK
  /\ pending' = FALSE
  /\ UNCHANGED <<flash, seen, pressed, gpioCount, fctRst, u8Config,
                 identifyState, timer, lightVars, chipVars, uptime, history>>

(* LockChipStack, and the Gets of OnOff that TimerEventHandler makes: the  *)
(* App task holds the stack lock from here to the end of the iteration.    *)
LockAndRead ==
  /\ pc = "handle" /\ chip = "run"
  /\ pc' = "locked"
  /\ seen' = onoff
  /\ UNCHANGED <<flash, appEvent, pressed, gpioCount, fctRst, u8Config,
                 identifyState, timer, notifVars, lightVars, chipVars, uptime,
                 history>>

(* Mutant: the App task does not take the stack lock.                      *)
StackAlwaysFree == chip = "run"

(* The CHIP task may run a handler: nobody else holds the stack lock.      *)
StackFree == chip = "run" /\ pc # "locked"

Identifying == identifyState \/ "IDENTIFY_START" \in appEvent

(* Mutant: STOP is looked at before START.                                 *)
IdentifyHandleStopFirst ==
  (identifyState /\ "IDENTIFY_STOP" \notin appEvent)
     \/ "IDENTIFY_START" \in appEvent

IdentifyHandleOp == Identifying /\ "IDENTIFY_STOP" \notin appEvent

(* Mutant: the one-shot timer is not started again.                        *)
TimerNotRestarted == timer

(* StartTimer: stop the timer if it runs, start it with the full period.   *)
StartTimer == TimerIntvl

(* Unsigned subtraction of the clock, as in TimerEventHandler.             *)
Elapsed   == (uptime - pressed) % ClockMod
Confirmed == pressed # 0 /\ Elapsed > APP_BUTTON_PRESS_LONG

(* Mutant: one pass too many.                                              *)
PollingOnceMore == gpioCount <= SettleAt

Polling == gpioCount < SettleAt

(* Mutant: the refresh waits for a pass that never comes.                  *)
SyncingTooLate == Polling /\ fabric > 0 /\ gpioCount > SettleAt

Syncing == Polling /\ fabric > 0 /\ gpioCount > ClearAt
PinLow(level)   == Polling /\ gpioCount < ClearAt /\ level = 0
PinReset(level) == PinLow(level) /\ (fctRst + 1) % ByteMod > FctRstMax

(* LightingUpdate: with a fabric it gives up at CurrentLevel::Get, because *)
(* no endpoint of this device has a Level Control cluster.                 *)
LightingUpdate(l) ==
  IF "LIGHTING" \in appEvent /\ fabric = 0
    THEN SetColor(l, TRUE, "blue") ELSE l

IdentifyLed(l) ==
  IF "IDENTIFY_IDENTIFY" \in appEvent /\ Identifying THEN Toggle(l) ELSE l

ConfirmLed(l) ==
  IF pressed # 0 /\ ~Confirmed THEN SetColor(l, TRUE, "pink") ELSE l

PollLed(l) ==
  IF Polling /\ fabric = 0 THEN SetColor(l, gpioCount % 2 = 0, "blue")
  ELSE IF Syncing
    THEN SetColor(l, \E ep \in SyncEndpoints(u8Config) : seen[ep], "green")
  ELSE l

PinResetLed(l, level) ==
  IF PinReset(level) THEN SetColor(l, TRUE, "red") ELSE l

(* The write-back of OnOff on the synced endpoints, callbacks included.    *)
RefreshRelays ==
  LET Synced == SyncEndpoints(u8Config)
      DrivenBy(r) == {ep \in Synced : RelayOf(ep, u8Config) = r}
      Lit == {ep \in Synced : RelayOf(ep, u8Config) # 0 /\ seen[ep]}
      Out == {ep \in Synced : RelayOf(ep, u8Config) # 0 /\ ~seen[ep]}
  IN  /\ onoff' = [ep \in Endpoints |->
                     IF ep \in Synced THEN seen[ep] ELSE onoff[ep]]
      /\ relay' = [r \in Relays |->
                     IF DrivenBy(r) = {} THEN relay[r]
                     ELSE \E ep \in DrivenBy(r) : seen[ep]]
      /\ u8LedState' = (u8LedState \ Out) \cup Lit

Posted ==
  (IF "IDENTIFY_STOP" \in appEvent \/ Syncing THEN {"LIGHTING"} ELSE {})
    \cup (IF Confirmed THEN {"FACTORY_RESET"} ELSE {})

(* One iteration under the stack lock: LightingUpdate, IdentifyHandleOp,   *)
(* InitiateFactoryReset, and TimerEventHandler whatever the event was.     *)
HandleEvent(level) ==
  /\ pc = "locked"
  /\ pc' = "loop" /\ appEvent' = {}
  /\ seen' = [ep \in Endpoints |-> FALSE]
  /\ identifyState' = IdentifyHandleOp
  /\ led' = PinResetLed(PollLed(ConfirmLed(IdentifyLed(LightingUpdate(led)))),
                        level)
  /\ pressed' = IF Confirmed THEN 0 ELSE pressed
  /\ IF Posted = {} THEN UNCHANGED notifVars ELSE PostEvent(Posted)
  /\ IF Syncing THEN RefreshRelays ELSE UNCHANGED <<onoff, relay, u8LedState>>
  /\ synced' = (synced \/ Syncing)
  /\ fctRst' = IF PinLow(level) THEN (fctRst + 1) % ByteMod ELSE fctRst
  /\ gpioCount' = IF PinLow(level) THEN 1
                  ELSE IF Polling THEN gpioCount + 1 ELSE gpioCount
  /\ chipQ' = InitiateFactoryReset(
                InitiateFactoryReset(chipQ, "FACTORY_RESET" \in appEvent),
                PinReset(level))
  /\ IF gpioCount = ClearAt
       THEN resetCnt' = 0
       ELSE UNCHANGED resetCnt
  /\ lowReads' = IF Polling /\ level = 0 /\ lowReads <= FctRstMax
                   THEN lowReads + 1 ELSE lowReads
  /\ timer' = StartTimer
  /\ UNCHANGED <<fabricNV, failSafe, startUp, strap, u8Config, chip, initEp,
                 enabled, fabric, mFailSafe, identifyVars, uptime, quick>>

(* The timer task, which preempts both others, and the clock.              *)
TimerCallback ==
  /\ timer = 0
  /\ timer' = -1
  /\ PostEvent({"TIMER"})
  /\ UNCHANGED <<flash, pc, appEvent, seen, pressed, gpioCount, fctRst,
                 u8Config, identifyState, lightVars, chipVars, uptime,
                 history>>

Tick ==
  /\ pc # "boot" /\ timer # 0
  /\ uptime' = IF uptime < MaxUptime THEN uptime + 1 ELSE uptime
  /\ timer' = IF timer > 0 THEN timer - 1 ELSE timer
  /\ UNCHANGED <<flash, pc, appEvent, seen, pressed, gpioCount, fctRst,
                 u8Config, identifyState, notifVars, lightVars, chipVars,
                 history>>

-----------------------------------------------------------------------------
(* What clients and the network make the CHIP task do.                     *)

(* On, Off and Toggle: setOnOffValue does nothing unless the value changes.*)
OnOffCommand(ep, value) ==
  /\ StackFree /\ ep \in enabled
  /\ value # onoff[ep]
  /\ SetOnOff(ep, value)
  /\ UNCHANGED <<resetCnt, fabricNV, failSafe, startUp, strap, appVars,
                 chipVars, uptime, history>>

WriteStartUpOnOff(ep, value) ==
  /\ StackFree /\ ep \in enabled
  /\ startUp' = [startUp EXCEPT ![ep] = value]
  /\ UNCHANGED <<resetCnt, fabricNV, failSafe, onoff, strap, appVars,
                 notifVars, lightVars, chipVars, uptime, history>>

(* IdentifyTime is written by a client or by the server's one-second tick. *)
(* The generic callback posts first, the cluster callback afterwards; the  *)
(* CHIP task holds the stack lock in between.                              *)
WriteIdentifyTime(t) ==
  /\ StackFree
  /\ chip' = "identify"
  /\ identifyTime' = t
  /\ PostEvent({"IDENTIFY_IDENTIFY"})
  /\ UNCHANGED <<flash, appVars, lightVars, initEp, enabled, fabric,
                 mFailSafe, identifyActive, targetEffect, currentEffect,
                 chipQ, uptime, history>>

IdentifyClusterTick ==
  /\ identifyTime > 0
  /\ WriteIdentifyTime(identifyTime - 1)

(* The application has no effect callback, so the command only leaves the  *)
(* new effect for the next change of IdentifyTime to find.                 *)
TriggerEffect(effect) ==
  /\ StackFree
  /\ targetEffect' = effect
  /\ UNCHANGED <<flash, appVars, notifVars, lightVars, chip, initEp, enabled,
                 fabric, mFailSafe, identifyTime, identifyActive,
                 currentEffect, chipQ, uptime, history>>

(* The posts of the writes of IdentifyTime a change of effect makes: 0,    *)
(* and before that 1 if the new effect is to finish.                       *)
EffectPosts ==
  {"IDENTIFY_IDENTIFY", "IDENTIFY_STOP"} \cup
    (IF targetEffect = "finish" /\ identifyTime > 0 /\ ~identifyActive
       THEN {"IDENTIFY_START"} ELSE {})

(* MatterIdentifyClusterServerAttributeChangedCallback.                    *)
IdentifyTimeChanged ==
  /\ chip = "identify"
  /\ chip' = "run"
  /\ currentEffect' = targetEffect
  /\ \/ /\ targetEffect # currentEffect
        /\ identifyTime' = 0 /\ identifyActive' = FALSE
        /\ PostEvent(EffectPosts)
     \/ /\ targetEffect = currentEffect /\ identifyTime = 0
        /\ identifyActive' = FALSE
        /\ PostEvent({"IDENTIFY_STOP"})
        /\ UNCHANGED identifyTime
     \/ /\ targetEffect = currentEffect /\ identifyTime > 0 /\ ~identifyActive
        /\ identifyActive' = TRUE
        /\ PostEvent({"IDENTIFY_START"})
        /\ UNCHANGED identifyTime
     \/ /\ targetEffect = currentEffect /\ identifyTime > 0 /\ identifyActive
        /\ UNCHANGED <<identifyTime, identifyActive, notifVars>>
  /\ UNCHANGED <<flash, appVars, lightVars, initEp, enabled, fabric,
                 mFailSafe, targetEffect, chipQ, uptime, history>>

(* Endpoints 2 and 3 have no Identify object, so only the generic callback *)
(* reacts to their IdentifyTime.                                           *)
WriteOtherIdentifyTime ==
  /\ MaxIdentifyTime > 0
  /\ StackFree /\ enabled # {1}
  /\ PostEvent({"IDENTIFY_IDENTIFY"})
  /\ UNCHANGED <<flash, appVars, lightVars, chipVars, uptime, history>>

(* Commissioning, with one fabric: the fail-safe lives in RAM only, and a  *)
(* fabric is stored by the commit at its end, not before.                  *)
ArmFailSafe ==
  /\ Commissioning /\ StackFree /\ mFailSafe = "idle"
  /\ mFailSafe' = "armed"
  /\ UNCHANGED <<flash, appVars, notifVars, lightVars, chip, initEp, enabled,
                 fabric, identifyVars, chipQ, uptime, history>>

(* AddNOC: a pending fabric counts in FabricTable::FabricCount at once.    *)
AddFabric ==
  /\ StackFree /\ mFailSafe = "armed" /\ fabric = 0
  /\ mFailSafe' = "noc" /\ fabric' = 1
  /\ UNCHANGED <<flash, appVars, notifVars, lightVars, chip, initEp, enabled,
                 identifyVars, chipQ, uptime, history>>

(* The pending fabric goes to storage, or storage refuses and the fabric is*)
(* deleted.  Without its certificates nothing is stored and nothing but the*)
(* pending state is cleared, so that the next time nothing is pending.     *)
CommitPendingFabricData(err) ==
  \/ mFailSafe = "noc" /\ ~err /\ fabricNV' = 1 /\ UNCHANGED fabric
  \/ mFailSafe = "noc" /\ err /\ fabric' = 0 /\ fabricNV' = 0
  \/ mFailSafe = "dropped" /\ err /\ UNCHANGED <<fabric, fabricNV>>
  \/ mFailSafe \in {"armed", "failed"} /\ ~err /\ UNCHANGED <<fabric, fabricNV>>

(* The command comes over a session of the fabric, commits what AddNOC left*)
(* pending, disarms, and tells the application through the queue.  After an*)
(* error the fail-safe stays armed.                                        *)
CommissioningComplete(err) ==
  /\ StackFree /\ mFailSafe \in Armed /\ fabric = 1
  /\ CommitPendingFabricData(err)
  /\ mFailSafe' = IF err THEN "failed" ELSE "idle"
  /\ chipQ' = IF err THEN chipQ ELSE Enqueue(chipQ, "complete")
  /\ UNCHANGED <<resetCnt, failSafe, onoff, startUp, strap, appVars,
                 notifVars, lightVars, chip, initEp, enabled, identifyVars,
                 uptime, history>>

(* Mutant: the fail-safe is disarmed before the clean-up.                  *)
DisarmThenExpire(q) == Enqueue(Enqueue(q, "disarm"), "expired")

(* ScheduleFailSafeCleanup: the clean-up first, then the disarming.        *)
ScheduleFailSafeCleanup(q) == Enqueue(Enqueue(q, "expired"), "disarm")

FailSafeExpired ==
  /\ StackFree /\ mFailSafe \in Armed
  /\ mFailSafe' = IF mFailSafe = "armed" THEN "busy" ELSE "revert"
  /\ chipQ' = ScheduleFailSafeCleanup(chipQ)
  /\ UNCHANGED <<flash, appVars, notifVars, lightVars, chip, initEp, enabled,
                 fabric, identifyVars, uptime, history>>

(* FabricTable::Delete, of the fabric or of an index that holds none.  In  *)
(* either case the pending certificates of an AddNOC are dropped.          *)
RemoveFabric(own) ==
  /\ Commissioning /\ StackFree
  /\ \/ own /\ fabric = 1 /\ fabric' = 0 /\ fabricNV' = 0
     \/ ~own /\ mFailSafe = "noc" /\ UNCHANGED <<fabric, fabricNV>>
  /\ mFailSafe' = IF mFailSafe = "noc" THEN "dropped" ELSE mFailSafe
  /\ UNCHANGED <<resetCnt, failSafe, onoff, startUp, strap, appVars,
                 notifVars, lightVars, chip, initEp, enabled, identifyVars,
                 chipQ, uptime, history>>

(* Events of other subsystems fill the queue; the event loop drains it.    *)
PostOther ==
  /\ chip # "init" /\ Len(chipQ) < QueueSize
  /\ chipQ' = Append(chipQ, "other")
  /\ UNCHANGED <<flash, appVars, notifVars, lightVars, chip, initEp, enabled,
                 fabric, mFailSafe, identifyVars, uptime, history>>

Dispatch(event) ==
  /\ StackFree /\ chipQ # <<>> /\ Head(chipQ) = event
  /\ chipQ' = Tail(chipQ)
  /\ UNCHANGED <<resetCnt, failSafe, onoff, startUp, strap, appVars, lightVars,
                 chip, initEp, enabled, identifyVars, uptime, history>>

DispatchOther ==
  /\ Dispatch("other")
  /\ UNCHANGED <<notifVars, fabric, fabricNV, mFailSafe>>

(* ChipEventHandler, kCommissioningComplete.                               *)
DispatchComplete ==
  /\ Dispatch("complete")
  /\ PostEvent({"LIGHTING"})
  /\ UNCHANGED <<fabric, fabricNV, mFailSafe>>

(* FailSafeCleanup: the fabric of an AddNOC is deleted.                    *)
DispatchExpired ==
  /\ Dispatch("expired")
  /\ IF mFailSafe = "revert" THEN fabric' = 0 /\ fabricNV' = 0
                             ELSE UNCHANGED <<fabric, fabricNV>>
  /\ UNCHANGED <<notifVars, mFailSafe>>

(* HandleDisarmFailSafe.                                                   *)
DispatchDisarm ==
  /\ Dispatch("disarm")
  /\ mFailSafe' = "idle"
  /\ UNCHANGED <<notifVars, fabric, fabricNV>>

(* DoFactoryReset: the whole environment goes back to defaults, reboot.    *)
DoFactoryReset ==
  /\ StackFree /\ chipQ # <<>> /\ Head(chipQ) = "reset"
  /\ LoseRam
  /\ resetCnt' = 0 /\ fabricNV' = 0 /\ failSafe' = FALSE
  /\ onoff' = [ep \in Endpoints |-> FALSE]
  /\ startUp' = [ep \in Endpoints |-> "null"]
  /\ quick' = 1
  /\ UNCHANGED strap

-----------------------------------------------------------------------------
Boot == ReadResetCnt \/ WriteResetCnt \/ InitOnOffServer \/ PlatformInit
          \/ OptionRead \/ DisableEndpoints

Handle == \E level \in Gpio2Levels : HandleEvent(level)

Client ==
  \/ \E ep \in ClientEndpoints, value \in BOOLEAN : OnOffCommand(ep, value)
  \/ \E ep \in ClientEndpoints, value \in StartUpValues :
        WriteStartUpOnOff(ep, value)
  \/ \E t \in 0..MaxIdentifyTime : MaxIdentifyTime > 0 /\ WriteIdentifyTime(t)
  \/ WriteOtherIdentifyTime
  \/ \E effect \in Effects : TriggerEffect(effect)

Fabric ==
  \/ ArmFailSafe \/ AddFabric \/ FailSafeExpired
  \/ \E err \in BOOLEAN : CommissioningComplete(err)
  \/ \E own \in BOOLEAN : RemoveFabric(own)

DispatchEvent == DispatchOther \/ DispatchComplete \/ DispatchExpired
                   \/ DispatchDisarm

EventLoop == DispatchEvent \/ DoFactoryReset

Next ==
  \/ Boot \/ WaitEvent \/ LockAndRead \/ Handle \/ TimerCallback \/ Tick
  \/ Client \/ IdentifyClusterTick \/ IdentifyTimeChanged
  \/ Fabric \/ PostOther \/ EventLoop
  \/ PowerCycle

Spec == Init /\ [][Next]_vars

(* Every task is scheduled when it can run.  The stack lock is a FreeRTOS  *)
(* mutex, so a task that keeps asking for it gets it (SF).                 *)
Fairness ==
  /\ WF_vars(Boot) /\ WF_vars(WaitEvent) /\ SF_vars(LockAndRead)
  /\ WF_vars(Handle)
  /\ WF_vars(TimerCallback) /\ WF_vars(Tick)
  /\ WF_vars(IdentifyTimeChanged) /\ SF_vars(EventLoop)

FairSpec == Spec /\ Fairness

-----------------------------------------------------------------------------
(* Properties                                                              *)

FlagsOK ==
  /\ failSafe \in BOOLEAN /\ pending \in BOOLEAN /\ identifyState \in BOOLEAN
  /\ identifyActive \in BOOLEAN
  /\ synced \in BOOLEAN

DataOK ==
  /\ resetCnt \in 0..(APP_REBOOT_RESET_COUNT - 1)
  /\ fabricNV \in 0..1
  /\ onoff \in [Endpoints -> BOOLEAN]
  /\ startUp \in [Endpoints -> StartUpOnOffs]
  /\ strap \in 1..4
  /\ pc \in {"boot", "read", "suspended", "resumed", "options", "loop",
             "handle", "locked"}
  /\ notif \subseteq AppEvents
  /\ appEvent \subseteq AppEvents
  /\ seen \in [Endpoints -> BOOLEAN]
  /\ pressed \in 0..1
  /\ gpioCount \in 0..SettleAt
  /\ fctRst \in 0..(ByteMod - 1)
  /\ u8Config \in 1..4 \cup {255}
  /\ u8LedState \subseteq Endpoints
  /\ led \in [phys : Colours \cup {Dark}, on : BOOLEAN, hue : Colours]
  /\ timer \in -1..TimerIntvl
  /\ chip \in {"init", "run", "identify"}
  /\ initEp \in 1..4
  /\ enabled \subseteq Endpoints
  /\ fabric \in 0..1
  /\ identifyTime \in 0..MaxIdentifyTime
  /\ targetEffect \in EffectIdentifiers
  /\ currentEffect \in EffectIdentifiers
  /\ mFailSafe \in FailSafeStates
  /\ chipQ \in Seq(ChipEvents) /\ Len(chipQ) <= QueueSize
  /\ relay \in [Relays -> BOOLEAN]
  /\ uptime \in 0..MaxUptime
  /\ quick \in 1..APP_REBOOT_RESET_COUNT
  /\ lowReads \in 0..(FctRstMax + 1)

(* Every variable of the App task, the CHIP task and flash keeps its type; *)
(* the boot counter stays below its limit and the queue within its size.   *)
TypeOK == FlagsOK /\ DataOK

(* No relay is energised unless an enabled endpoint that the jumpers wire  *)
(* to it reads On: neither a power cycle, nor a start-up value, nor the    *)
(* write-back of TimerEventHandler leaves a relay on that nobody asked on. *)
RelayOnlyIfOn ==
  \A r \in Relays : relay[r] =>
     \E ep \in enabled : RelayOf(ep, u8Config) = r /\ onoff[ep]

(* Once TimerEventHandler has refreshed the relays after power-up, every   *)
(* enabled endpoint has a relay, and it is where the OnOff attribute says. *)
SyncedRelaysFollow ==
  synced => \A ep \in enabled :
              /\ RelayOf(ep, u8Config) \in Relays
              /\ relay[RelayOf(ep, u8Config)] = onoff[ep]

(* The user switched the power the required number of times in a row and   *)
(* then let the confirm time pass.                                         *)
GestureMade ==
  quick = APP_REBOOT_RESET_COUNT /\ uptime > APP_BUTTON_PRESS_LONG

(* A factory reset is asked for only by the power-cycle gesture or by      *)
(* GPIO 2 read low often enough: no other interleaving of events and power *)
(* cuts, a commissioning cut short included, wipes the device.             *)
WipeOnlyOnRequest ==
  /\ "FACTORY_RESET" \in notif \cup appEvent => GestureMade
  /\ (\E i \in 1..Len(chipQ) : chipQ[i] = "reset") =>
        GestureMade \/ lowReads > FctRstMax

(* From the moment the armed boot has written its counter to flash until   *)
(* the reset, a power cut finds a counter of zero and cancels the reset.   *)
PowerCutCancels ==
  (pressed # 0 /\ pc # "read") \/ "FACTORY_RESET" \in notif \cup appEvent
     => resetCnt = 0

(* With nothing left to handle, the LED is in identification only if the   *)
(* Identify server is: notification bits that were merged before the App   *)
(* task looked at them never leave it blinking after a stop.               *)
IdentifyStops ==
  (pc = "loop" /\ ~pending /\ chip = "run" /\ identifyState)
     => identifyActive

(* A fabric is in use, not in flash, and no fail-safe will delete it.      *)
Unguarded ==
  /\ chip # "init" /\ fabric > fabricNV
  /\ mFailSafe \notin {"noc", "dropped", "failed", "revert"}

(* A fabric that is in use and not in flash is covered by a fail-safe that *)
(* ends with its commit or its clean-up.  Neither the order of the two     *)
(* events of an expiry nor a removal leaves it behind without; the one step*)
(* that does is a CommissioningComplete that follows one that failed.      *)
PendingFabricGuarded ==
  [][(~Unguarded /\ Unguarded') =>
        (mFailSafe = "failed" /\ CommissioningComplete(FALSE))]_vars

(* The App task reads OnOff and writes it back; a client's command is      *)
(* never undone by that write-back.                                        *)
WriteBackKeepsOnOff ==
  [][(pc = "locked" /\ pc' = "loop") => onoff' = onoff]_vars

(* Whenever a step other than a reboot switches a relay, it leaves the LED *)
(* green if it switched a relay on, dark if it switched the last one off.  *)
LedFollowsRelays ==
  [][(relay' # relay /\ pc' # "boot") =>
       /\ (\E r \in Relays : relay'[r] /\ ~relay[r]) => led'.phys = "green"
       /\ (\A r \in Relays : ~relay'[r]) => led'.phys = Dark]_vars

(* A confirmed reset happens, even if the queue was full when the App task *)
(* first tried to schedule it, because the notification bit stays set; all *)
(* it needs is that the queue is not full at every single retry.           *)
ConfirmedResetHappens ==
  []<><<Handle /\ Len(chipQ) < QueueSize>>_vars =>
     ("FACTORY_RESET" \in notif ~> pc = "boot")

(* A relay that is commissioned when it starts restores its outputs.       *)
RelaysRestored ==
  (pc = "loop" /\ fabric = 1 /\ gpioCount < ClearAt)
     ~> (synced \/ fabric = 0 \/ pc = "boot")

(* Writing OnOff back wakes the App task up again; that self-feeding ends. *)
PollingEnds == pc = "loop" ~> (gpioCount = SettleAt \/ pc = "boot")

-----------------------------------------------------------------------------
(* What documents and comments of the repository say, and the code does    *)
(* not do.                                                                 *)

(* "this state SHALL be reflected in the OnOff attribute" (on-off-server): *)
(* when the start-up polling is over, a commissioned device that is not    *)
(* about to be reset has its relays where its OnOff attributes say.        *)
SettledRelaysMatch ==
  (/\ pc = "loop" /\ gpioCount = SettleAt /\ fabricNV = 1 /\ fabric = 1
   /\ chipQ = <<>> /\ pressed = 0 /\ "FACTORY_RESET" \notin notif) =>
     \A ep \in enabled : relay[RelayOf(ep, u8Config)] = onoff[ep]
=============================================================================
