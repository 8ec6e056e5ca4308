-------------------------- MODULE RelayOutputProofs --------------------------
(***************************************************************************)
(* Relays, OnOff attributes and the status LED of RelayApp, for every      *)
(* value of the constants.                                                 *)
(***************************************************************************)
EXTENDS RelayAppProofs

Unread     == pc \in {"boot", "read", "suspended", "resumed"}
Configured == pc \in {"loop", "handle", "locked"}

(* The jumpers are read once, between start-up and the loop, and the       *)
(* endpoints without a relay are gone before the loop starts.              *)
ConfigInv ==
  /\ Unread => u8Config = 255
  /\ ~Unread => u8Config \in 1..4
  /\ ~Configured => enabled = Endpoints /\ ~synced
  /\ Configured => enabled = Endpoints \ DisabledBy(u8Config)

(* An energised relay belongs to an endpoint that reads On, and a bit of   *)
(* u8LedState to an energised relay.                                       *)
LitInv ==
  /\ \A r \in Relays : relay[r] =>
        \E ep \in Endpoints : RelayOf(ep, u8Config) = r /\ onoff[ep]
  /\ \A ep \in u8LedState : /\ RelayOf(ep, u8Config) # 0
                            /\ relay[RelayOf(ep, u8Config)]

(* Under the stack lock nobody else writes OnOff.                          *)
SeenInv == pc = "locked" => seen = onoff

OutputInv == ConfigInv /\ LitInv /\ SeenInv /\ SyncedRelaysFollow

(* What the invariant reads.                                               *)
outputVars == <<pc, u8Config, enabled, synced, relay, onoff, u8LedState, seen>>

-----------------------------------------------------------------------------
(* No two endpoints share a relay.                                         *)
LEMMA Wiring ==
  ASSUME NEW cfg \in 1..4 \cup {255}, NEW ep \in Endpoints
  PROVE  /\ RelayOf(ep, cfg) \in Relays \cup {0}
         /\ \A other \in Endpoints :
               RelayOf(ep, cfg) = RelayOf(other, cfg) /\ RelayOf(ep, cfg) # 0
                 => ep = other
  BY DEF RelayOf, Endpoints, Relays

(* The endpoints the handler refreshes are those that stay enabled, and    *)
(* those are the ones with a relay.                                        *)
LEMMA Jumpers ==
  ASSUME NEW cfg \in 1..4
  PROVE  /\ SyncEndpoints(cfg) = Endpoints \ DisabledBy(cfg)
         /\ \A ep \in Endpoints :
               ep \in SyncEndpoints(cfg) <=> RelayOf(ep, cfg) # 0
  BY DEF RelayOf, Endpoints, SyncEndpoints, DisabledBy

(* Endpoint 1 has relay 1 before the jumpers are read and afterwards.      *)
LEMMA FirstRelay ==
  ASSUME NEW ep \in Endpoints, NEW cfg \in 1..4, RelayOf(ep, 255) # 0
  PROVE  RelayOf(ep, cfg) = RelayOf(ep, 255)
  BY DEF RelayOf, Endpoints

LEMMA OutputInit == Init => OutputInv
  <1> SUFFICES ASSUME Init PROVE OutputInv
    OBVIOUS
  <1>1. /\ pc = "boot" /\ u8Config = 255 /\ enabled = Endpoints
        /\ synced = FALSE /\ relay = [r \in Relays |-> FALSE]
        /\ u8LedState = {}
    BY Zenon DEF Init, RamAtPowerUp
  <1>2. ConfigInv /\ SeenInv
    BY <1>1 DEF ConfigInv, SeenInv, Unread, Configured
  <1>3. LitInv /\ SyncedRelaysFollow
    BY <1>1, Zenon DEF LitInv, SyncedRelaysFollow
  <1> QED
    BY <1>2, <1>3 DEF OutputInv

LEMMA SameOutputs ==
  ASSUME OutputInv, UNCHANGED outputVars
  PROVE  OutputInv'
  BY DEF outputVars, OutputInv, ConfigInv, LitInv, SeenInv,
         SyncedRelaysFollow, Unread, Configured

LEMMA RebootOutputs ==
  ASSUME LoseRam
  PROVE  OutputInv'
  BY DEF LoseRam, OutputInv, ConfigInv, LitInv, SeenInv, SyncedRelaysFollow,
         Unread, Configured

(* A write of OnOff moves its relay along, and no other.                   *)
LEMMA WriteOutputs ==
  ASSUME TypeInv, OutputInv, NEW ep \in Endpoints, NEW value \in BOOLEAN,
         SetOnOff(ep, value), pc # "locked",
         UNCHANGED <<pc, u8Config, enabled, synced, seen>>
  PROVE  OutputInv'
  <1> DEFINE r == RelayOf(ep, u8Config)
  <1>1. /\ u8Config \in 1..4 \cup {255} /\ enabled \subseteq Endpoints
        /\ onoff \in [Endpoints -> BOOLEAN] /\ relay \in [Relays -> BOOLEAN]
        /\ u8LedState \subseteq Endpoints
    BY DEF TypeInv, TypeOK, DataOK
  <1>2. onoff' = [onoff EXCEPT ![ep] = value]
    BY Zenon DEF SetOnOff
  <1>3. r \in Relays \cup {0}
    BY <1>1, Wiring
  <1>4. r = 0 => relay' = relay /\ u8LedState' = u8LedState
    BY Zenon DEF SetOnOff, DriveRelay, lightVars
  <1>5. r # 0 => /\ relay' = [relay EXCEPT ![r] = value]
                 /\ u8LedState' = IF value THEN u8LedState \cup {ep}
                                  ELSE u8LedState \ {ep}
    BY Zenon DEF SetOnOff, DriveRelay, TRRelayControl, SetLedState
  <1>6. \A e \in Endpoints : RelayOf(e, u8Config) = r /\ r # 0 => e = ep
    BY <1>1, Wiring
  <1>7. \A e \in Endpoints : RelayOf(e, u8Config) \in Relays \cup {0}
    BY <1>1, Wiring
  <1>8. ConfigInv' /\ SeenInv'
    BY DEF OutputInv, ConfigInv, SeenInv, Unread, Configured
  <1> HIDE DEF r
  <1>9. LitInv'
    <2>1. ASSUME NEW x \in Relays, relay'[x]
          PROVE  \E e \in Endpoints : RelayOf(e, u8Config) = x /\ onoff'[e]
      <3>1. CASE x = r
        <4>1. r # 0
          BY <3>1 DEF Relays
        <4>2. onoff'[ep] = value /\ relay'[x] = value
          BY <1>1, <1>2, <1>5, <3>1, <4>1
        <4> QED
          BY <2>1, <3>1, <4>2, Zenon DEF r
      <3>2. CASE x # r
        <4>1. relay[x]
          BY <1>1, <1>3, <1>4, <1>5, <2>1, <3>2
        <4>2. PICK e \in Endpoints : RelayOf(e, u8Config) = x /\ onoff[e]
          BY <4>1, Zenon DEF OutputInv, LitInv
        <4>3. e # ep
          BY <3>2, <4>2, Zenon DEF r
        <4>4. onoff'[e]
          BY <1>1, <1>2, <4>2, <4>3
        <4> QED
          BY <4>2, <4>4, Zenon
      <3> QED
        BY <3>1, <3>2
    <2>2. ASSUME NEW e \in u8LedState'
          PROVE  RelayOf(e, u8Config) # 0 /\ relay'[RelayOf(e, u8Config)]
      <3>1. CASE r # 0 /\ e = ep
        <4>1. value = TRUE /\ relay'[r] = value
          BY <1>1, <1>3, <1>5, <2>2, <3>1
        <4> QED
          BY <3>1, <4>1, Zenon DEF r
      <3>2. CASE r = 0 \/ e # ep
        <4>1. e \in u8LedState
          BY <1>4, <1>5, <2>2, <3>2
        <4>2. RelayOf(e, u8Config) # 0 /\ relay[RelayOf(e, u8Config)]
          BY <4>1, Zenon DEF OutputInv, LitInv
        <4>3. r # 0 => RelayOf(e, u8Config) # r
          BY <1>1, <1>6, <3>2, <4>1
        <4>4. relay'[RelayOf(e, u8Config)] = relay[RelayOf(e, u8Config)]
          <5>1. RelayOf(e, u8Config) \in Relays
            BY <1>1, <1>7, <4>1, <4>2, Zenon
          <5> QED
            BY <1>1, <1>3, <1>4, <1>5, <4>3, <5>1
        <4> QED
          BY <4>2, <4>4, Zenon
      <3> QED
        BY <3>1, <3>2, Zenon
    <2> QED
      BY <2>1, <2>2, Zenon DEF LitInv
  <1>10. SyncedRelaysFollow'
    <2> SUFFICES ASSUME synced', NEW e \in enabled'
                 PROVE  /\ RelayOf(e, u8Config') \in Relays
                        /\ relay'[RelayOf(e, u8Config')] = onoff'[e]
      BY Zenon DEF SyncedRelaysFollow
    <2>1. /\ RelayOf(e, u8Config) \in Relays
          /\ relay[RelayOf(e, u8Config)] = onoff[e]
      BY Zenon DEF OutputInv, SyncedRelaysFollow
    <2>2. e \in Endpoints
      BY <1>1, Zenon
    <2>3. CASE e = ep
      <3>1. r \in Relays /\ r # 0
        BY <2>1, <2>3 DEF r, Relays
      <3>2. relay'[r] = value /\ onoff'[ep] = value
        BY <1>1, <1>2, <1>5, <3>1
      <3> QED
        BY <2>1, <2>3, <3>2, Zenon DEF r
    <2>4. CASE e # ep
      <3>1. onoff'[e] = onoff[e]
        BY <1>1, <1>2, <2>2, <2>4
      <3>2. r # 0 => RelayOf(e, u8Config) # r
        BY <1>6, <2>2, <2>4
      <3>3. relay'[RelayOf(e, u8Config)] = relay[RelayOf(e, u8Config)]
        BY <1>1, <1>3, <1>4, <1>5, <2>1, <3>2
      <3> QED
        BY <2>1, <3>1, <3>3, Zenon
    <2> QED
      BY <2>3, <2>4
  <1> QED
    BY <1>8, <1>9, <1>10, Zenon DEF OutputInv

(* The write-back under the lock writes what is there, and leaves every    *)
(* relay of an enabled endpoint where its OnOff attribute says.            *)
LEMMA RefreshOutputs ==
  ASSUME TypeInv, OutputInv, pc = "locked", RefreshRelays
  PROVE  /\ onoff' = onoff
         /\ \A ep \in enabled : /\ RelayOf(ep, u8Config) \in Relays
                                /\ relay'[RelayOf(ep, u8Config)] = onoff[ep]
         /\ \A r \in Relays : relay'[r] =>
               \E ep \in enabled : RelayOf(ep, u8Config) = r /\ onoff[ep]
         /\ \A ep \in u8LedState' : ep \in enabled /\ onoff[ep]
  <1> DEFINE Driven(r) == {ep \in enabled : RelayOf(ep, u8Config) = r}
  <1>1. /\ u8Config \in 1..4 /\ enabled = Endpoints \ DisabledBy(u8Config)
        /\ seen = onoff
    BY DEF OutputInv, ConfigInv, SeenInv, Unread, Configured
  <1>2. SyncEndpoints(u8Config) = enabled
    BY <1>1, Jumpers
  <1>3. \A ep \in Endpoints : ep \in enabled <=> RelayOf(ep, u8Config) # 0
    BY <1>1, <1>2, Jumpers
  <1>4. \A ep \in Endpoints : RelayOf(ep, u8Config) \in Relays \cup {0}
    BY <1>1, Wiring
  <1>5. /\ onoff \in [Endpoints -> BOOLEAN] /\ enabled \subseteq Endpoints
        /\ u8LedState \subseteq Endpoints
    BY DEF TypeInv, TypeOK, DataOK
  <1>6. onoff' = onoff
    BY <1>1, <1>5 DEF RefreshRelays
  <1>7. relay' = [r \in Relays |-> IF Driven(r) = {} THEN relay[r]
                                   ELSE \E ep \in Driven(r) : onoff[ep]]
    BY <1>1, <1>2, Zenon DEF RefreshRelays
  <1>8. ASSUME NEW ep \in enabled
        PROVE  /\ RelayOf(ep, u8Config) \in Relays
               /\ relay'[RelayOf(ep, u8Config)] = onoff[ep]
    <2>1. ep \in Endpoints /\ RelayOf(ep, u8Config) \in Relays
      BY <1>3, <1>4, <1>5
    <2>2. Driven(RelayOf(ep, u8Config)) = {ep}
      <3>1. ASSUME NEW e \in Driven(RelayOf(ep, u8Config)) PROVE e = ep
        BY <1>1, <1>3, <1>5, <2>1, Wiring
      <3> QED
        BY <3>1
    <2>3. onoff[ep] \in BOOLEAN
      BY <1>5, <2>1
    <2>4. (\E e \in {ep} : onoff[e]) = onoff[ep]
      BY <2>3, Zenon
    <2>5. relay'[RelayOf(ep, u8Config)] = \E e \in {ep} : onoff[e]
      BY <1>7, <2>1, <2>2, Zenon
    <2> QED
      BY <2>1, <2>4, <2>5, Zenon
  <1>9. ASSUME NEW r \in Relays, relay'[r]
        PROVE  \E ep \in enabled : RelayOf(ep, u8Config) = r /\ onoff[ep]
    <2>1. CASE Driven(r) = {}
      <3>1. relay[r]
        BY <1>7, <1>9, <2>1, Zenon
      <3>2. PICK ep \in Endpoints : RelayOf(ep, u8Config) = r /\ onoff[ep]
        BY <3>1, Zenon DEF OutputInv, LitInv
      <3>3. ep \in Driven(r)
        BY <1>3, <3>2 DEF Relays
      <3> QED
        BY <2>1, <3>3, Zenon
    <2>2. CASE Driven(r) # {}
      <3>1. \E ep \in Driven(r) : onoff[ep]
        BY <1>7, <1>9, <2>2, Zenon
      <3> QED
        BY <3>1, Zenon
    <2> QED
      BY <2>1, <2>2
  <1>10. ASSUME NEW ep \in u8LedState' PROVE ep \in enabled /\ onoff[ep]
    <2> DEFINE Lit == {e \in enabled : RelayOf(e, u8Config) # 0 /\ onoff[e]}
               Out == {e \in enabled : RelayOf(e, u8Config) # 0 /\ ~onoff[e]}
    <2>1. u8LedState' = (u8LedState \ Out) \cup Lit
      BY <1>1, <1>2, Zenon DEF RefreshRelays
    <2>2. CASE ep \in Lit
      BY <2>2, Zenon
    <2>3. CASE ep \in u8LedState /\ ep \notin Out
      <3>1. RelayOf(ep, u8Config) # 0 /\ ep \in enabled
        BY <1>3, <1>5, <2>3, Zenon DEF OutputInv, LitInv
      <3> QED
        BY <2>3, <3>1, Zenon
    <2> QED
      BY <1>10, <2>1, <2>2, <2>3, Zenon
  <1> QED
    BY <1>6, <1>8, <1>9, <1>10, Zenon

LEMMA HandleOutputs ==
  ASSUME TypeInv, OutputInv, NEW level, HandleEvent(level)
  PROVE  OutputInv' /\ onoff' = onoff
  <1>1. /\ pc = "locked" /\ pc' = "loop" /\ UNCHANGED <<u8Config, enabled>>
        /\ synced' = (synced \/ Syncing)
    BY Zenon DEF HandleEvent
  <1>2. ConfigInv' /\ SeenInv'
    BY <1>1 DEF OutputInv, ConfigInv, SeenInv, Unread, Configured
  <1>3. CASE Syncing
    <2>1. RefreshRelays
      BY <1>3, Zenon DEF HandleEvent
    <2>2. /\ onoff' = onoff
          /\ \A ep \in enabled : /\ RelayOf(ep, u8Config) \in Relays
                                 /\ relay'[RelayOf(ep, u8Config)] = onoff[ep]
          /\ \A r \in Relays : relay'[r] =>
                \E ep \in enabled : RelayOf(ep, u8Config) = r /\ onoff[ep]
          /\ \A ep \in u8LedState' : ep \in enabled /\ onoff[ep]
      BY <1>1, <2>1, RefreshOutputs, Zenon
    <2>3. enabled \subseteq Endpoints /\ 0 \notin Relays
      BY DEF TypeInv, TypeOK, DataOK, Relays
    <2>4. LitInv' /\ SyncedRelaysFollow'
      BY <1>1, <2>2, <2>3, Zenon DEF LitInv, SyncedRelaysFollow
    <2> QED
      BY <1>2, <2>2, <2>4, Zenon DEF OutputInv
  <1>4. CASE ~Syncing
    <2>1. UNCHANGED <<onoff, relay, u8LedState>> /\ (synced' => synced)
      BY <1>1, <1>4, Zenon DEF HandleEvent
    <2>2. LitInv' /\ SyncedRelaysFollow'
      BY <1>1, <2>1, Zenon DEF OutputInv, LitInv, SyncedRelaysFollow
    <2> QED
      BY <1>2, <2>1, <2>2, Zenon DEF OutputInv
  <1> QED
    BY <1>3, <1>4, Zenon

(* Reading the jumpers keeps the one relay that may already be on.         *)
LEMMA OptionOutputs ==
  ASSUME TypeInv, OutputInv, OptionRead
  PROVE  OutputInv'
  <1>1. /\ pc = "resumed" /\ pc' = "options" /\ u8Config' = strap
        /\ UNCHANGED <<onoff, relay, u8LedState, enabled, synced>>
    BY Zenon DEF OptionRead, flash, lightVars, chipVars, history
  <1>2. u8Config = 255 /\ strap \in 1..4 /\ ~synced /\ u8LedState \subseteq Endpoints
    BY <1>1 DEF OutputInv, ConfigInv, Unread, Configured, TypeInv, TypeOK,
                DataOK
  <1>3. \A ep \in Endpoints :
           RelayOf(ep, u8Config) # 0 => RelayOf(ep, strap) = RelayOf(ep, u8Config)
    BY <1>2, FirstRelay
  <1>4. LitInv'
    <2>1. 0 \notin Relays
      BY DEF Relays
    <2>2. ASSUME NEW r \in Relays, relay[r]
          PROVE  \E ep \in Endpoints : RelayOf(ep, strap) = r /\ onoff[ep]
      BY <1>3, <2>1, <2>2, Zenon DEF OutputInv, LitInv
    <2>3. ASSUME NEW ep \in u8LedState
          PROVE  RelayOf(ep, strap) # 0 /\ relay[RelayOf(ep, strap)]
      <3>1. RelayOf(ep, u8Config) # 0 /\ relay[RelayOf(ep, u8Config)]
        BY Zenon DEF OutputInv, LitInv
      <3>2. RelayOf(ep, strap) = RelayOf(ep, u8Config)
        BY <1>2, <1>3, <3>1, Zenon
      <3> QED
        BY <3>1, <3>2, Zenon
    <2> QED
      BY <1>1, <2>2, <2>3, Zenon DEF LitInv
  <1>5. ConfigInv' /\ SeenInv' /\ SyncedRelaysFollow'
    BY <1>1, <1>2
       DEF OutputInv, ConfigInv, SeenInv, SyncedRelaysFollow, Unread,
           Configured
  <1> QED
    BY <1>4, <1>5, Zenon DEF OutputInv

(* The other steps of the App task.                                        *)
LEMMA AppOutputs ==
  ASSUME OutputInv,
         \/ ReadResetCnt \/ WriteResetCnt \/ PlatformInit
         \/ DisableEndpoints \/ WaitEvent \/ LockAndRead
  PROVE  OutputInv'
  <1>1. UNCHANGED <<u8Config, relay, onoff, u8LedState, synced>>
    BY Zenon DEF ReadResetCnt, WriteResetCnt, PlatformInit, DisableEndpoints,
                 WaitEvent, LockAndRead, flash, lightVars, history
  <1>2. LitInv'
    BY <1>1, Zenon DEF OutputInv, LitInv
  <1>3. CASE DisableEndpoints
    <2>1. /\ pc = "options" /\ pc' = "loop"
          /\ enabled' = enabled \ DisabledBy(u8Config)
      BY <1>3, Zenon DEF DisableEndpoints
    <2> QED
      BY <1>1, <1>2, <2>1
         DEF OutputInv, ConfigInv, SeenInv, SyncedRelaysFollow, Unread,
             Configured
  <1>4. CASE \/ ReadResetCnt \/ WriteResetCnt \/ PlatformInit
             \/ WaitEvent \/ LockAndRead
    <2>1. /\ enabled' = enabled
          /\ \/ {pc, pc'} \subseteq {"boot", "read", "suspended", "resumed"}
             \/ {pc, pc'} \subseteq {"loop", "handle", "locked"}
          /\ pc' = "locked" => seen' = onoff'
      BY <1>1, <1>4
         DEF ReadResetCnt, WriteResetCnt, PlatformInit, WaitEvent, LockAndRead,
             chipVars
    <2>2. Unread' = Unread /\ Configured' = Configured
      BY <2>1 DEF Unread, Configured
    <2>3. SyncedRelaysFollow'
      BY <1>1, <2>1, Zenon DEF OutputInv, SyncedRelaysFollow
    <2> QED
      BY <1>1, <1>2, <2>1, <2>2, <2>3 DEF OutputInv, ConfigInv, SeenInv
  <1> QED
    BY <1>3, <1>4

-----------------------------------------------------------------------------
LEMMA OutputNext == TypeInv /\ OutputInv /\ [Next]_vars => OutputInv'
  <1> SUFFICES ASSUME TypeInv, OutputInv, [Next]_vars PROVE OutputInv'
    OBVIOUS
  <1>1. CASE InitOnOffServer
    <2>1. /\ pc = "suspended" /\ initEp \in Endpoints
          /\ UNCHANGED <<pc, u8Config, enabled, synced, seen>>
      BY <1>1, Zenon DEF InitOnOffServer, appVars, history
    <2>2. CASE SetOnOff(initEp, StartUpValue(initEp))
      <3>1. onoff[initEp] \in BOOLEAN
        BY <2>1 DEF TypeInv, TypeOK, DataOK
      <3>2. StartUpValue(initEp) \in BOOLEAN
        BY <3>1, Zenon DEF StartUpValue
      <3> QED
        BY <2>1, <2>2, <3>2, WriteOutputs
    <2>3. CASE UNCHANGED <<onoff, lightVars, notifVars>>
      <3>1. UNCHANGED outputVars
        BY <2>1, <2>3, Zenon DEF lightVars, outputVars
      <3> QED
        BY <3>1, SameOutputs
    <2> QED
      BY <1>1, <2>2, <2>3, Zenon DEF InitOnOffServer
  <1>2. CASE Boot
    BY <1>1, <1>2, AppOutputs, OptionOutputs, Zenon DEF Boot
  <1>3. CASE Client
    <2>1. ASSUME NEW ep \in ClientEndpoints, NEW value \in BOOLEAN,
                 OnOffCommand(ep, value)
          PROVE  OutputInv'
      <3>1. ep \in Endpoints
        BY ConstantsAssumption
      <3>2. /\ SetOnOff(ep, value) /\ pc # "locked"
            /\ UNCHANGED <<pc, u8Config, enabled, synced, seen>>
        BY <2>1, Zenon DEF OnOffCommand, StackFree, appVars, chipVars, history
      <3> QED
        BY <3>1, <3>2, WriteOutputs
    <2>2. ASSUME NEW ep, NEW value, WriteStartUpOnOff(ep, value)
          PROVE  UNCHANGED outputVars
      BY <2>2, Zenon DEF WriteStartUpOnOff, appVars, lightVars, chipVars,
                         history, outputVars
    <2>3. ASSUME NEW t, WriteIdentifyTime(t) PROVE UNCHANGED outputVars
      BY <2>3, Zenon DEF WriteIdentifyTime, flash, appVars, lightVars,
                         history, outputVars
    <2>4. CASE WriteOtherIdentifyTime
      <3>1. UNCHANGED outputVars
        BY <2>4, Zenon DEF WriteOtherIdentifyTime, flash, appVars, lightVars,
                           chipVars, history, outputVars
      <3> QED
        BY <3>1, SameOutputs
    <2>5. ASSUME NEW effect, TriggerEffect(effect)
          PROVE  UNCHANGED outputVars
      BY <2>5, Zenon DEF TriggerEffect, flash, appVars, lightVars, history,
                         outputVars
    <2> QED
      BY <1>3, <2>1, <2>2, <2>3, <2>4, <2>5, SameOutputs, Zenon DEF Client
  <1>4. CASE \/ TimerCallback \/ Tick \/ IdentifyClusterTick
             \/ IdentifyTimeChanged \/ PostOther \/ DispatchEvent
    <2>1. UNCHANGED outputVars
      BY <1>4, DispatchFrame, Zenon
         DEF TimerCallback, Tick, IdentifyClusterTick, WriteIdentifyTime,
             IdentifyTimeChanged, PostOther, flash, appVars, lightVars, chipVars, history, outputVars
    <2> QED
      BY <2>1, SameOutputs
  <1>5. CASE Fabric
    <2>1. UNCHANGED outputVars
      BY <1>5, Zenon
         DEF Fabric, ArmFailSafe, AddFabric, CommissioningComplete,
             FailSafeExpired, RemoveFabric, flash, appVars, lightVars,
             history, outputVars
    <2> QED
      BY <2>1, SameOutputs
  <1>6. CASE UNCHANGED vars
    <2>1. UNCHANGED outputVars
      BY <1>6, Zenon DEF vars, flash, appVars, lightVars, chipVars, history,
                         outputVars
    <2> QED
      BY <2>1, SameOutputs
  <1>7. CASE Handle
    BY <1>7, HandleOutputs, Zenon DEF Handle
  <1>8. CASE PowerCycle \/ DoFactoryReset
    BY <1>8, RebootOutputs, Zenon DEF PowerCycle, DoFactoryReset
  <1> QED
    BY <1>2, <1>3, <1>4, <1>5, <1>6, <1>7, <1>8, AppOutputs, Zenon
       DEF Next, EventLoop

LEMMA OutputInvariance == Spec => [](TypeInv /\ OutputInv)
  BY TypeInvariance, OutputInit, OutputNext, PTL DEF Spec

(* Neither a power cycle, nor a start-up value written before the jumpers  *)
(* are read, nor the write-back energises a relay whose endpoint is Off.   *)
THEOREM NoUnaskedRelay == Spec => []RelayOnlyIfOn
  <1>1. TypeInv /\ OutputInv => RelayOnlyIfOn
    <2> SUFFICES ASSUME TypeInv, OutputInv, NEW r \in Relays, relay[r]
                 PROVE  \E ep \in enabled : RelayOf(ep, u8Config) = r /\ onoff[ep]
      BY Zenon DEF RelayOnlyIfOn
    <2>1. PICK ep \in Endpoints : RelayOf(ep, u8Config) = r /\ onoff[ep]
      BY Zenon DEF OutputInv, LitInv
    <2>2. ep \in enabled
      <3>1. CASE Configured
        <4>1. /\ u8Config \in 1..4
              /\ enabled = Endpoints \ DisabledBy(u8Config)
          BY <3>1 DEF OutputInv, ConfigInv, Unread, Configured
        <4>2. RelayOf(ep, u8Config) # 0
          BY <2>1 DEF Relays
        <4> QED
          BY <4>1, <4>2, Jumpers
      <3>2. CASE ~Configured
        BY <3>2, Zenon DEF OutputInv, ConfigInv
      <3> QED
        BY <3>1, <3>2
    <2> QED
      BY <2>1, <2>2, Zenon
  <1> QED
    BY <1>1, OutputInvariance, PTL

(* After the first refresh every enabled endpoint has a relay and the      *)
(* relay is where the OnOff attribute says, under every jumper setting.    *)
THEOREM RelaysFollow == Spec => []SyncedRelaysFollow
  BY OutputInvariance, PTL DEF OutputInv

(* The write-back of the App task never undoes a client's command.         *)
THEOREM WriteBackHarmless == Spec => WriteBackKeepsOnOff
  <1>1. TypeInv /\ OutputInv /\ [Next]_vars
          => [(pc = "locked" /\ pc' = "loop") => onoff' = onoff]_vars
    <2> SUFFICES ASSUME TypeInv, OutputInv, [Next]_vars,
                        pc = "locked", pc' = "loop", vars' # vars
                 PROVE  onoff' = onoff
      BY Zenon
    <2>1. CASE \E level \in Gpio2Levels : HandleEvent(level)
      BY <2>1, HandleOutputs, Zenon
    <2>2. CASE Boot \/ WaitEvent \/ LockAndRead
      BY <2>2 DEF Boot, ReadResetCnt, WriteResetCnt, InitOnOffServer,
                  PlatformInit, OptionRead, DisableEndpoints, WaitEvent,
                  LockAndRead
    <2>3. CASE PowerCycle \/ DoFactoryReset
      BY <2>3 DEF PowerCycle, DoFactoryReset, LoseRam
    <2>4. CASE \/ TimerCallback \/ Tick \/ Client \/ IdentifyClusterTick
               \/ IdentifyTimeChanged \/ Fabric \/ PostOther \/ DispatchEvent
      <3>1. pc' = pc
        BY <2>4, DispatchFrame, Zenon
           DEF TimerCallback, Tick, Client, OnOffCommand, WriteStartUpOnOff,
               WriteIdentifyTime, WriteOtherIdentifyTime, IdentifyClusterTick,
               IdentifyTimeChanged, TriggerEffect, Fabric, ArmFailSafe,
               AddFabric, CommissioningComplete, FailSafeExpired,
               RemoveFabric, PostOther, appVars
      <3> QED
        BY <3>1
    <2> QED
      BY <2>1, <2>2, <2>3, <2>4, Zenon DEF Next, Handle, EventLoop
  <1> QED
    BY <1>1, OutputInvariance, PTL DEF Spec, WriteBackKeepsOnOff

-----------------------------------------------------------------------------
LedRight ==
  /\ (\E r \in Relays : relay'[r] /\ ~relay[r]) => led'.phys = "green"
  /\ (\A r \in Relays : ~relay'[r]) => led'.phys = Dark

(* The attribute callback: the last bit of u8LedState to go is the last    *)
(* relay to go.                                                            *)
LEMMA CallbackLed ==
  ASSUME TypeInv, OutputInv, NEW ep \in Endpoints, NEW value \in BOOLEAN,
         SetOnOff(ep, value), relay' # relay
  PROVE  LedRight
  <1> DEFINE r == RelayOf(ep, u8Config)
             bits == SetLedState(ep, value)
  <1>1. /\ u8Config \in 1..4 \cup {255} /\ u8LedState \subseteq Endpoints
        /\ relay \in [Relays -> BOOLEAN] /\ led \in LedStates
    BY DEF TypeInv, TypeOK, DataOK, LedStates
  <1>2. r # 0
    BY Zenon DEF SetOnOff, DriveRelay, lightVars
  <1>3. /\ relay' = [relay EXCEPT ![r] = value]
        /\ led' = IF value THEN set_color(led, "green")
                  ELSE IF bits = {} THEN set_color(led, Dark) ELSE led
    BY <1>2, Zenon DEF SetOnOff, DriveRelay, TRRelayControl
  <1>4. r \in Relays
    BY <1>1, <1>2, Wiring
  <1>5. \A colour : set_color(led, colour).phys = colour
    BY <1>1 DEF set_color, LedStates
  <1>6. CASE value = TRUE
    <2>1. led'.phys = "green" /\ relay'[r] = TRUE
      BY <1>1, <1>3, <1>4, <1>5, <1>6
    <2> QED
      BY <1>4, <2>1, Zenon DEF LedRight
  <1>7. CASE value = FALSE
    <2>1. \A x \in Relays : relay'[x] => relay[x]
      BY <1>1, <1>3, <1>4, <1>7
    <2>2. ASSUME \A x \in Relays : ~relay'[x] PROVE bits = {}
      <3>1. ASSUME NEW e \in bits PROVE FALSE
        <4>1. e \in u8LedState /\ e # ep
          BY <1>7, <3>1, Zenon DEF SetLedState
        <4>2. RelayOf(e, u8Config) # 0 /\ relay[RelayOf(e, u8Config)]
          BY <4>1, Zenon DEF OutputInv, LitInv
        <4>3. RelayOf(e, u8Config) \in Relays /\ RelayOf(e, u8Config) # r
          BY <1>1, <1>2, <4>1, <4>2, Wiring
        <4>4. relay'[RelayOf(e, u8Config)] = relay[RelayOf(e, u8Config)]
          BY <1>1, <1>3, <1>4, <4>3
        <4> QED
          BY <2>2, <4>2, <4>3, <4>4, Zenon
      <3> QED
        BY <3>1, Zenon
    <2>3. bits = {} => led'.phys = Dark
      BY <1>3, <1>5, <1>7, Zenon
    <2> QED
      BY <2>1, <2>2, <2>3, Zenon DEF LedRight
  <1> QED
    BY <1>6, <1>7

(* The refresh: lit green exactly if some endpoint is On.                  *)
LEMMA RefreshLed ==
  ASSUME TypeInv, OutputInv, NEW level, HandleEvent(level), relay' # relay
  PROVE  LedRight
  <1>1. pc = "locked" /\ Syncing /\ RefreshRelays
    BY Zenon DEF HandleEvent
  <1>2. /\ u8Config \in 1..4 /\ enabled = Endpoints \ DisabledBy(u8Config)
        /\ seen = onoff
    BY <1>1 DEF OutputInv, ConfigInv, SeenInv, Unread, Configured
  <1>3. SyncEndpoints(u8Config) = enabled
    BY <1>2, Jumpers
  <1>4. /\ \A ep \in enabled : /\ RelayOf(ep, u8Config) \in Relays
                               /\ relay'[RelayOf(ep, u8Config)] = onoff[ep]
        /\ \A r \in Relays : relay'[r] =>
              \E ep \in enabled : RelayOf(ep, u8Config) = r /\ onoff[ep]
    BY <1>1, RefreshOutputs, Zenon
  <1>5. ~PinReset(level) /\ fabric # 0
    BY <1>1, ConstantsAssumption
       DEF PinReset, PinLow, Syncing, TypeInv, TypeOK, DataOK
  <1> DEFINE lit == \E ep \in enabled : onoff[ep]
             l == ConfirmLed(IdentifyLed(LightingUpdate(led)))
  <1>6. led' = SetColor(l, lit, "green")
    <2>1. led' = PinResetLed(PollLed(l), level)
      BY Zenon DEF HandleEvent
    <2>2. PinResetLed(PollLed(l), level) = PollLed(l)
      BY <1>5, Zenon DEF PinResetLed
    <2> HIDE DEF l
    <2>3. PollLed(l) = SetColor(l, lit, "green")
      BY <1>1, <1>2, <1>3, <1>5, Zenon DEF PollLed
    <2> QED
      BY <2>1, <2>2, <2>3, Zenon
  <1> HIDE DEF l
  <1>7. led'.phys = IF lit THEN "green" ELSE Dark
    BY <1>6, Zenon DEF SetColor
  <1> QED
    BY <1>4, <1>7, Zenon DEF LedRight

(* Every step but a reboot that switches a relay leaves the LED green if   *)
(* it switched one on, dark if it switched the last one off.               *)
THEOREM LedFollows == Spec => LedFollowsRelays
  <1>1. TypeInv /\ OutputInv /\ [Next]_vars
          => [(relay' # relay /\ pc' # "boot") => LedRight]_vars
    <2> SUFFICES ASSUME TypeInv, OutputInv, [Next]_vars, relay' # relay,
                        pc' # "boot", vars' # vars
                 PROVE  LedRight
      BY Zenon
    <2>1. CASE \E level \in Gpio2Levels : HandleEvent(level)
      BY <2>1, RefreshLed, Zenon
    <2>2. CASE InitOnOffServer
      <3>1. /\ initEp \in Endpoints
            /\ SetOnOff(initEp, StartUpValue(initEp))
        BY <2>2, Zenon DEF InitOnOffServer, lightVars
      <3>2. onoff[initEp] \in BOOLEAN
        BY <3>1 DEF TypeInv, TypeOK, DataOK
      <3>3. StartUpValue(initEp) \in BOOLEAN
        BY <3>2, Zenon DEF StartUpValue
      <3> QED
        BY <3>1, <3>3, CallbackLed, Zenon
    <2>3. ASSUME NEW ep \in ClientEndpoints, NEW value \in BOOLEAN,
                 OnOffCommand(ep, value)
          PROVE  LedRight
      <3>1. ep \in Endpoints /\ SetOnOff(ep, value)
        BY <2>3, ConstantsAssumption, Zenon DEF OnOffCommand
      <3> QED
        BY <3>1, CallbackLed, Zenon
    <2>4. CASE PowerCycle \/ DoFactoryReset
      BY <2>4, Zenon DEF PowerCycle, DoFactoryReset, LoseRam
    <2>5. ASSUME NEW ep, NEW value, WriteStartUpOnOff(ep, value)
          PROVE  LedRight
      BY <2>5, Zenon DEF WriteStartUpOnOff, lightVars
    <2>6. ASSUME NEW t, WriteIdentifyTime(t) PROVE LedRight
      BY <2>6, Zenon DEF WriteIdentifyTime, lightVars
    <2>7. ASSUME NEW effect, TriggerEffect(effect) PROVE LedRight
      BY <2>7, Zenon DEF TriggerEffect, lightVars
    <2>8. CASE \/ ReadResetCnt \/ WriteResetCnt \/ PlatformInit
               \/ OptionRead \/ DisableEndpoints \/ WaitEvent \/ LockAndRead
      BY <2>8, Zenon
         DEF ReadResetCnt, WriteResetCnt, PlatformInit, OptionRead,
             DisableEndpoints, WaitEvent, LockAndRead, lightVars
    <2>9. CASE \/ TimerCallback \/ Tick \/ WriteOtherIdentifyTime
               \/ IdentifyClusterTick \/ IdentifyTimeChanged
               \/ Fabric \/ PostOther \/ DispatchEvent
      BY <2>9, DispatchFrame, Zenon
         DEF TimerCallback, Tick, WriteOtherIdentifyTime, IdentifyClusterTick,
             WriteIdentifyTime, IdentifyTimeChanged, Fabric, ArmFailSafe,
             AddFabric, CommissioningComplete, FailSafeExpired, RemoveFabric,
             PostOther, lightVars
    <2> QED
      BY <2>1, <2>2, <2>3, <2>4, <2>5, <2>6, <2>7, <2>8, <2>9, Zenon
         DEF Next, Boot, Handle, Client, EventLoop
  <1> QED
    BY <1>1, OutputInvariance, PTL DEF Spec, LedFollowsRelays, LedRight

-----------------------------------------------------------------------------
(* Identification *)

(* A stop is pending while the App task has yet to take it; with the       *)
(* Identify server idle, a start is never without a stop beside or behind  *)
(* it, so merging the notification bits cannot lose the stop.              *)
IdentifyInv ==
  /\ pc \notin {"handle", "locked"} => appEvent = {}
  /\ "IDENTIFY_STOP" \in notif => pending
  /\ ~identifyActive =>
       /\ "IDENTIFY_START" \in notif => "IDENTIFY_STOP" \in notif
       /\ Identifying => "IDENTIFY_STOP" \in notif \cup appEvent

LEMMA IdentifyInit == Init => IdentifyInv
  BY DEF Init, RamAtPowerUp, IdentifyInv, Identifying

(* A step that starts nothing: it may post other events.                   *)
LEMMA OtherPosts ==
  ASSUME IdentifyInv, UNCHANGED <<identifyState, identifyActive>>,
         appEvent' = appEvent,
         pc' = pc \/ {pc, pc'} \cap {"handle", "locked"} = {}
           \/ (pc = "handle" /\ pc' = "locked"),
         \/ UNCHANGED notifVars
         \/ \E events \in SUBSET (AppEvents \ {"IDENTIFY_START"}) :
              PostEvent(events)
  PROVE  IdentifyInv'
  <1>1. pc' \notin {"handle", "locked"} => appEvent' = {}
    BY DEF IdentifyInv
  <1>2. CASE UNCHANGED notifVars
    BY <1>1, <1>2 DEF IdentifyInv, Identifying, notifVars
  <1>3. ASSUME NEW events \in SUBSET (AppEvents \ {"IDENTIFY_START"}),
               PostEvent(events)
        PROVE  IdentifyInv'
    <2>1. /\ notif \subseteq notif' /\ pending' = TRUE
          /\ "IDENTIFY_START" \in notif' => "IDENTIFY_START" \in notif
      BY <1>3 DEF PostEvent
    <2> QED
      BY <1>1, <2>1 DEF IdentifyInv, Identifying
  <1> QED
    BY <1>2, <1>3

(* The App task takes all bits of the mask at once.                        *)
LEMMA WaitIdentify ==
  ASSUME IdentifyInv, WaitEvent
  PROVE  IdentifyInv'
  <1>1. /\ appEvent = {} /\ appEvent' = notif /\ pc' = "handle"
        /\ notif' = notif \ ALL_MASK
        /\ UNCHANGED <<identifyState, identifyActive>>
    BY DEF WaitEvent, IdentifyInv, chipVars, identifyVars
  <1>2. "IDENTIFY_START" \notin notif' /\ "IDENTIFY_STOP" \notin notif'
    BY <1>1 DEF ALL_MASK, AppEvents
  <1> QED
    BY <1>1, <1>2 DEF IdentifyInv, Identifying

(* IdentifyHandleOp looks at the start before the stop.                    *)
LEMMA HandleIdentify ==
  ASSUME IdentifyInv, NEW level, HandleEvent(level)
  PROVE  IdentifyInv'
  <1>1. /\ appEvent' = {} /\ identifyState' = IdentifyHandleOp
        /\ identifyActive' = identifyActive
    BY DEF HandleEvent, identifyVars
  <1>2. Posted \subseteq {"LIGHTING", "FACTORY_RESET"}
    BY DEF Posted
  <1>3. /\ notif \subseteq notif'
        /\ "IDENTIFY_START" \in notif' => "IDENTIFY_START" \in notif
        /\ "IDENTIFY_STOP" \in notif' => "IDENTIFY_STOP" \in notif
        /\ pending => pending'
    BY <1>2 DEF HandleEvent, PostEvent, notifVars
  <1> QED
    BY <1>1, <1>3 DEF IdentifyInv, Identifying, IdentifyHandleOp

(* The server posts a stop whenever it becomes idle.                       *)
LEMMA ServerIdentify ==
  ASSUME IdentifyInv, IdentifyTimeChanged
  PROVE  IdentifyInv'
  <1>1. pc' = pc /\ appEvent' = appEvent /\ identifyState' = identifyState
    BY DEF IdentifyTimeChanged, appVars
  <1>2. \/ /\ identifyActive' = FALSE /\ "IDENTIFY_STOP" \in notif'
           /\ pending' = TRUE
        \/ /\ identifyActive' = TRUE /\ pending' = TRUE
        \/ UNCHANGED <<identifyActive, notif, pending>>
    BY DEF IdentifyTimeChanged, PostEvent, EffectPosts, notifVars
  <1> QED
    BY <1>1, <1>2 DEF IdentifyInv, Identifying

LEMMA RebootIdentify ==
  ASSUME LoseRam
  PROVE  IdentifyInv'
  BY DEF LoseRam, IdentifyInv, Identifying

LEMMA IdentifyNext == IdentifyInv /\ [Next]_vars => IdentifyInv'
  <1> SUFFICES ASSUME IdentifyInv, [Next]_vars PROVE IdentifyInv'
    OBVIOUS
  <1> DEFINE Posts == \E events \in SUBSET (AppEvents \ {"IDENTIFY_START"}) :
                         PostEvent(events)
             Frame == /\ UNCHANGED <<identifyState, identifyActive, appEvent>>
                      /\ \/ pc' = pc
                         \/ {pc, pc'} \cap {"handle", "locked"} = {}
                         \/ pc = "handle" /\ pc' = "locked"
  <1>1. Frame /\ (UNCHANGED notifVars \/ Posts) => IdentifyInv'
    BY OtherPosts
  <1>2. ASSUME NEW events \in SUBSET (AppEvents \ {"IDENTIFY_START"}),
               PostEvent(events)
        PROVE  Posts
    BY <1>2
  <1>3. /\ {"TIMER", "LIGHTING"} \subseteq AppEvents \ {"IDENTIFY_START"}
        /\ {"LIGHTING"} \subseteq AppEvents \ {"IDENTIFY_START"}
        /\ {"TIMER"} \subseteq AppEvents \ {"IDENTIFY_START"}
        /\ {"IDENTIFY_IDENTIFY"} \subseteq AppEvents \ {"IDENTIFY_START"}
    BY DEF AppEvents
  <1>4. CASE Boot
    <2>1. Frame
      BY <1>4
         DEF Boot, ReadResetCnt, WriteResetCnt, InitOnOffServer, PlatformInit,
             OptionRead, DisableEndpoints, appVars, chipVars, identifyVars
    <2>2. UNCHANGED notifVars \/ PostEvent({"TIMER", "LIGHTING"})
            \/ PostEvent({"LIGHTING"})
      BY <1>4
         DEF Boot, ReadResetCnt, WriteResetCnt, InitOnOffServer, PlatformInit,
             OptionRead, DisableEndpoints, SetOnOff, notifVars
    <2> QED
      BY <1>1, <1>2, <1>3, <2>1, <2>2
  <1>5. CASE WaitEvent
    BY <1>5, WaitIdentify
  <1>6. CASE LockAndRead \/ Tick \/ PostOther \/ Fabric \/ UNCHANGED vars
    <2>1. Frame /\ UNCHANGED notifVars
      BY <1>6
         DEF LockAndRead, Tick, PostOther, Fabric, ArmFailSafe, AddFabric,
             CommissioningComplete, FailSafeExpired, RemoveFabric, vars,
             appVars, chipVars, identifyVars, notifVars
    <2> QED
      BY <1>1, <2>1
  <1>7. CASE Handle
    BY <1>7, HandleIdentify DEF Handle
  <1>8. CASE TimerCallback
    <2>1. Frame /\ PostEvent({"TIMER"})
      BY <1>8 DEF TimerCallback, chipVars, identifyVars
    <2> QED
      BY <1>1, <1>2, <1>3, <2>1
  <1>9. CASE Client \/ IdentifyClusterTick
    <2>1. Frame
      BY <1>9
         DEF Client, OnOffCommand, WriteStartUpOnOff, WriteIdentifyTime,
             WriteOtherIdentifyTime, TriggerEffect, IdentifyClusterTick,
             appVars, chipVars, identifyVars
    <2>2. UNCHANGED notifVars \/ PostEvent({"LIGHTING"})
            \/ PostEvent({"IDENTIFY_IDENTIFY"})
      BY <1>9
         DEF Client, OnOffCommand, WriteStartUpOnOff, WriteIdentifyTime,
             WriteOtherIdentifyTime, TriggerEffect, IdentifyClusterTick,
             SetOnOff
    <2> QED
      BY <1>1, <1>2, <1>3, <2>1, <2>2
  <1>10. CASE IdentifyTimeChanged
    BY <1>10, ServerIdentify
  <1>11. CASE DispatchEvent
    <2>1. Frame
      BY <1>11
         DEF DispatchEvent, DispatchOther, DispatchComplete, DispatchExpired,
             DispatchDisarm, Dispatch, appVars, identifyVars
    <2>2. UNCHANGED notifVars \/ PostEvent({"LIGHTING"})
      BY <1>11
         DEF DispatchEvent, DispatchOther, DispatchComplete, DispatchExpired,
             DispatchDisarm, notifVars
    <2> QED
      BY <1>1, <1>2, <1>3, <2>1, <2>2
  <1>12. CASE PowerCycle \/ DoFactoryReset
    BY <1>12, RebootIdentify DEF PowerCycle, DoFactoryReset
  <1> QED
    BY <1>4, <1>5, <1>6, <1>7, <1>8, <1>9, <1>10, <1>11, <1>12
       DEF Next, EventLoop

(* Whatever notifications were merged, and whatever effect was pending:    *)
(* once the App task has nothing left to take, the LED is in               *)
(* identification only while the Identify server is.                       *)
THEOREM IdentificationEnds == Spec => []IdentifyStops
  <1>1. IdentifyInv => IdentifyStops
    BY DEF IdentifyInv, IdentifyStops, Identifying
  <1> QED
    BY <1>1, IdentifyInit, IdentifyNext, PTL DEF Spec
=============================================================================
