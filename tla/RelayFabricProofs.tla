------------------------- MODULE RelayFabricProofs -------------------------
(***************************************************************************)
(* The fail-safe of RelayApp, proved for every value of the constants: the *)
(* clean-up of a commissioning that expires comes before its disarming.    *)
(***************************************************************************)
EXTENDS RelayAppProofs

NoDisarm(q) == \A i \in 1..Len(q) : q[i] # "disarm"

Expired == mFailSafe \in {"busy", "revert"}

(* A fabric that only the clean-up of an expiry will delete.               *)
ToRevert == mFailSafe = "revert" /\ fabric > fabricNV

(* A disarming in the queue is the only one, belongs to an expiry, and has *)
(* the clean-up of a pending fabric ahead of it.                           *)
DisarmOK(q) ==
  \A i \in 1..Len(q) : q[i] = "disarm" =>
    /\ Expired
    /\ \A j \in 1..Len(q) : q[j] = "disarm" => j = i
    /\ ToRevert => \E j \in 1..(i - 1) : q[j] = "expired"

FabricInv ==
  /\ chip = "init" => /\ chipQ = <<>> /\ mFailSafe = "idle"
                       /\ pc \in {"boot", "read", "suspended"}
  /\ DisarmOK(chipQ)

fabricVars == <<chip, chipQ, fabric, fabricNV, mFailSafe>>

-----------------------------------------------------------------------------
LEMMA FabricInit == Init => FabricInv
  BY DEF Init, RamAtPowerUp, FabricInv, DisarmOK

LEMMA SameFabric ==
  ASSUME FabricInv, UNCHANGED fabricVars,
         pc' = pc \/ pc' \in {"read", "suspended"} \/ chip # "init"
  PROVE  FabricInv' /\ (~Unguarded => ~Unguarded')
  BY DEF FabricInv, Unguarded, DisarmOK, Expired, ToRevert, fabricVars

(* Putting any event but a disarming at the end of the queue.              *)
LEMMA EnqueueDisarm ==
  ASSUME NEW q \in Seq(ChipEvents), NEW event \in ChipEvents \ {"disarm"}
  PROVE  /\ Enqueue(q, event) \in Seq(ChipEvents)
         /\ DisarmOK(q) => DisarmOK(Enqueue(q, event))
         /\ NoDisarm(q) => NoDisarm(Enqueue(q, event))
  <1>1. CASE Enqueue(q, event) = q
    BY <1>1, Zenon
  <1>2. CASE Enqueue(q, event) = Append(q, event)
    <2> DEFINE p == Append(q, event)
    <2>1. /\ Len(p) = Len(q) + 1
          /\ \A i \in 1..Len(q) : p[i] = q[i]
          /\ p[Len(q) + 1] = event
          /\ Len(q) \in Nat
          /\ p \in Seq(ChipEvents)
      OBVIOUS
    <2> HIDE DEF p
    <2>2. DisarmOK(q) => DisarmOK(p)
      BY <2>1 DEF DisarmOK
    <2>3. NoDisarm(q) => NoDisarm(p)
      BY <2>1 DEF NoDisarm
    <2> QED
      BY <1>2, <2>1, <2>2, <2>3 DEF p
  <1> QED
    BY <1>1, <1>2 DEF Enqueue

LEMMA ScheduleDisarm ==
  ASSUME NEW q \in Seq(ChipEvents), NEW wanted \in BOOLEAN, DisarmOK(q)
  PROVE  /\ InitiateFactoryReset(q, wanted) \in Seq(ChipEvents)
         /\ DisarmOK(InitiateFactoryReset(q, wanted))
  <1>1. "reset" \in ChipEvents \ {"disarm"}
    BY DEF ChipEvents
  <1> QED
    BY <1>1, EnqueueDisarm, Zenon DEF InitiateFactoryReset

(* The two events of an expiry, in the order the code posts them.          *)
LEMMA CleanupFirst ==
  ASSUME NEW q \in Seq(ChipEvents), NoDisarm(q),
         NEW o, o = ScheduleFailSafeCleanup(q),
         NEW i \in 1..Len(o), o[i] = "disarm"
  PROVE  /\ \A j \in 1..Len(o) : o[j] = "disarm" => j = i
         /\ \E j \in 1..(i - 1) : o[j] = "expired"
  <1> DEFINE p == Enqueue(q, "expired")
  <1>1. "expired" \in ChipEvents \ {"disarm"} /\ "disarm" \in ChipEvents
    BY DEF ChipEvents
  <1>2. p \in Seq(ChipEvents) /\ NoDisarm(p)
    BY <1>1, EnqueueDisarm
  <1>3. o = Enqueue(p, "disarm")
    BY DEF ScheduleFailSafeCleanup
  <1>4. Len(p) < QueueSize => Len(p) = Len(q) + 1 /\ p[Len(p)] = "expired"
    BY <1>1, ConstantsAssumption DEF Enqueue
  <1> HIDE DEF p
  <1>5. o = Append(p, "disarm") /\ Len(p) < QueueSize
    BY <1>2, <1>3 DEF Enqueue, NoDisarm
  <1>6. /\ Len(o) = Len(p) + 1 /\ Len(p) \in Nat /\ Len(p) > 0
        /\ \A j \in 1..Len(p) : o[j] = p[j]
    BY <1>1, <1>2, <1>4, <1>5
  <1>7. \A j \in 1..Len(o) : o[j] = "disarm" => j = Len(p) + 1
    BY <1>2, <1>6 DEF NoDisarm
  <1>8. Len(p) \in 1..(i - 1) /\ o[Len(p)] = "expired"
    BY <1>4, <1>5, <1>6, <1>7
  <1> QED
    BY <1>7, <1>8

-----------------------------------------------------------------------------
(* The event loop takes the events of an expiry in the order they came.    *)
LEMMA DispatchFabric ==
  ASSUME TypeInv, FabricInv, DispatchEvent
  PROVE  FabricInv' /\ (~Unguarded => ~Unguarded')
  <1>1. /\ chipQ # <<>> /\ chipQ' = Tail(chipQ) /\ chip = "run"
        /\ chip' = chip
    BY DispatchFrame, Zenon DEF Dispatch, StackFree
  <1>2. /\ chipQ \in Seq(ChipEvents) /\ Len(chipQ) \in Nat /\ Len(chipQ) > 0
        /\ Len(chipQ') = Len(chipQ) - 1
        /\ \A i \in 1..Len(chipQ') : chipQ'[i] = chipQ[i + 1]
        /\ Head(chipQ) = chipQ[1]
    <2>1. chipQ \in Seq(ChipEvents)
      BY DEF TypeInv, TypeOK, DataOK
    <2> QED
      BY <1>1, <2>1
  <1>3. CASE DispatchOther \/ DispatchComplete
    <2>1. /\ UNCHANGED <<fabric, fabricNV, mFailSafe>>
          /\ chipQ[1] \notin {"expired", "disarm"}
      BY <1>2, <1>3 DEF DispatchOther, DispatchComplete, Dispatch
    <2>2. (Expired' <=> Expired) /\ (ToRevert' <=> ToRevert)
      BY <2>1 DEF Expired, ToRevert
    <2>3. DisarmOK(chipQ)'
      <3> SUFFICES ASSUME NEW i \in 1..Len(chipQ'), chipQ'[i] = "disarm"
                   PROVE  /\ Expired
                          /\ \A j \in 1..Len(chipQ') :
                                chipQ'[j] = "disarm" => j = i
                          /\ ToRevert =>
                                \E j \in 1..(i - 1) : chipQ'[j] = "expired"
        BY <1>1, <2>2 DEF DisarmOK
      <3>1. i + 1 \in 1..Len(chipQ) /\ chipQ[i + 1] = "disarm"
        BY <1>2
      <3>2. /\ Expired
            /\ \A j \in 1..Len(chipQ) : chipQ[j] = "disarm" => j = i + 1
            /\ ToRevert => \E j \in 1..(i + 1 - 1) : chipQ[j] = "expired"
        BY <3>1 DEF FabricInv, DisarmOK
      <3>3. \A j \in 1..Len(chipQ') : chipQ'[j] = "disarm" => j = i
        BY <1>2, <3>2
      <3>4. ASSUME ToRevert
            PROVE  \E j \in 1..(i - 1) : chipQ'[j] = "expired"
        <4>1. PICK j \in 1..i : chipQ[j] = "expired"
          BY <3>2, <3>4
        <4>2. j - 1 \in 1..(i - 1) /\ chipQ'[j - 1] = "expired"
          BY <1>2, <2>1, <4>1
        <4> QED
          BY <4>2
      <3> QED
        BY <3>2, <3>3, <3>4, Zenon
    <2> QED
      BY <1>1, <2>1, <2>3 DEF FabricInv, Unguarded
  <1>4. CASE DispatchExpired
    <2>1. /\ mFailSafe' = mFailSafe
          /\ \/ mFailSafe = "revert" /\ fabric' = 0 /\ fabricNV' = 0
             \/ mFailSafe # "revert" /\ UNCHANGED <<fabric, fabricNV>>
      BY <1>4, Zenon DEF DispatchExpired
    <2>2. (Expired' <=> Expired) /\ ~ToRevert'
      BY <2>1 DEF Expired, ToRevert
    <2>3. DisarmOK(chipQ)'
      BY <1>2, <2>2 DEF FabricInv, DisarmOK
    <2> QED
      BY <1>1, <2>1, <2>3 DEF FabricInv, Unguarded
  <1>5. CASE DispatchDisarm
    <2>1. /\ chipQ[1] = "disarm" /\ mFailSafe' = "idle"
          /\ UNCHANGED <<fabric, fabricNV>>
      BY <1>2, <1>5 DEF DispatchDisarm, Dispatch
    <2>2. Expired /\ ~ToRevert
      BY <1>2, <2>1 DEF FabricInv, DisarmOK
    <2>3. \A i \in 1..Len(chipQ') : chipQ'[i] # "disarm"
      BY <1>2, <2>1 DEF FabricInv, DisarmOK
    <2>4. ~Unguarded => ~Unguarded'
      BY <1>1, <2>1, <2>2 DEF Unguarded, Expired, ToRevert
    <2> QED
      BY <1>1, <2>3, <2>4 DEF FabricInv, DisarmOK
  <1> QED
    BY <1>3, <1>4, <1>5, Zenon DEF DispatchEvent

(* The one way to an unguarded fabric.                                     *)
GivenUp == mFailSafe = "failed" /\ CommissioningComplete(FALSE)

(* Commissioning: nothing is disarmed while the fail-safe is not expired.  *)
LEMMA CommissionFabric ==
  ASSUME TypeInv, FabricInv, Fabric
  PROVE  FabricInv' /\ (~Unguarded => ~Unguarded' \/ GivenUp)
  <1>1. chip = "run" /\ chip' = "run"
    BY Zenon DEF Fabric, ArmFailSafe, AddFabric, CommissioningComplete,
                 FailSafeExpired, RemoveFabric, StackFree
  <1>2. chipQ \in Seq(ChipEvents) /\ fabric \in 0..1 /\ fabricNV \in 0..1
    BY DEF TypeInv, TypeOK, DataOK
  <1>3. ~Expired => NoDisarm(chipQ)
    BY DEF FabricInv, DisarmOK, NoDisarm
  <1>4. CASE ArmFailSafe
    <2>1. /\ UNCHANGED <<chipQ, fabric, fabricNV>>
          /\ mFailSafe = "idle" /\ mFailSafe' = "armed"
      BY <1>4, Zenon DEF ArmFailSafe, flash
    <2> QED
      BY <1>1, <1>3, <2>1 DEF FabricInv, Unguarded, Expired, DisarmOK, NoDisarm
  <1>5. CASE AddFabric
    <2>1. UNCHANGED chipQ /\ mFailSafe = "armed" /\ mFailSafe' = "noc"
      BY <1>5, Zenon DEF AddFabric
    <2> QED
      BY <1>1, <1>3, <2>1 DEF FabricInv, Unguarded, Expired, DisarmOK, NoDisarm
  <1>6. ASSUME NEW err \in BOOLEAN, CommissioningComplete(err)
        PROVE  FabricInv' /\ (~Unguarded => ~Unguarded' \/ GivenUp)
    <2>1. /\ chipQ' = IF err THEN chipQ ELSE Enqueue(chipQ, "complete")
          /\ mFailSafe' = IF err THEN "failed" ELSE "idle"
          /\ mFailSafe \in Armed /\ fabric = 1
      BY <1>6, Zenon DEF CommissioningComplete
    <2>2. \/ mFailSafe = "noc" /\ ~err /\ fabric' = 1 /\ fabricNV' = 1
          \/ err
          \/ /\ mFailSafe \in {"armed", "failed"} /\ err = FALSE
             /\ UNCHANGED <<fabric, fabricNV>>
      BY <1>6, <2>1 DEF CommissioningComplete, CommitPendingFabricData
    <2>3. NoDisarm(chipQ)'
      <3>1. "complete" \in ChipEvents \ {"disarm"} /\ ~Expired
        BY <2>1 DEF ChipEvents, Expired, Armed
      <3> QED
        BY <1>2, <1>3, <2>1, <3>1, EnqueueDisarm DEF NoDisarm
    <2>4. ~Unguarded => ~Unguarded' \/ GivenUp
      <3>1. CASE err
        BY <2>1, <3>1 DEF Unguarded
      <3>2. CASE mFailSafe = "noc" /\ ~err /\ fabric' = 1 /\ fabricNV' = 1
        BY <3>2 DEF Unguarded
      <3>3. CASE mFailSafe = "armed" /\ UNCHANGED <<fabric, fabricNV>>
        <4>1. mFailSafe' \in {"failed", "idle"}
          BY <2>1
        <4> QED
          BY <1>1, <3>3, <4>1 DEF Unguarded
      <3>4. CASE mFailSafe = "failed" /\ err = FALSE
        BY <1>6, <3>4, Zenon DEF GivenUp
      <3> QED
        BY <2>2, <3>1, <3>2, <3>3, <3>4
    <2> QED
      BY <1>1, <2>3, <2>4 DEF FabricInv, DisarmOK, NoDisarm
  <1>7. CASE FailSafeExpired
    <2>1. /\ chipQ' = ScheduleFailSafeCleanup(chipQ)
          /\ mFailSafe \in Armed /\ UNCHANGED <<fabric, fabricNV>>
          /\ mFailSafe' = IF mFailSafe = "armed" THEN "busy" ELSE "revert"
      BY <1>7, Zenon DEF FailSafeExpired, flash
    <2>2. NoDisarm(chipQ) /\ Expired'
      BY <1>3, <2>1 DEF Expired, Armed
    <2>3. DisarmOK(chipQ)'
      <3>1. ASSUME NEW i \in 1..Len(chipQ'), chipQ'[i] = "disarm"
            PROVE  /\ \A j \in 1..Len(chipQ') : chipQ'[j] = "disarm" => j = i
                   /\ \E j \in 1..(i - 1) : chipQ'[j] = "expired"
        BY <1>2, <2>1, <2>2, <3>1, CleanupFirst
      <3> QED
        BY <2>2, <3>1 DEF DisarmOK
    <2> QED
      BY <1>1, <2>1, <2>3 DEF FabricInv, Unguarded
  <1>8. ASSUME NEW own \in BOOLEAN, RemoveFabric(own)
        PROVE  FabricInv' /\ (~Unguarded => ~Unguarded' \/ GivenUp)
    <2>1. /\ UNCHANGED chipQ
          /\ mFailSafe' = IF mFailSafe = "noc" THEN "dropped" ELSE mFailSafe
          /\ \/ fabric' = 0 /\ fabricNV' = 0
             \/ UNCHANGED <<fabric, fabricNV>>
      BY <1>8, Zenon DEF RemoveFabric
    <2>2. (Expired' <=> Expired) /\ (ToRevert' => ToRevert)
      BY <2>1 DEF Expired, ToRevert
    <2>3. DisarmOK(chipQ)'
      BY <2>1, <2>2 DEF FabricInv, DisarmOK
    <2> QED
      BY <1>1, <2>1, <2>3 DEF FabricInv, Unguarded
  <1> QED
    BY <1>4, <1>5, <1>6, <1>7, <1>8, Zenon DEF Fabric

(* The App task and the boot may only add a reset to the queue.            *)
LEMMA ResetFabric ==
  ASSUME TypeInv, FabricInv,
         PlatformInit \/ \E level \in Gpio2Levels : HandleEvent(level)
  PROVE  FabricInv' /\ (~Unguarded => ~Unguarded')
  <1>1. chipQ \in Seq(ChipEvents) /\ failSafe \in BOOLEAN /\ fabricNV \in 0..1
    BY DEF TypeInv, TypeOK, DataOK, FlagsOK
  <1>2. CASE PlatformInit
    <2>1. /\ chipQ' = InitiateFactoryReset(chipQ, failSafe)
          /\ chip = "init" /\ chip' = "run"
          /\ fabric' = fabricNV' /\ fabricNV' = fabricNV
          /\ fabricNV \in 0..1 /\ mFailSafe' = mFailSafe
      BY <1>1, <1>2, Zenon
         DEF PlatformInit, ConfigurationInit, FabricTableInit, flash
    <2>2. \A i \in 1..Len(chipQ') : chipQ'[i] # "disarm"
      BY <2>1 DEF FabricInv, InitiateFactoryReset, Enqueue
    <2> QED
      BY <2>1, <2>2 DEF FabricInv, Unguarded, DisarmOK
  <1>3. ASSUME NEW level \in Gpio2Levels, HandleEvent(level)
        PROVE  FabricInv' /\ (~Unguarded => ~Unguarded')
    <2> DEFINE asked == "FACTORY_RESET" \in appEvent
               q == InitiateFactoryReset(chipQ, asked)
    <2>1. chipQ' = InitiateFactoryReset(q, PinReset(level))
      BY <1>3, Zenon DEF HandleEvent
    <2>2. UNCHANGED <<chip, fabric, fabricNV, mFailSafe>>
      BY <1>3, Zenon DEF HandleEvent
    <2>3. chip # "init"
      <3>1. pc = "locked"
        BY <1>3, Zenon DEF HandleEvent
      <3> QED
        BY <3>1 DEF FabricInv
    <2>4. DisarmOK(chipQ')
      <3>1. asked \in BOOLEAN /\ PinReset(level) \in BOOLEAN
        BY DEF PinReset
      <3>2. DisarmOK(chipQ)
        BY Zenon DEF FabricInv
      <3> HIDE DEF asked
      <3>3. q \in Seq(ChipEvents) /\ DisarmOK(q)
        BY <1>1, <3>1, <3>2, ScheduleDisarm, Zenon
      <3> HIDE DEF q
      <3> QED
        BY <2>1, <3>1, <3>3, ScheduleDisarm, Zenon
    <2>5. DisarmOK(chipQ)'
      BY <2>2, <2>4 DEF DisarmOK, Expired, ToRevert
    <2> QED
      BY <2>2, <2>3, <2>5 DEF FabricInv, Unguarded
  <1> QED
    BY <1>2, <1>3

LEMMA RebootFabric ==
  ASSUME LoseRam PROVE FabricInv' /\ ~Unguarded'
  BY DEF LoseRam, FabricInv, Unguarded, DisarmOK

LEMMA FabricNext ==
  ASSUME TypeInv, FabricInv, [Next]_vars
  PROVE  FabricInv' /\ (~Unguarded => ~Unguarded' \/ GivenUp)
  <1> USE DEF fabricVars, flash, appVars, chipVars
  <1>1. CASE ReadResetCnt \/ WriteResetCnt \/ InitOnOffServer
    <2>1. /\ UNCHANGED fabricVars
          /\ pc' = pc \/ pc' \in {"read", "suspended"}
      BY <1>1 DEF ReadResetCnt, WriteResetCnt, InitOnOffServer
    <2> QED
      BY <2>1, SameFabric
  <1>2. CASE OptionRead \/ DisableEndpoints \/ WaitEvent \/ LockAndRead
    <2>1. UNCHANGED fabricVars
      BY <1>2, Zenon DEF OptionRead, DisableEndpoints, WaitEvent, LockAndRead
    <2>2. pc \in {"resumed", "options", "loop", "handle"}
      BY <1>2 DEF OptionRead, DisableEndpoints, WaitEvent, LockAndRead
    <2> QED
      BY <2>1, <2>2, SameFabric DEF FabricInv
  <1>3. CASE Client
    <2>1. pc' = pc /\ UNCHANGED <<fabric, fabricNV, mFailSafe, chipQ>>
      BY <1>3, Zenon
         DEF Client, OnOffCommand, WriteStartUpOnOff, WriteIdentifyTime,
             WriteOtherIdentifyTime, TriggerEffect
    <2>2. chip = "run" /\ chip' \in {"run", "identify"}
      BY <1>3
         DEF Client, OnOffCommand, WriteStartUpOnOff, WriteIdentifyTime,
             WriteOtherIdentifyTime, TriggerEffect, StackFree
    <2> QED
      BY <2>1, <2>2 DEF FabricInv, Unguarded, DisarmOK, Expired, ToRevert
  <1>4. CASE IdentifyClusterTick \/ IdentifyTimeChanged
    <2>1. pc' = pc /\ UNCHANGED <<fabric, fabricNV, mFailSafe, chipQ>>
      BY <1>4, Zenon
         DEF IdentifyClusterTick, WriteIdentifyTime, IdentifyTimeChanged
    <2>2. chip \in {"run", "identify"} /\ chip' \in {"run", "identify"}
      BY <1>4
         DEF IdentifyClusterTick, WriteIdentifyTime, IdentifyTimeChanged,
             StackFree
    <2> QED
      BY <2>1, <2>2 DEF FabricInv, Unguarded, DisarmOK, Expired, ToRevert
  <1>5. CASE TimerCallback \/ Tick \/ UNCHANGED vars
    <2>1. UNCHANGED fabricVars /\ pc' = pc
      BY <1>5, Zenon DEF TimerCallback, Tick, vars
    <2> QED
      BY <2>1, SameFabric
  <1>6. CASE PostOther
    <2>1. /\ chipQ' = Enqueue(chipQ, "other") /\ chip # "init"
          /\ pc' = pc /\ UNCHANGED <<chip, fabric, fabricNV, mFailSafe>>
      BY <1>6 DEF PostOther, Enqueue
    <2>2. chipQ \in Seq(ChipEvents) /\ "other" \in ChipEvents \ {"disarm"}
      BY DEF TypeInv, TypeOK, DataOK, ChipEvents
    <2>3. DisarmOK(chipQ')
      BY <2>1, <2>2, EnqueueDisarm, Zenon DEF FabricInv
    <2>4. DisarmOK(chipQ)'
      BY <2>1, <2>3 DEF DisarmOK, Expired, ToRevert
    <2> QED
      BY <2>1, <2>4 DEF FabricInv, Unguarded
  <1>7. CASE PlatformInit \/ Handle
    BY <1>7, ResetFabric, Zenon DEF Handle
  <1>8. CASE PowerCycle \/ EventLoop
    BY <1>8, RebootFabric, DispatchFabric, Zenon
       DEF PowerCycle, EventLoop, DoFactoryReset
  <1>9. CASE Fabric
    BY <1>9, CommissionFabric
  <1> QED
    BY <1>1, <1>2, <1>3, <1>4, <1>5, <1>6, <1>7, <1>8, <1>9, Zenon
       DEF Next, Boot

LEMMA FabricInvariance == Spec => [](TypeInv /\ FabricInv)
  BY TypeInvariance, FabricInit, FabricNext, PTL DEF Spec

(* A fabric that AddNOC put into the table and no commit put into flash is *)
(* left behind, without a fail-safe that deletes it, by no step but one:   *)
(* a CommissioningComplete that follows one that failed.  No expiry leaves *)
(* it behind, however full the event queue is, and no removal.             *)
THEOREM PendingGuarded == Spec => PendingFabricGuarded
  <1>1. TypeInv /\ FabricInv /\ [Next]_vars =>
          [(~Unguarded /\ Unguarded') =>
              (mFailSafe = "failed" /\ CommissioningComplete(FALSE))]_vars
    BY FabricNext DEF GivenUp
  <1> QED
    BY <1>1, FabricInvariance, PTL DEF Spec, PendingFabricGuarded
=============================================================================
