----------------------------- MODULE FabricCommit -----------------------------
(***************************************************************************)
(* The fabric table with its two pending stores (operational certificates, *)
(* operational keys), the fail-safe that guards them and the persistent    *)
(* storage they write, one storage write at a time, with a power cut       *)
(* possible between any two writes.                                        *)
(*                                                                         *)
(* src/src/credentials/FabricTable.cpp,                                    *)
(* src/src/credentials/PersistentStorageOpCertStore.cpp,                   *)
(* src/src/crypto/PersistentStorageOperationalKeystore.cpp,                *)
(* src/src/app/FailSafeContext.cpp and the command handlers of the         *)
(* Operational Credentials and General Commissioning servers.  Commands    *)
(* that the code refuses without changing state are not steps.             *)
(***************************************************************************)
EXTENDS Integers, FiniteSets, Sequences

CONSTANTS kMaxValidFabricIndex,     \* 254 in the code
          CHIP_CONFIG_MAX_FABRICS,  \* slots of the table, 16 in the code
          MaxKeys,                  \* bound: key pairs generated in a behaviour
          Roots,                    \* root certificates that commissioners use
          Failing,                  \* the writes that storage may refuse
          Sticking                  \* the deletes that storage may refuse

Indices == 1 .. kMaxValidFabricIndex
Slots == 1 .. CHIP_CONFIG_MAX_FABRICS
Keys == 1 .. MaxKeys
Writes == {"marker", "meta", "key", "noc", "icac", "rcac", "index"}
Deletes == Writes \ {"index"}

ASSUME ConstantsAssumption ==
    /\ kMaxValidFabricIndex \in Nat \ {0}
    /\ CHIP_CONFIG_MAX_FABRICS \in Nat \ {0}
    /\ MaxKeys \in Nat
    /\ Roots \subseteq Nat \ {0}
    /\ Failing \subseteq Writes
    /\ Sticking \subseteq Deletes

\* A NOC certifies one key and chains to one root; the ICAC goes with its NOC.
NoNoc == [key |-> 0, root |-> 0]
Noc == [key : Keys, root : Roots]

\* kUndefinedFabricIndex
Undefined == 0

VARIABLES
    store,      \* per index: metadata, key, NOC, ICAC, RCAC in storage
    indexInfo,  \* the stored list of indices and next available index
    marker,     \* the stored commit marker, Undefined if absent
    table,      \* mStates: the index and identity in each slot
    next,       \* mNextAvailableFabricIndex, Undefined if it has no value
    flags,      \* mStateFlags
    pending,    \* mFabricIndexWithPendingState
    shadow,     \* mPendingFabric: the identity an UpdateNOC waits to give
    certs,      \* the pending certificates of PersistentStorageOpCertStore
    opKey,      \* the pending key pair of PersistentStorageOperationalKeystore
    failSafe,   \* FailSafeContext
    lastKey,    \* key pairs generated so far
    work,       \* the storage transaction the running handler is in
    spoilt      \* history: the indices for which storage refused to write or to
                \* clear the commit marker or to delete an item, or for which a
                \* NOC for another key was taken, until nothing of them is stored

stored == <<store, indexInfo, marker>>
ram == <<table, next, flags, pending, shadow, certs, opKey, failSafe>>
vars == <<stored, ram, lastKey, work, spoilt>>

FreeSlot == [index |-> Undefined, noc |-> NoNoc]
NothingStored == [meta |-> 0, key |-> 0, noc |-> NoNoc, icac |-> NoNoc, rcac |-> 0]
NoCerts == [index |-> Undefined, noc |-> NoNoc, rcac |-> 0, called |-> {}]
NoKey == [index |-> Undefined, key |-> 0, active |-> FALSE]
Disarmed == [state |-> "off", index |-> Undefined, add |-> FALSE,
             update |-> FALSE, root |-> FALSE]

\* The order in which both a commit and a removal go over the stored items.
Items == <<"meta", "key", "noc", "icac", "rcac">>

Idle == [at |-> "idle", index |-> Undefined, item |-> 1, err |-> FALSE,
         certErr |-> FALSE, again |-> FALSE, then |-> "idle"]
Booting == [Idle EXCEPT !.at = "boot"]

\* A removal of index i that goes over to `then' when it is done, once more
\* from the start if `again'.
Removal(i, again, then) ==
    [Idle EXCEPT !.at = "remove", !.index = i, !.again = again, !.then = then]

StoredItems == [meta : {0, 1}, key : Keys \cup {0}, noc : Noc \cup {NoNoc},
                icac : Noc \cup {NoNoc}, rcac : Roots \cup {0}]
IndexInfos == [next : Indices \cup {Undefined},
               list : [Slots -> Indices \cup {Undefined}]]
Tables == [Slots -> [index : Indices, noc : Noc] \cup {FreeSlot}]
CertStates == [index : Indices \cup {Undefined}, noc : Noc \cup {NoNoc},
               rcac : Roots \cup {0}, called : SUBSET {"root", "add", "update"}]
OpKeys == [index : Indices \cup {Undefined}, key : Keys \cup {0}, active : BOOLEAN]
FailSafes == [state : {"off", "armed", "expired"}, index : Indices \cup {Undefined},
              add : BOOLEAN, update : BOOLEAN, root : BOOLEAN]
Works == [at : {"idle", "boot", "commit", "undo", "index", "remove", "unlist", "clear"},
          index : Indices \cup {Undefined}, item : 1 .. 5, err : BOOLEAN,
          certErr : BOOLEAN, again : BOOLEAN, then : {"idle", "clear"}]
AllFlags == {"data", "root", "update", "add", "key", "keyForUpdate"}

TypeOK ==
    /\ store \in [Indices -> StoredItems]
    /\ indexInfo \in IndexInfos
    /\ marker \in Indices \cup {Undefined}
    /\ table \in Tables
    /\ next \in Indices \cup {Undefined}
    /\ flags \subseteq AllFlags
    /\ pending \in Indices \cup {Undefined}
    /\ shadow \in Noc \cup {NoNoc}
    /\ certs \in CertStates
    /\ opKey \in OpKeys
    /\ failSafe \in FailSafes
    /\ lastKey \in 0 .. MaxKeys
    /\ work \in Works
    /\ spoilt \subseteq Indices
-------------------------------------------------------------------------------
(* Storage.                                                                *)

\* Whether a write, or a delete, succeeds: FALSE as well where storage may refuse.
Outcome(w) == IF w \in Failing THEN BOOLEAN ELSE {TRUE}
DeleteOutcome(d) == IF d \in Sticking THEN BOOLEAN ELSE {TRUE}

\* FabricTable::LoadFromStorage: NOC, RCAC and metadata must be found.  The
\* key is not looked at.
Loadable(i) ==
    /\ store[i].meta # 0
    /\ store[i].noc # NoNoc
    /\ store[i].rcac # 0

\* Mutant: reading stops at the first fabric that does not load.
LoadedUpToFailure ==
    [s \in Slots |->
        LET i == indexInfo.list[s]
        IN  IF i # Undefined /\ Loadable(i)
               /\ \A u \in 1 .. s : indexInfo.list[u] # Undefined => Loadable(indexInfo.list[u])
            THEN [index |-> i, noc |-> store[i].noc] ELSE FreeSlot]

\* ReadFabricInfo: the listed fabrics that load are put into slots, in order;
\* which slots does not matter, as entries of one index load alike.
LoadedTable ==
    [s \in Slots |->
        LET i == indexInfo.list[s]
        IN  IF i # Undefined /\ Loadable(i)
            THEN [index |-> i, noc |-> store[i].noc] ELSE FreeSlot]

Initialised(t) == {s \in Slots : t[s] # FreeSlot}
SlotsOf(t, i) == {s \in Slots : t[s].index = i}
First(S) == CHOOSE s \in S : \A u \in S : s <= u

\* FindFabricWithIndex and GetMutableFabricByIndex (the pending update apart):
\* the first slot with that index.
Find(t, i) ==
    IF SlotsOf(t, i) = {} THEN NoNoc ELSE t[First(SlotsOf(t, i))].noc

\* The list that StoreFabricIndexInfo writes, Undefined for a free slot.
IndexList(t) == [s \in Slots |-> t[s].index]

\* Mutant: NextFabricIndex does not wrap.
CandidateWithoutWrap(n, d) == n + d

\* UpdateNextAvailableFabricIndex: the first free index after n, cyclically,
\* n itself excepted.
Candidate(n, d) == ((n - 1 + d) % kMaxValidFabricIndex) + 1
FreeAt(n, t) ==
    {d \in 1 .. kMaxValidFabricIndex - 1 : Find(t, Candidate(n, d)) = NoNoc}
UpdatedNext(n, t) ==
    IF FreeAt(n, t) = {} THEN Undefined ELSE Candidate(n, First(FreeAt(n, t)))

\* EnsureNextAvailableFabricIndexUpdated.
EnsuredNext(n, t) ==
    IF n = Undefined /\ Cardinality(Initialised(t)) < kMaxValidFabricIndex
    THEN IF Find(t, 1) = NoNoc THEN 1 ELSE UpdatedNext(1, t)
    ELSE n

\* HasOpKeypairForFabric.
HasOpKeypairForFabric(i) ==
    \/ opKey.active /\ opKey.index = i /\ opKey.key # 0
    \/ store[i].key # 0
-------------------------------------------------------------------------------
(* Commands of the Operational Credentials and General Commissioning       *)
(* servers.  One handler runs at a time, under the stack lock.             *)

\* SetPendingDataFabricIndex.
MayBePending(i) == pending \in {Undefined, i}

NocCommandHasBeenInvoked == failSafe.add \/ failSafe.update

\* Commands that need the fail-safe come over the session it belongs to: a
\* PASE session (index 0) or a CASE session of a fabric in the table.
FailSafeCommand ==
    /\ work = Idle
    /\ failSafe.state = "armed"
    /\ failSafe.index # Undefined => Find(table, failSafe.index) # NoNoc

ArmFailSafe(i) ==
    /\ work = Idle
    /\ failSafe.state = "off"
    /\ i # Undefined => Find(table, i) # NoNoc
    /\ failSafe' = [failSafe EXCEPT !.state = "armed", !.index = i]
    /\ UNCHANGED <<stored, table, next, flags, pending, shadow, certs, opKey,
                   lastKey, work, spoilt>>

\* CSRRequest and AllocatePendingOperationalKey: what a refusal changed on the
\* way (the flag, the pending index) stays changed.
CSRRequest(forUpdate) ==
    LET i == IF forUpdate THEN failSafe.index ELSE EnsuredNext(next, table)
        legal == MayBePending(i)
        done == legal /\ opKey.index \in {Undefined, i}
    IN  /\ FailSafeCommand
        /\ ~NocCommandHasBeenInvoked
        /\ "data" \notin flags
        /\ i # Undefined
        /\ lastKey < MaxKeys
        /\ next' = EnsuredNext(next, table)
        /\ flags' = (flags \ {"keyForUpdate"})
                        \cup (IF forUpdate THEN {"keyForUpdate"} ELSE {})
                        \cup (IF done THEN {"key"} ELSE {})
        /\ pending' = IF legal THEN i ELSE pending
        /\ opKey' = IF done
                    THEN [index |-> i, key |-> lastKey + 1, active |-> FALSE]
                    ELSE opKey
        /\ lastKey' = IF done THEN lastKey + 1 ELSE lastKey
        /\ UNCHANGED <<stored, table, shadow, certs, failSafe, work, spoilt>>

\* AddTrustedRootCertificate and AddNewPendingTrustedRootCert.
AddTrustedRootCertificate(r) ==
    LET i == EnsuredNext(next, table)
        done == certs.called = {} /\ store[i].rcac = 0
    IN  /\ FailSafeCommand
        /\ ~failSafe.root
        /\ ~NocCommandHasBeenInvoked
        /\ flags \cap {"root", "update", "add"} = {}
        /\ i # Undefined
        /\ MayBePending(i)
        /\ next' = i
        /\ pending' = i
        /\ certs' = IF done
                    THEN [certs EXCEPT !.index = i, !.rcac = r, !.called = {"root"}]
                    ELSE certs
        /\ flags' = IF done THEN flags \cup {"data", "root"} ELSE flags
        /\ failSafe' = IF done THEN [failSafe EXCEPT !.root = TRUE] ELSE failSafe
        /\ UNCHANGED <<stored, table, shadow, opKey, lastKey, work, spoilt>>

\* A pending key pair must be the one that the NOC certifies
\* (ActivateOpKeypairForFabric).  Where none is pending the code only looks
\* whether a key is stored, not whether the NOC is for that key.
KeyMatches(i, k) ==
    IF opKey.key # 0 THEN opKey.index = i /\ opKey.key = k ELSE store[i].key # 0

\* Index i is spoilt by a NOC for a key that is neither pending nor stored.
SpoiltByNoc(i, k) ==
    IF opKey.key = 0 /\ store[i].key # k THEN spoilt \cup {i} ELSE spoilt

\* Mutant: FindExistingFabricByNocChaining is not asked.
AddNOCTwice(k, late) ==
    LET i == EnsuredNext(next, table)
        noc == [key |-> k, root |-> certs.rcac]
    IN  /\ FailSafeCommand
        /\ ~NocCommandHasBeenInvoked
        /\ "key" \in flags /\ "keyForUpdate" \notin flags
        /\ failSafe.root
        /\ "root" \in flags /\ "update" \notin flags
        /\ i # Undefined
        /\ certs.called = {"root"} /\ certs.index = i
        /\ store[i].noc = NoNoc /\ store[i].icac = NoNoc
        /\ MayBePending(i)
        /\ Initialised(table) # Slots
        /\ KeyMatches(i, k)
        /\ next' = i
        /\ pending' = i
        /\ table' = [table EXCEPT ![First(Slots \ Initialised(table))] =
                                 [index |-> i, noc |-> noc]]
        /\ opKey' = [opKey EXCEPT !.active = opKey.key # 0]
        /\ certs' = [certs EXCEPT !.noc = noc, !.called = @ \cup {"add"}]
        /\ flags' = flags \cup {"data", "add"}
        /\ failSafe' = [failSafe EXCEPT !.add = TRUE, !.index = i]
        /\ spoilt' = SpoiltByNoc(i, k)
        /\ UNCHANGED <<stored, shadow, lastKey, work>>

\* AddNOC with a NOC for key k that chains to the pending root.  The group key
\* set and the access control entry that the handler writes next may fail
\* (late): then it calls RevertPendingOpCertsExceptRoot, which deletes the
\* fabric and, with it, the pending root.
AddNOC(k, late) ==
    LET i == EnsuredNext(next, table)
        noc == [key |-> k, root |-> certs.rcac]
    IN  /\ FailSafeCommand
        /\ ~NocCommandHasBeenInvoked
        /\ "key" \in flags /\ "keyForUpdate" \notin flags
        /\ failSafe.root
        /\ "root" \in flags /\ "update" \notin flags
        /\ i # Undefined
        /\ \A s \in Initialised(table) : table[s].noc.root # certs.rcac
        /\ certs.called = {"root"} /\ certs.index = i
        /\ store[i].noc = NoNoc /\ store[i].icac = NoNoc
        /\ MayBePending(i)
        /\ Initialised(table) # Slots
        /\ KeyMatches(i, k)
        /\ next' = i
        /\ pending' = i
        /\ table' = [table EXCEPT ![First(Slots \ Initialised(table))] =
                                 [index |-> i, noc |-> noc]]
        /\ opKey' = [opKey EXCEPT !.active = opKey.key # 0]
        /\ IF late
           THEN /\ flags' = flags \cup {"data"}
                /\ work' = Removal(i, FALSE, "idle")
                /\ UNCHANGED <<certs, failSafe>>
           ELSE /\ certs' = [certs EXCEPT !.noc = noc, !.called = @ \cup {"add"}]
                /\ flags' = flags \cup {"data", "add"}
                /\ failSafe' = [failSafe EXCEPT !.add = TRUE, !.index = i]
                /\ UNCHANGED work
        /\ spoilt' = SpoiltByNoc(i, k)
        /\ UNCHANGED <<stored, shadow, lastKey>>

\* UpdateNOC with a NOC for key k that chains to the fabric's own root.  Three
\* outcomes: pending; refused because another index is pending, which leaves
\* the certificates in the pending store; refused by the key, which reverts.
UpdateNOC(k) ==
    LET i == failSafe.index
        noc == [key |-> k, root |-> store[i].rcac]
        given == [index |-> i, noc |-> noc, rcac |-> 0, called |-> {"update"}]
    IN  /\ FailSafeCommand
        /\ i # Undefined
        /\ ~NocCommandHasBeenInvoked
        /\ {"key", "keyForUpdate"} \subseteq flags
        /\ HasOpKeypairForFabric(i) \/ opKey.key # 0
        /\ flags \cap {"root", "add"} = {}
        /\ certs.called = {}
        /\ store[i].rcac # 0 /\ store[i].noc # NoNoc
        /\ \/ /\ ~MayBePending(i)
              /\ certs' = given
              /\ UNCHANGED <<flags, pending, shadow, opKey, failSafe, spoilt>>
           \/ /\ MayBePending(i)
              /\ ~KeyMatches(i, k)
              /\ certs' = NoCerts
              /\ shadow' = NoNoc
              /\ pending' = Undefined
              /\ UNCHANGED <<flags, opKey, failSafe, spoilt>>
           \/ /\ MayBePending(i)
              /\ KeyMatches(i, k)
              /\ certs' = given
              /\ pending' = i
              /\ shadow' = noc
              /\ opKey' = [opKey EXCEPT !.active = opKey.key # 0]
              /\ flags' = flags \cup {"update", "data"}
              /\ failSafe' = [failSafe EXCEPT !.update = TRUE]
              /\ spoilt' = SpoiltByNoc(i, k)
        /\ UNCHANGED <<stored, table, next, lastKey, work>>

\* UpdateFabricLabel and SetFabricLabel: the metadata is stored at once unless
\* a fabric is pending.
UpdateFabricLabel(i) ==
    /\ work = Idle
    /\ Find(table, i) # NoNoc
    /\ flags \cap {"add", "update"} = {}
    /\ store' = [store EXCEPT ![i].meta = 1]
    /\ UNCHANGED <<indexInfo, marker, ram, lastKey, work, spoilt>>

\* RemoveFabric and the part of FabricTable::Delete before its first write:
\* with an update of that fabric pending, RevertPendingFabricData.
RemoveFabric(i) ==
    LET updating == /\ {"data", "update"} \subseteq flags
                    /\ shadow # NoNoc
                    /\ pending = i
    IN  /\ work = Idle
        /\ work' = Removal(i, FALSE, "idle")
        /\ IF updating
           THEN /\ shadow' = NoNoc
                /\ certs' = NoCerts
                /\ opKey' = NoKey
                /\ flags' = {}
                /\ pending' = Undefined
           ELSE UNCHANGED <<shadow, certs, opKey, flags, pending>>
        /\ UNCHANGED <<stored, table, next, failSafe, lastKey, spoilt>>
-------------------------------------------------------------------------------
(* CommitPendingFabricData.                                                *)

\* The pre-flight checks that must hold for the transaction to start.
ReadyToCommit ==
    /\ pending # Undefined
    /\ Find(table, pending) # NoNoc
    /\ "add" \in flags \/ "update" \in flags
    /\ ~({"add", "update"} \subseteq flags)
    /\ "add" \in flags =>
           /\ "root" \in flags
           /\ (certs.index = pending /\ certs.rcac # 0) \/ store[pending].rcac # 0
    /\ "update" \in flags => shadow # NoNoc
    /\ HasOpKeypairForFabric(pending)

\* CommissioningComplete over CASE.  With no NOC command it only disarms the
\* fail-safe.  With pending data that fails the pre-flight checks it clears
\* the pending state and leaves the fail-safe armed.  Otherwise it stores the
\* commit marker and the transaction starts, also if storage refuses the
\* marker: an updated fabric is live from here on.
CommissioningComplete ==
    /\ FailSafeCommand
    /\ failSafe.index # Undefined
    /\ \/ /\ ~NocCommandHasBeenInvoked
          /\ failSafe' = Disarmed
          /\ UNCHANGED <<marker, table, flags, pending, shadow, certs, opKey, work, spoilt>>
       \/ /\ NocCommandHasBeenInvoked
          /\ "data" \notin flags \/ ~ReadyToCommit
          /\ flags' = {}
          /\ pending' = Undefined
          /\ shadow' = NoNoc
          /\ certs' = NoCerts
          /\ opKey' = NoKey
          /\ failSafe' = IF "data" \in flags THEN failSafe ELSE Disarmed
          /\ UNCHANGED <<marker, table, work, spoilt>>
       \/ /\ NocCommandHasBeenInvoked
          /\ "data" \in flags /\ ReadyToCommit
          /\ \E ok \in Outcome("marker") :
                /\ marker' = IF ok THEN pending ELSE marker
                /\ work' = [Idle EXCEPT !.at = "commit", !.index = pending, !.err = ~ok]
                /\ spoilt' = IF ok THEN spoilt ELSE spoilt \cup {pending}
          /\ flags' = flags \ {"data"}
          /\ table' = IF "update" \in flags
                      THEN [table EXCEPT ![First(SlotsOf(table, pending))].noc = shadow]
                      ELSE table
          /\ shadow' = NoNoc
          /\ UNCHANGED <<pending, certs, opKey, failSafe>>
    /\ UNCHANGED <<store, indexInfo, next, lastKey>>

\* CommitOpCertsForFabric finds the pending chain of this fabric.
HasPendingChain(i) ==
    /\ certs.index = i
    /\ certs.noc # NoNoc
    /\ certs.rcac # 0 => "update" \notin certs.called /\ "root" \in certs.called

\* Whether the transaction writes an item, and what.
IsWritten(e, i) ==
    CASE e = "meta" -> TRUE
      [] e = "key" -> opKey.key # 0 /\ opKey.index = i /\ opKey.active
      [] e = "rcac" -> HasPendingChain(i) /\ certs.rcac # 0
      [] OTHER -> HasPendingChain(i)

Committed(e) ==
    CASE e = "meta" -> 1
      [] e = "key" -> opKey.key
      [] e = "rcac" -> certs.rcac
      [] OTHER -> certs.noc

\* An error that is not the storage's: a pending key for another fabric or not
\* activated, a pending chain that is missing.
Missing(e, i) ==
    \/ e = "key" /\ opKey.key # 0 /\ HasOpKeypairForFabric(i) /\ ~IsWritten(e, i)
    \/ e = "noc" /\ ~HasPendingChain(i)

\* Item e of the transaction for index i.  The metadata, the key pair and the
\* chain are written in turn whether or not an earlier item failed.  The pending
\* key is dropped once it is written or has failed, the pending chain after the
\* RCAC; a chain that failed is then deleted if it was being added.
WriteItem(i, e, ok) ==
    LET written == IsWritten(e, i) /\ ok
        err == Missing(e, i) \/ (IsWritten(e, i) /\ ~ok)
        certErr == work.certErr \/ (err /\ e \in {"noc", "icac", "rcac"})
        undo == e = "rcac" /\ certErr /\ "add" \in certs.called
    IN  /\ store' = IF written THEN [store EXCEPT ![i][e] = Committed(e)] ELSE store
        /\ opKey' = IF e = "key" /\ (written \/ err) THEN NoKey ELSE opKey
        /\ certs' = IF e = "rcac" THEN NoCerts ELSE certs
        /\ work' = [work EXCEPT !.at = IF undo THEN "undo" ELSE IF e = "rcac" THEN "index" ELSE @,
                                !.item = IF undo THEN 3 ELSE IF e = "rcac" THEN 1 ELSE @ + 1,
                                !.err = @ \/ err, !.certErr = certErr]

CommitItem ==
    /\ work.at = "commit"
    /\ \E ok \in Outcome(Items[work.item]) : WriteItem(work.index, Items[work.item], ok)
    /\ UNCHANGED <<indexInfo, marker, table, next, flags, pending, shadow,
                   failSafe, lastKey, spoilt>>

\* One certificate of a chain that was being added and failed; whether storage
\* deletes it is ignored.
UndoItem ==
    LET e == Items[work.item]
    IN  /\ work.at = "undo"
        /\ \E ok \in DeleteOutcome(e) :
              store' = IF ok THEN [store EXCEPT ![work.index][e] = NothingStored[e]] ELSE store
        /\ work' = [work EXCEPT !.at = IF e = "rcac" THEN "index" ELSE @,
                                !.item = IF e = "rcac" THEN 1 ELSE @ + 1]
        /\ UNCHANGED <<indexInfo, marker, ram, lastKey, spoilt>>

\* The end of the transaction: the index list after an addition; then, if
\* anything failed, the whole fabric is removed, even after an update.
CommitIndex ==
    LET n == IF "add" \in flags THEN UpdatedNext(next, table) ELSE next
    IN  /\ work.at = "index"
        /\ \E ok \in IF "add" \in flags THEN Outcome("index") ELSE {TRUE} :
              /\ indexInfo' = IF "add" \in flags /\ ok
                              THEN [next |-> n, list |-> IndexList(table)]
                              ELSE indexInfo
              /\ work' = IF work.err \/ ~ok
                         THEN [Removal(work.index, FALSE, "clear") EXCEPT !.err = TRUE]
                         ELSE [Idle EXCEPT !.at = "clear"]
        /\ next' = n
        /\ flags' = {}
        /\ pending' = Undefined
        /\ shadow' = NoNoc
        /\ UNCHANGED <<store, marker, table, certs, opKey, failSafe, lastKey, spoilt>>

\* ClearCommitMarker, last thing of a commit or of the recovery at boot, with
\* the RevertPendingFabricData after a failure and the DisarmFailSafe after a
\* success before it.  The marker stays if storage refuses.
ClearCommitMarker ==
    /\ work.at = "clear"
    /\ \E ok \in DeleteOutcome("marker") :
          /\ marker' = IF ok THEN Undefined ELSE marker
          /\ spoilt' = IF ok \/ marker = Undefined THEN spoilt
                       ELSE IF store[marker] = NothingStored THEN spoilt
                       ELSE spoilt \cup {marker}
    /\ IF work.err
       THEN certs' = NoCerts /\ opKey' = NoKey /\ UNCHANGED failSafe
       ELSE failSafe' = Disarmed /\ UNCHANGED <<certs, opKey>>
    /\ work' = Idle
    /\ UNCHANGED <<store, indexInfo, table, next, flags, pending, shadow, lastKey>>
-------------------------------------------------------------------------------
(* FabricTable::Delete.                                                    *)

\* One item of a removal, which goes on if storage refuses to delete it.
\* RemoveOpKeypairForFabric drops the pending key of this fabric,
\* RemoveOpCertsForFabric every pending certificate.
RemoveItem ==
    LET i == work.index
        e == Items[work.item]
    IN  /\ work.at = "remove"
        /\ \E ok \in DeleteOutcome(e) :
              /\ store' = IF ok THEN [store EXCEPT ![i][e] = NothingStored[e]] ELSE store
              /\ spoilt' = IF ok \/ store[i][e] = NothingStored[e] THEN spoilt
                           ELSE spoilt \cup {i}
        /\ opKey' = IF e = "key" /\ opKey.index = i THEN NoKey ELSE opKey
        /\ certs' = IF e = "noc" THEN NoCerts ELSE certs
        /\ work' = [work EXCEPT !.at = IF e = "rcac" THEN "unlist" ELSE @,
                                !.item = IF e = "rcac" THEN 1 ELSE @ + 1]
        /\ UNCHANGED <<indexInfo, marker, table, next, flags, pending, shadow,
                       failSafe, lastKey>>

\* The end of a removal: the table entry and the index list, if there was an
\* entry.  A refused write of the list is ignored.  An index of which nothing is
\* left is no longer spoilt.
Unlist ==
    LET i == work.index
        n == IF next = Undefined THEN i ELSE next
        t == [table EXCEPT ![First(SlotsOf(table, i))] = FreeSlot]
    IN  /\ work.at = "unlist"
        /\ \/ /\ SlotsOf(table, i) # {}
              /\ table' = t
              /\ next' = n
              /\ \E ok \in Outcome("index") :
                    indexInfo' = IF ok THEN [next |-> n, list |-> IndexList(t)]
                                 ELSE indexInfo
           \/ /\ SlotsOf(table, i) = {}
              /\ UNCHANGED <<table, next, indexInfo>>
        /\ work' = IF work.again
                   THEN Removal(i, FALSE, work.then)
                   ELSE [Idle EXCEPT !.at = work.then,
                                     !.err = work.err /\ work.then = "clear"]
        /\ spoilt' = IF store[i] = NothingStored THEN spoilt \ {i} ELSE spoilt
        /\ UNCHANGED <<store, marker, flags, pending, shadow, certs, opKey,
                       failSafe, lastKey>>
-------------------------------------------------------------------------------
(* The fail-safe timer, power cuts and the next boot.                      *)

FailSafeTimerExpired ==
    /\ work = Idle
    /\ failSafe.state = "armed"
    /\ failSafe' = [failSafe EXCEPT !.state = "expired"]
    /\ UNCHANGED <<stored, table, next, flags, pending, shadow, certs, opKey,
                   lastKey, work, spoilt>>

\* FailSafeCleanup in the Operational Credentials server, on the event that the
\* expiry posted, and HandleDisarmFailSafe, queued right after it:
\* RevertPendingFabricData deletes a fabric whose addition is pending and the
\* handler then deletes the fabric of an AddNOC once more.
FailSafeCleanup ==
    LET adding == "add" \in flags
    IN  /\ work = Idle
        /\ failSafe.state = "expired"
        /\ flags' = {}
        /\ pending' = Undefined
        /\ shadow' = NoNoc
        /\ certs' = NoCerts
        /\ opKey' = NoKey
        /\ failSafe' = Disarmed
        /\ work' = IF adding THEN Removal(pending, failSafe.add, "idle")
                   ELSE IF failSafe.add THEN Removal(failSafe.index, FALSE, "idle")
                   ELSE Idle
        /\ UNCHANGED <<stored, table, next, lastKey, spoilt>>

PowerCut ==
    /\ work # Booting
    /\ table' = [s \in Slots |-> FreeSlot]
    /\ next' = Undefined
    /\ flags' = {}
    /\ pending' = Undefined
    /\ shadow' = NoNoc
    /\ certs' = NoCerts
    /\ opKey' = NoKey
    /\ failSafe' = Disarmed
    /\ work' = Booting
    /\ UNCHANGED <<stored, lastKey, spoilt>>

\* Mutant: the commit marker is not looked at.
FabricTableInitUnmarked ==
    /\ work = Booting
    /\ table' = LoadedTable
    /\ next' = EnsuredNext(indexInfo.next, LoadedTable)
    /\ work' = Idle
    /\ UNCHANGED <<stored, flags, pending, shadow, certs, opKey, failSafe, lastKey,
                   spoilt>>

\* FabricTable::Init: the table from storage, then the fabric of a commit
\* marker is deleted.  Server::Init queues the fail-safe cleanup for it, which
\* deletes it again, and the clearing of the marker, ahead of any command.
FabricTableInit ==
    /\ work = Booting
    /\ table' = LoadedTable
    /\ next' = EnsuredNext(indexInfo.next, LoadedTable)
    /\ work' = IF marker = Undefined THEN Idle ELSE Removal(marker, TRUE, "clear")
    /\ UNCHANGED <<stored, flags, pending, shadow, certs, opKey, failSafe, lastKey,
                   spoilt>>
-------------------------------------------------------------------------------
Init ==
    /\ store = [i \in Indices |-> NothingStored]
    /\ indexInfo = [next |-> 1, list |-> [s \in Slots |-> Undefined]]
    /\ marker = Undefined
    /\ table = [s \in Slots |-> FreeSlot]
    /\ next = 1
    /\ flags = {}
    /\ pending = Undefined
    /\ shadow = NoNoc
    /\ certs = NoCerts
    /\ opKey = NoKey
    /\ failSafe = Disarmed
    /\ lastKey = 0
    /\ work = Idle
    /\ spoilt = {}

Next ==
    \/ \E i \in Indices \cup {Undefined} : ArmFailSafe(i)
    \/ \E forUpdate \in BOOLEAN : CSRRequest(forUpdate)
    \/ \E r \in Roots : AddTrustedRootCertificate(r)
    \/ \E k \in 1 .. lastKey, late \in BOOLEAN : AddNOC(k, late)
    \/ \E k \in 1 .. lastKey : UpdateNOC(k)
    \/ \E i \in Indices : UpdateFabricLabel(i) \/ RemoveFabric(i)
    \/ CommissioningComplete
    \/ CommitItem
    \/ UndoItem
    \/ CommitIndex
    \/ ClearCommitMarker
    \/ RemoveItem
    \/ Unlist
    \/ FailSafeTimerExpired
    \/ FailSafeCleanup
    \/ PowerCut
    \/ FabricTableInit

Spec == Init /\ [][Next]_vars
-------------------------------------------------------------------------------
(* Properties.                                                             *)

\* What the next boot would find of index i if the power were cut now.
Restored(i) ==
    /\ \E s \in Slots : indexInfo.list[s] = i
    /\ Loadable(i)
    /\ marker # i

\* The certificates, the key and the root of an index belong together.
Whole(i) ==
    /\ store[i].key = store[i].noc.key
    /\ store[i].icac = store[i].noc
    /\ store[i].rcac = store[i].noc.root

\* A power cut between any two storage writes of a commit, a removal or a
\* recovery leaves no half-written fabric for FabricTable::Init to load, and what
\* storage refused for one index does not spoil another.
WholeOrGone == \A i \in Indices \ spoilt : Restored(i) => Whole(i)

\* The abstract view of the storage: what each index would be after a boot.
StoredIdentity ==
    [i \in Indices |-> IF Restored(i) /\ i \notin spoilt
                       THEN IF Whole(i) THEN store[i].noc ELSE store[i]
                       ELSE NoNoc]

Abstract == INSTANCE StoredFabrics WITH fabrics <- StoredIdentity

\* The storage writes of the fabric table implement StoredFabrics: every write
\* leaves the identities that a boot would load as they are, or installs or
\* loses one of them as a whole, and no root is ever stored twice.
ImplementsStoredFabrics == Abstract!Spec

\* With no fail-safe in progress, every fabric that a boot would load is in
\* use as it was stored: a fabric that was removed, reverted or replaced does
\* not come back with the next boot, unless storage refused to let it go.
RemovedStaysRemoved ==
    work = Idle /\ failSafe.state = "off" =>
        \A i \in Indices \ spoilt : Restored(i) =>
            \E s \in Slots : table[s] = [index |-> i, noc |-> store[i].noc]

\* FabricTable.h on CommitPendingFabricData: "On success, any pending information
\* is committed such that after a restart, it would be found to be the same in
\* persistent storage."
RestartFindsSame ==
    work = Idle /\ failSafe.state = "off" =>
        \A i \in Indices : Find(table, i) = IF Restored(i) THEN store[i].noc ELSE NoNoc

\* FabricTable.h on the NOC of UpdatePendingFabricWithOperationalKeystore: "Must match
\* an existing or pending operational keypair in the mOperationalKeystore."
UpdateMatchesKeypair ==
    ("update" \in flags /\ HasPendingChain(pending)) =>
        certs.noc.key \in {opKey.key, store[pending].key}
===============================================================================
