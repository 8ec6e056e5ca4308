------------------------- MODULE FabricCommitProofs -------------------------
(***************************************************************************)
(* Proofs about FabricCommit, for every number of indices, slots and keys: *)
(* the state keeps its type, every fabric that a boot would load is whole, *)
(* a removed fabric stays removed, and the storage implements              *)
(* StoredFabrics.                                                          *)
(***************************************************************************)
EXTENDS FabricCommit, WellFoundedInduction, TLAPS

\* A root that is pending is one.  AddNOC relies on it.
RootInv == "root" \in certs.called => certs.rcac # 0
TypeInv == TypeOK /\ RootInv

TableHas(t, i, n) == \E s \in Slots : t[s] = [index |-> i, noc |-> n]
InTable(i, n) == TableHas(table, i, n)
HasSlot(i) == \E s \in Slots : table[s].index = i
Listed(i) == \E s \in Slots : indexInfo.list[s] = i
Removing(i) == work.at \in {"remove", "unlist"} /\ work.index = i
Committing == work.at \in {"commit", "undo", "index"}

\* What is stored of index i need not be sound: it is spoilt, or the commit
\* marker names it and a handler is at work on it or the boot is still to come.
InDoubt(i) ==
    \/ i \in spoilt
    \/ marker = i /\ (work.at = "boot" \/ work.index = i)

\* What a boot would show of index i.
Live(i) == Loadable(i) /\ marker # i /\ i \notin spoilt

\* The root of index i is not that of another fabric that loads.
OwnRoot(i, r) ==
    \A j \in Indices : j # i /\ j \notin spoilt /\ Loadable(j) => store[j].rcac # r

\* Where a handler is in its transaction.  A commit is under its marker, or its
\* index is spoilt because the marker was refused.
ControlInv ==
    /\ work.at = "idle" => work = Idle
    /\ work.at = "boot" => work = Booting
    /\ work.at = "clear" => work.index = Undefined
    /\ Committing => /\ work.index # Undefined
                     /\ marker = work.index \/ work.index \in spoilt
                     /\ pending = work.index
                     /\ flags \cap {"add", "update"} # {}
    /\ work.at \in {"remove", "unlist"} => work.index # Undefined
    /\ work.at = "commit" /\ work.certErr => work.err
    /\ work.at = "clear" \/ work.then = "clear" => flags \cap {"add", "update"} = {}

\* A marker that was left behind names no fabric that loads.
StaleInv ==
    marker # Undefined /\ ~InDoubt(marker) /\ work.at # "clear" => ~Loadable(marker)

\* What the pending flags say about fail-safe and pending index.
FlagInv ==
    /\ "add" \in flags => failSafe.add /\ pending # Undefined
    /\ "update" \in flags => failSafe.update /\ pending # Undefined
    /\ ~({"add", "update"} \subseteq flags)
    /\ flags \cap {"add", "update"} # {} => "data" \in flags \/ Committing
    /\ failSafe.add => failSafe.index # Undefined
    /\ failSafe.state = "off" => failSafe = Disarmed
    /\ work.at = "boot" => flags = {}

\* An update is pending for a fabric that is stored.
UpdateInv ==
    "update" \in flags =>
        /\ ~Committing => ~Removing(pending) /\ shadow # NoNoc
        /\ pending \notin spoilt => Listed(pending) /\ (~Committing => Loadable(pending))

\* The key of a pending chain is pending with it, or stored.
KeyLink ==
    \/ /\ opKey.key # 0
       /\ opKey = [index |-> pending, key |-> certs.noc.key, active |-> TRUE]
    \/ opKey.key = 0 /\ store[pending].key = certs.noc.key
    \/ work.at = "remove" /\ work.index = pending
    \/ Committing /\ work.err

\* The chain of a pending addition or update.
ChainInv ==
    flags \cap {"add", "update"} # {} /\ certs.noc # NoNoc /\ pending \notin spoilt =>
        /\ certs.index = pending
        /\ KeyLink
        /\ OwnRoot(pending, certs.noc.root)
        /\ "add" \in flags => /\ certs.rcac = certs.noc.root
                              /\ certs.called = {"root", "add"}
                              /\ InTable(pending, certs.noc)
        /\ "update" \in flags =>
              /\ certs.rcac = 0
              /\ certs.noc.root = store[pending].rcac
              /\ IF Committing THEN InTable(pending, certs.noc)
                 ELSE shadow = certs.noc

\* A fabric that is complete, in use, and its root nobody else's.
Installed(i) ==
    /\ Loadable(i) /\ Whole(i)
    /\ InTable(i, store[i].noc)
    /\ OwnRoot(i, store[i].rcac)

\* How far a commit has come if nothing has failed.
CommitInv ==
    /\ work.at = "commit" /\ ~work.err /\ work.index \notin spoilt =>
          /\ work.item > 1 => store[work.index].meta = 1
          /\ work.item > 2 /\ certs.noc # NoNoc => opKey.key = 0
          /\ work.item > 3 => certs.noc # NoNoc /\ store[work.index].noc = certs.noc
          /\ work.item > 4 => store[work.index].icac = certs.noc
    /\ work.at = "undo" => work.err
    /\ work.at \in {"undo", "index"} => certs = NoCerts
    /\ work.at = "index" /\ ~work.err /\ work.index \notin spoilt => Installed(work.index)

\* How far a removal has come if nothing was refused.
RemovalInv ==
    /\ work.at = "remove" /\ work.item > 3 => certs = NoCerts
    /\ work.at = "unlist" => certs = NoCerts
    /\ work.at = "remove" /\ work.index \notin spoilt =>
          /\ work.item > 1 => store[work.index].meta = 0
          /\ work.item > 2 => store[work.index].key = 0
          /\ work.item > 3 => store[work.index].noc = NoNoc
          /\ work.item > 4 => store[work.index].icac = NoNoc
    /\ work.at = "unlist" /\ work.index \notin spoilt => store[work.index] = NothingStored

\* What is stored of an index that is not in doubt.
Sound(i) ==
    /\ store[i].key # 0 => Whole(i)
    /\ Loadable(i) => /\ store[i].key # 0
                      /\ Listed(i)
                      /\ work.at # "boot" => InTable(i, store[i].noc)
                      /\ \A j \in Indices : j # i /\ ~InDoubt(j) /\ Loadable(j) =>
                            store[j].rcac # store[i].rcac
    /\ HasSlot(i) /\ ~Removing(i) /\ store[i].noc # NoNoc => Loadable(i)

StoreInv == \A i \in Indices : ~InDoubt(i) => Sound(i)

Inv ==
    /\ TypeInv
    /\ ControlInv
    /\ StaleInv
    /\ FlagInv
    /\ UpdateInv
    /\ ChainInv
    /\ CommitInv
    /\ RemovalInv
    /\ StoreInv
-----------------------------------------------------------------------------
(* The operators of the model.                                             *)

\* The least element of a set of naturals, found by the well-foundedness of <.
LessThan == {p \in Nat \X Nat : p[1] < p[2]}

LEMMA LessThanWellFounded == IsWellFoundedOn(LessThan, Nat)
BY NatLessThanWellFounded DEF OpToRel, LessThan

\* First picks an element of its set, the least one.
LEMMA FirstIsIn ==
    ASSUME NEW S, S \subseteq Nat, S # {}
    PROVE  First(S) \in S
<1>1. PICK x \in S : \A y \in S : ~ (<<y, x>> \in LessThan)
  BY LessThanWellFounded, WFMin, Zenon
<1>2. ASSUME NEW y \in S PROVE x <= y
  <2>1. x \in Nat /\ y \in Nat
    OBVIOUS
  <2>2. y < x => <<y, x>> \in LessThan
    BY <2>1 DEF LessThan
  <2>3. QED
    BY <1>1, <2>1, <2>2
<1>3. QED
  BY <1>2, Zenon DEF First

\* A first slot with index i, if there is one, is a slot with index i.
LEMMA FirstSlot ==
    ASSUME NEW t, NEW i, SlotsOf(t, i) # {}
    PROVE  First(SlotsOf(t, i)) \in Slots /\ t[First(SlotsOf(t, i))].index = i
<1>1. SlotsOf(t, i) \subseteq Nat
  BY DEF SlotsOf, Slots
<1>2. First(SlotsOf(t, i)) \in SlotsOf(t, i)
  BY <1>1, FirstIsIn
<1>3. QED
  BY <1>2 DEF SlotsOf

\* A first free slot, if there is one, is a free slot.
LEMMA FirstFree ==
    ASSUME NEW t, Initialised(t) # Slots
    PROVE  /\ First(Slots \ Initialised(t)) \in Slots
           /\ t[First(Slots \ Initialised(t))] = FreeSlot
<1>1. Slots \ Initialised(t) \subseteq Nat /\ Slots \ Initialised(t) # {}
  BY DEF Initialised, Slots
<1>2. First(Slots \ Initialised(t)) \in Slots \ Initialised(t)
  BY <1>1, FirstIsIn
<1>3. QED
  BY <1>2 DEF Initialised

\* A candidate index is a valid index: NextFabricIndex wraps.
LEMMA CandidateType ==
    ASSUME NEW n \in Indices \cup {Undefined}, NEW d \in Nat \ {0}
    PROVE  Candidate(n, d) \in Indices
<1>1. kMaxValidFabricIndex \in Nat \ {0} /\ n - 1 + d \in Nat
  BY ConstantsAssumption DEF Indices, Undefined
<1>2. (n - 1 + d) % kMaxValidFabricIndex \in 0 .. kMaxValidFabricIndex - 1
  BY <1>1
<1>3. QED
  BY <1>1, <1>2 DEF Candidate, Indices

\* UpdateNextAvailableFabricIndex gives a valid index or none.
LEMMA UpdatedNextType ==
    ASSUME NEW n \in Indices \cup {Undefined}, NEW t
    PROVE  UpdatedNext(n, t) \in Indices \cup {Undefined}
<1>1. CASE FreeAt(n, t) = {}
  BY <1>1 DEF UpdatedNext
<1>2. CASE FreeAt(n, t) # {}
  <2>1. FreeAt(n, t) \subseteq Nat \ {0}
    BY ConstantsAssumption DEF FreeAt
  <2>2. First(FreeAt(n, t)) \in Nat \ {0}
    BY <1>2, <2>1, FirstIsIn
  <2>3. QED
    BY <1>2, <2>2, CandidateType DEF UpdatedNext
<1>3. QED
  BY <1>1, <1>2

\* EnsureNextAvailableFabricIndexUpdated gives a valid index or none.
LEMMA EnsuredNextType ==
    ASSUME NEW n \in Indices \cup {Undefined}, NEW t
    PROVE  EnsuredNext(n, t) \in Indices \cup {Undefined}
<1>1. 1 \in Indices
  BY ConstantsAssumption DEF Indices
<1>2. UpdatedNext(1, t) \in Indices \cup {Undefined}
  BY <1>1, UpdatedNextType
<1>3. QED
  BY <1>1, <1>2 DEF EnsuredNext

\* 0 is neither an index, nor a key, nor a root.
LEMMA ZeroIsNone ==
    /\ Undefined \notin Indices
    /\ 0 \notin Keys
    /\ 0 \notin Roots
    /\ NoNoc \notin Noc
    /\ \A n \in Noc : n.key # 0 /\ n.root # 0 /\ n # NoNoc
BY ConstantsAssumption DEF Indices, Undefined, Keys, NoNoc, Noc

LEMMA ItemsAre ==
    /\ Items[1] = "meta" /\ Items[2] = "key" /\ Items[3] = "noc"
    /\ Items[4] = "icac" /\ Items[5] = "rcac"
BY DEF Items
-----------------------------------------------------------------------------
(* The state keeps its type.                                               *)

\* The constants of the model have the types of the variables they are given to.
LEMMA ConstantTypes ==
    /\ NoCerts \in CertStates
    /\ NoKey \in OpKeys
    /\ Disarmed \in FailSafes
    /\ NothingStored \in StoredItems
    /\ [s \in Slots |-> FreeSlot] \in Tables
    /\ NoCerts.called = {}
<1>1. NoCerts \in CertStates /\ NoCerts.called = {}
  BY DEF NoCerts, CertStates
<1>2. NoKey \in OpKeys
  BY DEF NoKey, OpKeys
<1>3. Disarmed \in FailSafes
  BY DEF Disarmed, FailSafes
<1>4. NothingStored \in StoredItems
  BY DEF NothingStored, StoredItems
<1>5. [s \in Slots |-> FreeSlot] \in Tables
  BY DEF Tables
<1>6. QED
  BY <1>1, <1>2, <1>3, <1>4, <1>5

LEMMA IdleType == Idle \in Works /\ Booting \in Works
<1>1. Idle \in Works
  BY DEF Idle, Works
<1>2. QED
  BY <1>1 DEF Booting, Works

LEMMA RemovalType ==
    ASSUME NEW i \in Indices \cup {Undefined}, NEW again \in BOOLEAN,
           NEW then \in {"idle", "clear"}
    PROVE  Removal(i, again, then) \in Works
BY IdleType DEF Removal, Works

LEMMA IndexListType ==
    ASSUME NEW t \in Tables PROVE IndexList(t) \in [Slots -> Indices \cup {Undefined}]
BY DEF IndexList, Tables, FreeSlot

LEMMA InitTypeOK == Init => TypeInv
<1> SUFFICES ASSUME Init PROVE TypeInv
  OBVIOUS
<1>1. 1 \in Indices /\ 0 \in 0 .. MaxKeys
  BY ConstantsAssumption DEF Indices
<1>2. indexInfo \in IndexInfos
  BY <1>1 DEF Init, IndexInfos
<1>3. QED
  BY <1>1, <1>2, ConstantTypes, IdleType DEF Init, TypeInv, TypeOK, RootInv

LEMMA ArmFailSafeType ==
    ASSUME TypeInv, NEW i \in Indices \cup {Undefined}, ArmFailSafe(i)
    PROVE  TypeInv'
<1>1. failSafe' \in FailSafes
  BY DEF ArmFailSafe, FailSafes, TypeInv, TypeOK
<1>2. QED
  BY <1>1 DEF ArmFailSafe, stored, TypeInv, TypeOK, RootInv

LEMMA CSRRequestType ==
    ASSUME TypeInv, NEW forUpdate \in BOOLEAN, CSRRequest(forUpdate)
    PROVE  TypeInv'
<1> DEFINE i == IF forUpdate THEN failSafe.index ELSE EnsuredNext(next, table)
<1>1. /\ EnsuredNext(next, table) \in Indices \cup {Undefined}
      /\ i \in Indices \cup {Undefined}
  BY EnsuredNextType DEF FailSafes, TypeInv, TypeOK
<1>2. lastKey < MaxKeys => lastKey + 1 \in Keys /\ lastKey + 1 \in 0 .. MaxKeys
  BY ConstantsAssumption DEF Keys, TypeInv, TypeOK
<1> HIDE DEF i
<1>3. opKey' \in OpKeys /\ pending' \in Indices \cup {Undefined}
      /\ lastKey' \in 0 .. MaxKeys
  BY <1>1, <1>2 DEF CSRRequest, OpKeys, i, TypeInv, TypeOK
<1>4. next' \in Indices \cup {Undefined} /\ flags' \subseteq AllFlags
  BY <1>1 DEF CSRRequest, AllFlags, TypeInv, TypeOK
<1>5. QED
  BY <1>3, <1>4 DEF CSRRequest, stored, TypeInv, TypeOK, RootInv

LEMMA AddTrustedRootCertificateType ==
    ASSUME TypeInv, NEW r \in Roots, AddTrustedRootCertificate(r)
    PROVE  TypeInv'
<1>1. EnsuredNext(next, table) \in Indices \cup {Undefined}
  BY EnsuredNextType DEF TypeInv, TypeOK
<1>2. certs' \in CertStates /\ RootInv'
  BY <1>1, ZeroIsNone DEF AddTrustedRootCertificate, CertStates, TypeInv, TypeOK, RootInv
<1>3. failSafe' \in FailSafes
  BY DEF AddTrustedRootCertificate, FailSafes, TypeInv, TypeOK
<1>4. flags' \subseteq AllFlags
  BY DEF AddTrustedRootCertificate, AllFlags, TypeInv, TypeOK
<1>5. QED
  BY <1>1, <1>2, <1>3, <1>4 DEF AddTrustedRootCertificate, stored, TypeInv, TypeOK

\* The NOC of an AddNOC is for a key of the device and chains to the pending root.
LEMMA AddNOCFacts ==
    ASSUME TypeInv, NEW k \in 1 .. lastKey, NEW late \in BOOLEAN, AddNOC(k, late)
    PROVE  /\ EnsuredNext(next, table) \in Indices
           /\ [key |-> k, root |-> certs.rcac] \in Noc
<1>1. EnsuredNext(next, table) \in Indices
  BY EnsuredNextType DEF AddNOC, TypeInv, TypeOK
<1>2. k \in Keys
  BY ConstantsAssumption DEF Keys, TypeInv, TypeOK
<1>3. certs.rcac \in Roots
  BY DEF CertStates, AddNOC, TypeInv, TypeOK, RootInv
<1>4. QED
  BY <1>1, <1>2, <1>3 DEF Noc

LEMMA AddNOCType ==
    ASSUME TypeInv, NEW k \in 1 .. lastKey, NEW late \in BOOLEAN, AddNOC(k, late)
    PROVE  TypeInv'
<1> DEFINE i == EnsuredNext(next, table)
           noc == [key |-> k, root |-> certs.rcac]
<1>1. i \in Indices /\ noc \in Noc
  BY AddNOCFacts
<1> HIDE DEF i, noc
<1>2. table' \in Tables
  BY <1>1 DEF AddNOC, Tables, TypeInv, TypeOK, i, noc
<1>3. certs' \in CertStates /\ RootInv'
  <2>1. certs \in CertStates /\ RootInv
    BY DEF TypeInv, TypeOK
  <2>2. \/ certs' = certs
        \/ certs' = [certs EXCEPT !.noc = noc, !.called = @ \cup {"add"}]
    BY DEF AddNOC, noc
  <2>3. CASE certs' = certs
    BY <2>1, <2>3 DEF RootInv
  <2>4. CASE certs' = [certs EXCEPT !.noc = noc, !.called = @ \cup {"add"}]
    <3>1. certs' \in CertStates
      BY <1>1, <2>1, <2>4 DEF CertStates
    <3>2. certs'.rcac = certs.rcac /\ certs'.called = certs.called \cup {"add"}
      BY <2>1, <2>4 DEF CertStates
    <3>3. QED
      BY <2>1, <3>1, <3>2 DEF RootInv
  <2>5. QED
    BY <2>2, <2>3, <2>4
<1>4. opKey' \in OpKeys
  BY DEF AddNOC, OpKeys, TypeInv, TypeOK
<1>5. failSafe' \in FailSafes
  BY <1>1 DEF AddNOC, FailSafes, TypeInv, TypeOK, i
<1>6. flags' \subseteq AllFlags
  BY DEF AddNOC, AllFlags, TypeInv, TypeOK
<1>7. work' \in Works
  BY <1>1, RemovalType DEF AddNOC, TypeInv, TypeOK, i
<1>8. next' \in Indices /\ pending' \in Indices /\ spoilt' \subseteq Indices
  BY <1>1 DEF AddNOC, SpoiltByNoc, i, TypeInv, TypeOK
<1>9. QED
  BY <1>2, <1>3, <1>4, <1>5, <1>6, <1>7, <1>8 DEF AddNOC, stored, TypeInv, TypeOK

LEMMA UpdateNOCFacts ==
    ASSUME TypeInv, NEW k \in 1 .. lastKey, UpdateNOC(k)
    PROVE  /\ failSafe.index \in Indices
           /\ [key |-> k, root |-> store[failSafe.index].rcac] \in Noc
<1>1. failSafe.index \in Indices
  BY DEF UpdateNOC, TypeInv, TypeOK, FailSafes
<1>2. k \in Keys
  BY ConstantsAssumption DEF Keys, TypeInv, TypeOK
<1>3. store[failSafe.index].rcac \in Roots
  BY <1>1 DEF StoredItems, UpdateNOC, TypeInv, TypeOK
<1>4. QED
  BY <1>1, <1>2, <1>3 DEF Noc

LEMMA UpdateNOCType ==
    ASSUME TypeInv, NEW k \in 1 .. lastKey, UpdateNOC(k)
    PROVE  TypeInv'
<1> DEFINE i == failSafe.index
           noc == [key |-> k, root |-> store[i].rcac]
           given == [index |-> i, noc |-> noc, rcac |-> 0, called |-> {"update"}]
<1>1. i \in Indices /\ noc \in Noc
  BY UpdateNOCFacts
<1>2. given \in CertStates /\ "root" \notin given.called
  <2> HIDE DEF i, noc
  <2> QED
    BY <1>1 DEF CertStates
<1> HIDE DEF i, noc, given
<1>3. certs' \in CertStates /\ RootInv'
  BY <1>2, ConstantTypes DEF UpdateNOC, RootInv, given, noc, i
<1>4. opKey' \in OpKeys
  BY DEF UpdateNOC, OpKeys, TypeInv, TypeOK
<1>5. failSafe' \in FailSafes
  BY DEF UpdateNOC, FailSafes, TypeInv, TypeOK
<1>6. flags' \subseteq AllFlags
  BY DEF UpdateNOC, AllFlags, TypeInv, TypeOK
<1>7. /\ shadow' \in Noc \cup {NoNoc} /\ pending' \in Indices \cup {Undefined}
      /\ spoilt' \subseteq Indices
  BY <1>1 DEF UpdateNOC, SpoiltByNoc, TypeInv, TypeOK, i, noc
<1>8. QED
  BY <1>3, <1>4, <1>5, <1>6, <1>7 DEF UpdateNOC, stored, TypeInv, TypeOK

LEMMA UpdateFabricLabelType ==
    ASSUME TypeInv, NEW i \in Indices, UpdateFabricLabel(i)
    PROVE  TypeInv'
<1>1. store' \in [Indices -> StoredItems]
  BY DEF UpdateFabricLabel, TypeInv, TypeOK, StoredItems
<1>2. QED
  BY <1>1 DEF UpdateFabricLabel, ram, TypeInv, TypeOK, RootInv

LEMMA RemoveFabricType ==
    ASSUME TypeInv, NEW i \in Indices, RemoveFabric(i)
    PROVE  TypeInv'
<1>1. work' \in Works
  BY RemovalType DEF RemoveFabric
<1>2. QED
  BY <1>1, ConstantTypes DEF RemoveFabric, stored, TypeInv, TypeOK, RootInv

LEMMA CommissioningCompleteType ==
    ASSUME TypeInv, CommissioningComplete
    PROVE  TypeInv'
<1>1. /\ work' \in Works /\ marker' \in Indices \cup {Undefined}
      /\ spoilt' \subseteq Indices
  <2>1. CASE UNCHANGED <<work, marker, spoilt>>
    BY <2>1 DEF TypeInv, TypeOK
  <2>2. CASE ReadyToCommit
    <3>1. pending \in Indices /\ work \in Works /\ Idle \in Works
      BY <2>2, IdleType DEF ReadyToCommit, TypeInv, TypeOK
    <3>2. CASE \E ok \in BOOLEAN :
                /\ marker' = IF ok THEN pending ELSE marker
                /\ work' = [Idle EXCEPT !.at = "commit", !.index = pending, !.err = ~ok]
                /\ spoilt' = IF ok THEN spoilt ELSE spoilt \cup {pending}
      BY <3>1, <3>2 DEF TypeInv, TypeOK, Works
    <3>3. QED
      BY <2>1, <2>2, <3>2 DEF CommissioningComplete, Outcome
  <2>3. QED
    BY <2>1, <2>2 DEF CommissioningComplete
<1>2. table' \in Tables
  <2>1. CASE /\ "update" \in flags /\ ReadyToCommit
             /\ table' = [table EXCEPT ![First(SlotsOf(table, pending))].noc = shadow]
    <3>1. shadow \in Noc /\ SlotsOf(table, pending) # {} /\ pending # Undefined
      BY <2>1 DEF ReadyToCommit, TypeInv, TypeOK, Find
    <3>2. /\ First(SlotsOf(table, pending)) \in Slots
          /\ table[First(SlotsOf(table, pending))].index = pending
      BY <3>1, FirstSlot
    <3>3. table[First(SlotsOf(table, pending))] \in [index : Indices, noc : Noc]
      BY <3>1, <3>2 DEF TypeInv, TypeOK, Tables, FreeSlot
    <3>4. QED
      BY <2>1, <3>1, <3>2, <3>3 DEF TypeInv, TypeOK, Tables
  <2>2. QED
    BY <2>1 DEF CommissioningComplete, TypeInv, TypeOK
<1>3. flags' \subseteq AllFlags /\ shadow' \in Noc \cup {NoNoc}
  BY DEF CommissioningComplete, TypeInv, TypeOK, AllFlags
<1>4. certs' \in CertStates /\ RootInv' /\ opKey' \in OpKeys /\ failSafe' \in FailSafes
      /\ pending' \in Indices \cup {Undefined}
  BY ConstantTypes DEF CommissioningComplete, TypeInv, TypeOK, RootInv
<1>5. QED
  BY <1>1, <1>2, <1>3, <1>4 DEF CommissioningComplete, TypeInv, TypeOK

\* How a commit goes from one item to the next.
LEMMA WriteItemWork ==
    ASSUME TypeInv, NEW e, NEW ok \in BOOLEAN, WriteItem(work.index, e, ok),
           work.at = "commit", e # "rcac" => work.item < 5
    PROVE  LET err == Missing(e, work.index) \/ (IsWritten(e, work.index) /\ ~ok)
           IN  /\ work' \in Works
               /\ e # "rcac" => work'.at = "commit" /\ work'.item = work.item + 1
               /\ e = "rcac" => work'.at \in {"undo", "index"}
               /\ work'.at = "undo" => work'.certErr
               /\ work'.index = work.index /\ work'.then = work.then
               /\ work'.err <=> (work.err \/ err)
               /\ work'.certErr <=> (work.certErr \/ (err /\ e \in {"noc", "icac", "rcac"}))
<1> DEFINE err == Missing(e, work.index) \/ (IsWritten(e, work.index) /\ ~ok)
           errs == work.err \/ err
           certErr == work.certErr \/ (err /\ e \in {"noc", "icac", "rcac"})
           undo == e = "rcac" /\ certErr /\ "add" \in certs.called
           a == IF undo THEN "undo" ELSE IF e = "rcac" THEN "index" ELSE work.at
           n == IF undo THEN 3 ELSE IF e = "rcac" THEN 1 ELSE work.item + 1
<1>1. work' = [work EXCEPT !.at = a, !.item = n, !.err = errs, !.certErr = certErr]
  BY Zenon DEF WriteItem
<1>2. errs \in BOOLEAN /\ certErr \in BOOLEAN
  OBVIOUS
<1>3. /\ work \in Works /\ a \in {"commit", "undo", "index"} /\ n \in 1 .. 5
      /\ e # "rcac" => a = "commit" /\ n = work.item + 1
      /\ e = "rcac" => a \in {"undo", "index"}
      /\ a = "undo" => certErr
  <2>1. work \in Works
    BY DEF TypeInv, TypeOK
  <2>2. work.item \in 1 .. 5
    BY <2>1 DEF Works
  <2> HIDE DEF certErr
  <2>3. QED
    BY <2>1, <2>2
<1> HIDE DEF errs, certErr, a, n
<1>4. /\ work' \in Works /\ work'.at = a /\ work'.item = n /\ work'.index = work.index
      /\ work'.err = errs /\ work'.certErr = certErr /\ work'.then = work.then
  BY <1>1, <1>2, <1>3 DEF Works
<1>5. QED
  BY <1>3, <1>4 DEF errs, certErr

\* The metadata.
LEMMA CommitMeta ==
    ASSUME TypeInv, CommitItem, work.item = 1
    PROVE  \E ok \in BOOLEAN :
              /\ store' = IF ok
                         THEN [store EXCEPT ![work.index].meta = 1] ELSE store
              /\ opKey' = opKey
              /\ certs' = certs
              /\ work' \in Works
              /\ work'.at = "commit" /\ work'.item = 2 /\ work'.index = work.index
              /\ work'.err <=> (work.err \/ ~ok)
              /\ work'.certErr <=> (work.certErr)
<1>1. work.at = "commit" /\ Items[work.item] = "meta"
  BY ItemsAre DEF CommitItem
<1>2. PICK ok \in BOOLEAN : WriteItem(work.index, "meta", ok)
  BY <1>1 DEF CommitItem, Outcome
<1>3. store' = IF ok
                         THEN [store EXCEPT ![work.index].meta = 1] ELSE store
  BY <1>2 DEF WriteItem, Committed, IsWritten, Missing
<1>4. /\ opKey' = opKey
      /\ certs' = certs
  BY <1>2 DEF WriteItem, IsWritten, Missing
<1>5. /\ work' \in Works
      /\ work'.at = "commit" /\ work'.item = 2 /\ work'.index = work.index
      /\ work'.err <=> (work.err \/ ~ok)
      /\ work'.certErr <=> (work.certErr)
  BY <1>1, <1>2, WriteItemWork DEF IsWritten, Missing
<1>6. QED
  BY <1>3, <1>4, <1>5

\* The key pair, if it is pending for this fabric and activated.
LEMMA CommitKey ==
    ASSUME TypeInv, CommitItem, work.item = 2
    PROVE  \E ok \in BOOLEAN :
              /\ store' = IF IsWritten("key", work.index) /\ ok
                         THEN [store EXCEPT ![work.index].key = opKey.key] ELSE store
              /\ opKey' = IF IsWritten("key", work.index) \/ Missing("key", work.index)
                         THEN NoKey ELSE opKey
              /\ certs' = certs
              /\ work' \in Works
              /\ work'.at = "commit" /\ work'.item = 3 /\ work'.index = work.index
              /\ work'.err <=> (work.err \/ Missing("key", work.index)
                                         \/ (IsWritten("key", work.index) /\ ~ok))
              /\ work'.certErr <=> (work.certErr)
<1>1. work.at = "commit" /\ Items[work.item] = "key"
  BY ItemsAre DEF CommitItem
<1>2. PICK ok \in BOOLEAN : WriteItem(work.index, "key", ok)
  BY <1>1 DEF CommitItem, Outcome
<1>3. store' = IF IsWritten("key", work.index) /\ ok
                         THEN [store EXCEPT ![work.index].key = opKey.key] ELSE store
  BY <1>2 DEF WriteItem, Committed
<1>4. /\ opKey' = IF IsWritten("key", work.index) \/ Missing("key", work.index)
                         THEN NoKey ELSE opKey
      /\ certs' = certs
  BY <1>2 DEF WriteItem
<1>5. /\ work' \in Works
      /\ work'.at = "commit" /\ work'.item = 3 /\ work'.index = work.index
      /\ work'.err <=> (work.err \/ Missing("key", work.index)
                                         \/ (IsWritten("key", work.index) /\ ~ok))
      /\ work'.certErr <=> (work.certErr)
  BY <1>1, <1>2, WriteItemWork
<1>6. QED
  BY <1>3, <1>4, <1>5

\* The NOC, if the chain is pending.
LEMMA CommitNoc ==
    ASSUME TypeInv, CommitItem, work.item = 3
    PROVE  \E ok \in BOOLEAN :
              /\ store' = IF HasPendingChain(work.index) /\ ok
                         THEN [store EXCEPT ![work.index].noc = certs.noc] ELSE store
              /\ opKey' = opKey
              /\ certs' = certs
              /\ work' \in Works
              /\ work'.at = "commit" /\ work'.item = 4 /\ work'.index = work.index
              /\ work'.err <=> (work.err \/ ~HasPendingChain(work.index) \/ ~ok)
              /\ work'.certErr <=> (work.certErr \/ ~HasPendingChain(work.index) \/ ~ok)
<1>1. work.at = "commit" /\ Items[work.item] = "noc"
  BY ItemsAre DEF CommitItem
<1>2. PICK ok \in BOOLEAN : WriteItem(work.index, "noc", ok)
  BY <1>1 DEF CommitItem, Outcome
<1>3. store' = IF HasPendingChain(work.index) /\ ok
                         THEN [store EXCEPT ![work.index].noc = certs.noc] ELSE store
  BY <1>2 DEF WriteItem, Committed, IsWritten, Missing
<1>4. /\ opKey' = opKey
      /\ certs' = certs
  BY <1>2 DEF WriteItem, IsWritten, Missing
<1>5. /\ work' \in Works
      /\ work'.at = "commit" /\ work'.item = 4 /\ work'.index = work.index
      /\ work'.err <=> (work.err \/ ~HasPendingChain(work.index) \/ ~ok)
      /\ work'.certErr <=> (work.certErr \/ ~HasPendingChain(work.index) \/ ~ok)
  BY <1>1, <1>2, WriteItemWork DEF IsWritten, Missing
<1>6. QED
  BY <1>3, <1>4, <1>5

\* The ICAC, if the chain is pending.
LEMMA CommitIcac ==
    ASSUME TypeInv, CommitItem, work.item = 4
    PROVE  \E ok \in BOOLEAN :
              /\ store' = IF HasPendingChain(work.index) /\ ok
                         THEN [store EXCEPT ![work.index].icac = certs.noc] ELSE store
              /\ opKey' = opKey
              /\ certs' = certs
              /\ work' \in Works
              /\ work'.at = "commit" /\ work'.item = 5 /\ work'.index = work.index
              /\ work'.err <=> (work.err \/ (HasPendingChain(work.index) /\ ~ok))
              /\ work'.certErr <=> (work.certErr \/ (HasPendingChain(work.index) /\ ~ok))
<1>1. work.at = "commit" /\ Items[work.item] = "icac"
  BY ItemsAre DEF CommitItem
<1>2. PICK ok \in BOOLEAN : WriteItem(work.index, "icac", ok)
  BY <1>1 DEF CommitItem, Outcome
<1>3. store' = IF HasPendingChain(work.index) /\ ok
                         THEN [store EXCEPT ![work.index].icac = certs.noc] ELSE store
  BY <1>2 DEF WriteItem, Committed, IsWritten, Missing
<1>4. /\ opKey' = opKey
      /\ certs' = certs
  BY <1>2 DEF WriteItem, IsWritten, Missing
<1>5. /\ work' \in Works
      /\ work'.at = "commit" /\ work'.item = 5 /\ work'.index = work.index
      /\ work'.err <=> (work.err \/ (HasPendingChain(work.index) /\ ~ok))
      /\ work'.certErr <=> (work.certErr \/ (HasPendingChain(work.index) /\ ~ok))
  BY <1>1, <1>2, WriteItemWork DEF IsWritten, Missing
<1>6. QED
  BY <1>3, <1>4, <1>5

\* The RCAC of an addition.
LEMMA CommitRcac ==
    ASSUME TypeInv, CommitItem, work.item = 5
    PROVE  \E ok \in BOOLEAN :
              /\ store' = IF HasPendingChain(work.index) /\ certs.rcac # 0 /\ ok
                         THEN [store EXCEPT ![work.index].rcac = certs.rcac] ELSE store
              /\ opKey' = opKey
              /\ certs' = NoCerts
              /\ work' \in Works
              /\ work'.at \in {"undo", "index"} /\ work'.index = work.index
              /\ work'.at = "undo" => work'.certErr
              /\ work'.err <=> (work.err \/ (HasPendingChain(work.index) /\ certs.rcac # 0 /\ ~ok))
              /\ work'.certErr <=> (work.certErr \/ (HasPendingChain(work.index) /\ certs.rcac # 0 /\ ~ok))
<1>1. work.at = "commit" /\ Items[work.item] = "rcac"
  BY ItemsAre DEF CommitItem
<1>2. PICK ok \in BOOLEAN : WriteItem(work.index, "rcac", ok)
  BY <1>1 DEF CommitItem, Outcome
<1>3. store' = IF HasPendingChain(work.index) /\ certs.rcac # 0 /\ ok
                         THEN [store EXCEPT ![work.index].rcac = certs.rcac] ELSE store
  BY <1>2 DEF WriteItem, Committed, IsWritten, Missing
<1>4. /\ opKey' = opKey
      /\ certs' = NoCerts
  BY <1>2 DEF WriteItem, IsWritten, Missing
<1>5. /\ work' \in Works
      /\ work'.at \in {"undo", "index"} /\ work'.index = work.index
      /\ work'.at = "undo" => work'.certErr
      /\ work'.err <=> (work.err \/ (HasPendingChain(work.index) /\ certs.rcac # 0 /\ ~ok))
      /\ work'.certErr <=> (work.certErr \/ (HasPendingChain(work.index) /\ certs.rcac # 0 /\ ~ok))
  BY <1>1, <1>2, WriteItemWork DEF IsWritten, Missing
<1>6. QED
  BY <1>3, <1>4, <1>5

LEMMA CommitItemType ==
    ASSUME TypeInv, CommitItem
    PROVE  TypeInv'
<1>1. /\ work.item \in 1 .. 5
      /\ store \in [Indices -> StoredItems] /\ opKey \in OpKeys /\ certs \in CertStates
  BY DEF TypeInv, TypeOK, Works
<1>2. opKey.key \in Keys \cup {0} /\ certs.noc \in Noc \cup {NoNoc}
      /\ certs.rcac \in Roots \cup {0}
  BY <1>1 DEF OpKeys, CertStates
<1>3. /\ store' \in [Indices -> StoredItems]
      /\ work' \in Works
      /\ opKey' \in {opKey, NoKey}
      /\ certs' \in {certs, NoCerts}
  <2>1. CASE work.item = 1
    BY <1>1, <1>2, <2>1, CommitMeta DEF StoredItems
  <2>2. CASE work.item = 2
    BY <1>1, <1>2, <2>2, CommitKey DEF StoredItems
  <2>3. CASE work.item = 3
    BY <1>1, <1>2, <2>3, CommitNoc DEF StoredItems
  <2>4. CASE work.item = 4
    BY <1>1, <1>2, <2>4, CommitIcac DEF StoredItems
  <2>5. CASE work.item = 5
    BY <1>1, <1>2, <2>5, CommitRcac DEF StoredItems
  <2>6. QED
    BY <1>1, <2>1, <2>2, <2>3, <2>4, <2>5
<1>4. QED
  BY <1>3, ConstantTypes DEF CommitItem, TypeInv, TypeOK, RootInv

\* The items of an index after one of them was deleted, or not.
LEMMA DeleteType ==
    ASSUME TypeInv, NEW i \in Indices \cup {Undefined}, work.item \in 1 .. 5
    PROVE  LET e == Items[work.item]
           IN  [store EXCEPT ![i][e] = NothingStored[e]] \in [Indices -> StoredItems]
<1>1. store \in [Indices -> StoredItems]
  BY DEF TypeInv, TypeOK
<1>2. /\ NothingStored["meta"] = 0 /\ NothingStored["key"] = 0
      /\ NothingStored["noc"] = NoNoc /\ NothingStored["icac"] = NoNoc
      /\ NothingStored["rcac"] = 0
  BY DEF NothingStored
<1>3. CASE work.item = 1
  BY <1>1, <1>2, <1>3, ItemsAre DEF StoredItems
<1>4. CASE work.item = 2
  BY <1>1, <1>2, <1>4, ItemsAre DEF StoredItems
<1>5. CASE work.item = 3
  BY <1>1, <1>2, <1>5, ItemsAre DEF StoredItems
<1>6. CASE work.item = 4
  BY <1>1, <1>2, <1>6, ItemsAre DEF StoredItems
<1>7. CASE work.item = 5
  BY <1>1, <1>2, <1>7, ItemsAre DEF StoredItems
<1>8. QED
  BY <1>3, <1>4, <1>5, <1>6, <1>7

\* What deleting the certificates of a failed addition touches.
LEMMA UndoItemFrame ==
    ASSUME TypeInv, UndoItem
    PROVE  /\ store' \in [Indices -> StoredItems]
           /\ \A j \in Indices : j # work.index => store'[j] = store[j]
           /\ work' \in Works
           /\ work'.at \in {"undo", "index"}
           /\ work'.index = work.index /\ work'.then = work.then
           /\ work'.err = work.err
<1> DEFINE e == Items[work.item]
<1>1. /\ work \in Works /\ work.index \in Indices \cup {Undefined} /\ work.item \in 1 .. 5
      /\ store \in [Indices -> StoredItems] /\ work.at = "undo"
  BY DEF TypeInv, TypeOK, Works, UndoItem
<1>2. store' = store \/ store' = [store EXCEPT ![work.index][e] = NothingStored[e]]
  BY DEF UndoItem
<1>3. /\ store' \in [Indices -> StoredItems]
      /\ \A j \in Indices : j # work.index => store'[j] = store[j]
  BY <1>1, <1>2, DeleteType
<1> DEFINE a == IF e = "rcac" THEN "index" ELSE work.at
           n == IF e = "rcac" THEN 1 ELSE work.item + 1
<1>4. work' = [work EXCEPT !.at = a, !.item = n]
  BY DEF UndoItem
<1>5. a \in {"undo", "index"} /\ n \in 1 .. 5
  BY <1>1, ItemsAre
<1> HIDE DEF a, n
<1>6. QED
  BY <1>1, <1>3, <1>4, <1>5 DEF Works

LEMMA UndoItemType ==
    ASSUME TypeInv, UndoItem
    PROVE  TypeInv'
BY UndoItemFrame DEF UndoItem, ram, TypeInv, TypeOK, RootInv

LEMMA CommitIndexType ==
    ASSUME TypeInv, CommitIndex
    PROVE  TypeInv'
<1>1. next' \in Indices \cup {Undefined}
  BY UpdatedNextType DEF CommitIndex, TypeInv, TypeOK
<1>2. indexInfo' \in IndexInfos
  BY <1>1, IndexListType DEF CommitIndex, IndexInfos, TypeInv, TypeOK
<1>3. work' \in Works
  <2>1. work.index \in Indices \cup {Undefined}
    BY DEF TypeInv, TypeOK, Works
  <2>2. Removal(work.index, FALSE, "clear") \in Works
    BY <2>1, RemovalType
  <2>3. [Removal(work.index, FALSE, "clear") EXCEPT !.err = TRUE] \in Works
    BY <2>2 DEF Works
  <2>4. [Idle EXCEPT !.at = "clear"] \in Works
    BY IdleType DEF Works
  <2>5. QED
    BY <2>3, <2>4 DEF CommitIndex
<1>4. QED
  BY <1>1, <1>2, <1>3 DEF CommitIndex, TypeInv, TypeOK, RootInv

LEMMA ClearCommitMarkerType ==
    ASSUME TypeInv, ClearCommitMarker
    PROVE  TypeInv'
<1>1. marker' \in {marker, Undefined} /\ spoilt' \in {spoilt, spoilt \cup {marker}}
      /\ (marker = Undefined => spoilt' = spoilt)
  BY DEF ClearCommitMarker
<1>2. marker' \in Indices \cup {Undefined} /\ spoilt' \subseteq Indices
  BY <1>1 DEF TypeInv, TypeOK
<1>3. QED
  BY <1>2, ConstantTypes, IdleType DEF ClearCommitMarker, TypeInv, TypeOK, RootInv

\* What RemoveItem does with each of the items, unless storage refuses.
LEMMA RemoveItemCases ==
    ASSUME TypeInv, RemoveItem
    PROVE  LET i == work.index
           IN  /\ \/ store' = store /\ i \in spoilt'
                  \/ store' = store /\ store[i][Items[work.item]] = NothingStored[Items[work.item]]
                  \/ work.item = 1 /\ store' = [store EXCEPT ![i].meta = 0]
                  \/ work.item = 2 /\ store' = [store EXCEPT ![i].key = 0]
                  \/ work.item = 3 /\ store' = [store EXCEPT ![i].noc = NoNoc]
                  \/ work.item = 4 /\ store' = [store EXCEPT ![i].icac = NoNoc]
                  \/ work.item = 5 /\ store' = [store EXCEPT ![i].rcac = 0]
               /\ opKey' = IF work.item = 2 /\ opKey.index = i THEN NoKey ELSE opKey
               /\ certs' = IF work.item = 3 THEN NoCerts ELSE certs
               /\ spoilt' \in {spoilt, spoilt \cup {i}}
<1> DEFINE i == work.index
           e == Items[work.item]
<1>1. work.item \in 1 .. 5
  BY DEF TypeInv, TypeOK, Works
<1>2. /\ NothingStored["meta"] = 0 /\ NothingStored["key"] = 0
      /\ NothingStored["noc"] = NoNoc /\ NothingStored["icac"] = NoNoc
      /\ NothingStored["rcac"] = 0
  BY DEF NothingStored
<1>3. /\ (e = "key") <=> (work.item = 2)
      /\ (e = "noc") <=> (work.item = 3)
  BY <1>1, ItemsAre
<1>4. /\ opKey' = IF work.item = 2 /\ opKey.index = i THEN NoKey ELSE opKey
      /\ certs' = IF work.item = 3 THEN NoCerts ELSE certs
  BY <1>3 DEF RemoveItem
<1>5. PICK ok \in BOOLEAN :
         /\ store' = IF ok THEN [store EXCEPT ![i][e] = NothingStored[e]] ELSE store
         /\ spoilt' = IF ok \/ store[i][e] = NothingStored[e] THEN spoilt
                      ELSE spoilt \cup {i}
  BY DEF RemoveItem, DeleteOutcome
<1>6. CASE ~ok
  BY <1>4, <1>5, <1>6
<1>7. CASE ok
  <2>1. store' = [store EXCEPT ![i][e] = NothingStored[e]] /\ spoilt' = spoilt
    BY <1>5, <1>7
  <2>2. \/ work.item = 1 /\ store' = [store EXCEPT ![i].meta = 0]
        \/ work.item = 2 /\ store' = [store EXCEPT ![i].key = 0]
        \/ work.item = 3 /\ store' = [store EXCEPT ![i].noc = NoNoc]
        \/ work.item = 4 /\ store' = [store EXCEPT ![i].icac = NoNoc]
        \/ work.item = 5 /\ store' = [store EXCEPT ![i].rcac = 0]
    <3>1. CASE work.item = 1
      <4>1. Items[work.item] = "meta" /\ NothingStored[Items[work.item]] = 0
        BY <1>2, <3>1, ItemsAre
      <4>2. store' = [store EXCEPT ![i].meta = 0]
        BY <2>1, <4>1
      <4>3. QED
        BY <3>1, <4>2
    <3>2. CASE work.item = 2
      <4>1. Items[work.item] = "key" /\ NothingStored[Items[work.item]] = 0
        BY <1>2, <3>2, ItemsAre
      <4>2. store' = [store EXCEPT ![i].key = 0]
        BY <2>1, <4>1
      <4>3. QED
        BY <3>2, <4>2
    <3>3. CASE work.item = 3
      <4>1. Items[work.item] = "noc" /\ NothingStored[Items[work.item]] = NoNoc
        BY <1>2, <3>3, ItemsAre
      <4>2. store' = [store EXCEPT ![i].noc = NoNoc]
        BY <2>1, <4>1
      <4>3. QED
        BY <3>3, <4>2
    <3>4. CASE work.item = 4
      <4>1. Items[work.item] = "icac" /\ NothingStored[Items[work.item]] = NoNoc
        BY <1>2, <3>4, ItemsAre
      <4>2. store' = [store EXCEPT ![i].icac = NoNoc]
        BY <2>1, <4>1
      <4>3. QED
        BY <3>4, <4>2
    <3>5. CASE work.item = 5
      <4>1. Items[work.item] = "rcac" /\ NothingStored[Items[work.item]] = 0
        BY <1>2, <3>5, ItemsAre
      <4>2. store' = [store EXCEPT ![i].rcac = 0]
        BY <2>1, <4>1
      <4>3. QED
        BY <3>5, <4>2
    <3>6. QED
      BY <1>1, <3>1, <3>2, <3>3, <3>4, <3>5
  <2>3. QED
    BY <1>4, <2>1, <2>2
<1>8. QED
  BY <1>6, <1>7

\* How a removal goes from one item to the next.
LEMMA RemoveItemWork ==
    ASSUME TypeInv, RemoveItem
    PROVE  /\ work' = [work EXCEPT !.at = IF work.item = 5 THEN "unlist" ELSE "remove",
                                   !.item = IF work.item = 5 THEN 1 ELSE work.item + 1]
           /\ work' \in Works
<1>1. work.item \in 1 .. 5 /\ work.at = "remove" /\ work \in Works
  BY DEF TypeInv, TypeOK, Works, RemoveItem
<1>2. Items[work.item] = "rcac" <=> work.item = 5
  BY <1>1, ItemsAre
<1>3. work' = [work EXCEPT !.at = IF work.item = 5 THEN "unlist" ELSE "remove",
                           !.item = IF work.item = 5 THEN 1 ELSE work.item + 1]
  BY <1>1, <1>2 DEF RemoveItem
<1> DEFINE a == IF work.item = 5 THEN "unlist" ELSE "remove"
           n == IF work.item = 5 THEN 1 ELSE work.item + 1
<1>4. a \in {"unlist", "remove"} /\ n \in 1 .. 5
  BY <1>1
<1> HIDE DEF a, n
<1>5. work' = [work EXCEPT !.at = a, !.item = n]
  BY <1>3 DEF a, n
<1>6. work' \in Works
  BY <1>1, <1>4, <1>5 DEF Works
<1>7. QED
  BY <1>3, <1>6

LEMMA RemoveItemType ==
    ASSUME TypeInv, RemoveItem, work.index # Undefined
    PROVE  TypeInv'
<1>1. store \in [Indices -> StoredItems] /\ work.index \in Indices /\ spoilt \subseteq Indices
  BY DEF TypeInv, TypeOK, Works
<1>2. /\ store' \in [Indices -> StoredItems]
      /\ opKey' \in {opKey, NoKey}
      /\ certs' \in {certs, NoCerts}
      /\ spoilt' \subseteq Indices
  BY <1>1, RemoveItemCases DEF StoredItems
<1>3. QED
  BY <1>2, RemoveItemWork, ConstantTypes DEF RemoveItem, TypeInv, TypeOK, RootInv

LEMMA UnlistType ==
    ASSUME TypeInv, Unlist
    PROVE  TypeInv'
<1> DEFINE i == work.index
           n == IF next = Undefined THEN i ELSE next
           t == [table EXCEPT ![First(SlotsOf(table, i))] = FreeSlot]
<1>1. i \in Indices \cup {Undefined} /\ work \in Works
  BY DEF TypeInv, TypeOK, Works
<1>2. n \in Indices \cup {Undefined} /\ t \in Tables
  BY <1>1 DEF TypeInv, TypeOK, Tables
<1> HIDE DEF n, t
<1>3. [next |-> n, list |-> IndexList(t)] \in IndexInfos
  BY <1>2, IndexListType DEF IndexInfos
<1>4. /\ indexInfo' \in IndexInfos /\ table' \in Tables
      /\ next' \in Indices \cup {Undefined} /\ spoilt' \subseteq Indices
  BY <1>2, <1>3 DEF Unlist, TypeInv, TypeOK, n, t
<1>5. work' \in Works
  <2>1. work.then \in {"idle", "clear"}
    BY <1>1 DEF Works
  <2>2. Removal(i, FALSE, work.then) \in Works
    BY <1>1, <2>1, RemovalType
  <2>3. (work.err /\ work.then = "clear") \in BOOLEAN
    OBVIOUS
  <2>4. [Idle EXCEPT !.at = work.then, !.err = work.err /\ work.then = "clear"] \in Works
    BY <2>1, <2>3, IdleType DEF Works
  <2>5. QED
    BY <2>2, <2>4 DEF Unlist
<1>6. QED
  BY <1>4, <1>5 DEF Unlist, TypeInv, TypeOK, RootInv

LEMMA FailSafeTimerExpiredType ==
    ASSUME TypeInv, FailSafeTimerExpired
    PROVE  TypeInv'
<1>1. failSafe' \in FailSafes
  BY DEF FailSafeTimerExpired, TypeInv, TypeOK, FailSafes
<1>2. QED
  BY <1>1 DEF FailSafeTimerExpired, stored, TypeInv, TypeOK, RootInv

LEMMA FailSafeCleanupType ==
    ASSUME TypeInv, FailSafeCleanup
    PROVE  TypeInv'
<1>1. failSafe.add \in BOOLEAN /\ failSafe.index \in Indices \cup {Undefined}
      /\ pending \in Indices \cup {Undefined}
  BY DEF TypeInv, TypeOK, FailSafes
<1>2. work' \in Works
  BY <1>1, RemovalType, IdleType DEF FailSafeCleanup
<1>3. QED
  BY <1>2, ConstantTypes DEF FailSafeCleanup, stored, TypeInv, TypeOK, RootInv

LEMMA PowerCutType ==
    ASSUME TypeInv, PowerCut
    PROVE  TypeInv'
BY ConstantTypes, IdleType DEF PowerCut, stored, TypeInv, TypeOK, RootInv

LEMMA LoadedTableType ==
    ASSUME TypeInv
    PROVE  LoadedTable \in Tables
<1>1. ASSUME NEW s \in Slots, indexInfo.list[s] # Undefined, Loadable(indexInfo.list[s])
      PROVE  [index |-> indexInfo.list[s], noc |-> store[indexInfo.list[s]].noc]
                 \in [index : Indices, noc : Noc]
  BY <1>1 DEF Loadable, TypeInv, TypeOK, IndexInfos, StoredItems
<1>2. QED
  BY <1>1 DEF LoadedTable, Tables

LEMMA FabricTableInitType ==
    ASSUME TypeInv, FabricTableInit
    PROVE  TypeInv'
<1>1. next' \in Indices \cup {Undefined}
  BY EnsuredNextType DEF FabricTableInit, TypeInv, TypeOK, IndexInfos
<1>2. work' \in Works
  BY RemovalType, IdleType DEF FabricTableInit, TypeInv, TypeOK
<1>3. QED
  BY <1>1, <1>2, LoadedTableType DEF FabricTableInit, stored, TypeInv, TypeOK, RootInv
-----------------------------------------------------------------------------
(* Commands, which run when no handler is in a transaction.                *)

\* Facts about an idle state that the commands start from.
LEMMA WhenIdle ==
    ASSUME Inv, work = Idle
    PROVE  /\ work.at = "idle" /\ work.then = "idle" /\ work.index = Undefined
           /\ ~Committing
           /\ \A i \in Indices : /\ ~Removing(i)
                                 /\ InDoubt(i) <=> i \in spoilt
                                 /\ i \notin spoilt => Sound(i)
           /\ flags \cap {"add", "update"} # {} =>
                 "data" \in flags /\ NocCommandHasBeenInvoked
<1>1. work.at = "idle" /\ work.then = "idle" /\ work.index = Undefined
  BY DEF Idle
<1>2. ~Committing
  BY <1>1 DEF Committing
<1>3. \A i \in Indices : ~Removing(i) /\ (InDoubt(i) <=> i \in spoilt)
  BY <1>1, ZeroIsNone DEF Removing, InDoubt
<1>4. \A i \in Indices : i \notin spoilt => Sound(i)
  BY <1>3 DEF Inv, StoreInv
<1>5. QED
  BY <1>1, <1>2, <1>3, <1>4 DEF Inv, FlagInv, NocCommandHasBeenInvoked

\* A command that leaves storage, table and control alone.
LEMMA IdleFrame ==
    ASSUME Inv, work = Idle, UNCHANGED <<stored, table, work>>, spoilt \subseteq spoilt'
    PROVE  StoreInv' /\ RemovalInv' /\ CommitInv' /\ ControlInv' /\ StaleInv'
<1>1. work.at = "idle" /\ work.then = "idle" /\ work.index = Undefined
  BY WhenIdle
<1>2. \A i \in Indices : ~InDoubt(i)' => ~InDoubt(i)
  BY DEF InDoubt, stored
<1>3. StoreInv'
  BY <1>2 DEF Inv, StoreInv, Sound, Whole, Loadable, Listed, InTable, HasSlot, Removing, stored
<1>4. RemovalInv' /\ CommitInv' /\ ControlInv'
  BY <1>1 DEF RemovalInv, CommitInv, ControlInv, Committing, stored
<1>5. StaleInv'
  BY DEF Inv, StaleInv, InDoubt, Loadable, stored
<1>6. QED
  BY <1>3, <1>4, <1>5

LEMMA ArmFailSafeKeeps ==
    ASSUME Inv, NEW i \in Indices \cup {Undefined}, ArmFailSafe(i)
    PROVE  Inv'
<1>1. TypeInv'
  BY ArmFailSafeType DEF Inv
<1>2. StoreInv' /\ RemovalInv' /\ CommitInv' /\ ControlInv' /\ StaleInv'
  BY IdleFrame DEF ArmFailSafe, stored
<1>3. failSafe = Disarmed /\ ~failSafe.add /\ ~failSafe.update
  BY DEF Inv, FlagInv, ArmFailSafe, Disarmed
<1>4. flags \cap {"add", "update"} = {} /\ flags' = flags
  BY <1>3, WhenIdle DEF ArmFailSafe, NocCommandHasBeenInvoked
<1>5. failSafe'.add = FALSE /\ failSafe'.state = "armed" /\ work'.at = "idle"
  BY <1>3, WhenIdle DEF ArmFailSafe, Disarmed
<1>6. FlagInv'
  BY <1>4, <1>5 DEF FlagInv
<1>7. UpdateInv' /\ ChainInv'
  BY <1>4 DEF UpdateInv, ChainInv
<1>8. QED
  BY <1>1, <1>2, <1>6, <1>7 DEF Inv

LEMMA CSRRequestKeeps ==
    ASSUME Inv, NEW forUpdate \in BOOLEAN, CSRRequest(forUpdate)
    PROVE  Inv'
<1>1. TypeInv'
  BY CSRRequestType DEF Inv
<1>2. work = Idle /\ work' = work /\ UNCHANGED <<stored, table, spoilt>> /\ failSafe' = failSafe
  BY DEF CSRRequest, FailSafeCommand
<1>3. StoreInv' /\ RemovalInv' /\ CommitInv' /\ ControlInv' /\ StaleInv'
  BY <1>2, IdleFrame
<1>4. flags \cap {"add", "update"} = {}
  BY <1>2, WhenIdle DEF CSRRequest
<1>5. flags' \cap {"add", "update"} = {}
  BY <1>4 DEF CSRRequest
<1>6. FlagInv'
  BY <1>2, <1>5, WhenIdle DEF FlagInv, Inv
<1>7. UpdateInv' /\ ChainInv'
  BY <1>5 DEF UpdateInv, ChainInv
<1>8. QED
  BY <1>1, <1>3, <1>6, <1>7 DEF Inv

LEMMA AddTrustedRootCertificateKeeps ==
    ASSUME Inv, NEW r \in Roots, AddTrustedRootCertificate(r)
    PROVE  Inv'
<1>1. TypeInv'
  BY AddTrustedRootCertificateType DEF Inv
<1>2. work = Idle /\ work' = work /\ UNCHANGED <<stored, table, spoilt>>
  BY DEF AddTrustedRootCertificate, FailSafeCommand
<1>3. StoreInv' /\ RemovalInv' /\ CommitInv' /\ ControlInv' /\ StaleInv'
  BY <1>2, IdleFrame
<1>4. flags' \cap {"add", "update"} = {}
  BY DEF AddTrustedRootCertificate
<1>5. failSafe.state = "armed" /\ failSafe \in FailSafes
  BY DEF AddTrustedRootCertificate, FailSafeCommand, Inv, TypeInv, TypeOK
<1>6. /\ failSafe'.state = "armed" /\ failSafe'.add = failSafe.add
      /\ failSafe'.index = failSafe.index
  BY <1>5 DEF AddTrustedRootCertificate, FailSafes
<1>7. FlagInv'
  BY <1>2, <1>4, <1>6, WhenIdle DEF FlagInv, Inv
<1>8. UpdateInv' /\ ChainInv'
  BY <1>4 DEF UpdateInv, ChainInv
<1>9. QED
  BY <1>1, <1>3, <1>7, <1>8 DEF Inv

LEMMA FailSafeTimerExpiredKeeps ==
    ASSUME Inv, FailSafeTimerExpired
    PROVE  Inv'
<1>1. TypeInv'
  BY FailSafeTimerExpiredType DEF Inv
<1>2. /\ work = Idle /\ work' = work
      /\ UNCHANGED <<stored, table, flags, pending, shadow, certs, opKey, spoilt>>
  BY DEF FailSafeTimerExpired
<1>3. StoreInv' /\ RemovalInv' /\ CommitInv' /\ ControlInv' /\ StaleInv'
  BY <1>2, IdleFrame
<1>4. /\ failSafe'.state = "expired" /\ failSafe'.add = failSafe.add
      /\ failSafe'.index = failSafe.index /\ failSafe'.update = failSafe.update
  BY DEF FailSafeTimerExpired, Inv, TypeInv, TypeOK, FailSafes
<1>5. FlagInv'
  BY <1>2, <1>4 DEF FlagInv, Inv, Committing
<1>6. UpdateInv'
  BY <1>2 DEF UpdateInv, Inv, Listed, Loadable, Committing, Removing, stored
<1>7. ChainInv'
  BY <1>2 DEF ChainInv, Inv, KeyLink, OwnRoot, InTable, Loadable, Committing, stored
<1>8. QED
  BY <1>1, <1>3, <1>5, <1>6, <1>7 DEF Inv

\* The root of an addition is not that of a fabric in storage:
\* FindExistingFabricByNocChaining asks the table, which has all of them.
LEMMA AddNOCOwnRoot ==
    ASSUME Inv, NEW k \in 1 .. lastKey, NEW late \in BOOLEAN, AddNOC(k, late)
    PROVE  \A i : OwnRoot(i, certs.rcac)
<1>1. work = Idle /\ \A s \in Initialised(table) : table[s].noc.root # certs.rcac
  BY DEF AddNOC, FailSafeCommand
<1>2. ASSUME NEW j \in Indices, j \notin spoilt, Loadable(j)
      PROVE  store[j].rcac # certs.rcac
  <2>1. InTable(j, store[j].noc) /\ Whole(j)
    BY <1>1, <1>2, WhenIdle DEF Sound
  <2>2. PICK s \in Slots : table[s] = [index |-> j, noc |-> store[j].noc]
    BY <2>1 DEF InTable, TableHas
  <2>3. s \in Initialised(table)
    BY <2>2, ZeroIsNone DEF Initialised, FreeSlot
  <2>4. QED
    BY <1>1, <2>1, <2>2, <2>3 DEF Whole
<1>3. QED
  BY <1>2 DEF OwnRoot

LEMMA AddNOCKeeps ==
    ASSUME Inv, NEW k \in 1 .. lastKey, NEW late \in BOOLEAN, AddNOC(k, late)
    PROVE  Inv'
<1> DEFINE i == EnsuredNext(next, table)
           noc == [key |-> k, root |-> certs.rcac]
           f == First(Slots \ Initialised(table))
<1>1. TypeInv' /\ TypeInv
  BY AddNOCType DEF Inv
<1>2. i \in Indices /\ noc \in Noc
  BY <1>1, AddNOCFacts
<1>3. work = Idle /\ UNCHANGED stored /\ spoilt \subseteq spoilt'
  BY DEF AddNOC, FailSafeCommand, SpoiltByNoc
<1>4. f \in Slots /\ table[f] = FreeSlot
  BY FirstFree DEF AddNOC
<1>5. OwnRoot(i, certs.rcac)
  BY AddNOCOwnRoot
<1>6. flags \cap {"add", "update"} = {}
  BY <1>3, WhenIdle DEF AddNOC
<1> HIDE DEF i, noc, f
<1>7. table' = [table EXCEPT ![f] = [index |-> i, noc |-> noc]] /\ store[i].noc = NoNoc
  BY DEF AddNOC, i, noc, f
<1>8. table \in Tables
  BY <1>1 DEF TypeInv, TypeOK
<1>9. \A j \in Indices : \A n : TableHas(table, j, n) => TableHas(table', j, n)
  BY <1>4, <1>7, <1>8, ZeroIsNone DEF TableHas, FreeSlot, Tables
<1>10. \A j \in Indices : HasSlot(j)' => HasSlot(j) \/ j = i
  BY <1>4, <1>7, <1>8 DEF HasSlot, Tables
<1>11. TableHas(table', i, noc)
  BY <1>4, <1>7, <1>8 DEF TableHas, Tables
<1>12. /\ marker' = marker /\ store' = store /\ indexInfo' = indexInfo
       /\ work.at = "idle" /\ work.index = Undefined
  BY <1>3, WhenIdle DEF stored
<1>13. StoreInv' /\ StaleInv'
  <2>1. work' = work \/ work' = Removal(i, FALSE, "idle")
    BY DEF AddNOC, i
  <2>2. work'.at # "boot" /\ work'.at # "clear"
    BY <1>12, <2>1 DEF Removal, Idle
  <2>3. \A j \in Indices : ~InDoubt(j)' => j \notin spoilt /\ ~InDoubt(j)
    BY <1>3, WhenIdle DEF InDoubt
  <2>4. \A h \in Indices : Loadable(h)' <=> Loadable(h)
    BY <1>12 DEF Loadable
  <2>5. ASSUME NEW j \in Indices, ~InDoubt(j)' PROVE Sound(j)'
    <3>1. Sound(j) /\ ~Removing(j)
      BY <1>3, <2>3, <2>5, WhenIdle
    <3>2. Loadable(j) => TableHas(table', j, store[j].noc)
      BY <1>9, <1>12, <3>1 DEF Sound, InTable
    <3>3. HasSlot(j)' /\ store[j].noc # NoNoc => Loadable(j)
      BY <1>7, <1>10, <3>1 DEF Sound
    <3>4. QED
      BY <1>12, <2>3, <2>4, <3>1, <3>2, <3>3 DEF Sound, Whole, Listed, InTable
  <2>6. StaleInv'
    BY <1>1, <1>12, <2>3, <2>4 DEF Inv, StaleInv, TypeInv, TypeOK
  <2>7. QED
    BY <2>5, <2>6 DEF StoreInv
<1>14. CASE late
  <2>1. /\ work' = Removal(i, FALSE, "idle")
        /\ flags' = flags \cup {"data"} /\ UNCHANGED failSafe
    BY <1>14 DEF AddNOC, i
  <2>2. /\ work'.at = "remove" /\ work'.index = i /\ work'.then = "idle"
        /\ work'.item = 1
    BY <2>1 DEF Removal, Idle
  <2>3. flags' \cap {"add", "update"} = {}
    BY <1>6, <2>1
  <2>5. ControlInv'
    BY <1>2, <2>2, <2>3, ZeroIsNone DEF ControlInv, Committing
  <2>6. FlagInv'
    BY <2>1, <2>2, <2>3 DEF FlagInv, Inv
  <2>7. UpdateInv' /\ ChainInv'
    BY <2>3 DEF UpdateInv, ChainInv
  <2>8. CommitInv' /\ RemovalInv'
    BY <2>2 DEF CommitInv, RemovalInv
  <2>9. QED
    BY <1>1, <1>13, <2>5, <2>6, <2>7, <2>8 DEF Inv
<1>15. CASE ~late
  <2>1. /\ work' = work
        /\ flags' = flags \cup {"data", "add"}
        /\ failSafe' = [failSafe EXCEPT !.add = TRUE, !.index = i]
        /\ certs' = [certs EXCEPT !.noc = noc, !.called = @ \cup {"add"}]
        /\ opKey' = [opKey EXCEPT !.active = opKey.key # 0]
        /\ pending' = i /\ shadow' = shadow
    BY <1>15 DEF AddNOC, i, noc
  <2>2. work'.at = "idle" /\ work'.then = "idle" /\ work' = Idle
    BY <1>3, <2>1, WhenIdle
  <2>3. ControlInv'
    BY <2>2 DEF ControlInv, Committing
  <2>4. CommitInv' /\ RemovalInv'
    BY <2>2 DEF CommitInv, RemovalInv
  <2>5. "update" \notin flags' /\ "add" \in flags' /\ "data" \in flags'
    BY <1>6, <2>1
  <2>6. UpdateInv'
    BY <2>5 DEF UpdateInv
  <2>7. failSafe'.add /\ failSafe'.index = i /\ failSafe'.state = "armed"
    BY <1>1, <2>1 DEF TypeInv, TypeOK, FailSafes, AddNOC, FailSafeCommand
  <2>8. FlagInv'
    BY <1>2, <2>1, <2>2, <2>5, <2>7, ZeroIsNone DEF FlagInv
  <2>9. ChainInv'
    <3> SUFFICES ASSUME i \notin spoilt' PROVE ChainInv'
      BY <2>1 DEF ChainInv
    <3>1. /\ certs.index = i /\ certs.called = {"root"} /\ certs \in CertStates
          /\ opKey \in OpKeys
      BY <1>1 DEF AddNOC, i, TypeInv, TypeOK
    <3>2. /\ certs'.index = i /\ certs'.noc = noc /\ certs'.rcac = certs.rcac
          /\ certs'.called = {"root", "add"}
      BY <2>1, <3>1 DEF CertStates
    <3>3. noc.key = k /\ noc.root = certs.rcac
      BY DEF noc
    <3>4. KeyMatches(i, k) /\ spoilt' = SpoiltByNoc(i, k)
      BY DEF AddNOC, i
    <3>5. KeyLink'
      <4>1. CASE opKey.key # 0
        <5>1. opKey.index = i /\ opKey.key = k
          BY <3>4, <4>1 DEF KeyMatches
        <5>2. opKey' = [index |-> i, key |-> k, active |-> TRUE]
          BY <2>1, <3>1, <4>1, <5>1 DEF OpKeys
        <5>3. QED
          BY <2>1, <3>2, <3>3, <4>1, <5>1, <5>2 DEF KeyLink
      <4>2. CASE opKey.key = 0
        <5>1. store[i].key = k
          BY <3>4, <4>2 DEF SpoiltByNoc
        <5>2. opKey'.key = 0 /\ store' = store
          BY <1>3, <2>1, <3>1, <4>2 DEF OpKeys, stored
        <5>3. QED
          BY <2>1, <3>2, <3>3, <5>1, <5>2 DEF KeyLink
      <4>3. QED
        BY <4>1, <4>2
    <3>6. OwnRoot(pending, certs.noc.root)'
      BY <1>3, <1>5, <2>1, <3>2, <3>3 DEF OwnRoot, Loadable, stored
    <3>7. InTable(pending, certs.noc)'
      BY <1>11, <2>1, <3>2 DEF InTable
    <3>8. QED
      BY <2>1, <2>5, <3>2, <3>3, <3>5, <3>6, <3>7 DEF ChainInv
  <2>10. QED
    BY <1>1, <1>13, <2>3, <2>4, <2>6, <2>8, <2>9 DEF Inv
<1>16. QED
  BY <1>14, <1>15

LEMMA UpdateNOCKeeps ==
    ASSUME Inv, NEW k \in 1 .. lastKey, UpdateNOC(k)
    PROVE  Inv'
<1> DEFINE i == failSafe.index
           noc == [key |-> k, root |-> store[i].rcac]
           given == [index |-> i, noc |-> noc, rcac |-> 0, called |-> {"update"}]
<1>1. TypeInv' /\ TypeInv
  BY UpdateNOCType DEF Inv
<1>2. i \in Indices /\ noc \in Noc
  BY <1>1, UpdateNOCFacts
<1>3. work = Idle /\ work' = work /\ UNCHANGED <<stored, table>> /\ spoilt \subseteq spoilt'
  BY DEF UpdateNOC, FailSafeCommand, SpoiltByNoc
<1>4. StoreInv' /\ RemovalInv' /\ CommitInv' /\ ControlInv' /\ StaleInv'
  BY <1>3, IdleFrame
<1>5. flags \cap {"add", "update"} = {}
  BY <1>3, WhenIdle DEF UpdateNOC
<1>6. failSafe.state = "armed" /\ failSafe \in FailSafes /\ opKey \in OpKeys
  BY <1>1 DEF UpdateNOC, FailSafeCommand, TypeInv, TypeOK
<1> HIDE DEF i, noc, given
<1>7. CASE flags' = flags /\ failSafe' = failSafe
  <2>1. FlagInv'
    BY <1>3, <1>5, <1>7, WhenIdle DEF FlagInv, Inv
  <2>2. UpdateInv' /\ ChainInv'
    BY <1>5, <1>7 DEF UpdateInv, ChainInv
  <2>3. QED
    BY <1>1, <1>4, <2>1, <2>2 DEF Inv
<1>8. CASE /\ KeyMatches(i, k)
           /\ certs' = given
           /\ pending' = i
           /\ shadow' = noc
           /\ opKey' = [opKey EXCEPT !.active = opKey.key # 0]
           /\ flags' = flags \cup {"update", "data"}
           /\ failSafe' = [failSafe EXCEPT !.update = TRUE]
           /\ spoilt' = SpoiltByNoc(i, k)
  <2>1. "add" \notin flags' /\ "update" \in flags' /\ "data" \in flags'
    BY <1>5, <1>8
  <2>2. work'.at = "idle" /\ ~Committing'
    BY <1>3, WhenIdle DEF Committing
  <2>3. /\ failSafe'.update /\ failSafe'.state = "armed"
        /\ failSafe'.add = failSafe.add /\ failSafe'.index = failSafe.index
    BY <1>6, <1>8 DEF FailSafes
  <2>4. FlagInv'
    BY <1>2, <1>8, <2>1, <2>2, <2>3, ZeroIsNone DEF FlagInv, Inv
  <2>5. store[i].noc # NoNoc /\ HasSlot(i)
    <3>1. SlotsOf(table, i) # {}
      BY <1>2, ZeroIsNone DEF UpdateNOC, FailSafeCommand, Find, i
    <3>2. QED
      BY <3>1 DEF SlotsOf, HasSlot, UpdateNOC, i
  <2>6. ASSUME i \notin spoilt
        PROVE  Loadable(i) /\ Listed(i) /\ OwnRoot(i, store[i].rcac)
    <3>1. Sound(i) /\ ~Removing(i)
      BY <1>2, <1>3, <2>6, WhenIdle
    <3>2. Loadable(i)
      BY <2>5, <3>1 DEF Sound
    <3>3. QED
      BY <1>3, <3>1, <3>2, WhenIdle DEF Sound, OwnRoot
  <2>7. UpdateInv'
    <3>1. ~Removing(pending)'
      BY <2>2 DEF Removing
    <3>2. shadow' # NoNoc
      BY <1>2, <1>8, ZeroIsNone
    <3>3. pending' \notin spoilt' => Listed(pending)' /\ Loadable(pending)'
      BY <1>3, <1>8, <2>6 DEF Listed, Loadable, stored
    <3>4. QED
      BY <3>1, <3>2, <3>3 DEF UpdateInv
  <2>8. ChainInv'
    <3> SUFFICES ASSUME i \notin spoilt' PROVE ChainInv'
      BY <1>8 DEF ChainInv
    <3>1. /\ certs'.index = i /\ certs'.noc = noc /\ certs'.rcac = 0
          /\ noc.key = k /\ noc.root = store[i].rcac
      BY <1>8 DEF given, noc
    <3>2. KeyLink'
      <4>1. CASE opKey.key # 0
        <5>1. opKey.index = i /\ opKey.key = k
          BY <1>8, <4>1 DEF KeyMatches
        <5>2. opKey' = [index |-> i, key |-> k, active |-> TRUE]
          BY <1>6, <1>8, <4>1, <5>1 DEF OpKeys
        <5>3. QED
          BY <1>8, <3>1, <4>1, <5>1, <5>2 DEF KeyLink
      <4>2. CASE opKey.key = 0
        <5>1. store[i].key = k
          BY <1>8, <4>2 DEF SpoiltByNoc
        <5>2. opKey'.key = 0 /\ store' = store
          BY <1>3, <1>6, <1>8, <4>2 DEF OpKeys, stored
        <5>3. QED
          BY <1>8, <3>1, <5>1, <5>2 DEF KeyLink
      <4>3. QED
        BY <4>1, <4>2
    <3>3. OwnRoot(pending, certs.noc.root)'
      BY <1>3, <1>8, <2>6, <3>1 DEF OwnRoot, Loadable, stored
    <3>4. QED
      BY <1>3, <1>8, <2>1, <2>2, <3>1, <3>2, <3>3 DEF ChainInv, stored
  <2>9. QED
    BY <1>1, <1>4, <2>4, <2>7, <2>8 DEF Inv
<1>9. QED
  BY <1>7, <1>8 DEF UpdateNOC, i, noc, given

\* Only an index that loads already, has no NOC or is spoilt gets a new label.
LEMMA UpdateFabricLabelKeeps ==
    ASSUME Inv, NEW i \in Indices, UpdateFabricLabel(i)
    PROVE  Inv'
<1>1. TypeInv' /\ store \in [Indices -> StoredItems] /\ marker \in Indices \cup {Undefined}
  BY UpdateFabricLabelType DEF Inv, TypeInv, TypeOK
<1>2. /\ work = Idle /\ flags \cap {"add", "update"} = {}
      /\ store' = [store EXCEPT ![i].meta = 1]
      /\ UNCHANGED <<indexInfo, marker, table, flags, pending, failSafe, work, spoilt>>
  BY DEF UpdateFabricLabel, ram
<1>3. work.at = "idle" /\ work.then = "idle"
  BY <1>2, WhenIdle
<1>4. HasSlot(i)
  BY DEF UpdateFabricLabel, Find, SlotsOf, HasSlot
<1>5. i \notin spoilt /\ store[i].noc # NoNoc => Loadable(i)
  BY <1>2, <1>4, WhenIdle DEF Sound
<1>6. \A j \in Indices : /\ store'[j].key = store[j].key /\ store'[j].noc = store[j].noc
                         /\ store'[j].icac = store[j].icac
                         /\ store'[j].rcac = store[j].rcac
                         /\ j # i => store'[j].meta = store[j].meta
  BY <1>1, <1>2 DEF StoredItems
<1>7. store'[i].meta = 1
  BY <1>1, <1>2 DEF StoredItems
<1>8. \A j \in Indices : j \notin spoilt => (Loadable(j)' <=> Loadable(j))
  BY <1>5, <1>6, <1>7 DEF Loadable
<1>9. \A j \in Indices : InDoubt(j)' <=> InDoubt(j)
  BY <1>2 DEF InDoubt
<1>10. \A j \in Indices : ~InDoubt(j) => j \notin spoilt
  BY DEF InDoubt
<1>11. StoreInv'
  BY <1>2, <1>6, <1>8, <1>9, <1>10
  DEF Inv, StoreInv, Sound, Whole, Listed, InTable, HasSlot, Removing
<1>12. RemovalInv' /\ CommitInv' /\ ControlInv' /\ StaleInv'
  <2>1. RemovalInv' /\ CommitInv' /\ ControlInv'
    BY <1>2, <1>3 DEF RemovalInv, CommitInv, ControlInv, Committing
  <2>2. StaleInv'
    BY <1>1, <1>2, <1>8, <1>9, <1>10 DEF Inv, StaleInv
  <2>3. QED
    BY <2>1, <2>2
<1>13. FlagInv' /\ UpdateInv' /\ ChainInv'
  BY <1>2 DEF Inv, FlagInv, UpdateInv, ChainInv, Committing
<1>14. QED
  BY <1>1, <1>11, <1>12, <1>13 DEF Inv

\* A handler that goes from idle into a removal, with storage and table left alone.
LEMMA StartRemoval ==
    ASSUME Inv, work = Idle, UNCHANGED <<stored, table, spoilt>>,
           NEW i \in Indices, NEW again \in BOOLEAN,
           work' = Removal(i, again, "idle")
    PROVE  /\ ControlInv' /\ CommitInv' /\ RemovalInv' /\ StoreInv' /\ StaleInv'
           /\ work'.at = "remove" /\ work'.index = i
<1>1. work'.at = "remove" /\ work'.index = i /\ work'.then = "idle" /\ work'.item = 1
  BY DEF Removal, Idle
<1>2. marker' = marker /\ store' = store /\ indexInfo' = indexInfo
  BY DEF stored
<1>3. ControlInv'
  BY <1>1, ZeroIsNone DEF ControlInv, Committing
<1>4. CommitInv' /\ RemovalInv'
  BY <1>1 DEF CommitInv, RemovalInv
<1>5. \A j \in Indices : ~InDoubt(j)' => ~InDoubt(j) /\ j \notin spoilt
  BY WhenIdle DEF InDoubt
<1>6. StoreInv'
  <2> SUFFICES ASSUME NEW j \in Indices, ~InDoubt(j)' PROVE Sound(j)'
    BY DEF StoreInv
  <2>1. Sound(j) /\ ~Removing(j) /\ work.at = "idle"
    BY <1>5, WhenIdle
  <2>2. QED
    BY <1>2, <1>5, <2>1 DEF Sound, Whole, Loadable, Listed, InTable, HasSlot
<1>7. StaleInv'
  <2>1. marker \in Indices \cup {Undefined} /\ work.at # "clear"
    BY WhenIdle DEF Inv, TypeInv, TypeOK
  <2>2. QED
    BY <1>2, <1>5, <2>1 DEF Inv, StaleInv, Loadable
<1>8. QED
  BY <1>1, <1>3, <1>4, <1>6, <1>7

LEMMA RemoveFabricKeeps ==
    ASSUME Inv, NEW i \in Indices, RemoveFabric(i)
    PROVE  Inv'
<1>1. TypeInv'
  BY RemoveFabricType DEF Inv
<1>2. /\ work = Idle /\ work' = Removal(i, FALSE, "idle")
      /\ UNCHANGED <<stored, table, failSafe, spoilt>>
  BY DEF RemoveFabric
<1>3. /\ ControlInv' /\ CommitInv' /\ RemovalInv' /\ StoreInv' /\ StaleInv'
      /\ work'.at = "remove" /\ work'.index = i
  BY <1>2, StartRemoval
<1>4. CASE flags' = {}
  <2>1. FlagInv'
    BY <1>2, <1>4 DEF Inv, FlagInv
  <2>2. UpdateInv' /\ ChainInv'
    BY <1>4 DEF UpdateInv, ChainInv
  <2>3. QED
    BY <1>1, <1>3, <2>1, <2>2 DEF Inv
<1>5. CASE /\ UNCHANGED <<shadow, certs, opKey, flags, pending>>
           /\ ~({"data", "update"} \subseteq flags /\ shadow # NoNoc /\ pending = i)
  <2>1. ~Committing /\ ~Committing' /\ work.at = "idle"
    BY <1>2, <1>3, WhenIdle DEF Committing
  <2>2. flags \cap {"add", "update"} # {} => "data" \in flags
    BY <1>2, WhenIdle
  <2>3. FlagInv'
    BY <1>2, <1>3, <1>5, <2>2 DEF Inv, FlagInv
  <2>4. UpdateInv'
    BY <1>2, <1>3, <1>5, <2>1, <2>2 DEF Inv, UpdateInv, Listed, Loadable, Removing, stored
  <2>5. ChainInv'
    BY <1>2, <1>5, <2>1 DEF Inv, ChainInv, KeyLink, OwnRoot, InTable, Loadable, stored
  <2>6. QED
    BY <1>1, <1>3, <2>3, <2>4, <2>5 DEF Inv
<1>6. QED
  BY <1>4, <1>5 DEF RemoveFabric

LEMMA FailSafeCleanupKeeps ==
    ASSUME Inv, FailSafeCleanup
    PROVE  Inv'
<1>1. TypeInv'
  BY FailSafeCleanupType DEF Inv
<1>2. /\ work = Idle /\ flags' = {} /\ failSafe' = Disarmed
      /\ UNCHANGED <<stored, table, spoilt>>
  BY DEF FailSafeCleanup
<1>3. Disarmed.add = FALSE
  BY DEF Disarmed
<1>4. FlagInv'
  BY <1>2, <1>3 DEF FlagInv
<1>5. UpdateInv' /\ ChainInv'
  BY <1>2 DEF UpdateInv, ChainInv
<1>6. /\ pending \in Indices \cup {Undefined}
      /\ failSafe.index \in Indices \cup {Undefined} /\ failSafe.add \in BOOLEAN
  BY DEF Inv, TypeInv, TypeOK, FailSafes
<1>7. CASE "add" \in flags
  <2>1. pending \in Indices
    BY <1>6, <1>7 DEF Inv, FlagInv
  <2>2. ControlInv' /\ CommitInv' /\ RemovalInv' /\ StoreInv' /\ StaleInv'
    BY <1>2, <1>6, <1>7, <2>1, StartRemoval DEF FailSafeCleanup
  <2>3. QED
    BY <1>1, <1>4, <1>5, <2>2 DEF Inv
<1>8. CASE "add" \notin flags /\ failSafe.add
  <2>1. failSafe.index \in Indices
    BY <1>6, <1>8 DEF Inv, FlagInv
  <2>2. ControlInv' /\ CommitInv' /\ RemovalInv' /\ StoreInv' /\ StaleInv'
    BY <1>2, <1>8, <2>1, StartRemoval DEF FailSafeCleanup
  <2>3. QED
    BY <1>1, <1>4, <1>5, <2>2 DEF Inv
<1>9. CASE "add" \notin flags /\ ~failSafe.add
  <2>1. work' = work
    BY <1>2, <1>9 DEF FailSafeCleanup
  <2>2. ControlInv' /\ CommitInv' /\ RemovalInv' /\ StoreInv' /\ StaleInv'
    BY <1>2, <2>1, IdleFrame
  <2>3. QED
    BY <1>1, <1>4, <1>5, <2>2 DEF Inv
<1>10. QED
  BY <1>7, <1>8, <1>9

\* A power cut leaves the storage as it is, whatever handler was running.
LEMMA PowerCutKeeps ==
    ASSUME Inv, PowerCut
    PROVE  Inv'
<1>1. TypeInv'
  BY PowerCutType DEF Inv
<1>2. /\ flags' = {} /\ failSafe' = Disarmed /\ work' = Booting
      /\ table' = [s \in Slots |-> FreeSlot]
      /\ UNCHANGED <<store, indexInfo, marker, spoilt>>
  BY DEF PowerCut, stored
<1>3. work'.at = "boot" /\ work'.then = "idle" /\ Disarmed.add = FALSE
  BY <1>2 DEF Booting, Idle, Disarmed
<1>4. ControlInv' /\ CommitInv' /\ RemovalInv'
  BY <1>2, <1>3 DEF ControlInv, CommitInv, RemovalInv, Committing
<1>5. FlagInv' /\ UpdateInv' /\ ChainInv'
  BY <1>2, <1>3 DEF FlagInv, UpdateInv, ChainInv
<1>6. \A i \in Indices : ~HasSlot(i)'
  BY <1>2, ZeroIsNone DEF HasSlot, FreeSlot
<1>7. /\ \A i \in Indices : ~InDoubt(i)' => ~InDoubt(i)
      /\ marker # Undefined => InDoubt(marker)'
  BY <1>2, <1>3 DEF InDoubt
<1>8. StoreInv' /\ StaleInv'
  <2>1. StaleInv'
    BY <1>2, <1>7 DEF StaleInv
  <2>2. StoreInv'
    BY <1>2, <1>3, <1>6, <1>7 DEF Inv, StoreInv, Sound, Whole, Loadable, Listed
  <2>3. QED
    BY <2>1, <2>2
<1>9. QED
  BY <1>1, <1>4, <1>5, <1>8 DEF Inv

\* The boot finds every listed fabric that loads, and takes the one with the
\* commit marker away again.
LEMMA FabricTableInitKeeps ==
    ASSUME Inv, FabricTableInit
    PROVE  Inv'
<1>1. TypeInv' /\ marker \in Indices \cup {Undefined}
  BY FabricTableInitType DEF Inv, TypeInv, TypeOK
<1>2. /\ work = Booting /\ table' = LoadedTable
      /\ UNCHANGED <<store, indexInfo, marker, flags, failSafe, spoilt>>
      /\ work' = IF marker = Undefined THEN Idle ELSE Removal(marker, TRUE, "clear")
  BY DEF FabricTableInit, stored
<1>3. work.at = "boot" /\ flags = {}
  BY <1>2 DEF Inv, FlagInv, Booting, Idle
<1>4. UpdateInv' /\ ChainInv' /\ FlagInv'
  BY <1>2, <1>3 DEF Inv, UpdateInv, ChainInv, FlagInv
<1>5. \/ marker = Undefined /\ work' = Idle /\ work'.at = "idle" /\ work'.then = "idle"
      \/ /\ marker # Undefined /\ work'.at = "remove" /\ work'.then = "clear"
         /\ work'.item = 1 /\ work'.index = marker
  BY <1>2 DEF Idle, Removal
<1>6. ControlInv' /\ CommitInv' /\ RemovalInv'
  <2>1. marker' = marker /\ flags' = {}
    BY <1>2, <1>3
  <2>2. ControlInv'
    BY <1>5, <2>1 DEF ControlInv, Committing
  <2>3. CommitInv' /\ RemovalInv'
    BY <1>5 DEF CommitInv, RemovalInv
  <2>4. QED
    BY <2>2, <2>3
<1>7. ASSUME NEW i \in Indices, Loadable(i), Listed(i)
      PROVE  TableHas(table', i, store[i].noc)
  BY <1>2, <1>7, ZeroIsNone DEF Listed, TableHas, LoadedTable
<1>8. ASSUME NEW i \in Indices, HasSlot(i)'
      PROVE  Loadable(i)
  <2>1. PICK s \in Slots : LoadedTable[s].index = i
    BY <1>2, <1>8 DEF HasSlot
  <2>2. QED
    BY <2>1, ZeroIsNone DEF LoadedTable, FreeSlot
<1>9. \A i \in Indices : Loadable(i)' <=> Loadable(i)
  BY <1>2 DEF Loadable
<1>10. /\ \A i \in Indices : InDoubt(i)' <=> InDoubt(i)
       /\ marker # Undefined => InDoubt(marker)'
  BY <1>1, <1>2, <1>3, <1>5, ZeroIsNone DEF InDoubt
<1>11. StoreInv' /\ StaleInv'
  <2>1. StaleInv'
    BY <1>2, <1>10 DEF StaleInv
  <2> SUFFICES ASSUME NEW i \in Indices, ~InDoubt(i) PROVE Sound(i)'
    BY <1>10, <2>1 DEF StoreInv
  <2>2. Sound(i)
    BY DEF Inv, StoreInv
  <2>3. Loadable(i) => InTable(i, store[i].noc)'
    BY <1>2, <1>7, <2>2 DEF Sound, InTable
  <2>4. QED
    BY <1>2, <1>8, <1>9, <1>10, <2>2, <2>3 DEF Sound, Whole, Listed
<1>12. QED
  BY <1>1, <1>4, <1>6, <1>11 DEF Inv
-----------------------------------------------------------------------------
(* The end of a commit and the removal.                                    *)

\* Before the marker is cleared the fabric it names is sound or spoilt.  A marker
\* that stays behind on a fabric that loads spoils it.
LEMMA ClearCommitMarkerKeeps ==
    ASSUME Inv, ClearCommitMarker
    PROVE  Inv'
<1>1. TypeInv' /\ marker \in Indices \cup {Undefined}
  BY ClearCommitMarkerType DEF Inv, TypeInv, TypeOK
<1>2. /\ work.at = "clear" /\ work' = Idle
      /\ UNCHANGED <<store, indexInfo, table, flags>>
      /\ failSafe' \in {failSafe, Disarmed}
      /\ \/ marker' = Undefined /\ spoilt' = spoilt
         \/ marker' = marker /\ marker = Undefined /\ spoilt' = spoilt
         \/ marker' = marker /\ store[marker] = NothingStored /\ spoilt' = spoilt
         \/ marker' = marker /\ spoilt' = spoilt \cup {marker}
  BY DEF ClearCommitMarker
<1>3. /\ flags \cap {"add", "update"} = {}
      /\ work'.at = "idle" /\ work'.then = "idle"
      /\ work.index = Undefined /\ work'.index = Undefined
  BY <1>2 DEF Inv, ControlInv, Idle
<1>4. ControlInv' /\ CommitInv' /\ RemovalInv'
  BY <1>2, <1>3 DEF ControlInv, CommitInv, RemovalInv, Committing
<1>5. FlagInv'
  BY <1>2, <1>3 DEF Inv, FlagInv, Disarmed
<1>6. UpdateInv' /\ ChainInv'
  BY <1>2, <1>3 DEF UpdateInv, ChainInv
<1>7. \A i \in Indices : Loadable(i)' <=> Loadable(i)
  BY <1>2 DEF Loadable
<1>8. StaleInv'
  <2> SUFFICES ASSUME marker' # Undefined, marker' \notin spoilt' PROVE ~Loadable(marker)'
    BY DEF StaleInv, InDoubt
  <2>1. marker' = marker /\ store[marker] = NothingStored
    BY <1>2
  <2>2. QED
    BY <1>2, <2>1 DEF Loadable, NothingStored
<1>9. \A i \in Indices : ~InDoubt(i)' => ~InDoubt(i)
  BY <1>2, <1>3, ZeroIsNone DEF InDoubt
<1>10. StoreInv'
  <2> SUFFICES ASSUME NEW i \in Indices, ~InDoubt(i)' PROVE Sound(i)'
    BY DEF StoreInv
  <2>1. /\ Whole(i)' <=> Whole(i)
        /\ Listed(i)' <=> Listed(i)
        /\ InTable(i, store[i].noc)' <=> InTable(i, store[i].noc)
        /\ HasSlot(i)' <=> HasSlot(i)
    BY <1>2 DEF Whole, Listed, InTable, HasSlot
  <2>2. Sound(i) /\ ~Removing(i) /\ work.at # "boot"
    BY <1>2, <1>9 DEF Inv, StoreInv, Removing
  <2>3. QED
    BY <1>2, <1>7, <1>9, <2>1, <2>2 DEF Sound
<1>11. QED
  BY <1>1, <1>4, <1>5, <1>6, <1>8, <1>10 DEF Inv

\* Which index a step of a removal touches.
LEMMA RemoveItemFrame ==
    ASSUME Inv, RemoveItem
    PROVE  /\ work.at = "remove" /\ work.index \in Indices /\ work.item \in 1 .. 5
           /\ store \in [Indices -> StoredItems]
           /\ \A j \in Indices : j # work.index => store'[j] = store[j]
           /\ \A j \in Indices : j # work.index => (Loadable(j)' <=> Loadable(j))
           /\ spoilt \subseteq spoilt' /\ spoilt' \subseteq spoilt \cup {work.index}
<1>1. TypeInv /\ work.at = "remove" /\ work.index \in Indices
  BY DEF Inv, TypeInv, TypeOK, Works, ControlInv, RemoveItem
<1>2. store \in [Indices -> StoredItems] /\ work.item \in 1 .. 5
  BY <1>1 DEF TypeInv, TypeOK, Works
<1>3. /\ \A j \in Indices : j # work.index => store'[j] = store[j]
      /\ spoilt \subseteq spoilt' /\ spoilt' \subseteq spoilt \cup {work.index}
  BY <1>1, <1>2, RemoveItemCases
<1>4. QED
  BY <1>1, <1>2, <1>3 DEF Loadable

\* An index that is still not spoilt has lost the item.
LEMMA RemoveItemDone ==
    ASSUME Inv, RemoveItem, work.index \notin spoilt'
    PROVE  LET i == work.index
           IN  /\ store'[i].meta = IF work.item = 1 THEN 0 ELSE store[i].meta
               /\ store'[i].key = IF work.item = 2 THEN 0 ELSE store[i].key
               /\ store'[i].noc = IF work.item = 3 THEN NoNoc ELSE store[i].noc
               /\ store'[i].icac = IF work.item = 4 THEN NoNoc ELSE store[i].icac
               /\ store'[i].rcac = IF work.item = 5 THEN 0 ELSE store[i].rcac
<1> DEFINE i == work.index
<1>1. /\ TypeInv /\ i \in Indices /\ work.item \in 1 .. 5
      /\ store \in [Indices -> StoredItems]
  BY RemoveItemFrame DEF Inv
<1>2. /\ NothingStored["meta"] = 0 /\ NothingStored["key"] = 0
      /\ NothingStored["noc"] = NoNoc /\ NothingStored["icac"] = NoNoc
      /\ NothingStored["rcac"] = 0
  BY DEF NothingStored
<1>3. \/ store' = store /\ store[i][Items[work.item]] = NothingStored[Items[work.item]]
      \/ work.item = 1 /\ store' = [store EXCEPT ![i].meta = 0]
      \/ work.item = 2 /\ store' = [store EXCEPT ![i].key = 0]
      \/ work.item = 3 /\ store' = [store EXCEPT ![i].noc = NoNoc]
      \/ work.item = 4 /\ store' = [store EXCEPT ![i].icac = NoNoc]
      \/ work.item = 5 /\ store' = [store EXCEPT ![i].rcac = 0]
  BY <1>1, RemoveItemCases
<1> HIDE DEF i
<1>4. CASE store' = store /\ store[i][Items[work.item]] = NothingStored[Items[work.item]]
  <2>1. /\ work.item = 1 => store[i].meta = 0
        /\ work.item = 2 => store[i].key = 0
        /\ work.item = 3 => store[i].noc = NoNoc
        /\ work.item = 4 => store[i].icac = NoNoc
        /\ work.item = 5 => store[i].rcac = 0
    BY <1>2, <1>4, ItemsAre
  <2>2. QED
    BY <1>4, <2>1 DEF i
<1>5. CASE work.item = 1 /\ store' = [store EXCEPT ![i].meta = 0]
  BY <1>1, <1>5 DEF StoredItems, i
<1>6. CASE work.item = 2 /\ store' = [store EXCEPT ![i].key = 0]
  BY <1>1, <1>6 DEF StoredItems, i
<1>7. CASE work.item = 3 /\ store' = [store EXCEPT ![i].noc = NoNoc]
  BY <1>1, <1>7 DEF StoredItems, i
<1>8. CASE work.item = 4 /\ store' = [store EXCEPT ![i].icac = NoNoc]
  BY <1>1, <1>8 DEF StoredItems, i
<1>9. CASE work.item = 5 /\ store' = [store EXCEPT ![i].rcac = 0]
  BY <1>1, <1>9 DEF StoredItems, i
<1>10. QED
  BY <1>3, <1>4, <1>5, <1>6, <1>7, <1>8, <1>9

\* A removal leaves no fabric that loads unless it is spoilt: the metadata goes first.
LEMMA RemoveItemNotLoadable ==
    ASSUME Inv, RemoveItem, work.index \notin spoilt'
    PROVE  store'[work.index].meta = 0 /\ ~Loadable(work.index)' /\ work.index \notin spoilt
<1>1. work.index \notin spoilt /\ work.at = "remove" /\ work.item \in 1 .. 5
      /\ work'.index = work.index
  <2>1. work'.index = work.index
    BY RemoveItemWork DEF Inv, TypeInv, TypeOK, Works
  <2>2. QED
    BY <2>1, RemoveItemFrame
<1>2. work.item > 1 => store[work.index].meta = 0
  BY <1>1 DEF Inv, RemovalInv
<1>3. store'[work.index].meta = 0
  BY <1>1, <1>2, RemoveItemDone
<1>4. QED
  BY <1>1, <1>3 DEF Loadable

LEMMA RemoveItemKeeps ==
    ASSUME Inv, RemoveItem
    PROVE  Inv'
<1> DEFINE i == work.index
<1>1. TypeInv' /\ TypeInv
  BY RemoveItemType DEF Inv, ControlInv, RemoveItem
<1>2. /\ i \in Indices
      /\ \A j \in Indices : j # i => store'[j] = store[j]
      /\ \A j \in Indices : j # i => (Loadable(j)' <=> Loadable(j))
      /\ spoilt \subseteq spoilt' /\ spoilt' \subseteq spoilt \cup {i}
  BY RemoveItemFrame
<1>3. /\ work.at = "remove"
      /\ UNCHANGED <<indexInfo, marker, table, flags, pending, shadow, failSafe>>
  BY DEF RemoveItem
<1>4. /\ work \in Works /\ work.item \in 1 .. 5
      /\ store \in [Indices -> StoredItems] /\ store' \in [Indices -> StoredItems]
      /\ marker \in Indices \cup {Undefined}
  BY <1>1 DEF TypeInv, TypeOK, Works
<1>5. /\ work'.at = IF work.item = 5 THEN "unlist" ELSE "remove"
      /\ work'.item = IF work.item = 5 THEN 1 ELSE work.item + 1
      /\ work'.index = i /\ work'.then = work.then
  BY <1>1, <1>4, RemoveItemWork DEF Works
<1>6. ControlInv'
  BY <1>2, <1>3, <1>5, ZeroIsNone DEF Inv, ControlInv, Committing
<1>7. FlagInv'
  BY <1>3, <1>5 DEF Inv, FlagInv, Committing
<1>8. UpdateInv'
  <2> SUFFICES ASSUME "update" \in flags PROVE UpdateInv'
    BY <1>3 DEF UpdateInv
  <2>1. /\ ~Removing(pending) /\ shadow # NoNoc
        /\ pending \notin spoilt => Listed(pending) /\ Loadable(pending)
    BY <1>3 DEF Inv, UpdateInv, Committing
  <2>2. pending # i /\ pending \in Indices
    BY <1>1, <1>3, <2>1 DEF Removing, Inv, FlagInv, TypeInv, TypeOK
  <2>3. QED
    BY <1>2, <1>3, <1>5, <2>1, <2>2 DEF UpdateInv, Listed, Removing, Loadable
<1>9. CommitInv'
  BY <1>5 DEF CommitInv
<1>10. ASSUME i \notin spoilt'
       PROVE  /\ work.item > 0 => store'[i].meta = 0
              /\ work.item > 1 => store'[i].key = 0
              /\ work.item > 2 => store'[i].noc = NoNoc
              /\ work.item > 3 => store'[i].icac = NoNoc
              /\ work.item > 4 => store'[i].rcac = 0
  <2>1. /\ work.item > 1 => store[i].meta = 0
        /\ work.item > 2 => store[i].key = 0
        /\ work.item > 3 => store[i].noc = NoNoc
        /\ work.item > 4 => store[i].icac = NoNoc
    BY <1>2, <1>3, <1>10 DEF Inv, RemovalInv
  <2>2. QED
    BY <1>4, <1>10, <2>1, RemoveItemDone
<1>11. RemovalInv'
  <2>1. certs' = IF work.item = 3 THEN NoCerts ELSE certs
    BY <1>1, RemoveItemCases
  <2>2. work.item > 2 => certs' = NoCerts
    BY <1>3, <1>4, <2>1 DEF Inv, RemovalInv
  <2>3. CASE work.item \in 1 .. 4
    <3>1. work'.at = "remove" /\ work'.item = work.item + 1
      BY <1>5, <2>3
    <3>2. QED
      BY <1>5, <1>10, <2>2, <2>3, <3>1 DEF RemovalInv
  <2>4. CASE work.item = 5
    <3>1. i \notin spoilt' => store'[i] = NothingStored
      <4>1. store'[i] \in StoredItems
        BY <1>2, <1>4
      <4>2. QED
        BY <1>10, <2>4, <4>1 DEF StoredItems, NothingStored
    <3>2. QED
      BY <1>5, <2>2, <2>4, <3>1 DEF RemovalInv
  <2>5. QED
    BY <1>4, <2>3, <2>4
<1>12. ChainInv'
  <2> SUFFICES ASSUME flags \cap {"add", "update"} # {}, certs'.noc # NoNoc,
                      pending \notin spoilt'
               PROVE  ChainInv'
    BY <1>3 DEF ChainInv
  <2>1. NoCerts.noc = NoNoc
    BY DEF NoCerts
  <2>2. work.item \in {1, 2} /\ certs' = certs /\ pending \notin spoilt
    BY <1>1, <1>2, <1>3, <1>4, <2>1, RemoveItemCases DEF Inv, RemovalInv
  <2>3. /\ certs.index = pending /\ KeyLink /\ OwnRoot(pending, certs.noc.root)
        /\ "add" \in flags => /\ certs.rcac = certs.noc.root
                              /\ certs.called = {"root", "add"}
                              /\ InTable(pending, certs.noc)
        /\ "update" \in flags =>
              /\ certs.rcac = 0
              /\ certs.noc.root = store[pending].rcac
              /\ shadow = certs.noc
    BY <1>3, <2>2 DEF Inv, ChainInv, Committing
  <2>4. OwnRoot(pending, certs.noc.root)'
    <3> SUFFICES ASSUME NEW j \in Indices, j # pending, j \notin spoilt', Loadable(j)'
                 PROVE  store'[j].rcac # certs.noc.root
      BY <1>3, <2>2 DEF OwnRoot
    <3>1. j # i
      BY RemoveItemNotLoadable DEF Loadable
    <3>2. QED
      BY <1>2, <2>3, <3>1 DEF OwnRoot
  <2>5. pending \in Indices
    BY <1>1 DEF Inv, FlagInv, TypeInv, TypeOK
  <2>6. KeyLink'
    <3>1. CASE pending = i
      BY <1>3, <1>5, <2>2, <3>1 DEF KeyLink
    <3>2. CASE pending # i
      <4>1. store'[pending] = store[pending]
        BY <1>2, <2>5, <3>2
      <4>2. \/ /\ opKey.key # 0
               /\ opKey = [index |-> pending, key |-> certs.noc.key, active |-> TRUE]
            \/ opKey.key = 0 /\ store[pending].key = certs.noc.key
        BY <1>3, <2>3, <3>2 DEF KeyLink, Committing
      <4>3. opKey' = opKey \/ (opKey.index = i /\ opKey' = NoKey)
        BY <1>1, RemoveItemCases
      <4>4. NoKey.key = 0
        BY DEF NoKey
      <4>5. CASE opKey = [index |-> pending, key |-> certs.noc.key, active |-> TRUE]
                 /\ opKey.key # 0
        BY <1>3, <2>2, <3>2, <4>3, <4>5 DEF KeyLink
      <4>6. CASE opKey.key = 0 /\ store[pending].key = certs.noc.key
        BY <1>3, <2>2, <4>1, <4>3, <4>4, <4>6 DEF KeyLink
      <4>7. QED
        BY <4>2, <4>5, <4>6
    <3>3. QED
      BY <3>1, <3>2
  <2>7. "update" \in flags => pending # i
    BY <1>3 DEF Inv, UpdateInv, Committing, Removing
  <2>8. ~Committing'
    BY <1>5 DEF Committing
  <2>9. QED
    BY <1>2, <1>3, <2>2, <2>3, <2>4, <2>5, <2>6, <2>7, <2>8 DEF ChainInv, InTable
<1>13. \A j \in Indices : ~InDoubt(j)' => ~InDoubt(j)
  BY <1>2, <1>3, <1>5 DEF InDoubt
<1>14. StoreInv'
  <2> SUFFICES ASSUME NEW j \in Indices, ~InDoubt(j)' PROVE Sound(j)'
    BY DEF StoreInv
  <2>1. Sound(j)
    BY <1>13 DEF Inv, StoreInv
  <2>2. \A h \in Indices : Loadable(h)' /\ ~InDoubt(h)' => Loadable(h) /\ store'[h] = store[h]
    <3> SUFFICES ASSUME NEW h \in Indices, Loadable(h)', ~InDoubt(h)' PROVE h # i
      BY <1>2
    <3>1. h \notin spoilt'
      BY DEF InDoubt
    <3>2. QED
      BY <3>1, RemoveItemNotLoadable DEF Loadable
  <2>3. CASE j # i
    <3>1. store'[j] = store[j] /\ ~Removing(j) /\ work'.at # "boot" /\ work.at # "boot"
      BY <1>2, <1>3, <1>5, <2>3 DEF Removing
    <3>2. QED
      BY <1>2, <1>3, <1>13, <2>1, <2>2, <2>3, <3>1
      DEF Sound, Whole, Listed, InTable, HasSlot
  <2>4. CASE j = i
    <3>1. i \notin spoilt' /\ i \notin spoilt
      BY <1>2, <2>4 DEF InDoubt
    <3>2. Removing(j)' /\ ~Loadable(j)'
      BY <1>5, <1>10, <1>4, <2>4, <3>1 DEF Removing, Loadable
    <3>3. store'[j].key # 0 => Whole(j)'
      <4>1. CASE work.item = 1
        <5>1. /\ store'[i].key = store[i].key /\ store'[i].noc = store[i].noc
              /\ store'[i].icac = store[i].icac /\ store'[i].rcac = store[i].rcac
          BY <3>1, <4>1, RemoveItemDone
        <5>2. QED
          BY <2>1, <2>4, <5>1 DEF Sound, Whole
      <4>2. CASE work.item > 1
        BY <1>10, <2>4, <3>1, <4>2
      <4>3. QED
        BY <1>4, <4>1, <4>2
    <3>4. QED
      BY <3>2, <3>3 DEF Sound
  <2>5. QED
    BY <2>3, <2>4
<1>15. StaleInv'
  <2> SUFFICES ASSUME marker \in Indices, ~InDoubt(marker)' PROVE ~Loadable(marker)'
    BY <1>3, <1>4 DEF StaleInv
  <2>1. ~InDoubt(marker) /\ ~Loadable(marker) /\ marker # i
    BY <1>3, <1>5, <1>13, ZeroIsNone DEF Inv, StaleInv, InDoubt
  <2>2. QED
    BY <1>2, <1>3, <2>1 DEF Loadable
<1>16. QED
  BY <1>1, <1>6, <1>7, <1>8, <1>9, <1>11, <1>12, <1>14, <1>15 DEF Inv

\* The end of a removal takes the entry out of table and list, and no other.
LEMMA UnlistOthersStay ==
    ASSUME Inv, Unlist
    PROVE  /\ \A j \in Indices : \A n :
                 j # work.index /\ TableHas(table, j, n) => TableHas(table', j, n)
           /\ \A j \in Indices : HasSlot(j)' => HasSlot(j)
           /\ \A j \in Indices :
                 j # work.index /\ HasSlot(j) /\ Listed(j) => Listed(j)'
<1> DEFINE i == work.index
           f == First(SlotsOf(table, i))
           t == [table EXCEPT ![f] = FreeSlot]
<1>1. table \in Tables /\ FreeSlot.index = Undefined
  BY DEF Inv, TypeInv, TypeOK, FreeSlot
<1> HIDE DEF i
<1>2. CASE SlotsOf(table, i) = {}
  BY <1>2 DEF Unlist, TableHas, HasSlot, Listed, i
<1>3. CASE SlotsOf(table, i) # {}
  <2>1. f \in Slots /\ table[f].index = i
    BY <1>3, FirstSlot
  <2> HIDE DEF f
  <2> DEFINE after == IF next = Undefined THEN i ELSE next
  <2>2. table' = t /\ (indexInfo' = indexInfo \/ indexInfo'.list = IndexList(t))
    <3>1. table' = t /\ \E ok \in Outcome("index") :
              indexInfo' = IF ok THEN [next |-> after, list |-> IndexList(t)] ELSE indexInfo
      BY <1>3, Zenon DEF Unlist, i, f
    <3> HIDE DEF t, after
    <3>2. QED
      BY <3>1
  <2>3. t \in Tables /\ t[f] = FreeSlot /\ \A s \in Slots : s # f => t[s] = table[s]
    BY <1>1, <2>1 DEF Tables
  <2> HIDE DEF t
  <2>4. ASSUME NEW j \in Indices, NEW n, j # i, TableHas(table, j, n)
        PROVE  TableHas(table', j, n)
    BY <2>1, <2>2, <2>3, <2>4 DEF TableHas
  <2>5. ASSUME NEW j \in Indices, HasSlot(j)'
        PROVE  HasSlot(j)
    BY <1>1, <2>2, <2>3, <2>5, ZeroIsNone DEF HasSlot
  <2>6. ASSUME NEW j \in Indices, j # i, HasSlot(j), Listed(j)
        PROVE  Listed(j)'
    <3>1. PICK s \in Slots : table[s].index = j
      BY <2>6 DEF HasSlot
    <3>2. IndexList(t)[s] = j
      BY <2>1, <2>3, <2>6, <3>1 DEF IndexList
    <3>3. QED
      BY <2>2, <2>6, <3>2 DEF Listed
  <2>7. QED
    BY <2>4, <2>5, <2>6 DEF i
<1>4. QED
  BY <1>2, <1>3

LEMMA UnlistKeeps ==
    ASSUME Inv, Unlist
    PROVE  Inv'
<1> DEFINE i == work.index
<1>1. TypeInv' /\ TypeInv
  BY UnlistType DEF Inv
<1>2. /\ work.at = "unlist" /\ work \in Works /\ work.then \in {"idle", "clear"}
      /\ UNCHANGED <<store, marker, flags, pending, shadow, certs, opKey, failSafe>>
  BY <1>1 DEF Unlist, TypeInv, TypeOK, Works
<1>3. /\ i \in Indices /\ certs = NoCerts
      /\ work.then = "clear" => flags \cap {"add", "update"} = {}
      /\ i \notin spoilt => store[i] = NothingStored
      /\ spoilt' = IF store[i] = NothingStored THEN spoilt \ {i} ELSE spoilt
      /\ marker \in Indices \cup {Undefined}
  BY <1>1, <1>2 DEF Inv, ControlInv, RemovalInv, Works, Unlist, TypeInv, TypeOK
<1>4. i \notin spoilt' => store[i].key = 0 /\ store[i].noc = NoNoc /\ ~Loadable(i)
  BY <1>3 DEF NothingStored, Loadable
<1>5. \/ /\ work'.at = "remove" /\ work'.index = i /\ work'.item = 1
         /\ work'.then = work.then
      \/ /\ work'.at = "clear" /\ work.then = "clear" /\ work'.then = "idle"
         /\ work'.index = Undefined
      \/ /\ work' = Idle /\ work.then = "idle" /\ work'.then = "idle"
         /\ work'.at = "idle" /\ work'.index = Undefined
  <2>1. CASE work.again
    <3>1. work' = Removal(i, FALSE, work.then)
      BY <2>1 DEF Unlist
    <3>2. QED
      BY <3>1 DEF Removal, Idle
  <2>2. CASE ~work.again
    <3>1. work' = [Idle EXCEPT !.at = work.then, !.err = work.err /\ work.then = "clear"]
      BY <2>2 DEF Unlist
    <3>2. CASE work.then = "clear"
      BY <3>1, <3>2 DEF Idle
    <3>3. CASE work.then = "idle"
      <4>1. (work.err /\ work.then = "clear") = FALSE
        BY <3>3
      <4>2. work' = [Idle EXCEPT !.at = "idle", !.err = FALSE]
        BY <3>1, <3>3, <4>1
      <4>3. QED
        BY <3>3, <4>2 DEF Idle
    <3>4. QED
      BY <1>2, <3>2, <3>3
  <2>3. QED
    BY <2>1, <2>2
<1> HIDE DEF i
<1>6. ControlInv'
  BY <1>2, <1>3, <1>5, ZeroIsNone DEF ControlInv, Committing
<1>7. FlagInv'
  BY <1>2, <1>5 DEF Inv, FlagInv, Committing
<1>8. ChainInv'
  BY <1>2, <1>3 DEF ChainInv, NoCerts
<1>9. CommitInv' /\ RemovalInv'
  BY <1>5 DEF CommitInv, RemovalInv
<1>10. \A h \in Indices : Loadable(h)' <=> Loadable(h)
  BY <1>2 DEF Loadable
<1>11. \A j \in Indices : ~InDoubt(j)' => (j # i /\ ~InDoubt(j)) \/ (j = i /\ i \notin spoilt')
  BY <1>2, <1>3, <1>5 DEF InDoubt, i
<1>12. ASSUME NEW j \in Indices, Loadable(j), ~InDoubt(j), j # i
       PROVE  Listed(j)' /\ TableHas(table', j, store[j].noc)
  <2>1. TableHas(table, j, store[j].noc) /\ Listed(j)
    BY <1>2, <1>12 DEF Inv, StoreInv, Sound, InTable
  <2>2. HasSlot(j)
    BY <2>1 DEF TableHas, HasSlot
  <2>3. QED
    BY <1>12, <2>1, <2>2, UnlistOthersStay DEF i
<1>13. UpdateInv'
  <2> SUFFICES ASSUME "update" \in flags
               PROVE  /\ ~Removing(pending)' /\ shadow # NoNoc
                      /\ pending \notin spoilt' => Listed(pending)' /\ Loadable(pending)'
    BY <1>2 DEF UpdateInv
  <2>1. /\ pending \in Indices /\ ~Removing(pending) /\ shadow # NoNoc
        /\ pending \notin spoilt => Loadable(pending)
    BY <1>1, <1>2 DEF Inv, UpdateInv, FlagInv, Committing, TypeInv, TypeOK
  <2>2. pending # i
    BY <1>2, <2>1 DEF Removing, i
  <2>3. ~Removing(pending)'
    BY <1>2, <1>5, <2>2 DEF Removing
  <2>4. ASSUME pending \notin spoilt' PROVE Listed(pending)' /\ Loadable(pending)'
    <3>1. pending \notin spoilt /\ ~InDoubt(pending)
      BY <1>2, <1>3, <2>2, <2>4 DEF InDoubt, i
    <3>2. QED
      BY <1>2, <1>12, <2>1, <2>2, <3>1 DEF Listed, Loadable
  <2>5. QED
    BY <2>1, <2>3, <2>4
<1>14. StoreInv'
  <2> SUFFICES ASSUME NEW j \in Indices, ~InDoubt(j)' PROVE Sound(j)'
    BY DEF StoreInv
  <2>1. CASE j = i
    <3>1. store'[j].key = 0 /\ store'[j].noc = NoNoc /\ ~Loadable(j)'
      BY <1>2, <1>4, <1>10, <1>11, <2>1
    <3>2. QED
      BY <3>1 DEF Sound
  <2>2. CASE j # i
    <3>1. Sound(j) /\ ~Removing(j) /\ ~InDoubt(j)
      BY <1>11, <2>2 DEF Inv, StoreInv, Removing, i
    <3>2. HasSlot(j)' => HasSlot(j)
      BY UnlistOthersStay
    <3>3. Loadable(j) => Listed(j)' /\ InTable(j, store[j].noc)'
      BY <1>2, <1>12, <2>2, <3>1 DEF InTable
    <3>4. \A h \in Indices : ~InDoubt(h)' /\ Loadable(h)' => ~InDoubt(h) /\ Loadable(h)
      BY <1>4, <1>10, <1>11
    <3>5. QED
      BY <1>2, <1>10, <3>1, <3>2, <3>3, <3>4 DEF Sound, Whole
  <2>3. QED
    BY <2>1, <2>2
<1>15. StaleInv'
  <2> SUFFICES ASSUME marker \in Indices, ~InDoubt(marker)' PROVE ~Loadable(marker)
    BY <1>2, <1>3, <1>10 DEF StaleInv, Loadable
  <2>1. CASE marker # i
    BY <1>2, <1>11, <2>1, ZeroIsNone DEF Inv, StaleInv, InDoubt
  <2>2. CASE marker = i
    <3>1. i \notin spoilt'
      BY <1>2, <2>2 DEF InDoubt
    <3>2. QED
      BY <1>4, <2>2, <3>1
  <2>3. QED
    BY <2>1, <2>2
<1>16. QED
  BY <1>1, <1>6, <1>7, <1>8, <1>9, <1>13, <1>14, <1>15 DEF Inv
-----------------------------------------------------------------------------
(* The commit.                                                             *)

\* The marker is stored and names the fabric before anything else is touched; a
\* fabric whose marker is refused is spoilt.
LEMMA CommitStarts ==
    ASSUME Inv, work = Idle, CommissioningComplete,
           NocCommandHasBeenInvoked, "data" \in flags, ReadyToCommit
    PROVE  Inv'
<1> DEFINE f == First(SlotsOf(table, pending))
<1>1. TypeInv' /\ TypeInv
  BY CommissioningCompleteType DEF Inv
<1>2. PICK ok \in BOOLEAN :
         /\ marker' = IF ok THEN pending ELSE marker
         /\ work' = [Idle EXCEPT !.at = "commit", !.index = pending, !.err = ~ok]
         /\ spoilt' = IF ok THEN spoilt ELSE spoilt \cup {pending}
  BY DEF CommissioningComplete, Outcome
<1>3. /\ flags' = flags \ {"data"}
      /\ table' = IF "update" \in flags THEN [table EXCEPT ![f].noc = shadow] ELSE table
      /\ UNCHANGED <<store, indexInfo, pending, certs, opKey, failSafe>>
  BY DEF CommissioningComplete
<1>4. /\ work'.at = "commit" /\ work'.index = pending /\ work'.item = 1
      /\ work'.certErr = FALSE /\ work'.then = "idle" /\ Committing'
      /\ spoilt \subseteq spoilt' /\ spoilt' \subseteq spoilt \cup {pending}
      /\ marker' = pending \/ (pending \in spoilt' /\ marker' = marker)
  BY <1>2 DEF Idle, Committing
<1>5. /\ pending \in Indices /\ SlotsOf(table, pending) # {}
      /\ flags \cap {"add", "update"} # {}
  BY <1>1, ZeroIsNone DEF ReadyToCommit, Find, TypeInv, TypeOK
<1>6. f \in Slots /\ table[f].index = pending
  BY <1>5, FirstSlot
<1>7. work.at = "idle" /\ ~Committing
  BY WhenIdle
<1> HIDE DEF f
<1>8. table \in Tables /\ table' \in Tables
  BY <1>1 DEF TypeInv, TypeOK
<1>9. /\ \A s \in Slots : table'[s].index = table[s].index
      /\ \A s \in Slots : s # f => table'[s] = table[s]
  BY <1>3, <1>6, <1>8 DEF Tables, FreeSlot
<1>10. ControlInv'
  BY <1>3, <1>4, <1>5, ZeroIsNone DEF ControlInv
<1>11. FlagInv'
  BY <1>3, <1>4 DEF Inv, FlagInv
<1>12. UpdateInv'
  BY <1>3, <1>4 DEF Inv, UpdateInv, Listed
<1>13. CommitInv' /\ RemovalInv'
  BY <1>4 DEF CommitInv, RemovalInv
<1>14. ChainInv'
  <2> SUFFICES ASSUME certs.noc # NoNoc, pending \notin spoilt' PROVE ChainInv'
    BY <1>3 DEF ChainInv
  <2>1. /\ certs.index = pending /\ KeyLink /\ OwnRoot(pending, certs.noc.root)
        /\ "add" \in flags => /\ certs.rcac = certs.noc.root
                              /\ certs.called = {"root", "add"}
                              /\ InTable(pending, certs.noc)
        /\ "update" \in flags =>
              /\ certs.rcac = 0
              /\ certs.noc.root = store[pending].rcac
              /\ shadow = certs.noc
    BY <1>4, <1>5, <1>7 DEF Inv, ChainInv
  <2>2. KeyLink'
    BY <1>3, <1>7, <2>1 DEF KeyLink
  <2>3. OwnRoot(pending, certs.noc.root)'
    BY <1>3, <1>4, <2>1 DEF OwnRoot, Loadable
  <2>4. "add" \in flags => TableHas(table', pending, certs.noc)
    BY <1>3, <2>1 DEF Inv, FlagInv, InTable
  <2>5. "update" \in flags => TableHas(table', pending, certs.noc)
    <3>1. SUFFICES ASSUME "update" \in flags PROVE TableHas(table', pending, certs.noc)
      OBVIOUS
    <3>2. table[f] \in [index : Indices, noc : Noc]
      BY <1>5, <1>6, <1>8, ZeroIsNone DEF Tables, FreeSlot
    <3>3. table'[f] = [index |-> pending, noc |-> certs.noc]
      BY <1>3, <1>6, <1>8, <2>1, <3>1, <3>2 DEF Tables
    <3>4. QED
      BY <1>6, <3>3 DEF TableHas
  <2>6. QED
    BY <1>3, <1>4, <2>1, <2>2, <2>3, <2>4, <2>5 DEF ChainInv, InTable
<1>15. /\ \A h \in Indices : Loadable(h)' <=> Loadable(h)
       /\ \A h \in Indices : ~InDoubt(h)' => ~InDoubt(h) /\ h \notin spoilt /\ h # pending
  <2>1. \A h \in Indices : Loadable(h)' <=> Loadable(h)
    BY <1>3 DEF Loadable
  <2>2. \A h \in Indices : ~InDoubt(h)' => h \notin spoilt /\ h # pending
    BY <1>4 DEF InDoubt
  <2>3. QED
    BY <2>1, <2>2, WhenIdle
<1>16. StoreInv'
  <2> SUFFICES ASSUME NEW j \in Indices, ~InDoubt(j)' PROVE Sound(j)'
    BY DEF StoreInv
  <2>1. Sound(j) /\ ~Removing(j) /\ work.at = "idle" /\ j # pending
    BY <1>15, WhenIdle
  <2>2. Loadable(j) => InTable(j, store[j].noc)'
    <3>1. SUFFICES ASSUME NEW s \in Slots, table[s] = [index |-> j, noc |-> store[j].noc]
                   PROVE  table'[s] = table[s]
      BY <1>3, <2>1 DEF Sound, InTable, TableHas
    <3>2. QED
      BY <1>6, <1>9, <2>1, <3>1
  <2>3. HasSlot(j)' <=> HasSlot(j)
    BY <1>9 DEF HasSlot
  <2>4. QED
    BY <1>3, <1>15, <2>1, <2>2, <2>3 DEF Sound, Whole, Listed
<1>17. StaleInv'
  <2> SUFFICES ASSUME marker' \in Indices, ~InDoubt(marker)' PROVE ~Loadable(marker)'
    BY <1>1 DEF StaleInv, TypeInv, TypeOK
  <2>1. marker' = marker /\ ~InDoubt(marker)
    BY <1>4, <1>15
  <2>2. QED
    BY <1>7, <1>15, <2>1, ZeroIsNone DEF Inv, StaleInv
<1>18. QED
  BY <1>1, <1>10, <1>11, <1>12, <1>13, <1>14, <1>16, <1>17 DEF Inv

LEMMA CommissioningCompleteKeeps ==
    ASSUME Inv, CommissioningComplete
    PROVE  Inv'
<1>1. TypeInv' /\ work = Idle
  BY CommissioningCompleteType DEF Inv, CommissioningComplete, FailSafeCommand
<1>2. CASE /\ ~NocCommandHasBeenInvoked
           /\ failSafe' = Disarmed
           /\ UNCHANGED <<marker, table, flags, pending, shadow, certs, opKey, work, spoilt>>
  <2>1. StoreInv' /\ RemovalInv' /\ CommitInv' /\ ControlInv' /\ StaleInv'
    BY <1>1, <1>2, IdleFrame DEF CommissioningComplete, stored
  <2>2. flags' \cap {"add", "update"} = {} /\ work'.at = "idle" /\ failSafe'.add = FALSE
    BY <1>1, <1>2, WhenIdle DEF Disarmed
  <2>3. FlagInv' /\ UpdateInv' /\ ChainInv'
    BY <1>2, <2>2 DEF FlagInv, UpdateInv, ChainInv
  <2>4. QED
    BY <1>1, <2>1, <2>3 DEF Inv
<1>3. CASE /\ flags' = {} /\ failSafe' \in {failSafe, Disarmed}
           /\ UNCHANGED <<marker, table, work, spoilt>>
  <2>1. StoreInv' /\ RemovalInv' /\ CommitInv' /\ ControlInv' /\ StaleInv'
    BY <1>1, <1>3, IdleFrame DEF CommissioningComplete, stored
  <2>2. FlagInv'
    BY <1>3 DEF Inv, FlagInv, Disarmed
  <2>3. UpdateInv' /\ ChainInv'
    BY <1>3 DEF UpdateInv, ChainInv
  <2>4. QED
    BY <1>1, <2>1, <2>2, <2>3 DEF Inv
<1>4. CASE NocCommandHasBeenInvoked /\ "data" \in flags /\ ReadyToCommit
  BY <1>1, <1>4, CommitStarts
<1>5. QED
  BY <1>2, <1>3, <1>4 DEF CommissioningComplete

\* A commit that has gone well adds the fabric to the index list or finds it there.
LEMMA CommitIndexKeeps ==
    ASSUME Inv, CommitIndex
    PROVE  Inv'
<1>1. TypeInv' /\ TypeInv
  BY CommitIndexType DEF Inv
<1>2. /\ work.at = "index" /\ flags' = {}
      /\ UNCHANGED <<store, marker, table, certs, opKey, failSafe, spoilt>>
  BY DEF CommitIndex
<1>3. /\ work.index \in Indices /\ pending = work.index
      /\ marker = work.index \/ work.index \in spoilt
      /\ marker \in Indices \cup {Undefined}
      /\ flags \cap {"add", "update"} # {}
  BY <1>1, <1>2 DEF Inv, ControlInv, Committing, TypeInv, TypeOK, Works
<1>4. \/ "add" \notin flags /\ indexInfo' = indexInfo
      \/ "add" \in flags /\ indexInfo' = indexInfo
      \/ "add" \in flags /\ indexInfo'.list = IndexList(table)
  BY DEF CommitIndex
<1>5. \/ work' = [Removal(work.index, FALSE, "clear") EXCEPT !.err = TRUE]
      \/ /\ work' = [Idle EXCEPT !.at = "clear"] /\ ~work.err
         /\ "add" \in flags => indexInfo'.list = IndexList(table)
  <2> DEFINE n == IF "add" \in flags THEN UpdatedNext(next, table) ELSE next
             removal == [Removal(work.index, FALSE, "clear") EXCEPT !.err = TRUE]
             clear == [Idle EXCEPT !.at = "clear"]
             list == IndexList(table)
  <2>1. PICK ok \in IF "add" \in flags THEN Outcome("index") ELSE {TRUE} :
              /\ indexInfo' = IF "add" \in flags /\ ok
                              THEN [next |-> n, list |-> list] ELSE indexInfo
              /\ work' = IF work.err \/ ~ok THEN removal ELSE clear
    BY Zenon DEF CommitIndex
  <2> HIDE DEF n, removal, clear, list
  <2>2. work' = removal \/ (work' = clear /\ ~work.err
                              /\ ("add" \in flags => indexInfo'.list = list))
    BY <2>1
  <2>3. QED
    BY <2>2 DEF removal, clear, list
<1>6. \/ /\ work'.at = "remove" /\ work'.index = work.index /\ work'.then = "clear"
         /\ work'.item = 1
      \/ /\ work'.at = "clear" /\ ~work.err /\ work'.then = "idle"
         /\ work'.index = Undefined
         /\ "add" \in flags => indexInfo'.list = IndexList(table)
  BY <1>3, <1>5 DEF Removal, Idle
<1>7. ASSUME NEW j \in Indices, NEW n, InTable(j, n), Listed(j) \/ indexInfo'.list = IndexList(table)
      PROVE  Listed(j)'
  <2>1. PICK s \in Slots : table[s].index = j
    BY <1>7 DEF InTable, TableHas
  <2>2. IndexList(table)[s] = j
    BY <2>1 DEF IndexList
  <2>3. QED
    BY <1>4, <1>7, <2>2 DEF Listed
<1>8. ControlInv' /\ RemovalInv'
  BY <1>2, <1>3, <1>6, ZeroIsNone DEF ControlInv, RemovalInv, Committing
<1>9. FlagInv' /\ UpdateInv' /\ ChainInv'
  BY <1>2, <1>6 DEF Inv, FlagInv, UpdateInv, ChainInv
<1>10. CommitInv'
  BY <1>6 DEF CommitInv
<1>11. \A h \in Indices : Loadable(h)' <=> Loadable(h)
  BY <1>2 DEF Loadable
<1>12. \A h \in Indices : ~InDoubt(h)' =>
          /\ h \notin spoilt
          /\ h # work.index => ~InDoubt(h)
          /\ h = work.index => work'.at = "clear"
  BY <1>2, <1>3, <1>6 DEF InDoubt
<1>13. ASSUME work'.at = "clear", work.index \notin spoilt
       PROVE  Installed(work.index) /\ \E s \in Slots : indexInfo'.list[s] = work.index
  <2>1. Installed(work.index)
    BY <1>2, <1>6, <1>13 DEF Inv, CommitInv
  <2>2. Listed(work.index) \/ indexInfo'.list = IndexList(table)
    BY <1>3, <1>6, <1>13 DEF Inv, UpdateInv
  <2>3. PICK i \in Indices : i = work.index
    BY <1>3
  <2>4. Listed(i)'
    BY <1>7, <2>1, <2>2, <2>3 DEF Installed
  <2>5. \E s \in Slots : indexInfo'.list[s] = work.index
    BY <2>3, <2>4 DEF Listed
  <2>6. QED
    BY <2>1, <2>5
<1>14. StoreInv'
  <2> SUFFICES ASSUME NEW j \in Indices, ~InDoubt(j)' PROVE Sound(j)'
    BY DEF StoreInv
  <2>1. CASE j # work.index
    <3>1. Sound(j) /\ ~Removing(j) /\ work.at # "boot"
      BY <1>2, <1>12, <2>1 DEF Inv, StoreInv, Removing
    <3>2. Loadable(j) => Listed(j)'
      BY <1>2, <1>7, <3>1 DEF Sound
    <3>3. ASSUME NEW h \in Indices, h # j, ~InDoubt(h)', Loadable(h), Loadable(j)
          PROVE  store[h].rcac # store[j].rcac
      <4>1. CASE h # work.index
        BY <1>12, <3>1, <3>3, <4>1 DEF Sound
      <4>2. CASE h = work.index
        <5>1. Installed(h)
          BY <1>12, <1>13, <3>3, <4>2
        <5>2. QED
          BY <1>12, <3>3, <5>1 DEF Installed, OwnRoot
      <4>3. QED
        BY <4>1, <4>2
    <3>4. QED
      BY <1>2, <1>11, <3>1, <3>2, <3>3 DEF Sound, Whole, InTable, HasSlot
  <2>2. CASE j = work.index
    <3>1. Installed(j) /\ work'.at = "clear" /\ j \notin spoilt
      BY <1>12, <1>13, <2>2
    <3>2. Listed(j)'
      BY <1>13, <2>2, <3>1 DEF Listed
    <3>3. store[j].key # 0
      <4>1. store[j].noc \in Noc
        BY <1>1, <3>1 DEF Installed, Loadable, StoredItems, TypeInv, TypeOK
      <4>2. QED
        BY <3>1, <4>1, ZeroIsNone DEF Installed, Whole
    <3>4. \A h \in Indices : h # j /\ ~InDoubt(h)' /\ Loadable(h) => store[h].rcac # store[j].rcac
      BY <1>12, <3>1 DEF Installed, OwnRoot
    <3>5. QED
      BY <1>2, <1>11, <3>1, <3>2, <3>3, <3>4 DEF Sound, Installed, Whole, InTable
  <2>3. QED
    BY <2>1, <2>2
<1>15. StaleInv'
  <2> SUFFICES ASSUME marker \in Indices, ~InDoubt(marker)', work'.at # "clear"
               PROVE  ~Loadable(marker)
    BY <1>2, <1>3 DEF StaleInv, Loadable
  <2>1. marker # work.index /\ ~InDoubt(marker)
    BY <1>2, <1>12
  <2>2. QED
    BY <1>2, <2>1, ZeroIsNone DEF Inv, StaleInv
<1>16. QED
  BY <1>1, <1>8, <1>9, <1>10, <1>14, <1>15 DEF Inv

\* What the pending chain of a running commit is worth.
LEMMA ChainOfCommit ==
    ASSUME Inv, work.at = "commit", certs.noc # NoNoc, work.index \notin spoilt
    PROVE  /\ certs.noc \in Noc
           /\ HasPendingChain(work.index)
           /\ InTable(work.index, certs.noc)
           /\ OwnRoot(work.index, certs.noc.root)
           /\ \/ certs.rcac = certs.noc.root
              \/ certs.rcac = 0 /\ store[work.index].rcac = certs.noc.root
           /\ ~work.err =>
                 \/ /\ opKey.key # 0 /\ opKey.index = work.index /\ opKey.active
                    /\ opKey.key = certs.noc.key
                 \/ opKey.key = 0 /\ store[work.index].key = certs.noc.key
<1>1. certs.noc \in Noc
  BY DEF Inv, TypeInv, TypeOK, CertStates
<1>2. pending = work.index /\ flags \cap {"add", "update"} # {} /\ Committing
  BY DEF Inv, ControlInv, Committing
<1>3. /\ certs.index = pending
      /\ KeyLink
      /\ OwnRoot(pending, certs.noc.root)
      /\ InTable(pending, certs.noc)
      /\ \/ certs.rcac = certs.noc.root /\ certs.called = {"root", "add"}
         \/ certs.rcac = 0 /\ certs.noc.root = store[pending].rcac
  BY <1>2 DEF Inv, ChainInv
<1>4. HasPendingChain(work.index)
  BY <1>2, <1>3 DEF HasPendingChain
<1>5. ~work.err =>
         \/ /\ opKey.key # 0 /\ opKey.index = work.index /\ opKey.active
            /\ opKey.key = certs.noc.key
         \/ opKey.key = 0 /\ store[work.index].key = certs.noc.key
  BY <1>2, <1>3 DEF KeyLink
<1>6. QED
  BY <1>1, <1>2, <1>3, <1>4, <1>5

\* What every write of a commit has in common.
LEMMA CommitItemFrame ==
    ASSUME Inv, CommitItem
    PROVE  /\ work.index \in Indices /\ pending = work.index
           /\ marker = work.index \/ work.index \in spoilt
           /\ flags \cap {"add", "update"} # {}
           /\ \A j \in Indices : j # work.index => store'[j] = store[j]
           /\ work'.index = work.index /\ work'.then = work.then
           /\ work.item # 5 => work'.at = "commit"
           /\ work.item = 5 => work'.at \in {"undo", "index"}
           /\ work'.at = "undo" => work'.err
           /\ work.err => work'.err
           /\ work.certErr => work.err
           /\ work'.certErr => work'.err
<1>1. TypeInv /\ work.at = "commit" /\ work.item \in 1 .. 5
  BY DEF Inv, TypeInv, TypeOK, Works, CommitItem
<1>2. /\ work.index \in Indices /\ pending = work.index
      /\ marker = work.index \/ work.index \in spoilt
      /\ flags \cap {"add", "update"} # {} /\ (work.certErr => work.err)
  BY <1>1 DEF Inv, ControlInv, Committing, TypeInv, TypeOK, Works
<1>3. PICK ok \in BOOLEAN : WriteItem(work.index, Items[work.item], ok)
  BY DEF CommitItem, Outcome
<1>4. Items[work.item] = "rcac" <=> work.item = 5
  BY <1>1, ItemsAre
<1>5. Items[work.item] # "rcac" => work.item < 5
  BY <1>1, <1>4
<1>6. /\ work'.index = work.index /\ work'.then = work.then
      /\ work.item # 5 => work'.at = "commit"
      /\ work.item = 5 => work'.at \in {"undo", "index"}
      /\ work'.at = "undo" => work'.certErr
      /\ work.err => work'.err
      /\ (work'.certErr /\ ~work.certErr) => work'.err
  BY <1>1, <1>3, <1>4, <1>5, WriteItemWork
<1>7. \/ store' = store
      \/ \E e, v : store' = [store EXCEPT ![work.index][e] = v]
  BY <1>3 DEF WriteItem
<1>8. \A j \in Indices : j # work.index => store'[j] = store[j]
  BY <1>1, <1>7 DEF TypeInv, TypeOK
<1>9. QED
  BY <1>2, <1>6, <1>8

\* How far a commit has come after the next write.
LEMMA CommitItemCommitInv ==
    ASSUME Inv, CommitItem
    PROVE  /\ CommitInv'
           /\ certs'.noc # NoNoc =>
                 /\ work.item # 5 /\ certs' = certs
                 /\ store'[work.index].rcac = store[work.index].rcac
                 /\ ~work'.err /\ work.index \notin spoilt =>
                       \/ opKey' = opKey /\ store'[work.index].key = store[work.index].key
                       \/ opKey'.key = 0 /\ store'[work.index].key = certs.noc.key
<1>0. PICK i \in Indices : i = work.index
  BY CommitItemFrame
<1>1. TypeInv /\ work.at = "commit" /\ work.item \in 1 .. 5
  BY DEF Inv, TypeInv, TypeOK, Works, CommitItem
<1>2. store \in [Indices -> StoredItems] /\ opKey \in OpKeys
  BY <1>1 DEF TypeInv, TypeOK
<1>3. i \in Indices /\ work'.index = i /\ marker' = marker /\ spoilt' = spoilt
  BY <1>0, CommitItemFrame DEF CommitItem
<1>4. ~work.err /\ i \notin spoilt =>
         /\ work.item > 1 => store[i].meta = 1
         /\ work.item > 2 /\ certs.noc # NoNoc => opKey.key = 0
         /\ work.item > 3 => certs.noc # NoNoc /\ store[i].noc = certs.noc
         /\ work.item > 4 => store[i].icac = certs.noc
  BY <1>0, <1>1 DEF Inv, CommitInv
<1>5. NoKey.key = 0 /\ NoCerts.noc = NoNoc
  BY DEF NoKey, NoCerts
<1>6. CASE work.item = 1
  <2>1. PICK ok \in BOOLEAN :
              /\ store' = IF ok
                         THEN [store EXCEPT ![i].meta = 1] ELSE store
              /\ opKey' = opKey
              /\ certs' = certs
              /\ work'.at = "commit" /\ work'.item = 2
              /\ work'.err <=> (work.err \/ ~ok)
    BY <1>0, <1>1, <1>6, CommitMeta
  <2>2. /\ store'[i].rcac = store[i].rcac /\ store'[i].key = store[i].key
        /\ ok => store'[i].meta = 1
    BY <1>2, <1>3, <2>1 DEF StoredItems
  <2>3. QED
    BY <1>0, <1>3, <1>6, <2>1, <2>2 DEF CommitInv
<1>7. CASE work.item = 2
  <2>1. PICK ok \in BOOLEAN :
              /\ store' = IF IsWritten("key", i) /\ ok
                         THEN [store EXCEPT ![i].key = opKey.key] ELSE store
              /\ opKey' = IF IsWritten("key", i) \/ Missing("key", i) THEN NoKey ELSE opKey
              /\ certs' = certs
              /\ work'.at = "commit" /\ work'.item = 3
              /\ work'.err <=> (work.err \/ Missing("key", i) \/ (IsWritten("key", i) /\ ~ok))
    BY <1>0, <1>1, <1>7, CommitKey
  <2>2. /\ store'[i].rcac = store[i].rcac /\ store'[i].meta = store[i].meta
        /\ store'[i].key = IF IsWritten("key", i) /\ ok THEN opKey.key ELSE store[i].key
    BY <1>2, <1>3, <2>1 DEF StoredItems
  <2>3. ASSUME ~work'.err, certs.noc # NoNoc, i \notin spoilt
        PROVE  /\ opKey'.key = 0
               /\ store'[i].key = certs.noc.key
    <3>1. ~work.err /\ ~Missing("key", i) /\ (IsWritten("key", i) => ok)
      BY <2>1, <2>3
    <3>2. \/ /\ opKey.key # 0 /\ opKey.index = i /\ opKey.active
             /\ opKey.key = certs.noc.key
          \/ opKey.key = 0 /\ store[i].key = certs.noc.key
      BY <1>0, <1>1, <2>3, <3>1, ChainOfCommit
    <3>3. IsWritten("key", i) <=> (opKey.key # 0 /\ opKey.index = i /\ opKey.active)
      BY DEF IsWritten
    <3>4. QED
      BY <1>5, <2>1, <2>2, <3>1, <3>2, <3>3
  <2>4. CommitInv'
    BY <1>0, <1>3, <1>4, <1>7, <2>1, <2>2, <2>3 DEF CommitInv
  <2>5. QED
    BY <1>0, <1>7, <2>1, <2>2, <2>3, <2>4
<1>8. CASE work.item = 3
  <2>1. PICK ok \in BOOLEAN :
              /\ store' = IF HasPendingChain(i) /\ ok
                         THEN [store EXCEPT ![i].noc = certs.noc] ELSE store
              /\ opKey' = opKey
              /\ certs' = certs
              /\ work'.at = "commit" /\ work'.item = 4
              /\ work'.err <=> (work.err \/ ~HasPendingChain(i) \/ ~ok)
    BY <1>0, <1>1, <1>8, CommitNoc
  <2>2. /\ store'[i].rcac = store[i].rcac /\ store'[i].meta = store[i].meta
        /\ store'[i].key = store[i].key
        /\ HasPendingChain(i) /\ ok => store'[i].noc = certs.noc
    BY <1>2, <1>3, <2>1 DEF StoredItems
  <2>3. HasPendingChain(i) => certs.noc # NoNoc
    BY DEF HasPendingChain
  <2>4. CommitInv'
    BY <1>0, <1>3, <1>4, <1>8, <2>1, <2>2, <2>3 DEF CommitInv
  <2>5. QED
    BY <1>0, <1>8, <2>1, <2>2, <2>4
<1>9. CASE work.item = 4
  <2>1. PICK ok \in BOOLEAN :
              /\ store' = IF HasPendingChain(i) /\ ok
                         THEN [store EXCEPT ![i].icac = certs.noc] ELSE store
              /\ opKey' = opKey
              /\ certs' = certs
              /\ work'.at = "commit" /\ work'.item = 5
              /\ work'.err <=> (work.err \/ (HasPendingChain(i) /\ ~ok))
    BY <1>0, <1>1, <1>9, CommitIcac
  <2>2. /\ store'[i].rcac = store[i].rcac /\ store'[i].meta = store[i].meta
        /\ store'[i].key = store[i].key /\ store'[i].noc = store[i].noc
        /\ HasPendingChain(i) /\ ok => store'[i].icac = certs.noc
    BY <1>2, <1>3, <2>1 DEF StoredItems
  <2>3. ~work.err /\ i \notin spoilt => HasPendingChain(i)
    BY <1>0, <1>1, <1>4, <1>9, ChainOfCommit
  <2>4. CommitInv'
    BY <1>0, <1>3, <1>4, <1>9, <2>1, <2>2, <2>3 DEF CommitInv
  <2>5. QED
    BY <1>0, <1>9, <2>1, <2>2, <2>4
<1>10. CASE work.item = 5
  <2>1. PICK ok \in BOOLEAN :
              /\ store' = IF HasPendingChain(i) /\ certs.rcac # 0 /\ ok
                         THEN [store EXCEPT ![i].rcac = certs.rcac] ELSE store
              /\ certs' = NoCerts
              /\ work'.at \in {"undo", "index"}
              /\ work'.err <=> (work.err \/ (HasPendingChain(i) /\ certs.rcac # 0 /\ ~ok))
    BY <1>0, <1>1, <1>10, CommitRcac
  <2>2. ASSUME ~work'.err, i \notin spoilt PROVE Installed(i)'
    <3>1. ~work.err /\ (HasPendingChain(i) /\ certs.rcac # 0 => ok)
      BY <2>1, <2>2
    <3>2. certs.noc # NoNoc /\ store[i].noc = certs.noc /\ store[i].icac = certs.noc
          /\ store[i].meta = 1 /\ opKey.key = 0
      BY <1>4, <1>10, <2>2, <3>1
    <3>3. /\ certs.noc \in Noc /\ HasPendingChain(i)
          /\ InTable(i, certs.noc) /\ OwnRoot(i, certs.noc.root)
          /\ \/ certs.rcac = certs.noc.root
             \/ certs.rcac = 0 /\ store[i].rcac = certs.noc.root
          /\ store[i].key = certs.noc.key
      BY <1>0, <1>1, <2>2, <3>1, <3>2, ChainOfCommit
    <3>4. certs.noc.root # 0
      BY <3>3, ZeroIsNone
    <3>5. \/ certs.rcac # 0 /\ store' = [store EXCEPT ![i].rcac = certs.rcac]
          \/ certs.rcac = 0 /\ store' = store
      BY <2>1, <3>1, <3>3
    <3>6. /\ store'[i].noc = certs.noc /\ store'[i].icac = certs.noc
          /\ store'[i].meta = 1 /\ store'[i].key = certs.noc.key
          /\ store'[i].rcac = certs.noc.root
      BY <1>2, <1>3, <3>2, <3>3, <3>4, <3>5 DEF StoredItems
    <3>7. \A j \in Indices : j # i => store'[j] = store[j]
      BY <1>2, <1>3, <3>5
    <3>8. OwnRoot(i, store[i].rcac)'
      BY <1>3, <3>3, <3>6, <3>7 DEF OwnRoot, Loadable
    <3>9. InTable(i, store[i].noc)'
      BY <1>3, <3>3, <3>6 DEF InTable, CommitItem
    <3>10. Loadable(i)' /\ Whole(i)'
      BY <1>3, <3>2, <3>4, <3>6 DEF Loadable, Whole
    <3>11. QED
      BY <3>8, <3>9, <3>10 DEF Installed
  <2>3. ~work'.err /\ work'.index \notin spoilt' => Installed(work.index)'
    <3> SUFFICES ASSUME ~work'.err, work'.index \notin spoilt' PROVE Installed(work.index)'
      OBVIOUS
    <3>1. Installed(i)'
      BY <1>3, <2>2
    <3>2. QED
      BY <1>3, <3>1 DEF Installed, Loadable, Whole, InTable, OwnRoot
  <2>4. CommitInv'
    BY <2>1, <2>3, CommitItemFrame DEF CommitInv
  <2>5. QED
    BY <1>5, <2>1, <2>4
<1>11. QED
  BY <1>1, <1>6, <1>7, <1>8, <1>9, <1>10

\* A write or a delete of a commit touches only an index that is in doubt.
LEMMA CommitWriteSound ==
    ASSUME Inv, NEW i \in Indices, i = work.index, marker = i \/ i \in spoilt,
           \A j \in Indices : j # i => store'[j] = store[j],
           work.at \in {"commit", "undo"}, work'.at \in {"commit", "undo", "index"},
           work'.index = i, UNCHANGED <<indexInfo, marker, table, spoilt>>
    PROVE  StoreInv' /\ StaleInv'
<1>1. marker \in Indices \cup {Undefined}
  BY DEF Inv, TypeInv, TypeOK
<1>2. \A j \in Indices : ~InDoubt(j)' => j # i /\ ~InDoubt(j)
  BY DEF InDoubt
<1>3. StoreInv'
  <2> SUFFICES ASSUME NEW j \in Indices, ~InDoubt(j)' PROVE Sound(j)'
    BY DEF StoreInv
  <2>1. Sound(j) /\ ~Removing(j) /\ ~Removing(j)' /\ work.at # "boot"
    BY <1>2 DEF Inv, StoreInv, Removing
  <2>2. \A h \in Indices : h # i => store'[h] = store[h] /\ (Loadable(h)' <=> Loadable(h))
    BY DEF Loadable
  <2>3. QED
    BY <1>2, <2>1, <2>2 DEF Sound, Whole, Listed, InTable, HasSlot
<1>4. StaleInv'
  <2> SUFFICES ASSUME NEW m \in Indices, marker = m, ~InDoubt(m)' PROVE ~Loadable(m)'
    BY <1>1 DEF StaleInv, InDoubt, Loadable
  <2>1. m # i /\ ~InDoubt(m) /\ m # Undefined
    BY <1>2, ZeroIsNone
  <2>2. ~Loadable(m)
    BY <2>1 DEF Inv, StaleInv
  <2>3. QED
    BY <2>1, <2>2 DEF Loadable
<1>5. QED
  BY <1>3, <1>4

LEMMA CommitItemKeeps ==
    ASSUME Inv, CommitItem
    PROVE  Inv'
<1>1. TypeInv' /\ TypeInv
  BY CommitItemType DEF Inv
<1>2. PICK i \in Indices :
      /\ i = work.index /\ pending = i
      /\ marker = i \/ i \in spoilt
      /\ flags \cap {"add", "update"} # {}
      /\ \A j \in Indices : j # i => store'[j] = store[j]
      /\ work'.index = i /\ work'.then = work.then
      /\ work'.at \in {"commit", "undo", "index"}
      /\ work.err => work'.err
      /\ work'.certErr => work'.err
  BY CommitItemFrame
<1>3. /\ work.at = "commit"
      /\ UNCHANGED <<indexInfo, marker, table, flags, pending, shadow, failSafe, spoilt>>
  BY DEF CommitItem
<1>4. Committing /\ Committing'
  BY <1>2, <1>3 DEF Committing
<1>5. ControlInv'
  BY <1>2, <1>3, <1>4, ZeroIsNone DEF Inv, ControlInv
<1>6. FlagInv'
  BY <1>2, <1>3, <1>4 DEF Inv, FlagInv
<1>7. UpdateInv'
  BY <1>3, <1>4 DEF Inv, UpdateInv, Listed
<1>8. RemovalInv'
  BY <1>2 DEF RemovalInv
<1>9. ChainInv'
  <2> SUFFICES ASSUME certs'.noc # NoNoc, i \notin spoilt PROVE ChainInv'
    BY <1>2, <1>3 DEF ChainInv
  <2>1. /\ certs' = certs /\ store'[i].rcac = store[i].rcac
        /\ ~work'.err =>
              \/ opKey' = opKey /\ store'[i].key = store[i].key
              \/ opKey'.key = 0 /\ store'[i].key = certs.noc.key
    BY <1>2, CommitItemCommitInv
  <2>2. /\ certs.index = pending
        /\ KeyLink
        /\ OwnRoot(pending, certs.noc.root)
        /\ "add" \in flags => /\ certs.rcac = certs.noc.root
                              /\ certs.called = {"root", "add"}
                              /\ InTable(pending, certs.noc)
        /\ "update" \in flags => /\ certs.rcac = 0
                                 /\ certs.noc.root = store[pending].rcac
                                 /\ InTable(pending, certs.noc)
    BY <1>2, <1>4, <2>1 DEF Inv, ChainInv
  <2>3. KeyLink'
    BY <1>2, <1>3, <1>4, <2>1, <2>2 DEF KeyLink
  <2>4. OwnRoot(pending, certs.noc.root)'
    BY <1>2, <1>3, <2>1, <2>2 DEF OwnRoot, Loadable
  <2>5. QED
    BY <1>2, <1>3, <1>4, <2>1, <2>2, <2>3, <2>4 DEF ChainInv, InTable
<1>10. StoreInv' /\ StaleInv'
  BY <1>1, <1>2, <1>3, CommitWriteSound
<1>11. QED
  BY <1>1, <1>5, <1>6, <1>7, <1>8, <1>9, <1>10, CommitItemCommitInv DEF Inv

LEMMA UndoItemKeeps ==
    ASSUME Inv, UndoItem
    PROVE  Inv'
<1>1. TypeInv' /\ TypeInv
  BY UndoItemType DEF Inv
<1>2. /\ work.at = "undo" /\ work.err /\ certs = NoCerts
      /\ UNCHANGED <<indexInfo, marker, table, next, flags, pending, shadow, certs,
                     opKey, failSafe, spoilt>>
  BY DEF Inv, CommitInv, UndoItem, ram
<1>3. PICK i \in Indices :
      /\ i = work.index /\ pending = i
      /\ marker = i \/ i \in spoilt
      /\ flags \cap {"add", "update"} # {}
  BY <1>1, <1>2 DEF Inv, ControlInv, Committing, TypeInv, TypeOK, Works
<1>4. /\ \A j \in Indices : j # i => store'[j] = store[j]
      /\ work'.index = i /\ work'.then = work.then
      /\ work'.at \in {"undo", "index"} /\ work'.err
  BY <1>1, <1>2, <1>3, UndoItemFrame
<1>5. Committing /\ Committing'
  BY <1>2, <1>4 DEF Committing
<1>6. ControlInv'
  BY <1>2, <1>3, <1>4, <1>5, ZeroIsNone DEF Inv, ControlInv
<1>7. FlagInv'
  BY <1>2, <1>4, <1>5 DEF Inv, FlagInv
<1>8. UpdateInv'
  BY <1>2, <1>5 DEF Inv, UpdateInv, Listed
<1>9. ChainInv' /\ CommitInv' /\ RemovalInv'
  BY <1>2, <1>4 DEF ChainInv, CommitInv, RemovalInv, NoCerts
<1>10. StoreInv' /\ StaleInv'
  BY <1>1, <1>2, <1>3, <1>4, CommitWriteSound
<1>11. QED
  BY <1>1, <1>6, <1>7, <1>8, <1>9, <1>10 DEF Inv
-----------------------------------------------------------------------------
(* The invariant and what follows from it.                                 *)

LEMMA InitInv == Init => Inv
<1> SUFFICES ASSUME Init PROVE Inv
  OBVIOUS
<1>1. TypeInv
  BY InitTypeOK
<1>2. /\ work = Idle /\ marker = Undefined /\ flags = {} /\ failSafe = Disarmed
      /\ work.at = "idle" /\ work.then = "idle" /\ failSafe.add = FALSE
  BY DEF Init, Idle, Disarmed
<1>3. ControlInv /\ CommitInv /\ RemovalInv /\ StaleInv
  BY <1>2 DEF ControlInv, CommitInv, RemovalInv, Committing, StaleInv
<1>4. FlagInv /\ UpdateInv /\ ChainInv
  BY <1>2 DEF FlagInv, UpdateInv, ChainInv
<1>5. \A i \in Indices : store[i].key = 0 /\ store[i].noc = NoNoc
  BY DEF Init, NothingStored
<1>6. StoreInv
  BY <1>5 DEF StoreInv, Sound, Loadable
<1>7. QED
  BY <1>1, <1>3, <1>4, <1>6 DEF Inv

LEMMA StepInv ==
    ASSUME Inv, [Next]_vars
    PROVE  Inv'
<1>1. CASE UNCHANGED vars
  <2>1. TypeInv'
    BY <1>1 DEF vars, stored, ram, Inv, TypeInv, TypeOK, RootInv
  <2>2. ControlInv' /\ FlagInv'
    BY <1>1 DEF vars, stored, ram, Inv, ControlInv, FlagInv, Committing
  <2>3. UpdateInv' /\ ChainInv'
    BY <1>1 DEF vars, stored, ram, Inv, UpdateInv, ChainInv, Committing, Listed, Loadable,
                Removing, KeyLink, OwnRoot, InTable
  <2>4. CommitInv' /\ RemovalInv'
    BY <1>1 DEF vars, stored, ram, Inv, CommitInv, RemovalInv, Installed, Loadable, Whole,
                InTable, OwnRoot, Listed
  <2>5. StoreInv' /\ StaleInv'
    BY <1>1 DEF vars, stored, ram, Inv, StoreInv, StaleInv, InDoubt, Sound, Loadable, Whole,
                Listed, InTable, HasSlot, Removing
  <2>6. QED
    BY <2>1, <2>2, <2>3, <2>4, <2>5 DEF Inv
<1>2. CASE \E i \in Indices \cup {Undefined} : ArmFailSafe(i)
  BY <1>2, ArmFailSafeKeeps
<1>3. CASE \E forUpdate \in BOOLEAN : CSRRequest(forUpdate)
  BY <1>3, CSRRequestKeeps
<1>4. CASE \E r \in Roots : AddTrustedRootCertificate(r)
  BY <1>4, AddTrustedRootCertificateKeeps
<1>5. CASE \E k \in 1 .. lastKey, late \in BOOLEAN : AddNOC(k, late)
  BY <1>5, AddNOCKeeps
<1>6. CASE \E k \in 1 .. lastKey : UpdateNOC(k)
  BY <1>6, UpdateNOCKeeps
<1>7. CASE \E i \in Indices : UpdateFabricLabel(i) \/ RemoveFabric(i)
  BY <1>7, UpdateFabricLabelKeeps, RemoveFabricKeeps
<1>8. CASE CommissioningComplete
  BY <1>8, CommissioningCompleteKeeps
<1>9. CASE CommitItem \/ UndoItem \/ CommitIndex \/ ClearCommitMarker
  BY <1>9, CommitItemKeeps, UndoItemKeeps, CommitIndexKeeps, ClearCommitMarkerKeeps
<1>10. CASE RemoveItem \/ Unlist
  BY <1>10, RemoveItemKeeps, UnlistKeeps
<1>11. CASE FailSafeTimerExpired \/ FailSafeCleanup
  BY <1>11, FailSafeTimerExpiredKeeps, FailSafeCleanupKeeps
<1>12. CASE PowerCut \/ FabricTableInit
  BY <1>12, PowerCutKeeps, FabricTableInitKeeps
<1>13. QED
  BY <1>1, <1>2, <1>3, <1>4, <1>5, <1>6, <1>7, <1>8, <1>9, <1>10, <1>11, <1>12 DEF Next

LEMMA Invariance == Spec => []Inv
<1>1. Inv /\ [Next]_vars => Inv'
  BY StepInv
<1>2. QED
  BY InitInv, <1>1, PTL DEF Spec

\* Every variable of the fabric table, its pending stores and the storage keeps
\* its type; in particular an index stays within its range when NextFabricIndex
\* wraps (UpdateNextAvailableFabricIndex).
THEOREM TypeCorrect == Spec => []TypeOK
<1>1. Inv => TypeOK
  BY DEF Inv, TypeInv
<1>2. QED
  BY <1>1, Invariance, PTL

\* What is live is not in doubt.
LEMMA LiveIsSound ==
    ASSUME Inv, NEW i \in Indices, Live(i)
    PROVE  ~InDoubt(i) /\ Sound(i) /\ Loadable(i)
BY DEF Live, InDoubt, Inv, StoreInv

\* A fabric that a boot would load is stored completely, unless it is spoilt.
LEMMA RestoredIsWhole ==
    ASSUME Inv, NEW i \in Indices
    PROVE  /\ (Restored(i) /\ i \notin spoilt) <=> Live(i)
           /\ Live(i) => Whole(i) /\ store[i].noc \in Noc
<1>1. Live(i) => Whole(i) /\ Listed(i)
  BY LiveIsSound DEF Sound
<1>2. Live(i) => store[i].noc \in Noc
  BY DEF Live, Loadable, Inv, TypeInv, TypeOK, StoredItems
<1>3. QED
  BY <1>1, <1>2 DEF Restored, Live, Listed

\* A power cut between any two storage writes of a commit, a removal or a
\* recovery (CommitPendingFabricData, Delete, Init) leaves no half-written
\* fabric for the next boot to load, whichever writes and deletes storage
\* refuses for other indices, and for this one as long as it refuses no marker
\* and no delete.
THEOREM NoHalfWrittenFabric == Spec => []WholeOrGone
<1>1. Inv => WholeOrGone
  BY RestoredIsWhole DEF WholeOrGone
<1>2. QED
  BY <1>1, Invariance, PTL

\* With no fail-safe in progress, whatever a boot would load of an index that is
\* not spoilt is what the table uses now: what FabricTable::Delete,
\* FailSafeCleanup or an UpdateNOC took away does not come back.
THEOREM NoFabricComesBack == Spec => []RemovedStaysRemoved
<1>1. Inv => RemovedStaysRemoved
  <2> SUFFICES ASSUME Inv, work = Idle, NEW i \in Indices \ spoilt, Restored(i)
               PROVE  \E s \in Slots : table[s] = [index |-> i, noc |-> store[i].noc]
    BY DEF RemovedStaysRemoved
  <2>1. Live(i)
    BY RestoredIsWhole
  <2>2. InTable(i, store[i].noc)
    BY <2>1, LiveIsSound DEF Sound, Idle
  <2>3. QED
    BY <2>2 DEF InTable, TableHas
<1>2. QED
  BY <1>1, Invariance, PTL
-----------------------------------------------------------------------------
(* The storage implements StoredFabrics.                                   *)

\* What a boot would find of index i.
Seen(i) == IF Live(i) THEN store[i].noc ELSE NoNoc

IdentitySeen == StoredIdentity = [i \in Indices |-> Seen(i)]

LEMMA IdentityIsSeen == Inv => IdentitySeen
<1> SUFFICES ASSUME Inv PROVE IdentitySeen
  OBVIOUS
<1>1. ASSUME NEW i \in Indices
      PROVE  (IF Restored(i) /\ i \notin spoilt
              THEN IF Whole(i) THEN store[i].noc ELSE store[i] ELSE NoNoc) = Seen(i)
  BY RestoredIsWhole DEF Seen
<1>2. QED
  BY <1>1 DEF StoredIdentity, IdentitySeen

LEMMA NextIdentityIsSeen == Inv' => IdentitySeen'
BY IdentityIsSeen, PTL

\* A step that a boot would not notice.
LEMMA NotSeen ==
    ASSUME Inv, Inv', \A i \in Indices : Seen(i)' = Seen(i)
    PROVE  [Abstract!Next]_StoredIdentity
<1>1. StoredIdentity = [i \in Indices |-> Seen(i)]
  BY IdentityIsSeen DEF IdentitySeen
<1>2. StoredIdentity' = [i \in Indices |-> Seen(i)']
  BY NextIdentityIsSeen DEF IdentitySeen
<1>3. QED
  BY <1>1, <1>2

\* A step that changes what a boot would find of one index.
LEMMA SeenOfOne ==
    ASSUME Inv, Inv', NEW m \in Indices, \A i \in Indices : i # m => Seen(i)' = Seen(i)
    PROVE  \A n : Seen(m)' = n => StoredIdentity' = [StoredIdentity EXCEPT ![m] = n]
<1>1. StoredIdentity = [i \in Indices |-> Seen(i)]
  BY IdentityIsSeen DEF IdentitySeen
<1>2. StoredIdentity' = [i \in Indices |-> Seen(i)']
  BY NextIdentityIsSeen DEF IdentitySeen
<1>3. QED
  BY <1>1, <1>2

\* A step after which a boot would find an identity no more, and all others as before.
LEMMA Loses ==
    ASSUME Inv, Inv', NEW m \in Indices, Seen(m)' = NoNoc,
           \A i \in Indices : i # m => Seen(i)' = Seen(i)
    PROVE  [Abstract!Next]_StoredIdentity
<1>1. StoredIdentity' = [StoredIdentity EXCEPT ![m] = NoNoc]
  BY SeenOfOne
<1>2. Abstract!Lose(m)
  BY <1>1 DEF Abstract!Lose, Abstract!NoIdentity, NoNoc
<1>3. QED
  BY <1>2 DEF Abstract!Next

\* A commit makes the identity it replaces unseen as soon as its marker is stored
\* or refused.  A marker that was left behind and is overwritten hid nothing.
LEMMA CommissioningCompleteRefines ==
    ASSUME Inv, Inv', CommissioningComplete
    PROVE  [Abstract!Next]_StoredIdentity
<1>1. /\ store' = store /\ work = Idle
      /\ marker \in Indices \cup {Undefined} /\ pending \in Indices \cup {Undefined}
  BY DEF CommissioningComplete, FailSafeCommand, Inv, TypeInv, TypeOK
<1>2. CASE marker' = marker /\ spoilt' = spoilt
  <2>1. \A i \in Indices : Seen(i)' = Seen(i)
    BY <1>1, <1>2 DEF Seen, Live, Loadable
  <2>2. QED
    BY <2>1, NotSeen
<1>3. CASE /\ pending \in Indices
           /\ \/ marker' = pending /\ spoilt' = spoilt
              \/ marker' = marker /\ spoilt' = spoilt \cup {pending}
  <2>1. PICK m \in Indices : m = pending
    BY <1>3
  <2>2. Seen(m)' = NoNoc
    BY <1>3, <2>1 DEF Seen, Live
  <2>3. ASSUME NEW i \in Indices, i # m PROVE Seen(i)' = Seen(i)
    <3>1. marker = i /\ i \notin spoilt => ~Loadable(i)
      BY <1>1, ZeroIsNone DEF Inv, StaleInv, InDoubt, Idle, Undefined
    <3>2. (i \in spoilt' <=> i \in spoilt) /\ (marker' = i => marker = i)
      BY <1>3, <2>1, <2>3
    <3>3. QED
      BY <1>1, <3>1, <3>2 DEF Seen, Live, Loadable
  <2>4. QED
    BY <2>2, <2>3, Loses
<1>4. \/ marker' = marker /\ spoilt' = spoilt
      \/ /\ pending # Undefined
         /\ \/ marker' = pending /\ spoilt' = spoilt
            \/ marker' = marker /\ spoilt' = spoilt \cup {pending}
  BY DEF CommissioningComplete, ReadyToCommit
<1>5. QED
  BY <1>1, <1>2, <1>3, <1>4

\* A removal makes the whole identity unseen with its first delete, refused or not.
LEMMA RemoveItemRefines ==
    ASSUME Inv, Inv', RemoveItem
    PROVE  [Abstract!Next]_StoredIdentity
<1>1. PICK m \in Indices : m = work.index
  BY RemoveItemFrame
<1>2. /\ marker' = marker
      /\ \A j \in Indices : j # m => store'[j] = store[j]
      /\ \A j \in Indices : j # m => (Loadable(j)' <=> Loadable(j))
      /\ \A j \in Indices : j # m => (j \in spoilt' <=> j \in spoilt)
  BY <1>1, RemoveItemFrame DEF RemoveItem
<1>3. \A i \in Indices : i # m => Seen(i)' = Seen(i)
  BY <1>2 DEF Seen, Live
<1>4. m \notin spoilt' => store'[m].meta = 0
  BY <1>1, RemoveItemNotLoadable
<1>5. Seen(m)' = NoNoc
  BY <1>4 DEF Seen, Live, Loadable
<1>6. QED
  BY <1>3, <1>5, Loses

\* The clearing of the marker installs the identity that the commit wrote.
LEMMA Installs ==
    ASSUME Inv, Inv', NEW m \in Indices, marker = m, work.at = "clear", m \notin spoilt,
           Loadable(m), marker' = Undefined, spoilt' = spoilt, store' = store
    PROVE  [Abstract!Next]_StoredIdentity
<1>1. \A i \in Indices : i # m => Seen(i)' = Seen(i)
  BY ZeroIsNone DEF Seen, Live, Loadable
<1>2. Seen(m) = NoNoc
  BY DEF Seen, Live
<1>3. ~InDoubt(m) /\ Sound(m)
  BY ZeroIsNone DEF Inv, ControlInv, StoreInv, InDoubt
<1> DEFINE n == store[m].noc
<1>4. n \in Noc
  BY DEF Loadable, Inv, TypeInv, TypeOK, StoredItems
<1>5. Seen(m)' = n
  BY ZeroIsNone DEF Seen, Live, Loadable
<1>6. StoredIdentity' = [StoredIdentity EXCEPT ![m] = n]
  BY <1>1, <1>5, SeenOfOne
<1>7. StoredIdentity[m] = NoNoc
  BY <1>2, IdentityIsSeen DEF IdentitySeen
<1>8. ASSUME NEW j \in Indices PROVE StoredIdentity[j].root # n.root
  <2>1. StoredIdentity[j] = Seen(j)
    BY IdentityIsSeen DEF IdentitySeen
  <2>2. CASE Live(j)
    <3>1. j # m /\ Loadable(j) /\ ~InDoubt(j) /\ Whole(j) /\ Whole(m)
      BY <1>3, <2>2, LiveIsSound DEF Live, Sound
    <3>2. store[j].rcac # store[m].rcac
      BY <1>3, <3>1 DEF Sound
    <3>3. QED
      BY <2>1, <2>2, <3>1, <3>2 DEF Seen, Whole
  <2>3. CASE ~Live(j)
    <3>1. StoredIdentity[j].root = 0
      BY <2>1, <2>3 DEF Seen, NoNoc
    <3>2. QED
      BY <1>4, <3>1, ZeroIsNone
  <2>4. QED
    BY <2>2, <2>3
<1>9. n \in Abstract!Identity
  BY <1>4 DEF Noc, Abstract!Identity
<1> HIDE DEF n
<1>10. Abstract!Install(m, n)
  BY <1>6, <1>7, <1>8 DEF Abstract!Install, Abstract!NoIdentity, NoNoc
<1>11. QED
  BY <1>9, <1>10 DEF Abstract!Next

LEMMA ClearCommitMarkerRefines ==
    ASSUME Inv, Inv', ClearCommitMarker
    PROVE  [Abstract!Next]_StoredIdentity
<1>1. /\ work.at = "clear" /\ store' = store /\ marker \in Indices \cup {Undefined}
      /\ \/ marker' = Undefined /\ spoilt' = spoilt
         \/ marker' = marker /\ spoilt' = spoilt
         \/ marker' = marker /\ spoilt' = spoilt \cup {marker}
  BY DEF ClearCommitMarker, Inv, TypeInv, TypeOK
<1>2. CASE /\ marker \in Indices /\ marker' = Undefined /\ spoilt' = spoilt
           /\ Loadable(marker) /\ marker \notin spoilt
  <2>1. PICK m \in Indices : m = marker
    BY <1>2
  <2>2. Loadable(m)
    BY <1>2, <2>1 DEF Loadable
  <2>3. QED
    BY <1>1, <1>2, <2>1, <2>2, Installs
<1>3. CASE /\ marker' = Undefined /\ spoilt' = spoilt
           /\ marker = Undefined \/ ~Loadable(marker) \/ marker \in spoilt
  <2>1. \A i \in Indices : Seen(i)' = Seen(i)
    BY <1>1, <1>3, ZeroIsNone DEF Seen, Live, Loadable
  <2>2. QED
    BY <2>1, NotSeen
<1>4. CASE marker' = marker
  <2>1. \A i \in Indices : Seen(i)' = Seen(i)
    BY <1>1, <1>4 DEF Seen, Live, Loadable
  <2>2. QED
    BY <2>1, NotSeen
<1>5. QED
  BY <1>1, <1>2, <1>3, <1>4

\* A commit writes and deletes only under its marker or on a spoilt index.
LEMMA CommitWritesNotSeen ==
    ASSUME Inv, Inv', CommitItem \/ UndoItem
    PROVE  [Abstract!Next]_StoredIdentity
<1>1. /\ marker' = marker /\ spoilt' = spoilt
      /\ marker = work.index \/ work.index \in spoilt
      /\ \A j \in Indices : j # work.index => store'[j] = store[j]
  <2>1. CASE CommitItem
    BY <2>1, CommitItemFrame DEF CommitItem
  <2>2. CASE UndoItem
    BY <2>2, UndoItemFrame DEF UndoItem, Inv, ControlInv, Committing
  <2>3. QED
    BY <2>1, <2>2
<1>2. \A i \in Indices : Seen(i)' = Seen(i)
  BY <1>1 DEF Seen, Live, Loadable
<1>3. QED
  BY <1>2, NotSeen

\* A new label is stored only where the fabric is already.
LEMMA UpdateFabricLabelNotSeen ==
    ASSUME Inv, Inv', NEW i \in Indices, UpdateFabricLabel(i)
    PROVE  [Abstract!Next]_StoredIdentity
<1>1. /\ marker' = marker /\ spoilt' = spoilt /\ work = Idle
      /\ store' = [store EXCEPT ![i].meta = 1]
  BY DEF UpdateFabricLabel
<1>2. store \in [Indices -> StoredItems]
  BY DEF Inv, TypeInv, TypeOK
<1>3. HasSlot(i)
  BY DEF UpdateFabricLabel, Find, SlotsOf, HasSlot
<1>4. i \notin spoilt /\ marker # i /\ store[i].noc # NoNoc => Loadable(i)
  BY <1>1, <1>3 DEF Inv, StoreInv, InDoubt, Sound, Removing, Idle
<1>5. \A j \in Indices : /\ store'[j].noc = store[j].noc
                         /\ store'[j].rcac = store[j].rcac
                         /\ j # i => store'[j].meta = store[j].meta
  BY <1>1, <1>2 DEF StoredItems
<1>6. store'[i].meta = 1
  BY <1>1, <1>2 DEF StoredItems
<1>7. \A j \in Indices : Seen(j)' = Seen(j)
  BY <1>1, <1>4, <1>5, <1>6 DEF Seen, Live, Loadable
<1>8. QED
  BY <1>7, NotSeen

\* An index that is spoilt by a NOC for another key is lost.
LEMMA NocRefines ==
    ASSUME Inv, Inv', store' = store, marker' = marker, NEW i \in Indices,
           spoilt' = spoilt \/ spoilt' = spoilt \cup {i}
    PROVE  [Abstract!Next]_StoredIdentity
<1>1. \A j \in Indices : j # i => Seen(j)' = Seen(j)
  BY DEF Seen, Live, Loadable
<1>2. CASE spoilt' = spoilt
  <2>1. \A j \in Indices : Seen(j)' = Seen(j)
    BY <1>2 DEF Seen, Live, Loadable
  <2>2. QED
    BY <2>1, NotSeen
<1>3. CASE spoilt' = spoilt \cup {i}
  <2>1. Seen(i)' = NoNoc
    BY <1>3 DEF Seen, Live
  <2>2. QED
    BY <1>1, <2>1, Loses
<1>4. QED
  BY <1>2, <1>3

\* An index is no longer spoilt when nothing is stored of it.
LEMMA UnlistNotSeen ==
    ASSUME Inv, Inv', Unlist
    PROVE  [Abstract!Next]_StoredIdentity
<1>1. /\ store' = store /\ marker' = marker
      /\ \/ spoilt' = spoilt
         \/ store[work.index] = NothingStored /\ spoilt' = spoilt \ {work.index}
  BY DEF Unlist
<1>2. \A i \in Indices : store[i] = NothingStored => ~Loadable(i)
  BY DEF Loadable, NothingStored
<1>3. \A i \in Indices : Seen(i)' = Seen(i)
  BY <1>1, <1>2 DEF Seen, Live, Loadable
<1>4. QED
  BY <1>3, NotSeen

LEMMA StepRefines ==
    ASSUME Inv, Inv', [Next]_vars
    PROVE  [Abstract!Next]_StoredIdentity
<1>1. CASE store' = store /\ marker' = marker /\ spoilt' = spoilt
  <2>1. \A i \in Indices : Seen(i)' = Seen(i)
    BY <1>1 DEF Seen, Live, Loadable
  <2>2. QED
    BY <2>1, NotSeen
<1>2. CASE CommissioningComplete \/ RemoveItem \/ ClearCommitMarker \/ Unlist
  BY <1>2, CommissioningCompleteRefines, RemoveItemRefines, ClearCommitMarkerRefines,
     UnlistNotSeen
<1>3. CASE CommitItem \/ UndoItem \/ \E i \in Indices : UpdateFabricLabel(i)
  BY <1>3, CommitWritesNotSeen, UpdateFabricLabelNotSeen
<1>4. CASE UNCHANGED vars
  BY <1>1, <1>4 DEF vars, stored
<1>5. ASSUME NEW k \in 1 .. lastKey, NEW late \in BOOLEAN, AddNOC(k, late)
      PROVE  [Abstract!Next]_StoredIdentity
  <2>1. PICK i \in Indices : i = EnsuredNext(next, table)
    BY <1>5, AddNOCFacts DEF Inv
  <2>2. /\ store' = store /\ marker' = marker
        /\ spoilt' = spoilt \/ spoilt' = spoilt \cup {i}
    BY <1>5, <2>1 DEF AddNOC, stored, SpoiltByNoc
  <2>3. QED
    BY <2>2, NocRefines
<1>6. ASSUME NEW k \in 1 .. lastKey, UpdateNOC(k)
      PROVE  [Abstract!Next]_StoredIdentity
  <2>1. PICK i \in Indices : i = failSafe.index
    BY <1>6, UpdateNOCFacts DEF Inv
  <2>2. /\ store' = store /\ marker' = marker
        /\ spoilt' = spoilt \/ spoilt' = spoilt \cup {i}
    BY <1>6, <2>1 DEF UpdateNOC, stored, SpoiltByNoc
  <2>3. QED
    BY <2>2, NocRefines
<1>7. CASE \/ \E i \in Indices \cup {Undefined} : ArmFailSafe(i)
           \/ \E forUpdate \in BOOLEAN : CSRRequest(forUpdate)
           \/ \E r \in Roots : AddTrustedRootCertificate(r)
           \/ \E i \in Indices : RemoveFabric(i)
  BY <1>1, <1>7
  DEF ArmFailSafe, CSRRequest, AddTrustedRootCertificate, RemoveFabric, stored
<1>8. CASE CommitIndex \/ FailSafeTimerExpired \/ FailSafeCleanup \/ PowerCut
           \/ FabricTableInit
  BY <1>1, <1>8
  DEF CommitIndex, FailSafeTimerExpired, FailSafeCleanup, PowerCut, FabricTableInit, stored
<1>9. QED
  BY <1>2, <1>3, <1>4, <1>5, <1>6, <1>7, <1>8 DEF Next

\* The storage writes of CommitPendingFabricData, Delete and Init, with a power
\* cut between any two of them and any of them refused, implement StoredFabrics
\* over the indices that are not spoilt: identities come and go as a whole and no
\* root is ever stored twice.
THEOREM StorageRefinement == Spec => ImplementsStoredFabrics
<1>1. Init => Abstract!Init
  <2> SUFFICES ASSUME Init PROVE Abstract!Init
    OBVIOUS
  <2>1. \A i \in Indices : Seen(i) = NoNoc
    BY DEF Init, NothingStored, Seen, Live, Loadable
  <2>2. StoredIdentity = [i \in Indices |-> NoNoc]
    BY <2>1, InitInv, IdentityIsSeen DEF IdentitySeen
  <2>3. QED
    BY <2>2 DEF Abstract!Init, Abstract!NoIdentity, NoNoc
<1>2. Inv /\ Inv' /\ [Next]_vars => [Abstract!Next]_StoredIdentity
  BY StepRefines
<1>3. Spec => []Inv
  BY Invariance
<1>4. QED
  BY <1>1, <1>2, <1>3, PTL DEF Spec, ImplementsStoredFabrics, Abstract!Spec
=============================================================================
