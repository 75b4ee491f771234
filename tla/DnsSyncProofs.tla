--------------------------- MODULE DnsSyncProofs ---------------------------
(***************************************************************************)
(* For every set of Records, providers, contents, labels and selectors,    *)
(* and every number of disturbances: DnsSync is correct in its types, the  *)
(* finalizers stand as DnsSyncInvariant says, and entries are guarded.     *)
(***************************************************************************)
EXTENDS DnsSyncInvariant, TLAPS

OutcomeType == [zone : Zone, id : RecordId, ok : BOOLEAN, faulty : BOOLEAN]

LEMMA ConstantTypes ==
    /\ NoRecord \in RecordObject /\ NoProvider \in ProviderObject
    /\ IdleRec \in RecordWorker /\ IdleProv \in ProviderWorker
    /\ NotListed \in RecordStatus /\ EmptyZone \in Zone
<1>1. PICK v \in Values, l \in Labels, s \in Selectors, c \in Setups : TRUE
  BY ClusterAssumption
<1>2. /\ (CHOOSE x \in Values : TRUE) \in Values
      /\ (CHOOSE x \in Labels : TRUE) \in Labels
      /\ (CHOOSE x \in Selectors : TRUE) \in Selectors
      /\ (CHOOSE x \in Setups : TRUE) \in Setups
  BY <1>1
<1>3. NotListed \in RecordStatus
  BY DEF NotListed, RecordStatus, RecordId
<1>4. NoRecord \in RecordObject
  BY <1>2, <1>3 DEF NoRecord, RecordObject, Phases
<1>5. NoProvider \in ProviderObject
  BY <1>2 DEF NoProvider, ProviderObject, Phases, Conditions
<1>6. IdleRec \in RecordWorker
  BY <1>4, <1>5 DEF IdleRec, RecordWorker
<1>7. IdleProv \in ProviderWorker
  BY <1>5 DEF IdleProv, ProviderWorker, Conditions
<1> QED
  BY <1>3, <1>4, <1>5, <1>6, <1>7 DEF EmptyZone, Zone

\* Parts of a zone.
LEMMA InsertType ==
    ASSUME NEW z \in Zone, NEW site \in Sites, NEW val \in Values, NEW r \in Records
    PROVE  Insert(z, site, val, r) \in Zone /\ z.next \in RecordId
  BY DEF Insert, Zone, Entry, RecordId

LEMMA RemoveType ==
    ASSUME NEW z \in Zone, NEW gone
    PROVE  Remove(z, gone) \in Zone
  BY DEF Remove, Zone

LEMMA OverwriteType ==
    ASSUME NEW z \in Zone, NEW id, NEW val \in Values
    PROVE  Overwrite(z, id, val) \in Zone
  BY DEF Overwrite, Zone, Entry

LEMMA AdguardInsertType ==
    ASSUME NEW z \in Zone, NEW site \in Sites, NEW val \in Values, NEW r \in Records
    PROVE  AdguardInsert(z, site, val, r) \in Zone
  BY DEF AdguardInsert, Zone, Entry, RecordId

\* The outcomes calls are made of.
LEMMA OutcomeTypes ==
    ASSUME NEW z \in Zone, NEW id \in RecordId
    PROVE  /\ Outcome(z, id, TRUE, FALSE) \in OutcomeType
           /\ Unsent(z, id) \in OutcomeType
           /\ Refused(z, id) \in OutcomeType
           /\ \A new \in RecordId : Applied(z, id, new) \subseteq OutcomeType
  BY DEF Outcome, Unsent, Refused, Applied, OutcomeType

LEMMA FoundTypes ==
    ASSUME NEW z \in Zone, NEW site, NEW val
    PROVE  {Outcome(z, e.id, TRUE, FALSE) : e \in WithVal(z, site, val)} \subseteq OutcomeType
<1> SUFFICES ASSUME NEW e \in WithVal(z, site, val)
             PROVE  Outcome(z, e.id, TRUE, FALSE) \in OutcomeType
  OBVIOUS
<1>1. e.id \in RecordId
  BY DEF WithVal, Zone, Entry
<1> QED
  BY <1>1, OutcomeTypes

\* Every call returns a zone and an id.
LEMMA CreateTypes ==
    ASSUME NEW cfg \in ClientConfig, NEW z \in Zone,
           NEW id \in RecordId, NEW val \in Values, NEW r \in Records
    PROVE  /\ CloudflareCreate(cfg, z, id, val, r) \subseteq OutcomeType
           /\ AliyunCreate(cfg, z, id, val, r) \subseteq OutcomeType
           /\ AdguardCreate(cfg, z, id, val, r) \subseteq OutcomeType
<1>1. NoId \in RecordId /\ val \in RecordId /\ cfg.site \in Sites
  BY DEF RecordId, ClientConfig
<1>2. Applied(Insert(z, cfg.site, val, r), id, z.next) \subseteq OutcomeType
  BY <1>1, InsertType, OutcomeTypes
<1>3. Applied(AdguardInsert(z, cfg.site, val, r), id, val) \subseteq OutcomeType
  BY <1>1, AdguardInsertType, OutcomeTypes
<1>4. /\ Unsent(z, id) \in OutcomeType /\ Unsent(z, NoId) \in OutcomeType
      /\ Refused(z, id) \in OutcomeType /\ Outcome(z, NoId, TRUE, FALSE) \in OutcomeType
  BY <1>1, OutcomeTypes
<1>5. CloudflareFind(cfg, z, val) \subseteq OutcomeType
  BY <1>4, FoundTypes DEF CloudflareFind
<1>6. CloudflareCreate(cfg, z, id, val, r) \subseteq OutcomeType
  BY <1>2, <1>4, <1>5 DEF CloudflareCreate
<1>7. AliyunCreate(cfg, z, id, val, r) \subseteq OutcomeType
  BY <1>2, <1>4, FoundTypes DEF AliyunCreate
<1>8. AdguardCreate(cfg, z, id, val, r) \subseteq OutcomeType
  BY <1>3, <1>4 DEF AdguardCreate
<1> QED
  BY <1>6, <1>7, <1>8

LEMMA CreateType ==
    ASSUME NEW cfg \in ClientConfig, NEW z \in Zone,
           NEW id \in RecordId, NEW val \in Values, NEW r \in Records,
           NEW o \in Create(cfg, z, id, val, r)
    PROVE  o \in OutcomeType
<1>1. cfg.type \in ProviderTypes
  BY DEF ClientConfig
<1> QED
  BY <1>1, CreateTypes DEF Create, ProviderTypes

LEMMA UpdateType ==
    ASSUME NEW cfg \in ClientConfig, NEW z \in Zone,
           NEW id \in RecordId, NEW val \in Values, NEW r \in Records,
           NEW o \in Update(cfg, z, id, val, r)
    PROVE  o \in OutcomeType
<1> DEFINE removed == Remove(z, WithVal(z, cfg.site, id))
<1>1. cfg.type \in ProviderTypes
  BY DEF ClientConfig
<1>2. removed \in Zone
  BY RemoveType
<1>3. Applied(Overwrite(z, id, val), id, id) \subseteq OutcomeType
  BY OverwriteType, OutcomeTypes
<1>4. /\ Unsent(z, id) \in OutcomeType /\ Unsent(removed, id) \in OutcomeType
      /\ Refused(z, id) \in OutcomeType /\ Outcome(z, id, TRUE, FALSE) \in OutcomeType
  BY <1>2, OutcomeTypes
<1>5. CloudflareUpdate(cfg, z, id, val, r) \subseteq OutcomeType
  BY <1>1, <1>3, <1>4, CreateTypes DEF CloudflareUpdate
<1>6. AliyunUpdate(cfg, z, id, val, r) \subseteq OutcomeType
  BY <1>3, <1>4, CreateTypes DEF AliyunUpdate
<1>7. AdguardCreate(cfg, removed, id, val, r) \subseteq OutcomeType
  BY <1>2, CreateTypes
<1>8. AdguardUpdate(cfg, z, id, val, r) \subseteq OutcomeType
  BY <1>4, <1>7 DEF AdguardUpdate
<1> QED
  BY <1>1, <1>5, <1>6, <1>8 DEF Update, ProviderTypes

LEMMA DeleteType ==
    ASSUME NEW cfg \in ClientConfig, NEW z \in Zone,
           NEW id \in RecordId, NEW val \in Values,
           NEW o \in Delete(cfg, z, id, val)
    PROVE  o \in OutcomeType
<1>1. cfg.type \in ProviderTypes /\ NoId \in RecordId
  BY DEF RecordId, ClientConfig
<1>2. /\ Applied(Remove(z, WithId(z, cfg.site, id)), id, NoId) \subseteq OutcomeType
      /\ Applied(Remove(z, WithVal(z, cfg.site, val)), id, NoId) \subseteq OutcomeType
  BY <1>1, RemoveType, OutcomeTypes
<1>3. Unsent(z, id) \in OutcomeType /\ Refused(z, id) \in OutcomeType
  BY OutcomeTypes
<1> QED
  BY <1>1, <1>2, <1>3 DEF Delete, CloudflareDelete, AliyunDelete, AdguardDelete, ProviderTypes

-----------------------------------------------------------------------------
(***************************************************************************)
(* Steps preserve the types.                                               *)
(***************************************************************************)

Clients == [gen : Nat, setup : Setups]

LEMMA NoClientType == NoClient \in Clients
  BY ConstantTypes DEF NoClient, ProviderObject, Clients

LEMMA ClientType ==
    ASSUME TypeOK, NEW p \in Providers
    PROVE  Client(p) \in ClientConfig
  BY ClusterAssumption DEF TypeOK, Client

LEMMA InitTypes == Init => TypeOK
  BY ConstantTypes, NoClientType, ClusterAssumption DEF Init, TypeOK, Clients

\* Users' versions of an object.
LEMMA EditedRecordTypes ==
    ASSUME NEW obj \in RecordObject
    PROVE  /\ \A v \in Values : [obj EXCEPT !.val = v, !.gen = @ + 1] \in RecordObject
           /\ \A l \in Labels : [obj EXCEPT !.lab = l] \in RecordObject
           /\ Deleted(obj, NoRecord) \in RecordObject
<1>1. obj.gen \in Nat /\ obj.gen + 1 \in Nat
  BY DEF RecordObject
<1>2. [obj EXCEPT !.phase = "deleting", !.gen = @ + 1] \in RecordObject
  BY <1>1 DEF RecordObject, Phases
<1>3. [NoRecord EXCEPT !.phase = "gone"] \in RecordObject
  BY ConstantTypes DEF RecordObject, Phases
<1>4. Deleted(obj, NoRecord) \in RecordObject
  BY <1>2, <1>3 DEF Deleted
<1> QED
  BY <1>1, <1>4 DEF RecordObject

LEMMA EditedProviderTypes ==
    ASSUME NEW obj \in ProviderObject
    PROVE  /\ \A s \in Selectors, c \in Setups :
                 [obj EXCEPT !.sel = s, !.setup = c, !.gen = @ + 1] \in ProviderObject
           /\ Deleted(obj, NoProvider) \in ProviderObject
<1>1. obj.gen \in Nat /\ obj.gen + 1 \in Nat
  BY DEF ProviderObject
<1>2. [obj EXCEPT !.phase = "deleting", !.gen = @ + 1] \in ProviderObject
  BY <1>1 DEF ProviderObject, Phases
<1>3. [NoProvider EXCEPT !.phase = "gone"] \in ProviderObject
  BY ConstantTypes DEF ProviderObject, Phases
<1>4. Deleted(obj, NoProvider) \in ProviderObject
  BY <1>2, <1>3 DEF Deleted
<1> QED
  BY <1>1, <1>4 DEF ProviderObject

\* Parts of a step.
LEMMA SpendType ==
    ASSUME TypeOK, NEW kind, Spend(kind)
    PROVE  left' \in Nat
  BY DEF TypeOK, Spend

LEMMA StoreRecordTypes ==
    ASSUME TypeOK, NEW r \in Records, NEW obj \in RecordObject, StoreRecord(r, obj)
    PROVE  /\ rec' \in [Records -> RecordObject]
           /\ recBehind' \subseteq Records /\ recNews' \subseteq recBehind'
  BY DEF TypeOK, StoreRecord

LEMMA StoreProviderTypes ==
    ASSUME TypeOK, NEW p \in Providers, NEW obj \in ProviderObject, StoreProvider(p, obj)
    PROVE  prov' \in [Providers -> ProviderObject] /\ provBehind' \subseteq Providers
  BY DEF TypeOK, StoreProvider

LEMMA UserRecordTypes ==
    ASSUME TypeOK, NEW r \in Records, NEW obj \in RecordObject, UserWritesRecord(r, obj),
           left' \in Nat
    PROVE  TypeOK'
<1>1. rw' \in [Records -> RecordWorker]
  BY DEF TypeOK, UserWritesRecord, RecordWorker
<1>2. /\ rec' \in [Records -> RecordObject]
      /\ recBehind' \subseteq Records /\ recNews' \subseteq recBehind'
  BY StoreRecordTypes DEF UserWritesRecord
<1> QED
  BY <1>1, <1>2 DEF TypeOK, UserWritesRecord, provVars, recQueue, provQueue

LEMMA UserProviderTypes ==
    ASSUME TypeOK, NEW p \in Providers, NEW obj \in ProviderObject,
           UserWritesProvider(p, obj), left' \in Nat
    PROVE  TypeOK'
<1>1. pw' \in [Providers -> ProviderWorker]
  BY DEF TypeOK, UserWritesProvider, ProviderWorker
<1>2. prov' \in [Providers -> ProviderObject] /\ provBehind' \subseteq Providers
  BY StoreProviderTypes DEF UserWritesProvider
<1> QED
  BY <1>1, <1>2 DEF TypeOK, UserWritesProvider, recVars, recQueue, provQueue

LEMMA EnvironmentTypes ==
    ASSUME TypeOK, Environment
    PROVE  TypeOK'
<1>1. ASSUME NEW r \in Records, CreateRecord(r) PROVE TypeOK'
  <2>1. PICK v \in Values, l \in Labels :
            UserWritesRecord(r, [NoRecord EXCEPT !.phase = "live", !.gen = 1,
                                                 !.val = v, !.lab = l])
    BY <1>1 DEF CreateRecord
  <2>2. [NoRecord EXCEPT !.phase = "live", !.gen = 1, !.val = v, !.lab = l] \in RecordObject
    BY ConstantTypes DEF RecordObject, Phases
  <2> QED
    BY <1>1, <2>1, <2>2, UserRecordTypes DEF CreateRecord, TypeOK
<1>2. ASSUME NEW r \in Records, EditRecord(r) PROVE TypeOK'
  <2>1. rec[r] \in RecordObject /\ left' \in Nat
    BY <1>2, SpendType DEF TypeOK, EditRecord
  <2> QED
    BY <1>2, <2>1, EditedRecordTypes, UserRecordTypes DEF EditRecord
<1>3. ASSUME NEW r \in Records, TouchRecord(r) PROVE TypeOK'
  BY <1>3, SpendType, UserRecordTypes DEF TypeOK, TouchRecord
<1>4. ASSUME NEW r \in Records, DeleteRecord(r) PROVE TypeOK'
  <2>1. rec[r] \in RecordObject /\ left' \in Nat
    BY <1>4, SpendType DEF TypeOK, DeleteRecord
  <2> QED
    BY <1>4, <2>1, EditedRecordTypes, UserRecordTypes DEF DeleteRecord
<1>5. ASSUME NEW r \in Records, DeliverRecord(r) PROVE TypeOK'
  BY <1>5 DEF TypeOK, DeliverRecord, provVars, provQueue
<1>6. ASSUME NEW r \in Records, RecordTimer(r) PROVE TypeOK'
  BY <1>6 DEF TypeOK, RecordTimer, recVars, provVars, provQueue
<1>7. ASSUME NEW p \in Providers, CreateProvider(p) PROVE TypeOK'
  <2>1. PICK s \in Selectors, c \in Setups :
            UserWritesProvider(p, [NoProvider EXCEPT !.phase = "live", !.gen = 1,
                                                     !.sel = s, !.setup = c])
    BY <1>7 DEF CreateProvider
  <2>2. [NoProvider EXCEPT !.phase = "live", !.gen = 1, !.sel = s, !.setup = c] \in ProviderObject
    BY ConstantTypes DEF ProviderObject, Phases
  <2> QED
    BY <1>7, <2>1, <2>2, UserProviderTypes DEF CreateProvider, TypeOK
<1>8. ASSUME NEW p \in Providers, EditProvider(p) PROVE TypeOK'
  <2>1. prov[p] \in ProviderObject /\ left' \in Nat
    BY <1>8, SpendType DEF TypeOK, EditProvider
  <2> QED
    BY <1>8, <2>1, EditedProviderTypes, UserProviderTypes DEF EditProvider
<1>9. ASSUME NEW p \in Providers, TouchProvider(p) PROVE TypeOK'
  BY <1>9, SpendType, UserProviderTypes DEF TypeOK, TouchProvider
<1>10. ASSUME NEW p \in Providers, DeleteProvider(p) PROVE TypeOK'
  <2>1. prov[p] \in ProviderObject /\ left' \in Nat
    BY <1>10, SpendType DEF TypeOK, DeleteProvider
  <2> QED
    BY <1>10, <2>1, EditedProviderTypes, UserProviderTypes DEF DeleteProvider
<1>11. ASSUME NEW p \in Providers, DeliverProvider(p) PROVE TypeOK'
  <2>1. RecordsWatching(provSeen[p], prov[p]) \subseteq Records
    BY DEF RecordsWatching
  <2> QED
    BY <1>11, <2>1 DEF TypeOK, DeliverProvider, recVars
<1>12. ASSUME NEW p \in Providers, ProviderTimer(p) PROVE TypeOK'
  BY <1>12 DEF TypeOK, ProviderTimer, recVars, provVars, recQueue
<1>13. CASE Crash
  BY <1>13, ConstantTypes, NoClientType, SpendType DEF TypeOK, Crash, Clients
<1> QED
  BY <1>1, <1>2, <1>3, <1>4, <1>5, <1>6, <1>7, <1>8, <1>9, <1>10, <1>11, <1>12, <1>13
  DEF Environment

-----------------------------------------------------------------------------
Messages == {"", "not ready", "error"}

LEMMA NoteTypes ==
    ASSUME TypeOK, NEW r \in Records, NEW p \in Providers, NEW entry \in RecordStatus,
           Note(r, p, entry)
    PROVE  rw' \in [Records -> RecordWorker]
<1>1. rw[r] \in RecordWorker /\ rw[r].obj \in RecordObject
  BY DEF TypeOK, RecordWorker
<1>2. [rw[r].obj EXCEPT !.st[p] = entry] \in RecordObject
  BY <1>1 DEF RecordObject
<1>3. [rw[r] EXCEPT !.obj.st[p] = entry, !.done = @ \cup {p}] \in RecordWorker
  BY <1>1, <1>2 DEF RecordWorker
<1> QED
  BY <1>3 DEF TypeOK, Note

LEMMA ReportTypes ==
    ASSUME TypeOK, NEW r \in Records, NEW p \in Providers
    PROVE  /\ rw[r].obj.st[p].id \in RecordId /\ rw[r].obj.val \in Values
           /\ \A id \in RecordId, msg \in Messages :
                 Report(r, p, id, msg) => rw' \in [Records -> RecordWorker]
           /\ Drop(r, p) => rw' \in [Records -> RecordWorker]
<1>0. rw[r].obj \in RecordObject
  BY DEF TypeOK, RecordWorker
<1>1. rw[r].obj.st[p].id \in RecordId /\ rw[r].obj.val \in Values
  BY <1>0 DEF RecordObject, RecordStatus
<1>2. ASSUME NEW id \in RecordId, NEW msg \in Messages
      PROVE  [listed |-> TRUE, id |-> id, msg |-> msg] \in RecordStatus
  BY DEF RecordStatus, Messages
<1>3. ASSUME NEW id \in RecordId, NEW msg \in Messages, Report(r, p, id, msg)
      PROVE  rw' \in [Records -> RecordWorker]
  BY <1>2, <1>3, NoteTypes DEF Report
<1>4. Drop(r, p) => rw' \in [Records -> RecordWorker]
  BY ConstantTypes, NoteTypes DEF Drop
<1> QED
  BY <1>1, <1>3, <1>4

LEMMA CallTypes ==
    ASSUME TypeOK, NEW p \in Providers, NEW o \in OutcomeType, Call(p, o)
    PROVE  zone' \in [Providers -> Zone] /\ left' \in Nat
  BY SpendType DEF TypeOK, Call, OutcomeType

\* A step that reports on one provider and calls it, or does not.
LEMMA SyncTypes ==
    ASSUME TypeOK, Elsewhere, UNCHANGED <<recStore, recQueue>>,
           rw' \in [Records -> RecordWorker],
           zone' \in [Providers -> Zone], left' \in Nat
    PROVE  TypeOK'
  BY DEF TypeOK, Elsewhere, recStore, recQueue, provVars, provQueue

LEMMA RecordStepTypes ==
    ASSUME TypeOK, NEW r \in Records, RecordStep(r)
    PROVE  TypeOK'
<1>0. /\ rec[r] \in RecordObject /\ recSeen[r] \in RecordObject
      /\ rw[r] \in RecordWorker /\ rw[r].obj \in RecordObject
  BY DEF TypeOK, RecordWorker
<1>1. CASE RecBegin(r)
  <2>1. rw' \in [Records -> RecordWorker]
    <3>1. [pc |-> FirstStep(recSeen[r]), obj |-> recSeen[r],
           fresh |-> r \notin recBehind, provs |-> provSeen, done |-> {}] \in RecordWorker
      BY <1>0 DEF RecordWorker, TypeOK, FirstStep
    <3> QED
      BY <1>1, <3>1 DEF TypeOK, RecBegin
  <2> QED
    BY <1>1, <2>1 DEF TypeOK, RecBegin, Elsewhere, recStore, provVars, provQueue
<1>2. CASE RecAddFinalizer(r)
  <2>1. [rec[r] EXCEPT !.fin = TRUE] \in RecordObject
    BY <1>0 DEF RecordObject
  <2>2. /\ rec' \in [Records -> RecordObject]
        /\ recBehind' \subseteq Records /\ recNews' \subseteq recBehind'
        /\ left' \in Nat
    BY <1>2, <2>1, StoreRecordTypes, SpendType DEF TypeOK, RecAddFinalizer, recStore
  <2> QED
    BY <1>2, <2>2, ConstantTypes DEF TypeOK, RecAddFinalizer, Elsewhere, provVars, provQueue
<1>3. CASE RecWriteStatus(r)
  <2>1. WithStatus(r) \in RecordObject
    BY <1>0 DEF WithStatus, AllReady, RecordObject
  <2>2. /\ rec' \in [Records -> RecordObject]
        /\ recBehind' \subseteq Records /\ recNews' \subseteq recBehind'
        /\ left' \in Nat
    BY <1>3, <2>1, StoreRecordTypes, SpendType DEF TypeOK, RecWriteStatus, recStore
  <2>3. [rw[r] EXCEPT !.pc = "rmfin"] \in RecordWorker
    BY <1>0 DEF RecordWorker
  <2>4. rw' \in [Records -> RecordWorker]
    BY <1>3, <2>3, ConstantTypes DEF TypeOK, RecWriteStatus
  <2> QED
    BY <1>3, <2>2, <2>4 DEF TypeOK, RecWriteStatus, Elsewhere, provVars, provQueue
<1>4. CASE RecRemoveFinalizer(r)
  <2>1. [NoRecord EXCEPT !.phase = "gone"] \in RecordObject
    BY ConstantTypes DEF RecordObject, Phases
  <2>2. /\ rec' \in [Records -> RecordObject]
        /\ recBehind' \subseteq Records /\ recNews' \subseteq recBehind'
        /\ left' \in Nat
    BY <1>4, <2>1, StoreRecordTypes, SpendType DEF TypeOK, RecRemoveFinalizer, recStore
  <2> QED
    BY <1>4, <2>2, ConstantTypes
    DEF TypeOK, RecRemoveFinalizer, Elsewhere, provVars, provQueue, recQueue
<1>5. ASSUME NEW p \in Providers, RecSelectorError(r, p) PROVE TypeOK'
  BY <1>5, ConstantTypes
  DEF TypeOK, RecSelectorError, Elsewhere, recStore, provVars, provQueue
<1>6. ASSUME NEW p \in Providers, RecNotReady(r, p) \/ RecPruneNotReady(r, p) PROVE TypeOK'
  BY <1>6, ReportTypes, SyncTypes
  DEF RecNotReady, RecPruneNotReady, Messages, recStore, recQueue, TypeOK
<1>7. ASSUME NEW p \in Providers, RecSkipDelete(r, p) \/ RecForget(r, p) PROVE TypeOK'
  <2>1. NoId \in RecordId
    BY DEF RecordId
  <2> QED
    BY <1>7, <2>1, ReportTypes, SyncTypes
    DEF RecSkipDelete, RecForget, Messages, recStore, recQueue, TypeOK
<1>8. ASSUME NEW p \in Providers,
             RecDelete(r, p) \/ RecCreate(r, p) \/ RecUpdate(r, p) \/ RecPrune(r, p)
      PROVE  TypeOK'
  <2>1. Client(p) \in ClientConfig /\ zone[p] \in Zone /\ NoId \in RecordId
    BY ClientType DEF TypeOK, RecordId
  <2>2. PICK o \in OutcomeType :
            /\ Call(p, o)
            /\ Report(r, p, o.id, ErrorMsg(o)) \/ Drop(r, p) \/ Report(r, p, o.id, "error")
    BY <1>8, <2>1, ReportTypes, CreateType, UpdateType, DeleteType
    DEF RecDelete, RecCreate, RecUpdate, RecPrune
  <2>3. o.id \in RecordId /\ ErrorMsg(o) \in Messages /\ "error" \in Messages
    BY DEF OutcomeType, ErrorMsg, Messages
  <2>4. rw' \in [Records -> RecordWorker]
    BY <2>2, <2>3, ReportTypes
  <2>5. Elsewhere /\ UNCHANGED <<recStore, recQueue>>
    BY <1>8 DEF RecDelete, RecCreate, RecUpdate, RecPrune
  <2> QED
    BY <2>2, <2>4, <2>5, CallTypes, SyncTypes
<1> QED
  BY <1>1, <1>2, <1>3, <1>4, <1>5, <1>6, <1>7, <1>8 DEF RecordStep

LEMMA ProviderStepTypes ==
    ASSUME TypeOK, NEW p \in Providers, ProviderStep(p)
    PROVE  TypeOK'
<1>0. /\ prov[p] \in ProviderObject /\ provSeen[p] \in ProviderObject
      /\ pw[p] \in ProviderWorker /\ pw[p].obj \in ProviderObject
      /\ pw[p].cond \in Conditions
  BY DEF TypeOK, ProviderWorker
<1>1. CASE ProvBegin(p)
  <2>1. ASSUME NEW pc \in {"idle", "addfin", "build", "status", "rmfin"},
               NEW cond \in Conditions, NEW again \in BOOLEAN
        PROVE  [pc |-> pc, obj |-> provSeen[p], fresh |-> p \notin provBehind,
                cond |-> cond, again |-> again] \in ProviderWorker
    BY <1>0 DEF ProviderWorker
  <2>2. pw' \in [Providers -> ProviderWorker]
    BY <1>1, <2>1 DEF TypeOK, ProvBegin, Conditions
  <2>3. provQ' \subseteq Providers /\ UNCHANGED <<prov, provBehind, provCache, provTimer, left>>
    BY <1>1 DEF TypeOK, ProvBegin, provStore
  <2>4. Apart
    BY <1>1 DEF ProvBegin
  <2> QED
    BY <2>2, <2>3, <2>4 DEF TypeOK, Apart, recVars, recQueue
<1>2. CASE ProvAddFinalizer(p)
  <2>1. [prov[p] EXCEPT !.fin = TRUE] \in ProviderObject
    BY <1>0 DEF ProviderObject
  <2>2. /\ prov' \in [Providers -> ProviderObject] /\ provBehind' \subseteq Providers
        /\ left' \in Nat
    BY <1>2, <2>1, StoreProviderTypes, SpendType DEF TypeOK, ProvAddFinalizer, provStore
  <2> QED
    BY <1>2, <2>2, ConstantTypes DEF TypeOK, ProvAddFinalizer, Apart, recVars, recQueue
<1>3. CASE ProvBuild(p)
  <2>1. [gen |-> pw[p].obj.gen, setup |-> pw[p].obj.setup] \in Clients
    BY <1>0 DEF ProviderObject, Clients
  <2>2. /\ [pw[p] EXCEPT !.pc = "status"] \in ProviderWorker
        /\ [pw[p] EXCEPT !.pc = "status", !.cond = "failed", !.again = TRUE] \in ProviderWorker
    BY <1>0 DEF ProviderWorker, Conditions
  <2>3. pw' \in [Providers -> ProviderWorker]
    BY <1>3, <2>2 DEF TypeOK, ProvBuild
  <2>4. left' \in Nat
    BY <1>3, SpendType DEF TypeOK, ProvBuild
  <2>5. provCache' \in [Providers -> Clients]
    BY <1>3, <2>1 DEF TypeOK, ProvBuild, Clients
  <2> QED
    BY <1>3, <2>3, <2>4, <2>5 DEF TypeOK, Clients, ProvBuild, Apart, recVars, recQueue, provStore, provQueue
<1>4. CASE ProvRemoveFinalizer(p)
  <2>1. [NoProvider EXCEPT !.phase = "gone"] \in ProviderObject
    BY ConstantTypes DEF ProviderObject, Phases
  <2>2. /\ prov' \in [Providers -> ProviderObject] /\ provBehind' \subseteq Providers
        /\ left' \in Nat
    BY <1>4, <2>1, StoreProviderTypes, SpendType DEF TypeOK, ProvRemoveFinalizer, provStore
  <2>3. [pw[p] EXCEPT !.pc = "status", !.cond = "failed"] \in ProviderWorker
    BY <1>0 DEF ProviderWorker, Conditions
  <2>4. pw' \in [Providers -> ProviderWorker]
    BY <1>4, <2>3, ConstantTypes DEF TypeOK, ProvRemoveFinalizer
  <2> QED
    BY <1>4, <2>2, <2>4 DEF TypeOK, ProvRemoveFinalizer, Apart, recVars, recQueue, provQueue
<1>5. CASE ProvWriteStatus(p)
  <2>1. [prov[p] EXCEPT !.cond = pw[p].cond] \in ProviderObject
    BY <1>0 DEF ProviderObject
  <2>2. /\ prov' \in [Providers -> ProviderObject] /\ provBehind' \subseteq Providers
        /\ left' \in Nat
    BY <1>5, <2>1, StoreProviderTypes, SpendType DEF TypeOK, ProvWriteStatus, provStore
  <2> QED
    BY <1>5, <2>2, ConstantTypes DEF TypeOK, ProvWriteStatus, Rescheduled, Apart, recVars, recQueue
<1> QED
  BY <1>1, <1>2, <1>3, <1>4, <1>5 DEF ProviderStep

\* Every variable stays within its type, whatever the constants are.
THEOREM TypeCorrectness == Spec => []TypeOK
<1>1. TypeOK /\ UNCHANGED vars => TypeOK'
  BY DEF TypeOK, vars
<1>2. TypeOK /\ [Next]_vars => TypeOK'
  BY <1>1, EnvironmentTypes, RecordStepTypes, ProviderStepTypes DEF Next
<1> QED
  BY <1>2, InitTypes, PTL DEF Spec

-----------------------------------------------------------------------------
(***************************************************************************)
(* What a new status entry changes                                         *)
(***************************************************************************)

\* How a new status entry changes the worker.
LEMMA NoteEffect ==
    ASSUME TypeOK, NEW r \in Records, NEW p \in Providers, NEW entry, Note(r, p, entry)
    PROVE  /\ \A q \in Records \ {r} : rw'[q] = rw[q]
           /\ rw'[r].pc = rw[r].pc /\ rw'[r].fresh = rw[r].fresh
           /\ rw'[r].provs = rw[r].provs /\ rw'[r].done = rw[r].done \cup {p}
           /\ rw'[r].obj.phase = rw[r].obj.phase /\ rw'[r].obj.fin = rw[r].obj.fin
           /\ rw'[r].obj.val = rw[r].obj.val /\ rw'[r].obj.lab = rw[r].obj.lab
           /\ rw'[r].obj.st[p] = entry
           /\ \A q \in Providers \ {p} : rw'[r].obj.st[q] = rw[r].obj.st[q]
<1>1. rw[r] \in RecordWorker /\ rw[r].obj \in RecordObject
  BY DEF TypeOK, RecordWorker
<1>2. rw'[r] = [rw[r] EXCEPT !.obj.st[p] = entry, !.done = @ \cup {p}]
  BY DEF TypeOK, Note
<1>3. rw'[r].obj.st = [rw[r].obj.st EXCEPT ![p] = entry]
  BY <1>1, <1>2 DEF RecordWorker, RecordObject
<1> QED
  BY <1>1, <1>2, <1>3 DEF TypeOK, RecordWorker, RecordObject, Note

\* A step that works on one provider: the worker's position, and which steps they are.
SyncStep(r, p) ==
    \/ RecNotReady(r, p) \/ RecSkipDelete(r, p)
    \/ RecDelete(r, p) \/ RecCreate(r, p) \/ RecUpdate(r, p)
    \/ RecForget(r, p) \/ RecPruneNotReady(r, p) \/ RecPrune(r, p)

LEMMA SyncStepNotes ==
    ASSUME NEW r \in Records, NEW p \in Providers, SyncStep(r, p)
    PROVE  /\ \E entry : Note(r, p, entry)
           /\ rw[r].pc = "sync"
           /\ UNCHANGED <<rec, recSeen, recBehind, recNews, prov, provSeen, provBehind>>
  BY DEF SyncStep, RecNotReady, RecSkipDelete, RecDelete, RecCreate, RecUpdate, RecForget,
         RecPruneNotReady, RecPrune, Report, Drop, recStore, Elsewhere, provVars

-----------------------------------------------------------------------------
(***************************************************************************)
(* Caches                                                                  *)
(***************************************************************************)

LEMMA CurrentStep ==
    ASSUME TypeOK, CachesAreCurrent, [Next]_vars
    PROVE  CachesAreCurrent'
<1>1. ASSUME NEW r \in Records, NEW obj, StoreRecord(r, obj), recSeen' = recSeen
      PROVE  \A q \in Records \ recBehind' : recSeen'[q] = rec'[q]
  BY <1>1 DEF CachesAreCurrent, TypeOK, StoreRecord
<1>2. ASSUME NEW p \in Providers, NEW obj, StoreProvider(p, obj), provSeen' = provSeen
      PROVE  \A q \in Providers \ provBehind' : provSeen'[q] = prov'[q]
  BY <1>2 DEF CachesAreCurrent, TypeOK, StoreProvider
<1>3. CASE UNCHANGED vars
  BY <1>3 DEF CachesAreCurrent, vars
<1>4. CASE Environment
  <2>1. ASSUME NEW r \in Records, NEW obj, UserWritesRecord(r, obj) PROVE CachesAreCurrent'
    BY <1>1, <2>1 DEF UserWritesRecord, CachesAreCurrent, provVars
  <2>2. ASSUME NEW p \in Providers, NEW obj, UserWritesProvider(p, obj) PROVE CachesAreCurrent'
    BY <1>2, <2>2 DEF UserWritesProvider, CachesAreCurrent, recVars
  <2>3. ASSUME NEW r \in Records, DeliverRecord(r) PROVE CachesAreCurrent'
    BY <2>3 DEF DeliverRecord, CachesAreCurrent, TypeOK, provVars
  <2>4. ASSUME NEW p \in Providers, DeliverProvider(p) PROVE CachesAreCurrent'
    BY <2>4 DEF DeliverProvider, CachesAreCurrent, TypeOK, recVars
  <2>5. CASE Crash
    BY <2>5 DEF Crash, CachesAreCurrent
  <2>6. ASSUME NEW r \in Records, RecordTimer(r) PROVE CachesAreCurrent'
    BY <2>6 DEF RecordTimer, CachesAreCurrent, recVars, provVars
  <2>7. ASSUME NEW p \in Providers, ProviderTimer(p) PROVE CachesAreCurrent'
    BY <2>7 DEF ProviderTimer, CachesAreCurrent, recVars, provVars
  <2>8. ASSUME NEW r \in Records,
               CreateRecord(r) \/ EditRecord(r) \/ TouchRecord(r) \/ DeleteRecord(r)
        PROVE  CachesAreCurrent'
    BY <2>1, <2>8 DEF CreateRecord, EditRecord, TouchRecord, DeleteRecord
  <2>9. ASSUME NEW p \in Providers,
               CreateProvider(p) \/ EditProvider(p) \/ TouchProvider(p) \/ DeleteProvider(p)
        PROVE  CachesAreCurrent'
    BY <2>2, <2>9 DEF CreateProvider, EditProvider, TouchProvider, DeleteProvider
  <2> QED
    BY <1>4, <2>3, <2>4, <2>5, <2>6, <2>7, <2>8, <2>9 DEF Environment
<1>5. ASSUME NEW r \in Records, RecordStep(r) PROVE CachesAreCurrent'
  <2>1. recSeen' = recSeen /\ UNCHANGED provVars
    BY <1>5
    DEF RecordStep, RecBegin, RecAddFinalizer, RecWriteStatus, RecRemoveFinalizer,
        RecSelectorError, RecNotReady, RecSkipDelete, RecDelete, RecCreate, RecUpdate,
        RecForget, RecPruneNotReady, RecPrune, Elsewhere
  <2>2. UNCHANGED recStore \/ \E obj : StoreRecord(r, obj)
    BY <1>5
    DEF RecordStep, RecBegin, RecAddFinalizer, RecWriteStatus, RecRemoveFinalizer,
        RecSelectorError, RecNotReady, RecSkipDelete, RecDelete, RecCreate, RecUpdate,
        RecForget, RecPruneNotReady, RecPrune, recStore
  <2> QED
    BY <1>1, <2>1, <2>2 DEF CachesAreCurrent, recStore, provVars
<1>6. ASSUME NEW p \in Providers, ProviderStep(p) PROVE CachesAreCurrent'
  <2>1. provSeen' = provSeen /\ UNCHANGED recVars
    BY <1>6
    DEF ProviderStep, ProvBegin, ProvAddFinalizer, ProvBuild, ProvRemoveFinalizer,
        ProvWriteStatus, Apart
  <2>2. UNCHANGED provStore \/ \E obj : StoreProvider(p, obj)
    BY <1>6
    DEF ProviderStep, ProvBegin, ProvAddFinalizer, ProvBuild, ProvRemoveFinalizer,
        ProvWriteStatus, provStore
  <2> QED
    BY <1>2, <2>1, <2>2 DEF CachesAreCurrent, provStore, recVars
<1> QED
  BY <1>3, <1>4, <1>5, <1>6 DEF Next

-----------------------------------------------------------------------------
(***************************************************************************)
(* Finalizers                                                              *)
(***************************************************************************)

LEMMA GuardedInit == Init => Guarded
  BY DEF Init, Guarded, FinalizerMeansExists, DeletionsStand, WorkerHasFinalizer,
         RemovingMeansDeleting, CacheAheadOfWorker, LiveCopyIsGuarded,
         FreshMeansExists, NoRecord, IdleRec,
         Exists, Ended, Busy

\* Guarded speaks of rec, recSeen and rw, and of nothing else.
LEMMA GuardedFrame ==
    ASSUME Guarded, UNCHANGED <<rec, recSeen, rw>>
    PROVE  Guarded'
  BY DEF Guarded, FinalizerMeansExists, DeletionsStand, WorkerHasFinalizer,
         RemovingMeansDeleting, CacheAheadOfWorker, LiveCopyIsGuarded,
         FreshMeansExists, Exists, Ended, Busy

\* What a user may do to a Record: nothing that takes the finalizer or revives it.
UserKeeps(old, new) ==
    /\ new.fin = old.fin
    /\ old.fin => Exists(new)
    /\ old.phase \in Ended => new.phase \in Ended

LEMMA UserStepKeeps ==
    ASSUME TypeOK, Guarded, NEW r \in Records, NEW obj \in RecordObject,
           UserWritesRecord(r, obj), UserKeeps(rec[r], obj)
    PROVE  Guarded'
<1>1. /\ rec'[r] = obj /\ \A q \in Records \ {r} : rec'[q] = rec[q]
      /\ recSeen' = recSeen
  BY DEF TypeOK, UserWritesRecord, StoreRecord
<1>2. \A q \in Records : rw'[q].pc = rw[q].pc /\ rw'[q].obj = rw[q].obj
  BY DEF TypeOK, UserWritesRecord, RecordWorker
<1>3. ~rw'[r].fresh /\ \A q \in Records \ {r} : rw'[q] = rw[q]
  BY DEF TypeOK, UserWritesRecord, RecordWorker
<1> QED
  BY <1>1, <1>2, <1>3
  DEF Guarded, FinalizerMeansExists, DeletionsStand, WorkerHasFinalizer,
      RemovingMeansDeleting, CacheAheadOfWorker, LiveCopyIsGuarded,
      FreshMeansExists, Exists, Ended, Busy,
      UserKeeps

LEMMA UsersGuard ==
    ASSUME TypeOK, Guarded, NEW r \in Records,
           CreateRecord(r) \/ EditRecord(r) \/ TouchRecord(r) \/ DeleteRecord(r)
    PROVE  Guarded'
<1>1. rec[r] \in RecordObject
  BY DEF TypeOK
<1>2. PICK obj \in RecordObject : UserWritesRecord(r, obj) /\ UserKeeps(rec[r], obj)
  <2>1. CASE CreateRecord(r)
    <3>1. PICK v \in Values, l \in Labels :
              UserWritesRecord(r, [NoRecord EXCEPT !.phase = "live", !.gen = 1,
                                                   !.val = v, !.lab = l])
      BY <2>1 DEF CreateRecord
    <3> DEFINE obj == [NoRecord EXCEPT !.phase = "live", !.gen = 1, !.val = v, !.lab = l]
    <3>2. obj \in RecordObject
      BY ConstantTypes DEF RecordObject, Phases
    <3>3. ~rec[r].fin /\ rec[r].phase = "absent"
      BY <2>1 DEF CreateRecord, Guarded, FinalizerMeansExists, Exists
    <3>4. obj.fin = FALSE /\ obj.phase = "live"
      BY DEF NoRecord
    <3>5. UserKeeps(rec[r], obj)
      BY <1>1, <3>3, <3>4 DEF UserKeeps, Ended, Exists, RecordObject
    <3> QED
      BY <3>1, <3>2, <3>5
  <2>2. CASE EditRecord(r)
    <3>1. \/ \E v \in Values :
                UserWritesRecord(r, [rec[r] EXCEPT !.val = v, !.gen = @ + 1])
          \/ \E l \in Labels : UserWritesRecord(r, [rec[r] EXCEPT !.lab = l])
      BY <2>2 DEF EditRecord
    <3>2. Exists(rec[r])
      BY <2>2 DEF EditRecord
    <3>3. ASSUME NEW v \in Values
          PROVE  UserKeeps(rec[r], [rec[r] EXCEPT !.val = v, !.gen = @ + 1])
      BY <1>1, <3>2 DEF UserKeeps, Exists, RecordObject
    <3>4. ASSUME NEW l \in Labels PROVE UserKeeps(rec[r], [rec[r] EXCEPT !.lab = l])
      BY <1>1, <3>2 DEF UserKeeps, Exists, RecordObject
    <3> QED
      BY <1>1, <3>1, <3>3, <3>4, EditedRecordTypes
  <2>3. CASE TouchRecord(r)
    BY <1>1, <2>3 DEF TouchRecord, UserKeeps
  <2>4. CASE DeleteRecord(r)
    <3>1. UserKeeps(rec[r], Deleted(rec[r], NoRecord))
      BY <1>1, <2>4 DEF DeleteRecord, UserKeeps, Deleted, Exists, Ended, RecordObject, NoRecord
    <3> QED
      BY <1>1, <2>4, <3>1, EditedRecordTypes DEF DeleteRecord
  <2> QED
    BY <2>1, <2>2, <2>3, <2>4
<1> QED
  BY <1>2, UserStepKeeps

LEMMA InformersGuard ==
    ASSUME TypeOK, CachesAreCurrent, Guarded, (\E r \in Records : DeliverRecord(r)) \/ Crash
    PROVE  Guarded'
<1>1. ASSUME NEW r \in Records, DeliverRecord(r) PROVE Guarded'
  <2>1. /\ recSeen'[r] = rec[r] /\ \A q \in Records \ {r} : recSeen'[q] = recSeen[q]
        /\ rec' = rec /\ rw' = rw
    BY <1>1 DEF TypeOK, DeliverRecord
  <2> QED
    BY <2>1
    DEF Guarded, FinalizerMeansExists, DeletionsStand, WorkerHasFinalizer, FreshMeansExists,
        RemovingMeansDeleting, CacheAheadOfWorker, LiveCopyIsGuarded, Exists, Ended, Busy
<1>2. CASE Crash
  <2>1. rec' = rec /\ recSeen' = rec /\ rw' = [r \in Records |-> IdleRec]
    BY <1>2 DEF Crash
  <2>2. IdleRec.pc = "idle" /\ IdleRec.fresh = FALSE
    BY DEF IdleRec
  <2> QED
    BY <2>1, <2>2
    DEF Guarded, FinalizerMeansExists, DeletionsStand, WorkerHasFinalizer, FreshMeansExists,
        RemovingMeansDeleting, CacheAheadOfWorker, LiveCopyIsGuarded, Exists, Ended, Busy
<1> QED
  BY <1>1, <1>2

LEMMA RecordStepGuards ==
    ASSUME TypeOK, CachesAreCurrent, Guarded, NEW r \in Records, RecordStep(r)
    PROVE  Guarded'
<1> USE DEF Guarded, FinalizerMeansExists, DeletionsStand, WorkerHasFinalizer,
            FreshMeansExists, RemovingMeansDeleting, CacheAheadOfWorker, LiveCopyIsGuarded,
            Exists, Ended, Busy
<1>0. IdleRec.pc = "idle"
  BY DEF IdleRec
<1>1. CASE RecBegin(r)
  <2>1. rec' = rec /\ recSeen' = recSeen
    BY <1>1 DEF RecBegin, Elsewhere, recStore
  <2>2. CASE ~Exists(recSeen[r])
    BY <1>1, <2>1, <2>2 DEF RecBegin
  <2>3. CASE Exists(recSeen[r])
    <3>1. /\ \A q \in Records \ {r} : rw'[q] = rw[q]
          /\ rw'[r].pc = IF recSeen[r].fin THEN "sync" ELSE "addfin"
          /\ rw'[r].obj = recSeen[r] /\ rw'[r].fresh = (r \notin recBehind)
      BY <1>1, <2>3 DEF TypeOK, RecBegin, FirstStep
    <3>2. r \notin recBehind => recSeen[r] = rec[r]
      BY DEF CachesAreCurrent
    <3>3. \A q \in Records \ {r} : /\ rw'[q] = rw[q] /\ rec'[q] = rec[q]
                                   /\ recSeen'[q] = recSeen[q]
      BY <2>1, <3>1
    <3>4. /\ rw'[r].fresh => Exists(rec[r])
          /\ rw'[r].pc \in {"sync", "addfin"}
          /\ rw'[r].pc = "sync" => recSeen[r].fin
      BY <2>3, <3>1, <3>2
    <3> QED
      BY <2>1, <2>3, <3>1, <3>3, <3>4
  <2> QED
    BY <2>2, <2>3
<1>2. CASE RecAddFinalizer(r)
  <2>1. /\ recSeen' = recSeen /\ rw'[r] = IdleRec
        /\ \A q \in Records \ {r} : rw'[q] = rw[q] /\ rec'[q] = rec[q]
        /\ rw[r].pc = "addfin"
    BY <1>2 DEF TypeOK, RecAddFinalizer, Elsewhere, StoreRecord, recStore
  <2>2. /\ rec'[r].phase = rec[r].phase
        /\ rec'[r].fin = rec[r].fin \/ (rec'[r].fin = TRUE /\ rw[r].fresh)
    BY <1>2 DEF TypeOK, RecordObject, RecAddFinalizer, StoreRecord, recStore
  <2> QED
    BY <1>0, <2>1, <2>2
<1>3. CASE RecWriteStatus(r)
  <2>1. /\ recSeen' = recSeen
        /\ \A q \in Records \ {r} : rw'[q] = rw[q] /\ rec'[q] = rec[q]
    BY <1>3 DEF TypeOK, RecWriteStatus, Elsewhere, StoreRecord, recStore
  <2>2. rec'[r].phase = rec[r].phase /\ rec'[r].fin = rec[r].fin
    <3>1. WithStatus(r).phase = rec[r].phase /\ WithStatus(r).fin = rec[r].fin
      BY DEF TypeOK, RecordObject, WithStatus
    <3>2. rec' = rec \/ rec' = [rec EXCEPT ![r] = WithStatus(r)]
      BY <1>3 DEF RecWriteStatus, StoreRecord, recStore
    <3> QED
      BY <3>1, <3>2 DEF TypeOK
  <2>3. \/ rw'[r].pc = "idle"
        \/ /\ rw'[r].pc = "rmfin" /\ rw'[r].obj = rw[r].obj /\ rw'[r].fresh = rw[r].fresh
           /\ rw[r].obj.phase = "deleting" /\ rw[r].pc = "sync"
    BY <1>0, <1>3 DEF TypeOK, RecordWorker, RecWriteStatus
  <2> QED
    BY <2>1, <2>2, <2>3
<1>4. CASE RecRemoveFinalizer(r)
  <2>1. /\ recSeen' = recSeen /\ rw'[r] = IdleRec /\ rw[r].pc = "rmfin"
        /\ \A q \in Records \ {r} : rw'[q] = rw[q] /\ rec'[q] = rec[q]
    BY <1>4 DEF TypeOK, RecRemoveFinalizer, Elsewhere, StoreRecord, recStore
  <2>2. rec'[r] = rec[r] \/ (rec'[r].phase = "gone" /\ rec'[r].fin = FALSE)
    <3>1. /\ [NoRecord EXCEPT !.phase = "gone"].phase = "gone"
          /\ [NoRecord EXCEPT !.phase = "gone"].fin = FALSE
      BY DEF NoRecord
    <3>2. rec' = rec \/ rec' = [rec EXCEPT ![r] = [NoRecord EXCEPT !.phase = "gone"]]
      BY <1>4 DEF RecRemoveFinalizer, StoreRecord, recStore
    <3> QED
      BY <3>1, <3>2 DEF TypeOK
  <2> QED
    BY <1>0, <2>1, <2>2
<1>5. ASSUME NEW p \in Providers, RecSelectorError(r, p) PROVE Guarded'
  <2>1. /\ rec' = rec /\ recSeen' = recSeen /\ rw'[r] = IdleRec
        /\ \A q \in Records \ {r} : rw'[q] = rw[q]
    BY <1>5 DEF TypeOK, RecSelectorError, Elsewhere, recStore
  <2> QED
    BY <1>0, <2>1
<1>6. ASSUME NEW p \in Providers, SyncStep(r, p) PROVE Guarded'
  <2>1. /\ rec' = rec /\ recSeen' = recSeen
        /\ \A q \in Records \ {r} : rw'[q] = rw[q]
        /\ rw'[r].pc = rw[r].pc /\ rw'[r].fresh = rw[r].fresh
        /\ rw'[r].obj.phase = rw[r].obj.phase /\ rw'[r].obj.fin = rw[r].obj.fin
    BY <1>6, SyncStepNotes, NoteEffect
  <2> QED
    BY <2>1
<1> QED
  BY <1>1, <1>2, <1>3, <1>4, <1>5, <1>6 DEF RecordStep, SyncStep

LEMMA GuardedStep ==
    ASSUME TypeOK, CachesAreCurrent, Guarded, [Next]_vars
    PROVE  Guarded'
<1>1. ASSUME NEW r \in Records, RecordTimer(r) PROVE Guarded'
  BY <1>1, GuardedFrame DEF RecordTimer, recVars
<1>2. ASSUME NEW p \in Providers,
             \/ CreateProvider(p) \/ EditProvider(p) \/ TouchProvider(p) \/ DeleteProvider(p)
             \/ DeliverProvider(p) \/ ProviderTimer(p)
      PROVE  Guarded'
  BY <1>2, GuardedFrame
  DEF CreateProvider, EditProvider, TouchProvider, DeleteProvider, UserWritesProvider,
      DeliverProvider, ProviderTimer, recVars
<1>3. ASSUME NEW p \in Providers, ProviderStep(p) PROVE Guarded'
  BY <1>3, GuardedFrame
  DEF ProviderStep, ProvBegin, ProvAddFinalizer, ProvBuild, ProvRemoveFinalizer,
      ProvWriteStatus, Apart, recVars
<1>4. CASE UNCHANGED vars
  BY <1>4, GuardedFrame DEF vars
<1> QED
  BY <1>1, <1>2, <1>3, <1>4, UsersGuard, InformersGuard, RecordStepGuards
  DEF Next, Environment

-----------------------------------------------------------------------------
(***************************************************************************)
(* What a call may do to the entries of a zone                             *)
(***************************************************************************)

\* The entries of new are those of old, possibly with other contents, and entries of r.
OnlyAddsFor(new, old, r) ==
    \A e \in new.entries : e.rec = r \/ \E d \in old.entries : d.id = e.id /\ d.at = e.at

LEMMA ZonePartsAddFor ==
    ASSUME NEW z \in Zone, NEW site, NEW val, NEW r
    PROVE  /\ OnlyAddsFor(z, z, r)
           /\ OnlyAddsFor(Insert(z, site, val, r), z, r)
           /\ OnlyAddsFor(AdguardInsert(z, site, val, r), z, r)
           /\ \A gone : OnlyAddsFor(Remove(z, gone), z, r)
           /\ \A id : OnlyAddsFor(Overwrite(z, id, val), z, r)
<1>1. OnlyAddsFor(z, z, r)
  BY DEF OnlyAddsFor
<1>2. OnlyAddsFor(Insert(z, site, val, r), z, r)
  BY DEF OnlyAddsFor, Insert
<1>3. OnlyAddsFor(AdguardInsert(z, site, val, r), z, r)
  BY DEF OnlyAddsFor, AdguardInsert, Zone
<1>4. ASSUME NEW gone PROVE OnlyAddsFor(Remove(z, gone), z, r)
  BY DEF OnlyAddsFor, Remove, Zone
<1>5. ASSUME NEW id PROVE OnlyAddsFor(Overwrite(z, id, val), z, r)
  <2> SUFFICES ASSUME NEW e \in Overwrite(z, id, val).entries
               PROVE  \E d \in z.entries : d.id = e.id /\ d.at = e.at
    BY DEF OnlyAddsFor
  <2>1. PICK d \in z.entries : e = IF d.id = id THEN [d EXCEPT !.val = val] ELSE d
    BY DEF Overwrite, Zone
  <2>2. d \in Entry
    BY DEF Zone
  <2> QED
    BY <2>1, <2>2 DEF Entry
<1> QED
  BY <1>1, <1>2, <1>3, <1>4, <1>5

LEMMA CreateAddsFor ==
    ASSUME NEW cfg \in ClientConfig, NEW z \in Zone,
           NEW id, NEW val, NEW r, NEW o \in Create(cfg, z, id, val, r)
    PROVE  OnlyAddsFor(o.zone, z, r)
<1>1. o.zone \in {z, Insert(z, cfg.site, val, r), AdguardInsert(z, cfg.site, val, r)}
  BY DEF Create, CloudflareCreate, CloudflareFind, AliyunCreate, AdguardCreate,
         Applied, Unsent, Refused, Outcome, ProviderTypes, ClientConfig
<1> QED
  BY <1>1, ZonePartsAddFor

LEMMA UpdateAddsFor ==
    ASSUME NEW cfg \in ClientConfig, NEW z \in Zone,
           NEW id, NEW val, NEW r, NEW o \in Update(cfg, z, id, val, r)
    PROVE  OnlyAddsFor(o.zone, z, r)
<1> DEFINE removed == Remove(z, WithVal(z, cfg.site, id))
<1>1. /\ removed \in Zone /\ OnlyAddsFor(removed, z, r)
  BY RemoveType, ZonePartsAddFor
<1>2. OnlyAddsFor(AdguardInsert(removed, cfg.site, val, r), removed, r)
  BY <1>1, ZonePartsAddFor
<1>3. OnlyAddsFor(AdguardInsert(removed, cfg.site, val, r), z, r)
  <2>1. removed.entries \subseteq z.entries
    BY DEF Remove, Zone
  <2> QED
    BY <1>2, <2>1 DEF OnlyAddsFor
<1>4. o.zone \in {z, Overwrite(z, id, val), Insert(z, cfg.site, val, r), removed,
                  AdguardInsert(removed, cfg.site, val, r)}
  BY DEF Update, CloudflareUpdate, AliyunUpdate, AdguardUpdate,
         CloudflareCreate, CloudflareFind, AliyunCreate, AdguardCreate,
         Applied, Unsent, Refused, Outcome, ProviderTypes, ClientConfig
<1> HIDE DEF removed
<1> QED
  BY <1>1, <1>3, <1>4, ZonePartsAddFor

LEMMA DeleteAddsNothing ==
    ASSUME NEW cfg \in ClientConfig, NEW z \in Zone,
           NEW id, NEW val, NEW o \in Delete(cfg, z, id, val)
    PROVE  o.zone.entries \subseteq z.entries
<1>1. \A gone : Remove(z, gone).entries \subseteq z.entries
  BY DEF Remove, Zone
<1>2. o.zone \in {z, Remove(z, WithId(z, cfg.site, id)), Remove(z, WithVal(z, cfg.site, val))}
  BY DEF Delete, CloudflareDelete, AliyunDelete, AdguardDelete,
         Applied, Unsent, Refused, Outcome, ProviderTypes, ClientConfig
<1> QED
  BY <1>1, <1>2

\* The steps that change a zone.
LEMMA ZoneSteps ==
    ASSUME TypeOK, [Next]_vars
    PROVE  \/ zone' = zone
           \/ \E r \in Records, p \in Providers :
                 \/ RecCreate(r, p) \/ RecUpdate(r, p) \/ RecDelete(r, p) \/ RecPrune(r, p)
<1>1. CASE UNCHANGED vars
  BY <1>1 DEF vars
<1>2. CASE Environment
  BY <1>2
  DEF Environment, CreateRecord, EditRecord, TouchRecord, DeleteRecord, DeliverRecord,
      RecordTimer, CreateProvider, EditProvider, TouchProvider, DeleteProvider,
      DeliverProvider, ProviderTimer, Crash, UserWritesRecord, UserWritesProvider
<1>3. ASSUME NEW r \in Records, RecordStep(r)
      PROVE  \/ zone' = zone
             \/ \E p \in Providers :
                   \/ RecCreate(r, p) \/ RecUpdate(r, p) \/ RecDelete(r, p) \/ RecPrune(r, p)
  BY <1>3
  DEF RecordStep, RecBegin, RecAddFinalizer, RecWriteStatus, RecRemoveFinalizer,
      RecSelectorError, RecNotReady, RecSkipDelete, RecForget, RecPruneNotReady
<1>4. ASSUME NEW p \in Providers, ProviderStep(p) PROVE zone' = zone
  BY <1>4
  DEF ProviderStep, ProvBegin, ProvAddFinalizer, ProvBuild, ProvRemoveFinalizer,
      ProvWriteStatus, Apart
<1> QED
  BY <1>1, <1>2, <1>3, <1>4 DEF Next

\* What the four calls have in common.
LEMMA CallEffect ==
    ASSUME TypeOK, NEW r \in Records, NEW p \in Providers,
           RecCreate(r, p) \/ RecUpdate(r, p) \/ RecDelete(r, p) \/ RecPrune(r, p)
    PROVE  /\ zone[p] \in Zone /\ Client(p) \in ClientConfig
           /\ rw[r].obj.val \in Values /\ rw[r].obj.st[p].id \in RecordId
           /\ \A q \in Providers \ {p} : zone'[q] = zone[q]
<1>1. \E o : Call(p, o)
  BY DEF RecCreate, RecUpdate, RecDelete, RecPrune
<1>2. zone[p] \in Zone /\ Client(p) \in ClientConfig
  BY ClientType DEF TypeOK
<1> QED
  BY <1>1, <1>2, ReportTypes DEF Call, TypeOK

LEMMA EntriesAddedAreGuarded ==
    ASSUME TypeOK, Guarded, [Next]_vars,
           NEW p \in Providers, NEW e \in zone'[p].entries, EntryAdded(p, e)
    PROVE  rec[e.rec].fin
<1>1. zone' # zone
  BY DEF EntryAdded
<1>2. PICK r \in Records, q \in Providers :
          \/ RecCreate(r, q) \/ RecUpdate(r, q) \/ RecDelete(r, q) \/ RecPrune(r, q)
  BY <1>1, ZoneSteps
<1>3. q = p
  BY <1>2, CallEffect DEF EntryAdded
<1>4. ~RecDelete(r, p) /\ ~RecPrune(r, p)
  <2>1. ASSUME RecDelete(r, p) \/ RecPrune(r, p) PROVE FALSE
    <3>1. PICK o \in Delete(Client(p), zone[p], rw[r].obj.st[p].id, rw[r].obj.val) : Call(p, o)
      BY <2>1 DEF RecDelete, RecPrune
    <3>2. o.zone.entries \subseteq zone[p].entries
      BY <2>1, <3>1, CallEffect, DeleteAddsNothing
    <3>3. zone'[p] = o.zone
      BY <3>1 DEF Call, TypeOK
    <3> QED
      BY <3>2, <3>3 DEF EntryAdded
  <2> QED
    BY <2>1
<1>5. RecCreate(r, p) \/ RecUpdate(r, p)
  BY <1>2, <1>3, <1>4
<1>6. e.rec = r
  <2>1. PICK o : /\ Call(p, o)
                 /\ \/ o \in Create(Client(p), zone[p], NoId, rw[r].obj.val, r)
                    \/ o \in Update(Client(p), zone[p], rw[r].obj.st[p].id, rw[r].obj.val, r)
    BY <1>5 DEF RecCreate, RecUpdate
  <2>2. OnlyAddsFor(o.zone, zone[p], r)
    BY <1>5, <2>1, CallEffect, CreateAddsFor, UpdateAddsFor
  <2>3. zone'[p] = o.zone
    BY <2>1 DEF Call, TypeOK
  <2> QED
    BY <2>2, <2>3 DEF OnlyAddsFor, EntryAdded
<1>7. rw[r].pc = "sync" /\ rw[r].obj.phase # "deleting"
  BY <1>5 DEF RecCreate, RecUpdate, Unwanted
<1>8. rw[r].obj.phase = "live"
  BY <1>7 DEF Guarded, WorkerHasFinalizer, Exists
<1> QED
  BY <1>6, <1>7, <1>8 DEF Guarded, LiveCopyIsGuarded

\* The invariant about finalizers holds in every reachable state.
THEOREM FinalizersGuard == Spec => [](CachesAreCurrent /\ Guarded)
<1>1. Init => CachesAreCurrent /\ Guarded
  BY GuardedInit DEF Init, CachesAreCurrent
<1>2. TypeOK /\ (CachesAreCurrent /\ Guarded) /\ [Next]_vars => (CachesAreCurrent /\ Guarded)'
  BY CurrentStep, GuardedStep
<1> QED
  BY <1>1, <1>2, TypeCorrectness, PTL DEF Spec

\* No entry is made for a Record whose deletion could bypass the controller.
THEOREM GuardedEntries == Spec => EntriesAreGuarded
<1>1. TypeOK /\ (CachesAreCurrent /\ Guarded) /\ [Next]_vars
        => [\A p \in Providers : \A e \in zone'[p].entries :
              EntryAdded(p, e) => rec[e.rec].fin]_vars
  BY EntriesAddedAreGuarded
<1> QED
  BY <1>1, TypeCorrectness, FinalizersGuard, PTL DEF Spec, EntriesAreGuarded
=============================================================================
