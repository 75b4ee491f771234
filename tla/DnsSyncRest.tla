---------------------------- MODULE DnsSyncRest ----------------------------
(***************************************************************************)
(* RestMeansSettled, and the invariant Awaited behind it: whatever is not  *)
(* as the providers want it, somebody is going to look at.                 *)
(***************************************************************************)
EXTENDS DnsSyncClaims

LEMMA NothingFails ==
    ASSUME Undisturbed
    PROVE  ~Spend("touch") /\ ~Spend("api") /\ (ReadsAllowed => recBehind = {} /\ provBehind = {})
  BY DEF Undisturbed, Spend, ReadsAllowed

-----------------------------------------------------------------------------
(***************************************************************************)
(* News of Records                                                         *)
(***************************************************************************)

SameContent(a, b) == a.phase = b.phase /\ a.val = b.val /\ a.lab = b.lab

\* A version is stored: if it says something new, the controller will react to its event.
RecordStored(r) ==
    /\ recSeen'[r] = recSeen[r]
    /\ SameContent(rec'[r], rec[r]) \/ r \in recNews'
    /\ r \in recNews => r \in recNews'

\* Any step stores versions so, or brings the cached copy to the stored version.
RecordsChange ==
    \A r \in Records : RecordStored(r) \/ (recSeen'[r] = rec[r] /\ rec'[r] = rec[r])

LEMMA StoringRecord ==
    ASSUME TypeOK, NEW r \in Records, NEW obj, StoreRecord(r, obj), recSeen' = recSeen,
           SameContent(obj, rec[r]) \/ RecordEventPasses(rec[r], obj)
    PROVE  RecordsChange
<1>1. /\ rec'[r] = obj /\ \A q \in Records \ {r} : rec'[q] = rec[q]
      /\ recNews \subseteq recNews'
      /\ RecordEventPasses(rec[r], obj) => r \in recNews'
  BY DEF TypeOK, StoreRecord
<1> QED
  BY <1>1 DEF RecordsChange, RecordStored, SameContent

\* What a user writes, other than by touching the object, has an event that passes.
LEMMA UsersTell ==
    ASSUME TypeOK, NEW r \in Records, CreateRecord(r) \/ EditRecord(r) \/ DeleteRecord(r)
    PROVE  \E obj : UserWritesRecord(r, obj) /\ RecordEventPasses(rec[r], obj)
<1>0. rec[r] \in RecordObject /\ NoRecord \in RecordObject
  BY ConstantTypes DEF TypeOK
<1>1. CASE CreateRecord(r)
  <2>1. PICK v \in Values, l \in Labels :
            UserWritesRecord(r, [NoRecord EXCEPT !.phase = "live", !.gen = 1,
                                                 !.val = v, !.lab = l])
    BY <1>1 DEF CreateRecord
  <2>2. [NoRecord EXCEPT !.phase = "live", !.gen = 1, !.val = v, !.lab = l].phase = "live"
    BY <1>0 DEF RecordObject
  <2> QED
    BY <1>1, <2>1, <2>2 DEF CreateRecord, RecordEventPasses, Exists
<1>2. CASE EditRecord(r)
  <2>1. ASSUME NEW v \in Values
        PROVE  RecordEventPasses(rec[r], [rec[r] EXCEPT !.val = v, !.gen = @ + 1])
    BY <1>0 DEF RecordEventPasses, RecordObject
  <2>2. ASSUME NEW l \in Labels \ {rec[r].lab}
        PROVE  RecordEventPasses(rec[r], [rec[r] EXCEPT !.lab = l])
    BY <1>0 DEF RecordEventPasses, RecordObject
  <2> QED
    BY <1>2, <2>1, <2>2 DEF EditRecord
<1>3. CASE DeleteRecord(r)
  <2>1. RecordEventPasses(rec[r], Deleted(rec[r], NoRecord))
    BY <1>0, <1>3 DEF DeleteRecord, Deleted, RecordEventPasses, RecordObject, Exists
  <2> QED
    BY <1>3, <2>1 DEF DeleteRecord
<1> QED
  BY <1>1, <1>2, <1>3

\* What the steps of a Record's worker store and queue.
LEMMA StepStores ==
    ASSUME TypeOK, NEW r \in Records, RecordStep(r)
    PROVE  /\ recSeen' = recSeen /\ UNCHANGED <<prov, provSeen, provBehind>>
           /\ \/ UNCHANGED <<rec, recBehind, recNews>>
              \/ \E obj : /\ StoreRecord(r, obj) /\ rw[r].fresh
                          /\ SameContent(obj, rec[r]) \/ (rw[r].pc = "rmfin" /\ obj.phase = "gone")
<1>0. rec[r] \in RecordObject /\ NoRecord \in RecordObject
  BY ConstantTypes DEF TypeOK
<1>1. CASE RecBegin(r)
  BY <1>1 DEF RecBegin, recStore, Elsewhere, provVars
<1>2. CASE RecAddFinalizer(r)
  <2>1. SameContent([rec[r] EXCEPT !.fin = TRUE], rec[r])
    BY <1>0 DEF SameContent, RecordObject
  <2> QED
    BY <1>2, <2>1 DEF RecAddFinalizer, recStore, Elsewhere, provVars
<1>3. CASE RecWriteStatus(r)
  <2>1. SameContent(WithStatus(r), rec[r])
    BY <1>0 DEF SameContent, WithStatus, RecordObject
  <2> QED
    BY <1>3, <2>1 DEF RecWriteStatus, recStore, Elsewhere, provVars
<1>4. CASE RecRemoveFinalizer(r)
  <2>1. [NoRecord EXCEPT !.phase = "gone"].phase = "gone"
    BY <1>0 DEF RecordObject
  <2> QED
    BY <1>4, <2>1 DEF RecRemoveFinalizer, recStore, Elsewhere, provVars
<1>5. ASSUME NEW p \in Providers, RecSelectorError(r, p) \/ SyncStep(r, p)
      PROVE  UNCHANGED <<rec, recSeen, recBehind, recNews, prov, provSeen, provBehind>>
  BY <1>5, SyncStepNotes DEF RecSelectorError, recStore, Elsewhere, provVars
<1> QED
  BY <1>1, <1>2, <1>3, <1>4, <1>5 DEF RecordStep, SyncStep

LEMMA RecordsStep ==
    ASSUME TypeOK, Guarded, [Next]_vars
    PROVE  RecordsChange
<1>1. ASSUME UNCHANGED <<rec, recSeen, recNews>> PROVE RecordsChange
  BY <1>1 DEF RecordsChange, RecordStored, SameContent
<1>2. ASSUME NEW r \in Records, CreateRecord(r) \/ EditRecord(r) \/ DeleteRecord(r)
      PROVE  RecordsChange
  <2>1. PICK obj : UserWritesRecord(r, obj) /\ RecordEventPasses(rec[r], obj)
    BY <1>2, UsersTell
  <2> QED
    BY <2>1, StoringRecord DEF UserWritesRecord
<1>3. ASSUME NEW r \in Records, TouchRecord(r) PROVE RecordsChange
  BY <1>3, StoringRecord DEF TouchRecord, UserWritesRecord, SameContent
<1>4. ASSUME NEW r \in Records, DeliverRecord(r) PROVE RecordsChange
  BY <1>4 DEF DeliverRecord, TypeOK, RecordsChange, RecordStored, SameContent
<1>5. CASE Crash
  BY <1>5 DEF Crash, RecordsChange
<1>6. ASSUME NEW r \in Records, RecordStep(r) PROVE RecordsChange
  <2>1. ASSUME NEW obj, StoreRecord(r, obj), recSeen' = recSeen, rw[r].fresh,
               rw[r].pc = "rmfin", obj.phase = "gone"
        PROVE  RecordsChange
    <3>1. Exists(rec[r])
      BY <2>1 DEF Guarded, FreshMeansExists, Busy
    <3> QED
      BY <2>1, <3>1, StoringRecord DEF RecordEventPasses, Exists
  <2> QED
    BY <1>1, <1>6, <2>1, StepStores, StoringRecord
<1>7. ASSUME NEW r \in Records, RecordTimer(r) PROVE UNCHANGED <<rec, recSeen, recNews>>
  BY <1>7 DEF RecordTimer, recVars
<1>8. ASSUME NEW p \in Providers,
             \/ CreateProvider(p) \/ EditProvider(p) \/ TouchProvider(p) \/ DeleteProvider(p)
             \/ DeliverProvider(p) \/ ProviderTimer(p) \/ ProviderStep(p)
      PROVE  UNCHANGED <<rec, recSeen, recNews>>
  BY <1>8
  DEF CreateProvider, EditProvider, TouchProvider, DeleteProvider, UserWritesProvider,
      DeliverProvider, ProviderTimer, ProviderStep, ProvBegin, ProvAddFinalizer, ProvBuild,
      ProvRemoveFinalizer, ProvWriteStatus, Apart, recVars
<1>9. CASE UNCHANGED vars
  BY <1>1, <1>9 DEF vars
<1> QED
  BY <1>1, <1>2, <1>3, <1>4, <1>5, <1>6, <1>7, <1>8, <1>9 DEF Next, Environment

LEMMA NewsTold ==
    ASSUME NewsTell, RecordsChange
    PROVE  NewsTell'
  BY DEF NewsTell, RecordsChange, RecordStored, SameContent

LEMMA GenerationsTold ==
    ASSUME TypeOK, TypeOK', CopiesOfProvidersLag, GenerationsTell, ProvidersChange
    PROVE  GenerationsTell'
<1> SUFFICES ASSUME NEW p \in Providers, Exists(provSeen'[p]), Exists(prov'[p])
             PROVE  /\ provSeen'[p].gen <= prov'[p].gen
                    /\ provSeen'[p].gen = prov'[p].gen => /\ provSeen'[p].phase = prov'[p].phase
                                                          /\ provSeen'[p].sel = prov'[p].sel
                                                          /\ provSeen'[p].setup = prov'[p].setup
  BY DEF GenerationsTell, Exists
<1>0. /\ prov[p].gen \in Nat /\ prov'[p].gen \in Nat
      /\ provSeen[p].gen \in Nat /\ provSeen'[p].gen \in Nat
  BY DEF TypeOK, ProviderObject
<1>1. CASE provSeen'[p] = prov[p] /\ prov'[p] = prov[p]
  BY <1>0, <1>1
<1>2. CASE provSeen'[p] = provSeen[p]
  BY <1>0, <1>2
  DEF ProvidersChange, ProviderChange, GenerationsTell, CopiesOfProvidersLag, Exists
<1> QED
  BY <1>1, <1>2 DEF ProvidersChange

-----------------------------------------------------------------------------
(***************************************************************************)
(* Providers that are being deleted                                        *)
(***************************************************************************)

LEMMA DeletingKeepsFinalizer ==
    ASSUME DeletingHasFinalizer, ProvidersChange
    PROVE  DeletingHasFinalizer'
<1> SUFFICES ASSUME NEW p \in Providers, prov'[p].phase = "deleting" PROVE prov'[p].fin
  BY DEF DeletingHasFinalizer
<1>1. ProviderChange(prov[p], prov'[p]) /\ (prov[p].phase = "deleting" => prov[p].fin)
  BY DEF DeletingHasFinalizer, ProvidersChange
<1> QED
  BY <1>1 DEF ProviderChange

\* Who is going to look at p.
Awaits(p) ==
    \/ p \in provQ \cup provTimer
    \/ ProviderEventPasses(provSeen[p], prov[p])
    \/ pw[p].pc = "addfin"
    \/ pw[p].pc \in {"build", "status"} /\ pw[p].again
    \/ pw[p].pc = "rmfin" /\ pw[p].fresh

\* A step that leaves p, its worker and its place in the queues alone.
LEMMA AwaitsElsewhere ==
    ASSUME NEW p \in Providers, prov'[p] = prov[p], provSeen'[p] = provSeen[p],
           pw'[p] = pw[p], p \in provQ \cup provTimer => p \in provQ' \cup provTimer',
           prov[p].phase = "deleting" => Awaits(p)
    PROVE  prov'[p].phase = "deleting" => Awaits(p)'
  BY DEF Awaits

\* A write that bumps the generation is news for the controller.
LEMMA NewGenerationPasses ==
    ASSUME TypeOK, GenerationsTell, NEW p \in Providers, NEW obj \in ProviderObject,
           Exists(prov[p]), Exists(obj), obj.gen = prov[p].gen + 1
    PROVE  ProviderEventPasses(provSeen[p], obj)
<1>1. prov[p].gen \in Nat /\ provSeen[p].gen \in Nat
  BY DEF TypeOK, ProviderObject
<1>2. Exists(provSeen[p]) => provSeen[p].gen <= prov[p].gen
  BY DEF GenerationsTell
<1>3. Exists(provSeen[p]) => provSeen[p].gen # obj.gen
  BY <1>1, <1>2
<1> QED
  BY <1>3 DEF ProviderEventPasses, Exists

LEMMA UsersAwait ==
    ASSUME TypeOK, GenerationsTell, Undisturbed, NEW p \in Providers,
           prov[p].phase = "deleting" => Awaits(p),
           CreateProvider(p) \/ EditProvider(p) \/ TouchProvider(p) \/ DeleteProvider(p)
    PROVE  prov'[p].phase = "deleting" => Awaits(p)'
<1>0. prov[p] \in ProviderObject /\ NoProvider \in ProviderObject
  BY ConstantTypes DEF TypeOK
<1>1. CASE CreateProvider(p)
  <2>1. PICK s \in Selectors, c \in Setups :
            UserWritesProvider(p, [NoProvider EXCEPT !.phase = "live", !.gen = 1,
                                                     !.sel = s, !.setup = c])
    BY <1>1 DEF CreateProvider
  <2> DEFINE obj == [NoProvider EXCEPT !.phase = "live", !.gen = 1, !.sel = s, !.setup = c]
  <2>2. obj.phase = "live"
    BY <1>0 DEF ProviderObject
  <2>3. UserWritesProvider(p, obj)
    BY <2>1
  <2> HIDE DEF obj
  <2>4. prov'[p] = obj
    BY <2>3 DEF UserWritesProvider, StoreProvider, TypeOK
  <2> QED
    BY <2>2, <2>4
<1>2. ASSUME NEW obj \in ProviderObject, UserWritesProvider(p, obj), Exists(prov[p]),
             Exists(obj), obj.gen = prov[p].gen + 1
      PROVE  Awaits(p)'
  <2>1. prov'[p] = obj /\ provSeen'[p] = provSeen[p]
    BY <1>2 DEF UserWritesProvider, StoreProvider, TypeOK
  <2> QED
    BY <1>2, <2>1, NewGenerationPasses DEF Awaits
<1>3. CASE EditProvider(p)
  <2>1. PICK s \in Selectors, c \in Setups :
            UserWritesProvider(p, [prov[p] EXCEPT !.sel = s, !.setup = c, !.gen = @ + 1])
    BY <1>3 DEF EditProvider
  <2> DEFINE obj == [prov[p] EXCEPT !.sel = s, !.setup = c, !.gen = @ + 1]
  <2>2. obj.gen = prov[p].gen + 1 /\ obj.phase = prov[p].phase
    BY <1>0 DEF ProviderObject
  <2>0. obj \in ProviderObject
    BY <1>0, EditedProviderTypes
  <2> HIDE DEF obj
  <2>3. UserWritesProvider(p, obj)
    BY <2>1 DEF obj
  <2> QED
    BY <1>2, <1>3, <2>0, <2>2, <2>3 DEF EditProvider, Exists
<1>4. CASE DeleteProvider(p)
  <2> DEFINE obj == Deleted(prov[p], NoProvider)
  <2>1. /\ obj \in ProviderObject
        /\ obj.phase = "gone" \/ (obj.phase = "deleting" /\ obj.gen = prov[p].gen + 1)
    BY <1>0, EditedProviderTypes DEF ProviderObject, Deleted
  <2>2. UserWritesProvider(p, obj) /\ prov[p].phase = "live"
    BY <1>4 DEF DeleteProvider
  <2> HIDE DEF obj
  <2>3. prov'[p] = obj
    BY <2>2 DEF UserWritesProvider, StoreProvider, TypeOK
  <2> QED
    BY <1>2, <2>1, <2>2, <2>3 DEF Exists
<1> QED
  BY <1>1, <1>3, <1>4, NothingFails DEF TouchProvider

\* The step of the provider's own worker.
LEMMA WorkerAwaits ==
    ASSUME TypeOK, CachesAreCurrent, DeletingHasFinalizer, Undisturbed, NEW p \in Providers,
           prov[p].phase = "deleting" => Awaits(p), ProviderStep(p)
    PROVE  prov'[p].phase = "deleting" => Awaits(p)'
<1>0. /\ prov[p] \in ProviderObject /\ pw[p] \in ProviderWorker /\ NoProvider \in ProviderObject
  BY ConstantTypes DEF TypeOK
<1>1. CASE ProvBegin(p)
  <2>1. /\ prov' = prov /\ provBehind = {} /\ provSeen[p] = prov[p]
        /\ \A q \in Providers \ {p} : (q \in provQ <=> q \in provQ')
    BY <1>1, NothingFails DEF ProvBegin, provStore, CachesAreCurrent
  <2>2. ASSUME prov[p].phase = "deleting"
        PROVE  \/ pw'[p].pc \in {"build", "status"} /\ pw'[p].again
               \/ pw'[p].pc = "rmfin" /\ pw'[p].fresh
    <3>1. prov[p].fin /\ Exists(provSeen[p]) /\ provSeen[p].phase # "live"
      BY <2>1, <2>2 DEF DeletingHasFinalizer, Exists
    <3> QED
      BY <1>1, <2>1, <2>2, <3>1 DEF ProvBegin, TypeOK
  <2> QED
    BY <2>1, <2>2 DEF Awaits
<1>2. CASE ProvAddFinalizer(p)
  BY <1>2 DEF ProvAddFinalizer, Awaits
<1>3. CASE ProvBuild(p)
  <2>1. /\ prov' = prov /\ UNCHANGED <<provQ, provTimer, provSeen>>
        /\ pw'[p].pc = "status" /\ (pw[p].again => pw'[p].again)
        /\ pw[p].pc = "build"
    BY <1>0, <1>3 DEF ProvBuild, Apart, provStore, provQueue, TypeOK, ProviderWorker
  <2> QED
    BY <2>1 DEF Awaits
<1>4. CASE ProvRemoveFinalizer(p)
  <2>1. CASE pw[p].fresh
    <3>1. prov'[p] = [NoProvider EXCEPT !.phase = "gone"]
      BY <1>4, <2>1, NothingFails DEF ProvRemoveFinalizer, StoreProvider, TypeOK
    <3> QED
      BY <1>0, <3>1 DEF ProviderObject
  <2>2. CASE ~pw[p].fresh
    <3>1. UNCHANGED <<prov, provQ, provTimer, provSeen>> /\ pw[p].pc = "rmfin"
      BY <1>4, <2>2 DEF ProvRemoveFinalizer, Apart, provStore, provQueue
    <3> QED
      BY <2>2, <3>1 DEF Awaits
  <2> QED
    BY <2>1, <2>2
<1>5. CASE ProvWriteStatus(p)
  <2>1. /\ prov'[p].phase = prov[p].phase /\ prov'[p].gen = prov[p].gen
        /\ UNCHANGED <<provQ, provSeen>> /\ provTimer \subseteq provTimer'
        /\ pw[p].again => p \in provTimer'
        /\ pw[p].pc = "status"
    <3>1. \A cond : /\ [prov[p] EXCEPT !.cond = cond].phase = prov[p].phase
                    /\ [prov[p] EXCEPT !.cond = cond].gen = prov[p].gen
      BY <1>0 DEF ProviderObject
    <3>2. prov'[p] = prov[p] \/ prov'[p] = [prov[p] EXCEPT !.cond = pw[p].cond]
      BY <1>5 DEF ProvWriteStatus, StoreProvider, provStore, TypeOK
    <3> QED
      BY <1>5, <3>1, <3>2 DEF ProvWriteStatus, Apart, Rescheduled
  <2> QED
    BY <2>1 DEF Awaits, ProviderEventPasses, Exists
<1> QED
  BY <1>1, <1>2, <1>3, <1>4, <1>5 DEF ProviderStep

\* The steps that are not about p.
LEMMA ProviderElsewhere ==
    ASSUME TypeOK, [Next]_vars, NEW p \in Providers
    PROVE  \/ /\ prov'[p] = prov[p] /\ provSeen'[p] = provSeen[p] /\ pw'[p] = pw[p]
              /\ p \in provQ \cup provTimer => p \in provQ' \cup provTimer'
           \/ Crash \/ ProviderStep(p) \/ DeliverProvider(p)
           \/ CreateProvider(p) \/ EditProvider(p) \/ TouchProvider(p) \/ DeleteProvider(p)
<1> DEFINE Alone ==
        /\ prov'[p] = prov[p] /\ provSeen'[p] = provSeen[p] /\ pw'[p] = pw[p]
        /\ p \in provQ \cup provTimer => p \in provQ' \cup provTimer'
<1>1. ASSUME NEW q \in Providers,
             CreateProvider(q) \/ EditProvider(q) \/ TouchProvider(q) \/ DeleteProvider(q), q # p
      PROVE  Alone
  <2>1. PICK obj : UserWritesProvider(q, obj)
    BY <1>1 DEF CreateProvider, EditProvider, TouchProvider, DeleteProvider
  <2> QED
    BY <1>1, <2>1 DEF UserWritesProvider, StoreProvider, provQueue, TypeOK
<1>2. ASSUME NEW q \in Providers, DeliverProvider(q), q # p PROVE Alone
  BY <1>2 DEF DeliverProvider, TypeOK
<1>3. ASSUME NEW q \in Providers, ProviderTimer(q) PROVE Alone
  BY <1>3 DEF ProviderTimer, provVars
<1>4. ASSUME NEW q \in Providers, ProviderStep(q), q # p PROVE Alone
  <2>1. CASE ProvBegin(q)
    BY <1>4, <2>1 DEF ProvBegin, Apart, provStore, TypeOK
  <2>2. CASE ProvAddFinalizer(q)
    BY <1>4, <2>2 DEF ProvAddFinalizer, Apart, provStore, StoreProvider, TypeOK
  <2>3. CASE ProvBuild(q)
    BY <1>4, <2>3 DEF ProvBuild, Apart, provStore, provQueue, TypeOK
  <2>4. CASE ProvRemoveFinalizer(q)
    BY <1>4, <2>4 DEF ProvRemoveFinalizer, Apart, provStore, provQueue, StoreProvider, TypeOK
  <2>5. CASE ProvWriteStatus(q)
    BY <1>4, <2>5 DEF ProvWriteStatus, Apart, provStore, StoreProvider, Rescheduled, TypeOK
  <2> QED
    BY <1>4, <2>1, <2>2, <2>3, <2>4, <2>5 DEF ProviderStep
<1>5. ASSUME NEW r \in Records,
             \/ CreateRecord(r) \/ EditRecord(r) \/ TouchRecord(r) \/ DeleteRecord(r)
             \/ DeliverRecord(r) \/ RecordTimer(r)
      PROVE  Alone
  BY <1>5
  DEF CreateRecord, EditRecord, TouchRecord, DeleteRecord, UserWritesRecord, DeliverRecord,
      RecordTimer, provVars, provQueue
<1>6. ASSUME NEW r \in Records, RecordStep(r) PROVE Alone
  BY <1>6
  DEF RecordStep, RecBegin, RecAddFinalizer, RecWriteStatus, RecRemoveFinalizer,
      RecSelectorError, RecNotReady, RecSkipDelete, RecDelete, RecCreate, RecUpdate,
      RecForget, RecPruneNotReady, RecPrune, Elsewhere, provVars, provQueue
<1>7. CASE UNCHANGED vars
  BY <1>7 DEF vars
<1> QED
  BY <1>1, <1>2, <1>3, <1>4, <1>5, <1>6, <1>7 DEF Next, Environment

LEMMA DeletionPends ==
    ASSUME TypeOK, CachesAreCurrent, GenerationsTell, DeletingHasFinalizer, DeletionIsPending,
           Undisturbed, [Next]_vars
    PROVE  DeletionIsPending'
<1> SUFFICES ASSUME NEW p \in Providers PROVE prov'[p].phase = "deleting" => Awaits(p)'
  BY DEF DeletionIsPending, Awaits
<1>1. prov[p].phase = "deleting" => Awaits(p)
  BY DEF DeletionIsPending, Awaits
<1>2. CASE Crash
  BY <1>2 DEF Crash, Awaits, Exists
<1>3. CASE ProviderStep(p)
  BY <1>1, <1>3, WorkerAwaits
<1>4. CASE DeliverProvider(p)
  <2>1. /\ prov' = prov /\ UNCHANGED <<pw, provTimer>> /\ provQ \subseteq provQ'
        /\ ProviderEventPasses(provSeen[p], prov[p]) => p \in provQ'
    BY <1>4 DEF DeliverProvider
  <2> QED
    BY <1>1, <2>1 DEF Awaits
<1>5. CASE CreateProvider(p) \/ EditProvider(p) \/ TouchProvider(p) \/ DeleteProvider(p)
  BY <1>1, <1>5, UsersAwait
<1> QED
  BY <1>1, <1>2, <1>3, <1>4, <1>5, ProviderElsewhere, AwaitsElsewhere

-----------------------------------------------------------------------------
(***************************************************************************)
(* Whether somebody is going to look at a Record                           *)
(***************************************************************************)

\* A step about something else: r stays, and stays with whoever is going to look at it.
Untouched(r) ==
    /\ rec'[r] = rec[r] /\ rw'[r] = rw[r]
    /\ r \in recQ \cup recNews => r \in recQ' \cup recNews'
    /\ r \in recTimer => r \in recTimer' \cup recQ'

\* A user's write.
Told(r) == r \in recNews' /\ rw'[r].pc = rw[r].pc /\ ~rw'[r].fresh

LEMMA RecordElsewhere ==
    ASSUME TypeOK, Undisturbed, [Next]_vars, NEW r \in Records
    PROVE  Untouched(r) \/ Told(r) \/ Crash \/ RecordStep(r)
<1>1. ASSUME NEW q \in Records, CreateRecord(q) \/ EditRecord(q) \/ DeleteRecord(q)
      PROVE  IF q = r THEN Told(r) ELSE Untouched(r)
  <2>1. PICK obj : UserWritesRecord(q, obj) /\ RecordEventPasses(rec[q], obj)
    BY <1>1, UsersTell
  <2>2. CASE q = r
    BY <2>1, <2>2 DEF UserWritesRecord, StoreRecord, Told, TypeOK, RecordWorker
  <2>3. CASE q # r
    BY <2>1, <2>3 DEF UserWritesRecord, StoreRecord, Untouched, recQueue, TypeOK
  <2> QED
    BY <2>2, <2>3
<1>2. ASSUME NEW q \in Records, DeliverRecord(q) PROVE Untouched(r)
  BY <1>2 DEF DeliverRecord, Untouched
<1>3. ASSUME NEW q \in Records, RecordTimer(q) PROVE Untouched(r)
  BY <1>3 DEF RecordTimer, Untouched, recVars
<1>4. ASSUME NEW q \in Records, RecordStep(q), q # r PROVE Untouched(r)
  <2>1. CASE RecBegin(q)
    BY <1>4, <2>1 DEF RecBegin, recStore, Untouched, TypeOK
  <2>2. CASE RecAddFinalizer(q)
    BY <1>4, <2>2 DEF RecAddFinalizer, recStore, StoreRecord, Untouched, TypeOK
  <2>3. CASE RecWriteStatus(q)
    BY <1>4, <2>3 DEF RecWriteStatus, recStore, StoreRecord, Untouched, TypeOK
  <2>4. CASE RecRemoveFinalizer(q)
    BY <1>4, <2>4 DEF RecRemoveFinalizer, recStore, recQueue, StoreRecord, Untouched, TypeOK
  <2>5. ASSUME NEW p \in Providers, RecSelectorError(q, p) PROVE Untouched(r)
    BY <1>4, <2>5 DEF RecSelectorError, recStore, Untouched, TypeOK
  <2>6. ASSUME NEW p \in Providers, SyncStep(q, p) PROVE Untouched(r)
    <3>1. rw'[r] = rw[r] /\ UNCHANGED <<rec, recNews>>
      BY <1>4, <2>6, SyncStepNotes, NoteEffect
    <3>2. UNCHANGED recQueue
      BY <2>6
      DEF SyncStep, RecNotReady, RecSkipDelete, RecDelete, RecCreate, RecUpdate, RecForget,
          RecPruneNotReady, RecPrune
    <3> QED
      BY <3>1, <3>2 DEF Untouched, recQueue
  <2> QED
    BY <1>4, <2>1, <2>2, <2>3, <2>4, <2>5, <2>6 DEF RecordStep, SyncStep
<1>5. ASSUME NEW p \in Providers,
             \/ CreateProvider(p) \/ EditProvider(p) \/ TouchProvider(p) \/ DeleteProvider(p)
             \/ ProviderTimer(p) \/ ProviderStep(p)
      PROVE  Untouched(r)
  BY <1>5
  DEF CreateProvider, EditProvider, TouchProvider, DeleteProvider, UserWritesProvider,
      ProviderTimer, ProviderStep, ProvBegin, ProvAddFinalizer, ProvBuild,
      ProvRemoveFinalizer, ProvWriteStatus, Apart, recVars, recQueue, Untouched
<1>6. ASSUME NEW p \in Providers, DeliverProvider(p) PROVE Untouched(r)
  BY <1>6 DEF DeliverProvider, recVars, Untouched
<1>7. CASE UNCHANGED vars
  BY <1>7 DEF vars, Untouched
<1>8. ASSUME NEW q \in Records, TouchRecord(q) PROVE FALSE
  BY <1>8, NothingFails DEF TouchRecord
<1> QED
  BY <1>1, <1>2, <1>3, <1>4, <1>5, <1>6, <1>7, <1>8 DEF Next, Environment

-----------------------------------------------------------------------------
(***************************************************************************)
(* Stale copies                                                            *)
(***************************************************************************)

\* A reconciliation begins with copies that are fresh, if the Record exists.
LEMMA BeginsFresh ==
    ASSUME TypeOK, CachesAreCurrent, Undisturbed, NEW r \in Records, RecBegin(r)
    PROVE  /\ recSeen[r] = rec[r] /\ \A p \in Providers : provSeen[p] = prov[p]
           /\ IF Exists(rec[r])
              THEN /\ rw'[r].fresh /\ rw'[r].obj = rec[r] /\ rw'[r].provs = provSeen
                   /\ rw'[r].done = {} /\ rw'[r].pc \in {"sync", "addfin"}
              ELSE rw'[r] = rw[r] /\ rw[r].pc = "idle"
           /\ UNCHANGED <<rec, recNews, prov, provSeen, zone, recTimer>>
<1>1. recBehind = {} /\ provBehind = {}
  BY NothingFails DEF RecBegin
<1>2. recSeen[r] = rec[r] /\ \A p \in Providers : provSeen[p] = prov[p]
  BY <1>1 DEF CachesAreCurrent
<1>3. UNCHANGED <<rec, recNews, prov, provSeen, zone, recTimer>> /\ rw[r].pc = "idle"
  BY DEF RecBegin, recStore, Elsewhere, provVars
<1>4. CASE Exists(rec[r])
  <2>1. rw'[r] = [pc |-> FirstStep(recSeen[r]), obj |-> recSeen[r],
                  fresh |-> r \notin recBehind, provs |-> provSeen, done |-> {}]
    BY <1>2, <1>4 DEF RecBegin, TypeOK
  <2>2. /\ rw'[r].fresh = (r \notin recBehind)
        /\ rw'[r].obj = recSeen[r] /\ rw'[r].provs = provSeen /\ rw'[r].done = {}
        /\ rw'[r].pc = FirstStep(recSeen[r])
    BY <2>1
  <2>3. FirstStep(recSeen[r]) \in {"sync", "addfin"}
    BY DEF FirstStep
  <2> QED
    BY <1>1, <1>2, <1>3, <1>4, <2>2, <2>3
<1>5. CASE ~Exists(rec[r])
  BY <1>2, <1>3, <1>5 DEF RecBegin
<1> QED
  BY <1>2, <1>3, <1>4, <1>5

\* The other steps of the worker: it goes on with the same copies, or is done.
LEMMA WorkGoesOn ==
    ASSUME TypeOK, NEW r \in Records, RecordStep(r), ~RecBegin(r)
    PROVE  /\ Busy(r)
           /\ \/ rw'[r] = IdleRec
              \/ /\ rw'[r].fresh = rw[r].fresh /\ SamePlan(r) /\ UNCHANGED <<provSeen>>
                 /\ rw[r].pc = "sync" /\ rw'[r].pc \in {"sync", "rmfin"}
           /\ recQ \cup recNews \subseteq recQ' \cup recNews'
           /\ recTimer \subseteq recTimer'
<1>0. rw[r] \in RecordWorker
  BY DEF TypeOK
<1>1. CASE RecAddFinalizer(r)
  BY <1>1 DEF RecAddFinalizer, recStore, StoreRecord, TypeOK, Busy
<1>2. CASE RecWriteStatus(r)
  <2>1. rw'[r] = IdleRec \/ rw'[r] = [rw[r] EXCEPT !.pc = "rmfin"]
    BY <1>2 DEF RecWriteStatus, TypeOK
  <2>2. /\ [rw[r] EXCEPT !.pc = "rmfin"].fresh = rw[r].fresh
        /\ [rw[r] EXCEPT !.pc = "rmfin"].provs = rw[r].provs
        /\ [rw[r] EXCEPT !.pc = "rmfin"].obj = rw[r].obj
        /\ [rw[r] EXCEPT !.pc = "rmfin"].pc = "rmfin"
    BY <1>0 DEF RecordWorker
  <2>3. recNews \subseteq recNews' /\ recQ' = recQ /\ recTimer \subseteq recTimer'
    BY <1>2 DEF RecWriteStatus, recStore, StoreRecord
  <2>4. rw[r].pc = "sync" /\ UNCHANGED provSeen
    BY <1>2 DEF RecWriteStatus, Elsewhere, provVars
  <2> QED
    BY <2>1, <2>2, <2>3, <2>4 DEF SamePlan, Busy
<1>3. CASE RecRemoveFinalizer(r)
  BY <1>3 DEF RecRemoveFinalizer, recStore, recQueue, StoreRecord, TypeOK, Busy
<1>4. ASSUME NEW p \in Providers, RecSelectorError(r, p)
      PROVE  /\ rw'[r] = IdleRec /\ recQ \cup recNews \subseteq recQ' \cup recNews'
             /\ recTimer' = recTimer /\ Busy(r)
  BY <1>4 DEF RecSelectorError, recStore, TypeOK, Busy
<1>5. ASSUME NEW p \in Providers, SyncStep(r, p)
      PROVE  /\ rw'[r].fresh = rw[r].fresh /\ SamePlan(r) /\ UNCHANGED <<provSeen>>
             /\ rw[r].pc = "sync" /\ rw'[r].pc = "sync" /\ Busy(r)
             /\ recQ' = recQ /\ recNews' = recNews /\ recTimer' = recTimer
  <2>1. /\ rw'[r].fresh = rw[r].fresh /\ SamePlan(r) /\ rw'[r].pc = rw[r].pc
        /\ rw[r].pc = "sync" /\ recNews' = recNews /\ provSeen' = provSeen
    BY <1>5, SyncStepNotes, NoteEffect DEF SamePlan
  <2>2. UNCHANGED recQueue
    BY <1>5
    DEF SyncStep, RecNotReady, RecSkipDelete, RecDelete, RecCreate, RecUpdate, RecForget,
        RecPruneNotReady, RecPrune
  <2> QED
    BY <2>1, <2>2 DEF recQueue, Busy
<1> QED
  BY <1>1, <1>2, <1>3, <1>4, <1>5 DEF RecordStep, SyncStep

LEMMA StalePends ==
    ASSUME TypeOK, CachesAreCurrent, StaleIsPending, Undisturbed, [Next]_vars
    PROVE  StaleIsPending'
<1> SUFFICES ASSUME NEW r \in Records
             PROVE  Busy(r)' /\ ~rw'[r].fresh => r \in recQ' \cup recNews'
  BY DEF StaleIsPending
<1>1. Busy(r) /\ ~rw[r].fresh => r \in recQ \cup recNews
  BY DEF StaleIsPending
<1>2. CASE Untouched(r)
  BY <1>1, <1>2 DEF Untouched, Busy
<1>3. CASE Told(r)
  BY <1>3 DEF Told
<1>4. CASE Crash
  BY <1>4, BlankFacts DEF Crash, Busy
<1>5. CASE RecBegin(r)
  BY <1>5, BeginsFresh DEF Busy
<1>6. CASE RecordStep(r) /\ ~RecBegin(r)
  BY <1>1, <1>6, WorkGoesOn, BlankFacts DEF Busy
<1> QED
  BY <1>2, <1>3, <1>4, <1>5, <1>6, RecordElsewhere

-----------------------------------------------------------------------------
(***************************************************************************)
(* What providers want                                                     *)
(***************************************************************************)

LEMMA SameWishes ==
    ASSUME NEW x, NEW a, NEW b, a.val = b.val, a.lab = b.lab
    PROVE  Wants(x, a) <=> Wants(x, b)
  BY DEF Wants, Matches

LEMMA CachedProviders ==
    ASSUME [Next]_vars
    PROVE  \/ provSeen' = provSeen \/ Crash
           \/ \E p \in Providers : DeliverProvider(p)
<1>1. ASSUME NEW r \in Records,
             \/ CreateRecord(r) \/ EditRecord(r) \/ TouchRecord(r) \/ DeleteRecord(r)
             \/ DeliverRecord(r) \/ RecordTimer(r)
      PROVE  provSeen' = provSeen
  BY <1>1
  DEF CreateRecord, EditRecord, TouchRecord, DeleteRecord, UserWritesRecord, DeliverRecord,
      RecordTimer, provVars
<1>2. ASSUME NEW r \in Records, RecordStep(r) PROVE provSeen' = provSeen
  BY <1>2
  DEF RecordStep, RecBegin, RecAddFinalizer, RecWriteStatus, RecRemoveFinalizer,
      RecSelectorError, RecNotReady, RecSkipDelete, RecDelete, RecCreate, RecUpdate,
      RecForget, RecPruneNotReady, RecPrune, Elsewhere, provVars
<1>3. ASSUME NEW p \in Providers,
             \/ CreateProvider(p) \/ EditProvider(p) \/ TouchProvider(p) \/ DeleteProvider(p)
             \/ ProviderTimer(p) \/ ProviderStep(p)
      PROVE  provSeen' = provSeen
  BY <1>3
  DEF CreateProvider, EditProvider, TouchProvider, DeleteProvider, UserWritesProvider,
      ProviderTimer, ProviderStep, ProvBegin, ProvAddFinalizer, ProvBuild,
      ProvRemoveFinalizer, ProvWriteStatus, Apart, provVars
<1>4. CASE UNCHANGED vars
  BY <1>4 DEF vars
<1> QED
  BY <1>1, <1>2, <1>3, <1>4 DEF Next, Environment

\* A provider that changes its mind about a Record calls it back.
LEMMA WatchesCall ==
    ASSUME TypeOK, GenerationsTell, [Next]_vars, ~Crash,
           NEW r \in Records, Exists(recSeen[r]), r \notin recQ', NEW p \in Providers
    PROVE  /\ Wants(provSeen'[p], recSeen[r]) <=> Wants(provSeen[p], recSeen[r])
           /\ Wants(provSeen'[p], recSeen[r]) => provSeen'[p].setup = provSeen[p].setup
<1>1. ASSUME NEW q \in Providers, DeliverProvider(q), q # p PROVE provSeen'[p] = provSeen[p]
  BY <1>1 DEF DeliverProvider, TypeOK
<1>2. CASE DeliverProvider(p)
  <2>1. provSeen'[p] = prov[p]
    BY <1>2 DEF DeliverProvider, TypeOK
  <2>2. CASE ProviderEventPasses(provSeen[p], prov[p])
    <3>1. r \notin RecordsWatching(provSeen[p], prov[p])
      BY <1>2, <2>2 DEF DeliverProvider
    <3> QED
      BY <2>1, <3>1 DEF RecordsWatching, Wants, Exists
  <2>3. CASE ~ProviderEventPasses(provSeen[p], prov[p])
    <3>1. /\ Exists(provSeen[p]) <=> Exists(prov[p])
          /\ provSeen[p].gen = prov[p].gen
      BY <2>3 DEF ProviderEventPasses, Exists
    <3> QED
      BY <2>1, <3>1 DEF GenerationsTell, Wants, Exists
  <2> QED
    BY <2>2, <2>3
<1> QED
  BY <1>1, <1>2, CachedProviders

\* A copy that is fresh and has no news is, for the providers, the cached copy.
LEMMA CopyIsCached ==
    ASSUME Guarded, NewsTell, FreshMeansSame, NEW r \in Records, Busy(r), rw[r].fresh,
           r \notin recNews
    PROVE  /\ Exists(recSeen[r])
           /\ recSeen[r].val = rw[r].obj.val /\ recSeen[r].lab = rw[r].obj.lab
<1>1. Exists(rec[r])
  BY DEF Guarded, FreshMeansExists
<1> QED
  BY <1>1 DEF NewsTell, FreshMeansSame, Exists

LEMMA ViewsKeepAgreeing ==
    ASSUME TypeOK, CachesAreCurrent, Guarded, FreshMeansSame, NewsTell, GenerationsTell,
           ViewsAgree, Undisturbed, [Next]_vars
    PROVE  ViewsAgree'
<1> SUFFICES ASSUME NEW r \in Records, rw'[r].pc = "sync", rw'[r].fresh,
                    r \notin recQ' \cup recNews', NEW p \in Providers
             PROVE  /\ Wants(rw'[r].provs[p], rw'[r].obj) <=> Wants(provSeen'[p], rw'[r].obj)
                    /\ Wants(provSeen'[p], rw'[r].obj)
                         => rw'[r].provs[p].setup = provSeen'[p].setup
  BY DEF ViewsAgree, Wants, Matches
<1>1. ASSUME rw[r].pc = "sync", rw[r].fresh, r \notin recQ \cup recNews
      PROVE  /\ Wants(rw[r].provs[p], rw[r].obj) <=> Wants(provSeen[p], rw[r].obj)
             /\ Wants(provSeen[p], rw[r].obj) => rw[r].provs[p].setup = provSeen[p].setup
  BY <1>1 DEF ViewsAgree
<1>2. CASE Untouched(r) /\ ~Crash
  <2>1. rw'[r] = rw[r] /\ r \notin recQ \cup recNews
    BY <1>2 DEF Untouched
  <2>2. /\ Exists(recSeen[r])
        /\ recSeen[r].val = rw[r].obj.val /\ recSeen[r].lab = rw[r].obj.lab
    BY <2>1, CopyIsCached DEF Busy
  <2>3. /\ Wants(provSeen'[p], recSeen[r]) <=> Wants(provSeen[p], recSeen[r])
        /\ Wants(provSeen'[p], recSeen[r]) => provSeen'[p].setup = provSeen[p].setup
    BY <1>2, <2>2, WatchesCall
  <2>4. \A x : Wants(x, recSeen[r]) <=> Wants(x, rw[r].obj)
    BY <2>2, SameWishes
  <2> QED
    BY <1>1, <2>1, <2>3, <2>4
<1>3. CASE Told(r)
  BY <1>3 DEF Told
<1>4. CASE Crash
  BY <1>4, BlankFacts DEF Crash
<1>5. CASE RecBegin(r)
  <2>1. /\ provSeen' = provSeen
        /\ Exists(rec[r]) => rw'[r].provs = provSeen
        /\ ~Exists(rec[r]) => rw'[r].pc = "idle"
    BY <1>5, BeginsFresh
  <2> QED
    BY <2>1
<1>6. CASE RecordStep(r) /\ ~RecBegin(r)
  <2>1. /\ rw'[r].fresh = rw[r].fresh /\ SamePlan(r) /\ UNCHANGED <<provSeen>>
        /\ rw[r].pc = "sync" /\ r \notin recQ \cup recNews
    BY <1>6, WorkGoesOn, BlankFacts
  <2>2. \A x : Wants(x, rw'[r].obj) <=> Wants(x, rw[r].obj)
    BY <2>1, SameWishes DEF SamePlan
  <2> QED
    BY <1>1, <2>1, <2>2 DEF SamePlan
<1> QED
  BY <1>2, <1>3, <1>4, <1>5, <1>6, RecordElsewhere

-----------------------------------------------------------------------------
(***************************************************************************)
(* Entries are not shared                                                  *)
(***************************************************************************)

\* The entry this id names, if there is one, was made for r.
OwnId(r, p, id) == \A e \in zone[p].entries : e.id = id => e.rec = r

\* What a call for r with this id does to a zone: entries of other ids stay, what is new
\* has a new id and is made for r, and the id that is returned is r's.
OwnCall(o, z, id, r) ==
    /\ \A e \in o.zone.entries :
          \/ \E d \in z.entries : d.id = e.id /\ d.rec = e.rec
          \/ e.id = z.next /\ e.rec = r
    /\ \A d \in z.entries : d.id # id => d \in o.zone.entries
    /\ \/ o.id \in {NoId, id}
       \/ \A e \in o.zone.entries : e.id = o.id => e.rec = r

LEMMA ZonePartsOwn ==
    ASSUME NEW z \in Zone, Numbered(z), NEW site, NEW id, NEW val, NEW r
    PROVE  /\ \A o : o.zone = z /\ o.id \in {NoId, id} => OwnCall(o, z, id, r)
           /\ \A o \in Applied(Insert(z, site, val, r), id, z.next) : OwnCall(o, z, id, r)
           /\ \A o \in Applied(Overwrite(z, id, val), id, id) : OwnCall(o, z, id, r)
           /\ \A o \in Applied(Remove(z, WithId(z, site, id)), id, NoId) : OwnCall(o, z, id, r)
<1>1. ASSUME NEW o, o.zone = z, o.id \in {NoId, id} PROVE OwnCall(o, z, id, r)
  BY <1>1 DEF OwnCall
<1>2. ASSUME NEW o \in Applied(Insert(z, site, val, r), id, z.next) PROVE OwnCall(o, z, id, r)
  <2> DEFINE new == [id |-> z.next, at |-> site, val |-> val, rec |-> r]
  <2>1. o.zone.entries = z.entries \cup {new} /\ o.id \in {id, z.next}
    BY <1>2 DEF Applied, Outcome, Insert
  <2>2. new.id = z.next /\ new.rec = r
    OBVIOUS
  <2>3. \A d \in z.entries : d.id # z.next
    BY DEF Numbered, Zone
  <2> HIDE DEF new
  <2> QED
    BY <2>1, <2>2, <2>3 DEF OwnCall
<1>3. ASSUME NEW o \in Applied(Overwrite(z, id, val), id, id) PROVE OwnCall(o, z, id, r)
  <2>1. /\ o.zone.entries = {IF d.id = id THEN [d EXCEPT !.val = val] ELSE d : d \in z.entries}
        /\ o.id = id
    BY <1>3 DEF Applied, Outcome, Overwrite, Zone
  <2>2. ASSUME NEW e \in o.zone.entries PROVE \E d \in z.entries : d.id = e.id /\ d.rec = e.rec
    <3>1. PICK d \in z.entries : e = IF d.id = id THEN [d EXCEPT !.val = val] ELSE d
      BY <2>1
    <3>2. d \in Entry
      BY DEF Zone
    <3>3. d.id = e.id /\ d.rec = e.rec
      BY <3>1, <3>2 DEF Entry
    <3> QED
      BY <3>3
  <2>3. ASSUME NEW d \in z.entries, d.id # id PROVE d \in o.zone.entries
    BY <2>1, <2>3
  <2> QED
    BY <2>1, <2>2, <2>3 DEF OwnCall
<1>4. ASSUME NEW o \in Applied(Remove(z, WithId(z, site, id)), id, NoId) PROVE OwnCall(o, z, id, r)
  <2>1. o.zone.entries = z.entries \ WithId(z, site, id) /\ o.id \in {id, NoId}
    BY <1>4 DEF Applied, Outcome, Remove, Zone
  <2> QED
    BY <2>1 DEF OwnCall, WithId
<1> QED
  BY <1>1, <1>2, <1>3, <1>4

LEMMA CreateOwns ==
    ASSUME NEW z \in Zone, Numbered(z), NEW id, NEW val, NEW r, NEW cfg,
           cfg.match => \A e \in z.entries : e.rec = r
    PROVE  \A o \in CloudflareCreate(cfg, z, id, val, r) : OwnCall(o, z, id, r)
<1>1. ASSUME NEW x \in {NoId, id}
      PROVE  OwnCall(Unsent(z, x), z, id, r) /\ OwnCall(Refused(z, x), z, id, r)
  <2>1. /\ Unsent(z, x).zone = z /\ Unsent(z, x).id \in {NoId, id}
        /\ Refused(z, x).zone = z /\ Refused(z, x).id \in {NoId, id}
    BY DEF Unsent, Refused, Outcome
  <2> QED
    BY <2>1, ZonePartsOwn
<1>2. ASSUME cfg.match, NEW e \in WithVal(z, cfg.site, val)
      PROVE  OwnCall(Outcome(z, e.id, TRUE, FALSE), z, id, r)
  BY <1>2 DEF OwnCall, Outcome
<1>3. \A o \in Applied(Insert(z, cfg.site, val, r), id, z.next) : OwnCall(o, z, id, r)
  BY ZonePartsOwn
<1> QED
  BY <1>1, <1>2, <1>3 DEF CloudflareCreate, CloudflareFind

LEMMA UpdateOwns ==
    ASSUME NEW z \in Zone, Numbered(z), NEW id, NEW val, NEW r, NEW cfg,
           cfg.match => \A e \in z.entries : e.rec = r
    PROVE  \A o \in CloudflareUpdate(cfg, z, id, val, r) : OwnCall(o, z, id, r)
<1>1. OwnCall(Unsent(z, id), z, id, r) /\ OwnCall(Refused(z, id), z, id, r)
  <2>1. /\ Unsent(z, id).zone = z /\ Unsent(z, id).id = id
        /\ Refused(z, id).zone = z /\ Refused(z, id).id = id
    BY DEF Unsent, Refused, Outcome
  <2> QED
    BY <2>1, ZonePartsOwn
<1>2. \A o \in CloudflareCreate(cfg, z, id, val, r) : OwnCall(o, z, id, r)
  BY CreateOwns
<1>3. \A o \in Applied(Overwrite(z, id, val), id, id) : OwnCall(o, z, id, r)
  BY ZonePartsOwn
<1> QED
  BY <1>1, <1>2, <1>3 DEF CloudflareUpdate

LEMMA DeleteOwns ==
    ASSUME NEW cfg, NEW z \in Zone, Numbered(z), NEW id, NEW r
    PROVE  \A o \in CloudflareDelete(cfg, z, id) : OwnCall(o, z, id, r)
<1>1. OwnCall(Unsent(z, id), z, id, r)
  <2>1. Unsent(z, id).zone = z /\ Unsent(z, id).id = id
    BY DEF Unsent, Outcome
  <2> QED
    BY <2>1, ZonePartsOwn
<1>2. \A o \in Applied(Remove(z, WithId(z, cfg.site, id)), id, NoId) : OwnCall(o, z, id, r)
  BY ZonePartsOwn, ClusterAssumption
<1> QED
  BY <1>1, <1>2 DEF CloudflareDelete

\* The step that calls p for r.
LEMMA CallOwns ==
    ASSUME TypeOK, ZonesAreNumbered, Undisturbed, NEW r \in Records, NEW p \in Providers,
           RecCreate(r, p) \/ RecUpdate(r, p) \/ RecDelete(r, p) \/ RecPrune(r, p)
    PROVE  \E o : /\ OwnCall(o, zone[p], rw[r].obj.st[p].id, r) /\ zone'[p] = o.zone
                  /\ rw'[r].obj.st[p].id \in {o.id, NoId}
                  /\ \A q \in Providers \ {p} : zone'[q] = zone[q]
<1> DEFINE old == rw[r].obj.st[p].id
           val == rw[r].obj.val
<1>1. /\ zone[p] \in Zone /\ Numbered(zone[p]) /\ Client(p).type = "CLOUDFLARE"
      /\ \A q \in Providers \ {p} : zone'[q] = zone[q]
  BY CallEffect DEF TypeOK, Client, ZonesAreNumbered, Numbered, Undisturbed, AllCloudflare
<1>2. Client(p).match => \A e \in zone[p].entries : e.rec = r
  BY <1>1 DEF TypeOK, Client, Undisturbed, Zone, Entry
<1>3. \A o : Call(p, o) => zone'[p] = o.zone
  BY DEF Call, TypeOK
<1>4. /\ \A id, msg : Report(r, p, id, msg) => rw'[r].obj.st[p].id = id
      /\ Drop(r, p) => rw'[r].obj.st[p].id = NoId
  BY NoteEffect, BlankFacts DEF Report, Drop
<1>5. CASE RecCreate(r, p)
  <2>1. rw[r].obj.st[p].id = NoId
    BY <1>5 DEF RecCreate
  <2> QED
    BY <1>1, <1>2, <1>3, <1>4, <1>5, <2>1, CreateOwns DEF RecCreate, Create
<1>6. CASE RecUpdate(r, p)
  BY <1>1, <1>2, <1>3, <1>4, <1>6, UpdateOwns DEF RecUpdate, Update
<1>7. CASE RecDelete(r, p)
  BY <1>1, <1>3, <1>4, <1>7, DeleteOwns DEF RecDelete, Delete
<1>8. CASE RecPrune(r, p)
  BY <1>1, <1>3, <1>4, <1>8, DeleteOwns DEF RecPrune, Delete
<1> QED
  BY <1>5, <1>6, <1>7, <1>8

\* No call makes an entry that an id handed out before names, or gives one to another.
LEMMA OwnStays ==
    ASSUME TypeOK, ZonesAreNumbered, Undisturbed, [Next]_vars,
           NEW r \in Records, NEW p \in Providers, NEW id, Issued(p, id), OwnId(r, p, id)
    PROVE  OwnId(r, p, id)'
<1>1. CASE zone'[p] = zone[p]
  BY <1>1 DEF OwnId
<1>2. ASSUME NEW q \in Records,
             RecCreate(q, p) \/ RecUpdate(q, p) \/ RecDelete(q, p) \/ RecPrune(q, p)
      PROVE  OwnId(r, p, id)'
  <2>1. PICK o : OwnCall(o, zone[p], rw[q].obj.st[p].id, q) /\ zone'[p] = o.zone
    BY <1>2, CallOwns
  <2>2. zone[p].next \in Nat /\ NoId \notin Nat
    BY ClusterAssumption DEF TypeOK, Zone
  <2>3. id # zone[p].next
    BY <2>2 DEF Issued
  <2> QED
    BY <2>1, <2>3 DEF OwnCall, OwnId
<1>3. ASSUME NEW q \in Records, NEW x \in Providers \ {p},
             RecCreate(q, x) \/ RecUpdate(q, x) \/ RecDelete(q, x) \/ RecPrune(q, x)
      PROVE  zone'[p] = zone[p]
  BY <1>3, CallOwns
<1> QED
  BY <1>1, <1>2, <1>3, ZoneSteps

OldIds(r, p) == {NoId, rec[r].st[p].id, recSeen[r].st[p].id, rw[r].obj.st[p].id}

\* Where an id comes from.
LEMMA UsersWriteNoIds ==
    ASSUME TypeOK, NEW r \in Records,
           CreateRecord(r) \/ EditRecord(r) \/ TouchRecord(r) \/ DeleteRecord(r)
    PROVE  \E obj : /\ UserWritesRecord(r, obj)
                    /\ \A p \in Providers : obj.st[p].id \in {NoId, rec[r].st[p].id}
<1>0. /\ rec[r] \in RecordObject /\ NoRecord \in RecordObject
      /\ \A p \in Providers : NoRecord.st[p].id = NoId
  BY ConstantTypes, BlankFacts DEF TypeOK
<1>1. CASE CreateRecord(r)
  <2>1. PICK v \in Values, l \in Labels :
            UserWritesRecord(r, [NoRecord EXCEPT !.phase = "live", !.gen = 1,
                                                 !.val = v, !.lab = l])
    BY <1>1 DEF CreateRecord
  <2>2. [NoRecord EXCEPT !.phase = "live", !.gen = 1, !.val = v, !.lab = l].st = NoRecord.st
    BY <1>0 DEF RecordObject
  <2> QED
    BY <1>0, <2>1, <2>2
<1>2. CASE EditRecord(r)
  <2>1. /\ \A v : [rec[r] EXCEPT !.val = v, !.gen = @ + 1].st = rec[r].st
        /\ \A l : [rec[r] EXCEPT !.lab = l].st = rec[r].st
    BY <1>0 DEF RecordObject
  <2> QED
    BY <1>2, <2>1 DEF EditRecord
<1>3. CASE TouchRecord(r)
  BY <1>3 DEF TouchRecord
<1>4. CASE DeleteRecord(r)
  <2>1. Deleted(rec[r], NoRecord).st \in {rec[r].st, NoRecord.st}
    BY <1>0 DEF Deleted, RecordObject
  <2> QED
    BY <1>0, <1>4, <2>1 DEF DeleteRecord
<1> QED
  BY <1>1, <1>2, <1>3, <1>4

Calls(r, p) == RecCreate(r, p) \/ RecUpdate(r, p) \/ RecDelete(r, p) \/ RecPrune(r, p)

IdsCome(r, p) ==
    /\ rec'[r].st[p].id \in OldIds(r, p) /\ recSeen'[r].st[p].id \in OldIds(r, p)
    /\ rw'[r].obj.st[p].id \in OldIds(r, p) \/ Calls(r, p)

LEMMA IdsOfWorker ==
    ASSUME TypeOK, NEW r \in Records, RecordStep(r), NEW p \in Providers
    PROVE  IdsCome(r, p)
<1>0. /\ rec[r] \in RecordObject /\ rw[r] \in RecordWorker /\ NoRecord \in RecordObject
      /\ NoRecord.st[p].id = NoId /\ IdleRec.obj = NoRecord
  BY ConstantTypes, BlankFacts DEF TypeOK
<1>1. CASE RecBegin(r)
  <2>1. rec' = rec /\ recSeen' = recSeen
    BY <1>1 DEF RecBegin, recStore, Elsewhere
  <2>2. rw'[r] = rw[r] \/ rw'[r].obj = recSeen[r]
    BY <1>1 DEF RecBegin, TypeOK
  <2> QED
    BY <2>1, <2>2 DEF IdsCome, OldIds
<1>2. CASE RecAddFinalizer(r)
  <2>1. [rec[r] EXCEPT !.fin = TRUE].st = rec[r].st
    BY <1>0 DEF RecordObject
  <2>2. rec'[r] \in {rec[r], [rec[r] EXCEPT !.fin = TRUE]} /\ recSeen' = recSeen /\ rw'[r] = IdleRec
    BY <1>2 DEF RecAddFinalizer, recStore, StoreRecord, Elsewhere, TypeOK
  <2> QED
    BY <1>0, <2>1, <2>2 DEF IdsCome, OldIds
<1>3. CASE RecWriteStatus(r)
  <2>1. WithStatus(r).st = rw[r].obj.st /\ [rw[r] EXCEPT !.pc = "rmfin"].obj = rw[r].obj
    BY <1>0 DEF RecordObject, RecordWorker, WithStatus
  <2>2. /\ rec'[r] \in {rec[r], WithStatus(r)} /\ recSeen' = recSeen
        /\ rw'[r] \in {IdleRec, [rw[r] EXCEPT !.pc = "rmfin"]}
    BY <1>3 DEF RecWriteStatus, recStore, StoreRecord, Elsewhere, TypeOK
  <2> QED
    BY <1>0, <2>1, <2>2 DEF IdsCome, OldIds
<1>4. CASE RecRemoveFinalizer(r)
  <2>1. [NoRecord EXCEPT !.phase = "gone"].st = NoRecord.st
    BY <1>0 DEF RecordObject
  <2>2. /\ rec'[r] \in {rec[r], [NoRecord EXCEPT !.phase = "gone"]} /\ recSeen' = recSeen
        /\ rw'[r] = IdleRec
    BY <1>4 DEF RecRemoveFinalizer, recStore, StoreRecord, Elsewhere, TypeOK
  <2> QED
    BY <1>0, <2>1, <2>2 DEF IdsCome, OldIds
<1>5. ASSUME NEW q \in Providers, RecSelectorError(r, q) PROVE IdsCome(r, p)
  <2>1. rec' = rec /\ recSeen' = recSeen /\ rw'[r] = IdleRec
    BY <1>5 DEF RecSelectorError, recStore, Elsewhere, TypeOK
  <2> QED
    BY <1>0, <2>1 DEF IdsCome, OldIds
<1>6. ASSUME NEW q \in Providers, SyncStep(r, q) PROVE IdsCome(r, p)
  <2>1. rec' = rec /\ recSeen' = recSeen /\ (q # p => rw'[r].obj.st[p] = rw[r].obj.st[p])
    BY <1>6, SyncStepNotes, NoteEffect
  <2>2. ASSUME RecNotReady(r, p) \/ RecSkipDelete(r, p) \/ RecForget(r, p) \/ RecPruneNotReady(r, p)
        PROVE  rw'[r].obj.st[p].id \in {NoId, rw[r].obj.st[p].id}
    <3>1. /\ \A id, msg : Report(r, p, id, msg) => rw'[r].obj.st[p].id = id
          /\ Drop(r, p) => rw'[r].obj.st[p].id = NoId
      BY NoteEffect, BlankFacts DEF Report, Drop
    <3> QED
      BY <2>2, <3>1 DEF RecNotReady, RecSkipDelete, RecForget, RecPruneNotReady
  <2> QED
    BY <1>6, <2>1, <2>2 DEF IdsCome, OldIds, Calls, SyncStep
<1> QED
  BY <1>1, <1>2, <1>3, <1>4, <1>5, <1>6 DEF RecordStep, SyncStep

LEMMA IdsOfStep ==
    ASSUME TypeOK, [Next]_vars, NEW r \in Records, NEW p \in Providers
    PROVE  IdsCome(r, p)
<1>1. ASSUME rec'[r] = rec[r], recSeen'[r] = recSeen[r], rw'[r].obj = rw[r].obj
      PROVE  IdsCome(r, p)
  BY <1>1 DEF IdsCome, OldIds
<1>2. ASSUME NEW q \in Records,
             CreateRecord(q) \/ EditRecord(q) \/ TouchRecord(q) \/ DeleteRecord(q)
      PROVE  IdsCome(r, p)
  <2>1. PICK obj : UserWritesRecord(q, obj) /\ obj.st[p].id \in {NoId, rec[q].st[p].id}
    BY <1>2, UsersWriteNoIds
  <2>2. /\ recSeen' = recSeen /\ rw'[r].obj = rw[r].obj
        /\ rec'[r] = IF q = r THEN obj ELSE rec[r]
    BY <2>1 DEF UserWritesRecord, StoreRecord, TypeOK, RecordWorker
  <2> QED
    BY <2>1, <2>2 DEF IdsCome, OldIds
<1>3. ASSUME NEW q \in Records, DeliverRecord(q) PROVE IdsCome(r, p)
  <2>1. /\ rec' = rec /\ rw' = rw
        /\ recSeen'[r] = recSeen[r] \/ recSeen'[r] = rec[r]
    BY <1>3 DEF DeliverRecord, TypeOK
  <2> QED
    BY <2>1 DEF IdsCome, OldIds
<1>4. CASE Crash
  <2>1. rec' = rec /\ recSeen' = rec /\ rw'[r].obj.st[p].id = NoId
    BY <1>4, BlankFacts DEF Crash
  <2> QED
    BY <2>1 DEF IdsCome, OldIds
<1>5. ASSUME NEW q \in Records, RecordStep(q) PROVE IdsCome(r, p)
  <2>1. ASSUME q # r PROVE rec'[r] = rec[r] /\ recSeen'[r] = recSeen[r] /\ rw'[r] = rw[r]
    <3>1. rec'[r] = rec[r] /\ recSeen'[r] = recSeen[r]
      BY <1>5, <2>1, StepStores DEF StoreRecord, TypeOK
    <3>2. ASSUME NEW x \in Providers, SyncStep(q, x) PROVE rw'[r] = rw[r]
      BY <2>1, <3>2, SyncStepNotes, NoteEffect
    <3>3. ASSUME \/ RecBegin(q) \/ RecAddFinalizer(q) \/ RecWriteStatus(q) \/ RecRemoveFinalizer(q)
                 \/ \E x \in Providers : RecSelectorError(q, x)
          PROVE  rw'[r] = rw[r]
      BY <2>1, <3>3
      DEF RecBegin, RecAddFinalizer, RecWriteStatus, RecRemoveFinalizer, RecSelectorError, TypeOK
    <3> QED
      BY <1>5, <3>1, <3>2, <3>3 DEF RecordStep, SyncStep
  <2> QED
    BY <1>1, <1>5, <2>1, IdsOfWorker
<1>6. ASSUME UNCHANGED <<rec, recSeen, rw>> PROVE IdsCome(r, p)
  BY <1>1, <1>6
<1>7. ASSUME NEW q \in Providers,
             \/ CreateProvider(q) \/ EditProvider(q) \/ TouchProvider(q) \/ DeleteProvider(q)
             \/ DeliverProvider(q) \/ ProviderTimer(q) \/ ProviderStep(q)
      PROVE  UNCHANGED <<rec, recSeen, rw>>
  BY <1>7
  DEF CreateProvider, EditProvider, TouchProvider, DeleteProvider, UserWritesProvider,
      DeliverProvider, ProviderTimer, ProviderStep, ProvBegin, ProvAddFinalizer, ProvBuild,
      ProvRemoveFinalizer, ProvWriteStatus, Apart, recVars
<1>8. ASSUME NEW q \in Records, RecordTimer(q) PROVE UNCHANGED <<rec, recSeen, rw>>
  BY <1>8 DEF RecordTimer, recVars
<1>9. CASE UNCHANGED vars
  BY <1>6, <1>9 DEF vars
<1> QED
  BY <1>2, <1>3, <1>4, <1>5, <1>6, <1>7, <1>8, <1>9 DEF Next, Environment

LEMMA IdsStayOwn ==
    ASSUME TypeOK, Recorded, Undisturbed, IdsAreOwn, [Next]_vars
    PROVE  IdsAreOwn'
<1> SUFFICES ASSUME NEW r \in Records, NEW p \in Providers
             PROVE  /\ OwnId(r, p, rec[r].st[p].id)' /\ OwnId(r, p, recSeen[r].st[p].id)'
                    /\ OwnId(r, p, rw[r].obj.st[p].id)'
  BY DEF IdsAreOwn, OwnId
<1>0. ZonesAreNumbered /\ NoId \notin Nat
  BY ClusterAssumption DEF Recorded
<1>1. ASSUME NEW id \in OldIds(r, p) PROVE OwnId(r, p, id) /\ Issued(p, id)
  <2>1. OwnId(r, p, NoId)
    BY <1>0 DEF OwnId, ZonesAreNumbered
  <2> QED
    BY <1>1, <2>1 DEF OldIds, OwnId, IdsAreOwn, Recorded, StatusesAreSound, Sound, Issued
<1>2. ASSUME NEW id \in OldIds(r, p) PROVE \A e \in zone'[p].entries : e.id = id => e.rec = r
  BY <1>0, <1>1, <1>2, OwnStays DEF OwnId
<1>3. ASSUME Calls(r, p)
      PROVE  \A e \in zone'[p].entries : e.id = rw'[r].obj.st[p].id => e.rec = r
  <2>1. PICK o : /\ OwnCall(o, zone[p], rw[r].obj.st[p].id, r) /\ zone'[p] = o.zone
                 /\ rw'[r].obj.st[p].id \in {o.id, NoId}
    BY <1>0, <1>3, CallOwns DEF Calls
  <2>2. NoId \in OldIds(r, p) /\ rw[r].obj.st[p].id \in OldIds(r, p)
    BY DEF OldIds
  <2> QED
    BY <1>2, <2>1, <2>2 DEF OwnCall
<1> QED
  BY <1>2, <1>3, IdsOfStep DEF IdsCome, OwnId

-----------------------------------------------------------------------------
(***************************************************************************)
(* Records nobody is going to look at                                      *)
(***************************************************************************)

\* What is published under r's id stays while the worker is busy with others.
LEMMA PublishedStays ==
    ASSUME TypeOK, Recorded, Undisturbed, IdsAreOwn, [Next]_vars,
           NEW r \in Records, ~Busy(r), NEW p \in Providers, NEW setup, NEW val,
           Published(p, setup, rec[r].st[p].id, val)
    PROVE  \E e \in zone'[p].entries :
              e.id = rec[r].st[p].id /\ e.val = val /\ e.at = Config[p][setup].site
<1>0. PICK e \in zone[p].entries :
              e.id = rec[r].st[p].id /\ e.val = val /\ e.at = Config[p][setup].site
  BY DEF Published
<1>1. CASE zone'[p] = zone[p]
  BY <1>0, <1>1
<1>2. ASSUME NEW q \in Records,
             RecCreate(q, p) \/ RecUpdate(q, p) \/ RecDelete(q, p) \/ RecPrune(q, p)
      PROVE  e \in zone'[p].entries
  <2>1. PICK o : OwnCall(o, zone[p], rw[q].obj.st[p].id, q) /\ zone'[p] = o.zone
    BY <1>2, CallOwns DEF Recorded
  <2>2. q # r
    BY <1>2 DEF RecCreate, RecUpdate, RecDelete, RecPrune, Busy
  <2>3. e.id # rw[q].obj.st[p].id
    BY <1>0, <2>2 DEF IdsAreOwn
  <2> QED
    BY <2>1, <2>3 DEF OwnCall
<1>3. ASSUME NEW q \in Records, NEW x \in Providers \ {p},
             RecCreate(q, x) \/ RecUpdate(q, x) \/ RecDelete(q, x) \/ RecPrune(q, x)
      PROVE  zone'[p] = zone[p]
  BY <1>3, CallOwns DEF Recorded
<1> QED
  BY <1>0, <1>1, <1>2, <1>3, ZoneSteps

\* Settled, as far as the cached providers go.
SettledSeen(r) ==
    /\ rec[r].phase = "live" /\ rec[r].fin /\ rec[r].all
    /\ \A p \in Providers :
         /\ rec[r].st[p].id # NoId <=> Wants(provSeen[p], rec[r])
         /\ rec[r].st[p].id # NoId =>
              Published(p, provSeen[p].setup, rec[r].st[p].id, rec[r].val)

\* A Record at rest stays settled while others move.
LEMMA RestContinues ==
    ASSUME TypeOK, Recorded, NewsTell, GenerationsTell, IdsAreOwn, Undisturbed, [Next]_vars,
           ~Crash, NEW r \in Records, Untouched(r), Resting(r)', Exists(rec'[r]),
           Resting(r) /\ Exists(rec[r]) => SettledSeen(r)
    PROVE  SettledSeen(r)'
<1>1. Resting(r) /\ rec'[r] = rec[r] /\ r \notin recQ'
  BY DEF Resting, Untouched, Busy
<1>2. SettledSeen(r)
  BY <1>1
<1>3. /\ Exists(recSeen[r])
      /\ recSeen[r].val = rec[r].val /\ recSeen[r].lab = rec[r].lab
  BY <1>1 DEF NewsTell, Resting, Exists
<1>4. ASSUME NEW p \in Providers
      PROVE  /\ Wants(provSeen'[p], rec[r]) <=> Wants(provSeen[p], rec[r])
             /\ Wants(provSeen[p], rec[r]) => provSeen'[p].setup = provSeen[p].setup
  BY <1>1, <1>3, WatchesCall, SameWishes
<1>5. ASSUME NEW p \in Providers, rec[r].st[p].id # NoId
      PROVE  \E e \in zone'[p].entries :
                /\ e.id = rec[r].st[p].id /\ e.val = rec[r].val
                /\ e.at = Config[p][provSeen[p].setup].site
  <2>1. Published(p, provSeen[p].setup, rec[r].st[p].id, rec[r].val)
    BY <1>2, <1>5 DEF SettledSeen
  <2>2. ~Busy(r)
    BY <1>1 DEF Resting
  <2> QED
    BY <2>1, <2>2, PublishedStays
<1>6. ASSUME NEW p \in Providers
      PROVE  /\ rec'[r].st[p].id # NoId <=> Wants(provSeen'[p], rec'[r])
             /\ rec'[r].st[p].id # NoId =>
                  Published(p, provSeen[p].setup, rec[r].st[p].id, rec[r].val)'
  <2>1. rec[r].st[p].id # NoId <=> Wants(provSeen[p], rec[r])
    BY <1>2 DEF SettledSeen
  <2>2. rec[r].st[p].id # NoId => provSeen'[p].setup = provSeen[p].setup
    BY <1>4, <2>1
  <2> QED
    BY <1>1, <1>4, <1>5, <2>1, <2>2 DEF Published
<1> QED
  BY <1>1, <1>2, <1>6 DEF SettledSeen, Wants, Matches

\* A Record comes to rest with a status that says all is well, and it is.
LEMMA RestBegins ==
    ASSUME TypeOK, Guarded, Recorded, Reliable, NewsTell, StaleIsPending, ViewsAgree,
           Undisturbed, NEW r \in Records, RecWriteStatus(r), Resting(r)', Exists(rec'[r])
    PROVE  SettledSeen(r)'
<1>0. /\ rec[r] \in RecordObject /\ rw[r] \in RecordWorker /\ rw[r].pc = "sync"
      /\ UNCHANGED <<zone, provSeen>> /\ SureOf(r)
  BY ReliableByRecord DEF TypeOK, RecWriteStatus, Elsewhere, provVars
<1>1. AllReady(r)
  BY DEF RecWriteStatus, Resting
<1>2. r \notin recQ \cup recNews
  BY DEF RecWriteStatus, Resting, recStore, StoreRecord
<1>3. rw[r].fresh
  BY <1>0, <1>2 DEF StaleIsPending, Busy
<1>4. rec'[r] = WithStatus(r)
  BY <1>3, NothingFails DEF RecWriteStatus, StoreRecord, recStore, TypeOK
<1>5. /\ rec'[r].phase = rec[r].phase /\ rec'[r].fin = rec[r].fin /\ rec'[r].val = rec[r].val
      /\ rec'[r].lab = rec[r].lab /\ rec'[r].st = rw[r].obj.st /\ (rec'[r].all <=> AllReady(r))
  BY <1>0, <1>4 DEF WithStatus, RecordObject
<1>6. rw[r].obj.phase # "deleting"
  <2>1. ASSUME rw[r].obj.phase = "deleting" PROVE rw'[r].pc = "rmfin"
    <3>1. rw'[r] = [rw[r] EXCEPT !.pc = "rmfin"]
      BY <1>1, <2>1 DEF RecWriteStatus, TypeOK
    <3> QED
      BY <1>0, <3>1 DEF RecordWorker
  <2> QED
    BY <2>1 DEF Resting, Busy
<1>7. /\ rw[r].obj.phase = "live" /\ rec[r].phase = "live" /\ rec[r].fin
      /\ rec[r].val = rw[r].obj.val /\ rec[r].lab = rw[r].obj.lab
  BY <1>0, <1>3, <1>6
  DEF SureOf, Busy, Guarded, WorkerHasFinalizer, Exists, Recorded, IdsNeedFinalizer
<1>8. ASSUME NEW p \in Providers
      PROVE  /\ rec'[r].st[p].id # NoId <=> Wants(provSeen[p], rec'[r])
             /\ rec'[r].st[p].id # NoId =>
                  Published(p, provSeen[p].setup, rec'[r].st[p].id, rec'[r].val)
  <2>1. IF p \in Matched(r) /\ ~Unwanted(r, p)
        THEN /\ rw[r].obj.st[p].id # NoId
             /\ Published(p, rw[r].provs[p].setup, rw[r].obj.st[p].id, rw[r].obj.val)
        ELSE rw[r].obj.st[p].id = NoId
    BY <1>0, <1>1, WrittenIsTrue DEF RecWriteStatus
  <2>2. p \in Matched(r) /\ ~Unwanted(r, p) <=> Wants(rw[r].provs[p], rw[r].obj)
    BY <1>7 DEF Matched, Unwanted, Wants, Exists
  <2>3. /\ Wants(rw[r].provs[p], rw[r].obj) <=> Wants(provSeen[p], rw[r].obj)
        /\ Wants(provSeen[p], rw[r].obj) => rw[r].provs[p].setup = provSeen[p].setup
    BY <1>0, <1>2, <1>3 DEF ViewsAgree
  <2>4. Wants(provSeen[p], rw[r].obj) <=> Wants(provSeen[p], rec'[r])
    BY <1>5, <1>7, SameWishes
  <2> QED
    BY <1>5, <1>7, <2>1, <2>2, <2>3, <2>4
<1> QED
  BY <1>0, <1>1, <1>5, <1>7, <1>8 DEF SettledSeen, Published, Wants, Matches

\* The other steps of its worker leave a Record gone, or with somebody to look at it.
LEMMA RestIsGone ==
    ASSUME TypeOK, CachesAreCurrent, StaleIsPending, Undisturbed, NEW r \in Records,
           RecordStep(r), ~RecWriteStatus(r), Exists(rec'[r])
    PROVE  ~Resting(r)'
<1>0. NoRecord \in RecordObject
  BY ConstantTypes
<1>1. CASE RecBegin(r)
  BY <1>1, BeginsFresh DEF Resting, Busy
<1>2. CASE RecAddFinalizer(r)
  BY <1>2 DEF RecAddFinalizer, Resting
<1>3. CASE RecRemoveFinalizer(r)
  <2>1. CASE rw[r].fresh
    <3>1. rec'[r] = [NoRecord EXCEPT !.phase = "gone"]
      BY <1>3, <2>1, NothingFails DEF RecRemoveFinalizer, StoreRecord, TypeOK
    <3> QED
      BY <1>0, <3>1 DEF RecordObject, Exists
  <2>2. CASE ~rw[r].fresh
    <3>1. r \in recQ \cup recNews
      BY <1>3, <2>2 DEF RecRemoveFinalizer, StaleIsPending, Busy
    <3>2. r \in recQ' \cup recNews'
      BY <1>3, <2>2, <3>1 DEF RecRemoveFinalizer, recQueue, recStore
    <3> QED
      BY <3>2 DEF Resting
  <2> QED
    BY <2>1, <2>2
<1>4. ASSUME NEW p \in Providers, RecSelectorError(r, p) PROVE r \in recQ'
  BY <1>4 DEF RecSelectorError
<1>5. ASSUME NEW p \in Providers, SyncStep(r, p) PROVE rw'[r].pc = "sync"
  BY <1>5, SyncStepNotes, NoteEffect
<1> QED
  BY <1>1, <1>2, <1>3, <1>4, <1>5 DEF RecordStep, SyncStep, Resting, Busy

LEMMA RestStaysSettled ==
    ASSUME TypeOK, CachesAreCurrent, Guarded, Recorded, Reliable, Awaited, Undisturbed,
           [Next]_vars
    PROVE  RestingIsSettled'
<1> SUFFICES ASSUME NEW r \in Records, Resting(r)', Exists(rec'[r]) PROVE SettledSeen(r)'
  BY DEF RestingIsSettled, SettledSeen, Resting, Busy, Exists, Published, Wants, Matches
<1>1. Resting(r) /\ Exists(rec[r]) => SettledSeen(r)
  BY DEF Awaited, RestingIsSettled, SettledSeen
<1>2. CASE Untouched(r) /\ ~Crash
  BY <1>1, <1>2, RestContinues DEF Awaited
<1>3. CASE Told(r)
  BY <1>3 DEF Told, Resting
<1>4. CASE Crash
  BY <1>4 DEF Crash, Resting
<1>5. CASE RecWriteStatus(r)
  BY <1>5, RestBegins DEF Awaited
<1>6. CASE RecordStep(r) /\ ~RecWriteStatus(r)
  BY <1>6, RestIsGone DEF Awaited
<1> QED
  BY <1>2, <1>3, <1>4, <1>5, <1>6, RecordElsewhere

-----------------------------------------------------------------------------
LEMMA AwaitedInit == Init => Awaited
<1> SUFFICES ASSUME Init PROVE Awaited
  OBVIOUS
<1>1. /\ \A r \in Records : rec[r] = NoRecord /\ recSeen[r] = NoRecord /\ rw[r] = IdleRec
      /\ \A p \in Providers : /\ prov[p] = NoProvider /\ provSeen[p] = NoProvider
                              /\ zone[p].entries = {}
  BY DEF Init, EmptyZone
<1>2. NoRecord.phase = "absent"
  BY DEF NoRecord
<1> QED
  BY <1>1, <1>2, BlankFacts
  DEF Awaited, NewsTell, GenerationsTell, DeletingHasFinalizer, DeletionIsPending,
      StaleIsPending, ViewsAgree, IdsAreOwn, RestingIsSettled, Busy, Exists

LEMMA AwaitedStep ==
    ASSUME TypeOK, TypeOK', CachesAreCurrent, Guarded, Recorded, Reliable, Awaited,
           Undisturbed, [Next]_vars
    PROVE  Awaited'
<1>1. RecordsChange /\ ProvidersChange
  BY RecordsStep, ProvidersStep
<1>2. NewsTell' /\ GenerationsTell' /\ DeletingHasFinalizer'
  BY <1>1, NewsTold, GenerationsTold, DeletingKeepsFinalizer DEF Awaited, Recorded
<1>3. DeletionIsPending'
  BY DeletionPends DEF Awaited
<1>4. StaleIsPending'
  BY StalePends DEF Awaited
<1>5. ViewsAgree'
  BY ViewsKeepAgreeing DEF Awaited, Reliable
<1>6. IdsAreOwn'
  BY IdsStayOwn DEF Awaited
<1>7. RestingIsSettled'
  BY RestStaysSettled
<1> QED
  BY <1>2, <1>3, <1>4, <1>5, <1>6, <1>7 DEF Awaited

\* Whatever is not as the providers want it, a worker, a queue, a timer or an event that
\* passes the filters of SetupWithManager is going to look at.
THEOREM AllIsAwaited ==
    ASSUME Undisturbed
    PROVE  Spec => []Awaited
<1>1. /\ TypeOK /\ TypeOK' /\ (CachesAreCurrent /\ Guarded) /\ Recorded /\ Reliable /\ Awaited
      /\ [Next]_vars
      => Awaited'
  BY AwaitedStep
<1>2. AllCloudflare
  BY DEF Undisturbed
<1>3. Spec => []Recorded /\ []Reliable
  BY <1>2, LedgerInvariant, CloudflareIsNumbered, DoneIsDone
<1> QED
  BY <1>1, <1>3, AwaitedInit, TypeCorrectness, FinalizersGuard, PTL DEF Spec

\* At rest, every Record is settled and no deletion of a provider is pending.
LEMMA QuiescentIsSettled ==
    ASSUME TypeOK, CachesAreCurrent, Guarded, Awaited
    PROVE  RestMeansSettled
<1> SUFFICES ASSUME Quiescent PROVE /\ \A r \in Records : Settled(r)
                                    /\ \A p \in Providers : prov[p].phase # "deleting"
  BY DEF RestMeansSettled
<1>1. /\ recNews = {} /\ \A p \in Providers : provSeen[p] = prov[p]
  BY DEF Quiescent, TypeOK, CachesAreCurrent
<1>2. ASSUME NEW r \in Records PROVE Settled(r)
  <2>1. CASE Exists(rec[r])
    <3>1. Resting(r)
      BY <1>1 DEF Quiescent, Resting, Busy
    <3>2. SettledSeen(r)
      BY <2>1, <3>1 DEF Awaited, RestingIsSettled, SettledSeen
    <3> QED
      BY <1>1, <3>2 DEF SettledSeen, Settled, Published, Wants
  <2>2. CASE ~Exists(rec[r])
    BY <2>2 DEF Settled, Exists
  <2> QED
    BY <2>1, <2>2
<1>3. ASSUME NEW p \in Providers PROVE prov[p].phase # "deleting"
  <2>1. ~Awaits(p)
    BY <1>1 DEF Quiescent, Awaits, ProviderEventPasses, Exists
  <2> QED
    BY <2>1 DEF Awaited, DeletionIsPending, Awaits
<1> QED
  BY <1>2, <1>3

\* When both controllers have nothing left to do, each Record is published exactly where it
\* is wanted, and no deletion waits: no event that mattered was filtered out.
THEOREM RestIsSettled ==
    ASSUME Undisturbed
    PROVE  Spec => []RestMeansSettled
<1>1. TypeOK /\ (CachesAreCurrent /\ Guarded) /\ Awaited => RestMeansSettled
  BY QuiescentIsSettled
<1> QED
  BY <1>1, AllIsAwaited, TypeCorrectness, FinalizersGuard, PTL
=============================================================================
