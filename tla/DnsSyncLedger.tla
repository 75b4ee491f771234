--------------------------- MODULE DnsSyncLedger ---------------------------
(***************************************************************************)
(* NoForgetting: where the services number their entries (Cloudflare and   *)
(* Aliyun; the id of an AdGuard rewrite is its content, and there the      *)
(* property fails), a RecordID leaves the cluster only after its entry.    *)
(***************************************************************************)
EXTENDS DnsSyncProofs

NumberedConfig == {cfg \in ClientConfig : cfg.type \in {"CLOUDFLARE", "ALIYUN"}}

LEMMA NumberedClient ==
    ASSUME AllNumbered, TypeOK, NEW p \in Providers
    PROVE  Client(p) \in NumberedConfig
<1>1. provCache[p].setup \in Setups
  BY DEF TypeOK
<1> QED
  BY <1>1, ClientType DEF NumberedConfig, AllNumbered, Client

Numbered(z) == \A e \in z.entries : e.id \in Nat /\ e.id < z.next

IssuedBy(z, id) == id = NoId \/ (id \in Nat /\ id < z.next)

\* new may follow old: numbering goes on, and no id comes back.
Follows(new, old) ==
    /\ Numbered(new) /\ old.next <= new.next
    /\ \A i \in Nat : i < old.next /\ i \notin Ids(old) => i \notin Ids(new)

LEMMA ZonePartsFollow ==
    ASSUME NEW z \in Zone, Numbered(z), NEW site, NEW val, NEW r, NEW id
    PROVE  /\ Follows(z, z)
           /\ Follows(Insert(z, site, val, r), z)
           /\ Follows(Remove(z, WithId(z, site, id)), z)
           /\ NobodyMoves /\ site \in Sites => id \notin Ids(Remove(z, WithId(z, site, id)))
           /\ Follows(Overwrite(z, id, val), z)
<1>0. z.next \in Nat
  BY DEF Zone
<1>1. Follows(z, z)
  BY <1>0 DEF Follows
<1>2. Follows(Insert(z, site, val, r), z)
  BY <1>0 DEF Follows, Insert, Numbered, Ids
<1>3. /\ Remove(z, WithId(z, site, id)).entries \subseteq z.entries
      /\ Remove(z, WithId(z, site, id)).next = z.next
      /\ \A e \in Remove(z, WithId(z, site, id)).entries : ~(e.at = site /\ e.id = id)
      /\ \A e \in z.entries : e.at \in Sites
  BY DEF Remove, WithId, Zone, Entry
<1>4. Follows(Remove(z, WithId(z, site, id)), z)
  BY <1>0, <1>3 DEF Follows, Numbered, Ids
<1>5. NobodyMoves /\ site \in Sites => id \notin Ids(Remove(z, WithId(z, site, id)))
  BY <1>3 DEF Ids, NobodyMoves
<1>6. /\ \A e \in Overwrite(z, id, val).entries : \E d \in z.entries : d.id = e.id
      /\ Overwrite(z, id, val).next = z.next
  <2> SUFFICES ASSUME NEW e \in Overwrite(z, id, val).entries
               PROVE  \E d \in z.entries : d.id = e.id
    BY DEF Overwrite, Zone
  <2>1. PICK d \in z.entries : e = IF d.id = id THEN [d EXCEPT !.val = val] ELSE d
    BY DEF Overwrite, Zone
  <2>2. d \in Entry
    BY DEF Zone
  <2> QED
    BY <2>1, <2>2 DEF Entry
<1>7. Follows(Overwrite(z, id, val), z)
  BY <1>0, <1>6 DEF Follows, Numbered, Ids
<1> QED
  BY <1>1, <1>2, <1>4, <1>5, <1>7

\* The id a call returns was issued, and one it replaces is no longer in the zone if there
\* is no other site.
Accounts(o, z, id) ==
    /\ Follows(o.zone, z) /\ IssuedBy(o.zone, o.id)
    /\ NobodyMoves /\ id # NoId /\ o.id # id => id \notin Ids(o.zone)

LEMMA CreateAccounts ==
    ASSUME NEW cfg, NEW z \in Zone, Numbered(z), NEW id, IssuedBy(z, id),
           NobodyMoves => id \notin Ids(z), NEW val, NEW r
    PROVE  /\ \A o \in CloudflareCreate(cfg, z, id, val, r) : Accounts(o, z, id)
           /\ \A o \in AliyunCreate(cfg, z, id, val, r) : Accounts(o, z, id)
<1>0. z.next \in Nat /\ NoId \notin Nat
  BY ClusterAssumption DEF Zone
<1>1. ASSUME NEW new \in {id, NoId}, NEW ok, NEW faulty
      PROVE  Accounts(Outcome(z, new, ok, faulty), z, id)
  BY ZonePartsFollow DEF Accounts, Outcome, IssuedBy
<1>2. ASSUME NEW e \in WithVal(z, cfg.site, val)
      PROVE  Accounts(Outcome(z, e.id, TRUE, FALSE), z, id)
  BY ZonePartsFollow DEF Accounts, Outcome, IssuedBy, WithVal, Numbered
<1>3. \A o \in Applied(Insert(z, cfg.site, val, r), id, z.next) : Accounts(o, z, id)
  <2>1. Follows(Insert(z, cfg.site, val, r), z)
    BY ZonePartsFollow
  <2>2. Insert(z, cfg.site, val, r).next = z.next + 1
    BY DEF Insert
  <2>3. ASSUME NobodyMoves, id # NoId PROVE id \notin Ids(Insert(z, cfg.site, val, r))
    BY <1>0, <2>1, <2>3 DEF IssuedBy, Follows
  <2>4. ASSUME NEW new \in {id, z.next}, NEW ok, NEW faulty
        PROVE  Accounts(Outcome(Insert(z, cfg.site, val, r), new, ok, faulty), z, id)
    BY <1>0, <2>1, <2>2, <2>3 DEF Accounts, Outcome, IssuedBy
  <2> QED
    BY <2>4 DEF Applied
<1>4. \A o \in CloudflareCreate(cfg, z, id, val, r) : Accounts(o, z, id)
  BY <1>1, <1>2, <1>3 DEF CloudflareCreate, CloudflareFind, Unsent, Refused
<1>5. \A o \in AliyunCreate(cfg, z, id, val, r) : Accounts(o, z, id)
  BY <1>1, <1>2, <1>3 DEF AliyunCreate, Unsent, Refused
<1> QED
  BY <1>4, <1>5

LEMMA CallAccounts ==
    ASSUME NEW cfg \in NumberedConfig, NEW z \in Zone, Numbered(z),
           NEW id, IssuedBy(z, id), NEW val, NEW r
    PROVE  /\ id = NoId => \A o \in Create(cfg, z, id, val, r) : Accounts(o, z, id)
           /\ \A o \in Update(cfg, z, id, val, r) : Accounts(o, z, id)
           /\ \A o \in Delete(cfg, z, id, val) :
                 Accounts(o, z, id) /\ (o.ok => o.id = NoId)
<1>0. /\ z.next \in Nat /\ NoId \notin Nat
      /\ cfg.type \in {"CLOUDFLARE", "ALIYUN"} /\ cfg.site \in Sites
  BY ClusterAssumption DEF Zone, NumberedConfig, ClientConfig
<1>1. id = NoId => id \notin Ids(z)
  BY <1>0 DEF Numbered, Ids
<1>2. WithId(z, cfg.site, id) = {} /\ NobodyMoves => id \notin Ids(z)
  BY <1>0 DEF WithId, Ids, NobodyMoves, Zone, Entry
<1>3. (NobodyMoves => id \notin Ids(z)) =>
        /\ \A o \in CloudflareCreate(cfg, z, id, val, r) : Accounts(o, z, id)
        /\ \A o \in AliyunCreate(cfg, z, id, val, r) : Accounts(o, z, id)
  BY <1>0, CreateAccounts
<1>4. ASSUME NEW ok, NEW faulty PROVE Accounts(Outcome(z, id, ok, faulty), z, id)
  BY ZonePartsFollow DEF Accounts, Outcome
<1>5. \A o \in Applied(Overwrite(z, id, val), id, id) : Accounts(o, z, id)
  <2>1. Follows(Overwrite(z, id, val), z)
    BY ZonePartsFollow
  <2>2. Overwrite(z, id, val).next = z.next
    BY DEF Overwrite, Zone
  <2> QED
    BY <2>1, <2>2 DEF Applied, Accounts, Outcome, IssuedBy
<1>6. \A o \in Applied(Remove(z, WithId(z, cfg.site, id)), id, NoId) :
          Accounts(o, z, id) /\ (o.ok => o.id = NoId)
  <2>1. /\ Follows(Remove(z, WithId(z, cfg.site, id)), z)
        /\ NobodyMoves => id \notin Ids(Remove(z, WithId(z, cfg.site, id)))
    BY <1>0, ZonePartsFollow
  <2>2. Remove(z, WithId(z, cfg.site, id)).next = z.next
    BY DEF Remove, Zone
  <2> QED
    BY <2>1, <2>2 DEF Applied, Accounts, Outcome, IssuedBy
<1>7. id = NoId => \A o \in Create(cfg, z, id, val, r) : Accounts(o, z, id)
  BY <1>0, <1>1, <1>3 DEF Create
<1>8. \A o \in Update(cfg, z, id, val, r) : Accounts(o, z, id)
  <2>1. \A o \in CloudflareUpdate(cfg, z, id, val, r) : Accounts(o, z, id)
    BY <1>2, <1>3, <1>4, <1>5 DEF CloudflareUpdate, Unsent, Refused
  <2>2. \A o \in AliyunUpdate(cfg, z, id, val, r) : Accounts(o, z, id)
    BY <1>2, <1>3, <1>4, <1>5 DEF AliyunUpdate, Unsent
  <2> QED
    BY <1>0, <2>1, <2>2 DEF Update
<1>9. \A o \in Delete(cfg, z, id, val) : Accounts(o, z, id) /\ (o.ok => o.id = NoId)
  <2>1. \A o \in {Unsent(z, id), Refused(z, id)} : Accounts(o, z, id) /\ ~o.ok
    BY <1>4 DEF Unsent, Refused, Outcome
  <2> QED
    BY <1>0, <1>6, <2>1 DEF Delete, CloudflareDelete, AliyunDelete
<1> QED
  BY <1>7, <1>8, <1>9

-----------------------------------------------------------------------------
(***************************************************************************)
(* Recorded, Record by Record                                              *)
(***************************************************************************)

ProvidersLag ==
    \A p \in Providers : /\ provSeen[p].phase = "gone" => prov[p].phase = "gone"
                         /\ provSeen[p].phase # "absent" => prov[p].phase # "absent"

StatusKept(r) ==
    /\ Sound(rec[r].st) /\ Sound(recSeen[r].st) /\ Sound(rw[r].obj.st)
    /\ \A p \in Providers : rw[r].provs[p].phase # "absent" => provSeen[p].phase # "absent"

FinalizerKept(r) ==
    /\ ~rec[r].fin => \A p \in Providers : rec[r].st[p].id = NoId
    /\ rw[r].fresh /\ rw[r].pc \in {"sync", "rmfin"} => rec[r].fin

\* What WorkerReleasesLostIds and DeletedMeansReleased say of r.
WorkerKept(r) ==
    \A p \in Providers :
        /\ /\ Busy(r) /\ rw[r].fresh
           /\ rec[r].st[p].id # NoId /\ rec[r].st[p].id # rw[r].obj.st[p].id
           => Lost(p, rec[r].st[p].id)
        /\ /\ rw[r].pc = "sync" /\ rw[r].obj.phase = "deleting" /\ p \in rw[r].done
           /\ rw[r].obj.st[p].msg = ""
           => rw[r].obj.st[p].id = NoId
        /\ rw[r].pc = "rmfin" => rw[r].obj.st[p].id = NoId

Kept(r) == StatusKept(r) /\ FinalizerKept(r) /\ WorkerKept(r)

LEMMA RecordedByRecord ==
    /\ Recorded <=> ZonesAreNumbered /\ ProvidersLag /\ \A r \in Records : Kept(r)
    /\ Recorded' <=> ZonesAreNumbered' /\ ProvidersLag' /\ \A r \in Records : Kept(r)'
  BY DEF Recorded, ZonesAreNumbered, ProvidersLag, Kept, StatusKept, FinalizerKept, WorkerKept,
         StatusesAreSound, CopiesOfProvidersLag, IdsNeedFinalizer, WorkerReleasesLostIds,
         DeletedMeansReleased

LEMMA BlankFacts ==
    /\ Sound(NoRecord.st) /\ \A p \in Providers : NoRecord.st[p] = NotListed
    /\ NotListed.id = NoId /\ ~NotListed.listed /\ ~NoRecord.fin
    /\ IdleRec.pc = "idle" /\ IdleRec.obj = NoRecord /\ ~IdleRec.fresh
    /\ \A p \in Providers : IdleRec.provs[p].phase = "absent"
    /\ NoProvider.phase = "absent"
<1>1. /\ NoRecord.st = [p \in Providers |-> NotListed] /\ ~NoRecord.fin
      /\ NotListed.id = NoId /\ ~NotListed.listed
  BY DEF NoRecord, NotListed
<1>2. /\ IdleRec.pc = "idle" /\ IdleRec.obj = NoRecord /\ ~IdleRec.fresh
      /\ IdleRec.provs = [p \in Providers |-> NoProvider] /\ NoProvider.phase = "absent"
  BY DEF IdleRec, NoProvider
<1>3. Sound(NoRecord.st)
  BY <1>1 DEF Sound, Issued
<1> QED
  BY <1>1, <1>2, <1>3

LEMMA RecordedInit == Init => Recorded
<1> SUFFICES ASSUME Init PROVE Recorded
  OBVIOUS
<1>1. ZonesAreNumbered
  BY DEF Init, ZonesAreNumbered, EmptyZone
<1>2. /\ \A r \in Records : rec[r] = NoRecord /\ recSeen[r] = NoRecord /\ rw[r] = IdleRec
      /\ \A p \in Providers : prov[p] = NoProvider /\ provSeen[p] = NoProvider
  BY DEF Init
<1>3. ProvidersLag
  BY <1>2, BlankFacts DEF ProvidersLag
<1>4. \A r \in Records : Kept(r)
  BY <1>2, BlankFacts DEF Kept, StatusKept, FinalizerKept, WorkerKept, Busy
<1> QED
  BY <1>1, <1>3, <1>4, RecordedByRecord

-----------------------------------------------------------------------------
\* What every step does to p: the zone follows, and the provider's life goes one way.
Advances(p) ==
    /\ Follows(zone'[p], zone[p])
    /\ prov[p].phase = "gone" => prov'[p].phase = "gone"
    /\ provSeen[p].phase # "absent" => provSeen'[p].phase # "absent"

LEMMA LostStays ==
    ASSUME NEW p \in Providers, NEW id, Issued(p, id), id # NoId, Lost(p, id), Advances(p)
    PROVE  Lost(p, id)'
  BY DEF Issued, Lost, Advances, Follows

LEMMA SoundStays ==
    ASSUME TypeOK, NEW st, Sound(st), \A p \in Providers : Advances(p), TypeOK'
    PROVE  Sound(st)'
<1>1. \A p \in Providers : zone[p].next \in Nat /\ zone'[p].next \in Nat
  BY DEF TypeOK, Zone
<1> QED
  BY <1>1 DEF Sound, Issued, Advances, Follows

\* A step that does not touch r keeps what is known of it.
LEMMA KeptElsewhere ==
    ASSUME TypeOK, TypeOK', NEW r \in Records, Kept(r), \A p \in Providers : Advances(p),
           rec'[r] = rec[r], recSeen'[r] = recSeen[r], rw'[r] = rw[r]
    PROVE  Kept(r)'
<1>1. StatusKept(r)'
  <2>1. Sound(rec[r].st) /\ Sound(recSeen[r].st) /\ Sound(rw[r].obj.st)
    BY DEF Kept, StatusKept
  <2>2. ASSUME NEW st, Sound(st) PROVE Sound(st)'
    BY <2>2, SoundStays
  <2> QED
    BY <2>1, <2>2 DEF Kept, StatusKept, Advances
<1>2. FinalizerKept(r)'
  BY DEF Kept, FinalizerKept
<1>3. ASSUME NEW p \in Providers, rec[r].st[p].id # NoId, Lost(p, rec[r].st[p].id)
      PROVE  Lost(p, rec[r].st[p].id)'
  BY <1>3, LostStays DEF Kept, StatusKept, Sound
<1>4. WorkerKept(r)'
  BY <1>3 DEF Kept, WorkerKept, Busy
<1> QED
  BY <1>1, <1>2, <1>4 DEF Kept

\* The lemmas below show, action by action: a step preserves Recorded, and every id it
\* releases is lost.
LetsGo(r, p) == NobodyMoves => IdReleased(r, p)

Releases == \A r \in Records, p \in Providers : LetsGo(r, p)

\* Where the zones stay, they follow themselves.
LEMMA ZonesStay ==
    ASSUME TypeOK, ZonesAreNumbered, zone' = zone
    PROVE  ZonesAreNumbered' /\ \A p \in Providers : Follows(zone'[p], zone[p])
<1>1. ASSUME NEW p \in Providers PROVE Follows(zone[p], zone[p])
  BY ZonePartsFollow DEF TypeOK, ZonesAreNumbered, Numbered
<1> QED
  BY <1>1 DEF ZonesAreNumbered

MovesOn(p) ==
    /\ prov[p].phase = "gone" => prov'[p].phase = "gone"
    /\ prov[p].phase # "absent" => prov'[p].phase # "absent"
    /\ \/ provSeen'[p] = provSeen[p]
       \/ provSeen'[p] = prov[p] /\ prov'[p] = prov[p]

\* Steps of providers: the stored or the cached copy of one of them moves on.
LEMMA ProviderMoves ==
    ASSUME TypeOK, TypeOK', Recorded, zone' = zone,
           UNCHANGED <<rec, recSeen, rw>>,
           \A p \in Providers : MovesOn(p)
    PROVE  Recorded' /\ Releases
<1>1. ProvidersLag /\ ZonesAreNumbered
  BY RecordedByRecord
<1>2. ProvidersLag' /\ \A p \in Providers : Advances(p)
  BY <1>1, ZonesStay DEF ProvidersLag, Advances, MovesOn
<1>3. \A r \in Records : Kept(r)'
  BY <1>2, KeptElsewhere, RecordedByRecord
<1>4. Releases
  BY DEF Releases, LetsGo, IdReleased
<1> QED
  BY <1>1, <1>2, <1>3, <1>4, ZonesStay, RecordedByRecord

LEMMA ProviderSideRecords ==
    ASSUME TypeOK, TypeOK', Recorded, NEW p \in Providers,
           \/ CreateProvider(p) \/ EditProvider(p) \/ TouchProvider(p) \/ DeleteProvider(p)
           \/ ProviderStep(p) \/ DeliverProvider(p) \/ ProviderTimer(p)
    PROVE  Recorded' /\ Releases
<1>0. prov[p] \in ProviderObject
  BY DEF TypeOK
<1>1. CASE \/ CreateProvider(p) \/ EditProvider(p) \/ TouchProvider(p) \/ DeleteProvider(p)
  <2>1. PICK obj : UserWritesProvider(p, obj) /\ obj.phase # "absent" /\ prov[p].phase # "gone"
    <3>1. CASE CreateProvider(p)
      BY <3>1 DEF CreateProvider, NoProvider
    <3>2. CASE EditProvider(p)
      BY <3>2, <1>0 DEF EditProvider, Exists, ProviderObject
    <3>3. CASE TouchProvider(p)
      BY <3>3 DEF TouchProvider, Exists
    <3>4. CASE DeleteProvider(p)
      <4>1. Deleted(prov[p], NoProvider).phase # "absent"
        BY <1>0 DEF Deleted, ProviderObject, NoProvider
      <4> QED
        BY <3>4, <4>1 DEF DeleteProvider
    <3> QED
      BY <1>1, <3>1, <3>2, <3>3, <3>4
  <2>2. UNCHANGED <<rec, recSeen, rw, zone, provSeen>>
    BY <2>1 DEF UserWritesProvider, recVars
  <2>3. \A q \in Providers : MovesOn(q)
    BY <2>1, <2>2 DEF UserWritesProvider, StoreProvider, TypeOK, MovesOn
  <2> QED
    BY <2>2, <2>3, ProviderMoves
<1>2. CASE ProviderStep(p)
  <2>1. UNCHANGED <<rec, recSeen, rw, zone, provSeen>>
    BY <1>2
    DEF ProviderStep, ProvBegin, ProvAddFinalizer, ProvBuild, ProvRemoveFinalizer,
        ProvWriteStatus, Apart, recVars
  <2>2. \/ UNCHANGED prov
        \/ \E obj : StoreProvider(p, obj) /\ (obj.phase = prov[p].phase \/ obj.phase = "gone")
    <3>1. CASE ProvBegin(p) \/ ProvBuild(p)
      BY <3>1 DEF ProvBegin, ProvBuild, provStore
    <3>2. CASE ProvAddFinalizer(p)
      BY <3>2, <1>0 DEF ProvAddFinalizer, provStore, ProviderObject
    <3>3. CASE ProvRemoveFinalizer(p)
      BY <3>3 DEF ProvRemoveFinalizer, provStore, NoProvider
    <3>4. CASE ProvWriteStatus(p)
      BY <3>4, <1>0 DEF ProvWriteStatus, provStore, ProviderObject
    <3> QED
      BY <1>2, <3>1, <3>2, <3>3, <3>4 DEF ProviderStep
  <2>3. \A q \in Providers : MovesOn(q)
    BY <2>1, <2>2 DEF StoreProvider, TypeOK, MovesOn
  <2> QED
    BY <2>1, <2>3, ProviderMoves
<1>3. CASE DeliverProvider(p)
  BY <1>3, ProviderMoves DEF DeliverProvider, recVars, TypeOK, MovesOn
<1>4. CASE ProviderTimer(p)
  BY <1>4, ProviderMoves DEF ProviderTimer, recVars, provVars, MovesOn
<1> QED
  BY <1>1, <1>2, <1>3, <1>4

-----------------------------------------------------------------------------
\* A step of one Record r that keeps what is known of r.
LEMMA RecordMoves ==
    ASSUME TypeOK, TypeOK', Recorded, NEW r \in Records,
           UNCHANGED <<prov, provSeen>>,
           \A q \in Records \ {r} : /\ rec'[q] = rec[q] /\ recSeen'[q] = recSeen[q]
                                    /\ rw'[q] = rw[q],
           ZonesAreNumbered', \A p \in Providers : Follows(zone'[p], zone[p]),
           Kept(r)', \A p \in Providers : LetsGo(r, p)
    PROVE  Recorded' /\ Releases
<1>1. \A p \in Providers : Advances(p)
  BY DEF Advances
<1>2. \A q \in Records \ {r} : Kept(q)'
  BY <1>1, KeptElsewhere, RecordedByRecord
<1>3. ProvidersLag'
  BY RecordedByRecord DEF ProvidersLag
<1>4. Releases
  BY DEF Releases, LetsGo, IdReleased
<1> QED
  BY <1>2, <1>3, <1>4, RecordedByRecord

\* The same where the zones and the worker of r's providers stay as they are.
LEMMA RecordMovesAlone ==
    ASSUME TypeOK, TypeOK', Recorded, NEW r \in Records,
           UNCHANGED <<prov, provSeen, zone>>,
           \A q \in Records \ {r} : /\ rec'[q] = rec[q] /\ recSeen'[q] = recSeen[q]
                                    /\ rw'[q] = rw[q],
           Kept(r)', \A p \in Providers : LetsGo(r, p)
    PROVE  Recorded' /\ Releases
<1>1. ZonesAreNumbered
  BY RecordedByRecord
<1>2. ZonesAreNumbered' /\ \A p \in Providers : Follows(zone'[p], zone[p])
  BY <1>1, ZonesStay
<1> QED
  BY <1>2, RecordMoves

\* A user changes neither the status nor the finalizer; a Record without one has no ids.
LEMMA UserWriteRecords ==
    ASSUME TypeOK, TypeOK', Recorded, NEW r \in Records, NEW obj,
           UserWritesRecord(r, obj), obj.fin = rec[r].fin,
           obj.st = rec[r].st \/ (~rec[r].fin /\ obj.st = NoRecord.st)
    PROVE  Recorded' /\ Releases
<1>1. /\ UNCHANGED <<prov, provSeen, zone, recSeen>>
      /\ \A q \in Records \ {r} : rec'[q] = rec[q] /\ rw'[q] = rw[q]
      /\ rec'[r] = obj
  BY DEF UserWritesRecord, StoreRecord, TypeOK, provVars
<1>2. /\ rw'[r].pc = rw[r].pc /\ rw'[r].obj = rw[r].obj /\ rw'[r].provs = rw[r].provs
      /\ rw'[r].done = rw[r].done /\ ~rw'[r].fresh
  BY DEF UserWritesRecord, TypeOK, RecordWorker
<1>3. Kept(r)
  BY RecordedByRecord
<1>4. Kept(r)'
  <2>1. StatusKept(r)'
    <3>1. Sound(obj.st)'
      BY <1>1, <1>3, BlankFacts DEF Kept, StatusKept, Sound, Issued
    <3>2. Sound(rw[r].obj.st)' /\ Sound(recSeen[r].st)'
      BY <1>1, <1>2, <1>3 DEF Kept, StatusKept, Sound, Issued
    <3> QED
      BY <1>1, <1>2, <1>3, <3>1, <3>2 DEF Kept, StatusKept
  <2>2. FinalizerKept(r)'
    BY <1>1, <1>2, <1>3, BlankFacts DEF Kept, FinalizerKept
  <2>3. WorkerKept(r)'
    BY <1>1, <1>2, <1>3 DEF Kept, WorkerKept
  <2> QED
    BY <2>1, <2>2, <2>3 DEF Kept
<1>5. \A p \in Providers : LetsGo(r, p)
  BY <1>1, <1>3 DEF LetsGo, IdReleased, Kept, FinalizerKept
<1> QED
  BY <1>1, <1>4, <1>5, RecordMovesAlone

LEMMA UsersRecord ==
    ASSUME TypeOK, TypeOK', Guarded, Recorded, NEW r \in Records,
           CreateRecord(r) \/ EditRecord(r) \/ TouchRecord(r) \/ DeleteRecord(r)
    PROVE  Recorded' /\ Releases
<1>0. rec[r] \in RecordObject
  BY DEF TypeOK
<1>1. CASE CreateRecord(r)
  <2>1. PICK v \in Values, l \in Labels :
            UserWritesRecord(r, [NoRecord EXCEPT !.phase = "live", !.gen = 1,
                                                 !.val = v, !.lab = l])
    BY <1>1 DEF CreateRecord
  <2> DEFINE obj == [NoRecord EXCEPT !.phase = "live", !.gen = 1, !.val = v, !.lab = l]
  <2>2. obj.fin = FALSE /\ obj.st = NoRecord.st
    BY DEF NoRecord
  <2>3. ~rec[r].fin
    BY <1>1 DEF CreateRecord, Guarded, FinalizerMeansExists, Exists
  <2>4. rec[r].fin = FALSE
    BY <1>0, <2>3 DEF RecordObject
  <2> HIDE DEF obj
  <2> QED
    BY <2>1, <2>2, <2>4, UserWriteRecords DEF obj
<1>2. CASE EditRecord(r)
  <2>1. PICK obj : UserWritesRecord(r, obj) /\ obj.fin = rec[r].fin /\ obj.st = rec[r].st
    <3>1. ASSUME NEW v PROVE /\ [rec[r] EXCEPT !.val = v, !.gen = @ + 1].fin = rec[r].fin
                             /\ [rec[r] EXCEPT !.val = v, !.gen = @ + 1].st = rec[r].st
      BY <1>0 DEF RecordObject
    <3>2. ASSUME NEW l PROVE /\ [rec[r] EXCEPT !.lab = l].fin = rec[r].fin
                             /\ [rec[r] EXCEPT !.lab = l].st = rec[r].st
      BY <1>0 DEF RecordObject
    <3>3. CASE \E v \in Values :
                  UserWritesRecord(r, [rec[r] EXCEPT !.val = v, !.gen = @ + 1])
      BY <3>1, <3>3
    <3>4. CASE \E l \in Labels : UserWritesRecord(r, [rec[r] EXCEPT !.lab = l])
      BY <3>2, <3>4
    <3> QED
      BY <1>2, <3>3, <3>4 DEF EditRecord
  <2> QED
    BY <2>1, UserWriteRecords
<1>3. CASE TouchRecord(r)
  BY <1>3, UserWriteRecords DEF TouchRecord
<1>4. CASE DeleteRecord(r)
  <2>1. /\ Deleted(rec[r], NoRecord).fin = rec[r].fin
        /\ \/ Deleted(rec[r], NoRecord).st = rec[r].st
           \/ ~rec[r].fin /\ Deleted(rec[r], NoRecord).st = NoRecord.st
    BY <1>0 DEF Deleted, RecordObject, NoRecord
  <2> QED
    BY <1>4, <2>1, UserWriteRecords DEF DeleteRecord
<1> QED
  BY <1>1, <1>2, <1>3, <1>4

LEMMA InformersRecord ==
    ASSUME TypeOK, TypeOK', Recorded,
           (\E r \in Records : DeliverRecord(r) \/ RecordTimer(r)) \/ Crash
    PROVE  Recorded' /\ Releases
<1>1. ASSUME NEW r \in Records, DeliverRecord(r) PROVE Recorded' /\ Releases
  <2>1. /\ UNCHANGED <<prov, provSeen, zone, rec, rw>>
        /\ \A q \in Records \ {r} : recSeen'[q] = recSeen[q]
        /\ recSeen'[r] = rec[r]
    BY <1>1 DEF DeliverRecord, TypeOK, provVars
  <2>2. Kept(r)
    BY RecordedByRecord
  <2>3. StatusKept(r)'
    BY <2>1, <2>2 DEF Kept, StatusKept, Sound, Issued
  <2>4. FinalizerKept(r)' /\ WorkerKept(r)'
    BY <2>1, <2>2 DEF Kept, FinalizerKept, WorkerKept, Lost, Busy
  <2>5. \A p \in Providers : LetsGo(r, p)
    BY <2>1 DEF LetsGo, IdReleased
  <2> QED
    BY <2>1, <2>3, <2>4, <2>5, RecordMovesAlone DEF Kept
<1>2. ASSUME NEW r \in Records, RecordTimer(r) PROVE Recorded' /\ Releases
  <2>1. UNCHANGED <<prov, provSeen, zone, rec, recSeen, rw>>
    BY <1>2 DEF RecordTimer, recVars, provVars
  <2>2. \A p \in Providers : MovesOn(p)
    BY <2>1 DEF MovesOn
  <2> QED
    BY <2>1, <2>2, ProviderMoves
<1>3. CASE Crash
  <2>1. /\ UNCHANGED <<prov, zone, rec>> /\ provSeen' = prov /\ recSeen' = rec
        /\ \A r \in Records : rw'[r] = IdleRec
    BY <1>3 DEF Crash
  <2>2. ProvidersLag /\ ZonesAreNumbered /\ \A r \in Records : Kept(r)
    BY RecordedByRecord
  <2>3. ProvidersLag' /\ ZonesAreNumbered' /\ \A p \in Providers : Advances(p)
    BY <2>1, <2>2, ZonesStay DEF ProvidersLag, Advances
  <2>4. ASSUME NEW r \in Records PROVE Kept(r)'
    <3>1. Sound(rec[r].st) /\ Sound(NoRecord.st)
      BY <2>2, BlankFacts DEF Kept, StatusKept
    <3>2. ASSUME NEW st, Sound(st) PROVE Sound(st)'
      BY <2>3, <3>2, SoundStays
    <3>3. StatusKept(r)'
      BY <2>1, <3>1, <3>2, BlankFacts DEF StatusKept
    <3>4. FinalizerKept(r)' /\ WorkerKept(r)'
      BY <2>1, <2>2, BlankFacts DEF Kept, FinalizerKept, WorkerKept, Busy
    <3> QED
      BY <3>3, <3>4 DEF Kept
  <2>5. Releases
    BY <2>1 DEF Releases, LetsGo, IdReleased
  <2> QED
    BY <2>3, <2>4, <2>5, RecordedByRecord
<1> QED
  BY <1>1, <1>2, <1>3

\* The first and the last steps of a reconciliation.
LEMMA FramesRecord ==
    ASSUME TypeOK, TypeOK', CachesAreCurrent, Recorded, NEW r \in Records,
           \/ RecBegin(r) \/ RecAddFinalizer(r)
           \/ \E p \in Providers : RecSelectorError(r, p)
    PROVE  Recorded' /\ Releases
<1>0. Kept(r)
  BY RecordedByRecord
<1>1. /\ UNCHANGED <<prov, provSeen, zone, recSeen>>
      /\ \A q \in Records \ {r} : rec'[q] = rec[q] /\ rw'[q] = rw[q]
  <2>1. UNCHANGED <<prov, provSeen, zone, recSeen>>
    BY DEF RecBegin, RecAddFinalizer, RecSelectorError, Elsewhere, provVars
  <2>2. \A q \in Records \ {r} : rec'[q] = rec[q]
    BY DEF RecBegin, RecAddFinalizer, RecSelectorError, StoreRecord, recStore, TypeOK
  <2>3. \A q \in Records \ {r} : rw'[q] = rw[q]
    BY DEF RecBegin, RecAddFinalizer, RecSelectorError, TypeOK
  <2> QED
    BY <2>1, <2>2, <2>3
<1>2. rec'[r].st = rec[r].st /\ (rec[r].fin => rec'[r].fin)
  <2>1. CASE RecBegin(r) \/ \E p \in Providers : RecSelectorError(r, p)
    BY <2>1 DEF RecBegin, RecSelectorError, recStore
  <2>2. CASE RecAddFinalizer(r)
    BY <2>2 DEF RecAddFinalizer, StoreRecord, recStore, TypeOK, RecordObject
  <2> QED
    BY <2>1, <2>2
<1>3. Sound(rec[r].st)' /\ Sound(recSeen[r].st)' /\ Sound(NoRecord.st)'
  BY <1>0, <1>1, <1>2, BlankFacts DEF Kept, StatusKept, Sound, Issued
<1>4. ~rec'[r].fin => \A p \in Providers : rec'[r].st[p].id = NoId
  BY <1>0, <1>2 DEF Kept, FinalizerKept
<1>5. ASSUME rw'[r] = IdleRec PROVE Kept(r)'
  BY <1>1, <1>3, <1>4, <1>5, BlankFacts DEF Kept, StatusKept, FinalizerKept, WorkerKept, Busy
<1>6. ASSUME RecBegin(r) PROVE Kept(r)'
  <2>1. rec' = rec
    BY <1>6 DEF RecBegin, recStore
  <2>2. CASE rw' = rw
    BY <1>0, <1>1, <2>1, <2>2
    DEF Kept, StatusKept, FinalizerKept, WorkerKept, Sound, Issued, Lost, Busy
  <2>3. CASE rw' # rw
    <3>1. /\ rw'[r].pc = FirstStep(recSeen[r]) /\ rw'[r].obj = recSeen[r]
          /\ rw'[r].fresh = (r \notin recBehind) /\ rw'[r].provs = provSeen
          /\ rw'[r].done = {}
      BY <1>6, <2>3 DEF RecBegin, TypeOK
    <3>2. rw'[r].fresh => recSeen[r] = rec[r]
      BY <3>1 DEF CachesAreCurrent
    <3>3. rw'[r].pc = "addfin" \/ (rw'[r].pc = "sync" /\ recSeen[r].fin)
      BY <3>1 DEF FirstStep
    <3>4. StatusKept(r)'
      BY <1>1, <1>3, <3>1 DEF StatusKept
    <3>5. FinalizerKept(r)'
      BY <1>4, <2>1, <3>2, <3>3 DEF FinalizerKept
    <3>6. WorkerKept(r)'
      BY <2>1, <3>1, <3>2, <3>3 DEF WorkerKept
    <3> QED
      BY <3>4, <3>5, <3>6 DEF Kept
  <2> QED
    BY <2>2, <2>3
<1>7. Kept(r)'
  BY <1>5, <1>6 DEF RecAddFinalizer, RecSelectorError, TypeOK
<1>8. \A p \in Providers : LetsGo(r, p)
  BY <1>2 DEF LetsGo, IdReleased
<1> QED
  BY <1>1, <1>7, <1>8, RecordMovesAlone

\* When the loops are over, a provider without a status entry was never of interest.
LEMMA LoopsOver ==
    ASSUME NEW r \in Records, NextConsidered(r) = {}, NextUnmatched(r) = {},
           NEW p \in Providers, p \notin rw[r].done
    PROVE  ~rw[r].obj.st[p].listed
<1>1. Considered(r) \ rw[r].done = {}
  BY DEF NextConsidered
<1> QED
  BY <1>1 DEF NextUnmatched

\* A status is written over the stored one only where the stored ids are lost.
LEMMA WriteStatusRecords ==
    ASSUME TypeOK, TypeOK', Recorded, NEW r \in Records, RecWriteStatus(r)
    PROVE  Recorded' /\ Releases
<1>0. Kept(r) /\ rec[r] \in RecordObject /\ rw[r] \in RecordWorker
  BY RecordedByRecord DEF TypeOK
<1>1. /\ UNCHANGED <<prov, provSeen, zone, recSeen>>
      /\ \A q \in Records \ {r} : rec'[q] = rec[q] /\ rw'[q] = rw[q]
  BY DEF RecWriteStatus, StoreRecord, recStore, Elsewhere, provVars, TypeOK
<1>2. \/ rec' = rec
      \/ /\ rw[r].fresh /\ rec'[r].st = rw[r].obj.st /\ rec'[r].fin = rec[r].fin
  <2>1. WithStatus(r).st = rw[r].obj.st /\ WithStatus(r).fin = rec[r].fin
    BY <1>0 DEF WithStatus, RecordObject
  <2>2. rec' = rec \/ (rw[r].fresh /\ rec'[r] = WithStatus(r))
    BY DEF RecWriteStatus, StoreRecord, recStore, TypeOK
  <2> QED
    BY <2>1, <2>2
<1>3. \/ rw'[r] = IdleRec
      \/ /\ AllReady(r) /\ rw[r].obj.phase = "deleting" /\ rw'[r].pc = "rmfin"
         /\ rw'[r].obj = rw[r].obj /\ rw'[r].fresh = rw[r].fresh
         /\ rw'[r].provs = rw[r].provs
  BY <1>0 DEF RecWriteStatus, TypeOK, RecordWorker
<1>4. rw[r].pc = "sync" /\ NextConsidered(r) = {} /\ NextUnmatched(r) = {}
  BY DEF RecWriteStatus
<1>5. ASSUME rw'[r].pc = "rmfin", NEW p \in Providers PROVE rw[r].obj.st[p].id = NoId
  <2>1. AllReady(r) /\ rw[r].obj.phase = "deleting"
    BY <1>3, <1>5, BlankFacts
  <2>2. CASE p \in rw[r].done
    BY <1>0, <1>4, <2>1, <2>2 DEF Kept, WorkerKept, AllReady
  <2>3. CASE p \notin rw[r].done
    <3>1. rw[r].obj.st[p] = NotListed
      BY <1>0, <1>4, <2>3, LoopsOver DEF Kept, StatusKept, Sound
    <3> QED
      BY <3>1, BlankFacts
  <2> QED
    BY <2>2, <2>3
<1>6. StatusKept(r)'
  <2>1. Sound(rec[r].st)' /\ Sound(rw[r].obj.st)'
    BY <1>0, <1>1, <1>2, <1>3, BlankFacts DEF Kept, StatusKept, Sound, Issued
  <2>2. Sound(recSeen[r].st)'
    BY <1>0, <1>1 DEF Kept, StatusKept, Sound, Issued
  <2> QED
    BY <1>0, <1>1, <1>3, <2>1, <2>2, BlankFacts DEF Kept, StatusKept
<1>7. FinalizerKept(r)'
  BY <1>0, <1>2, <1>3, <1>4, BlankFacts DEF Kept, FinalizerKept
<1>8. WorkerKept(r)'
  <2>1. CASE rw'[r] = IdleRec
    BY <2>1, BlankFacts DEF WorkerKept, Busy
  <2>2. CASE rw'[r].pc = "rmfin" /\ rw'[r].obj = rw[r].obj /\ rw'[r].fresh = rw[r].fresh
    <3>1. ASSUME NEW p \in Providers, rw[r].fresh, rec'[r].st[p].id # NoId,
                 rec'[r].st[p].id # rw[r].obj.st[p].id
          PROVE  Lost(p, rec'[r].st[p].id) /\ rec'[r].st = rec[r].st
      BY <1>0, <1>2, <1>4, <3>1 DEF Kept, WorkerKept, Busy
    <3>2. ASSUME NEW p \in Providers, rw[r].fresh, rec'[r].st[p].id # NoId,
                 rec'[r].st[p].id # rw[r].obj.st[p].id
          PROVE  Lost(p, rec[r].st[p].id)'
      BY <1>1, <3>1, <3>2 DEF Lost
    <3> QED
      BY <1>5, <2>2, <3>2 DEF WorkerKept
  <2> QED
    BY <1>3, <2>1, <2>2
<1>9. \A p \in Providers : LetsGo(r, p)
  BY <1>0, <1>1, <1>2, <1>4 DEF Kept, WorkerKept, Busy, Lost, LetsGo, IdReleased
<1> QED
  BY <1>1, <1>6, <1>7, <1>8, <1>9, RecordMovesAlone DEF Kept

\* The finalizer is removed when the worker has no ids left: those of the store are lost.
LEMMA RemoveFinalizerRecords ==
    ASSUME TypeOK, TypeOK', Recorded, NEW r \in Records, RecRemoveFinalizer(r)
    PROVE  Recorded' /\ Releases
<1>0. Kept(r)
  BY RecordedByRecord
<1>1. /\ UNCHANGED <<prov, provSeen, zone, recSeen>> /\ rw'[r] = IdleRec
      /\ \A q \in Records \ {r} : rec'[q] = rec[q] /\ rw'[q] = rw[q]
  BY DEF RecRemoveFinalizer, StoreRecord, recStore, Elsewhere, provVars, TypeOK
<1>2. rw[r].pc = "rmfin" /\ \A p \in Providers : rw[r].obj.st[p].id = NoId
  BY <1>0 DEF RecRemoveFinalizer, Kept, WorkerKept
<1>3. rec' = rec \/ (rw[r].fresh /\ rec'[r].st = NoRecord.st)
  <2>1. [NoRecord EXCEPT !.phase = "gone"].st = NoRecord.st
    BY DEF NoRecord
  <2> QED
    BY <2>1 DEF RecRemoveFinalizer, StoreRecord, recStore, TypeOK
<1>4. StatusKept(r)'
  <2>1. Sound(rec[r].st)' /\ Sound(rw[r].obj.st)'
    BY <1>0, <1>1, <1>3, BlankFacts DEF Kept, StatusKept, Sound, Issued
  <2>2. Sound(recSeen[r].st)'
    BY <1>0, <1>1 DEF Kept, StatusKept, Sound, Issued
  <2> QED
    BY <1>1, <2>1, <2>2, BlankFacts DEF StatusKept
<1>5. FinalizerKept(r)' /\ WorkerKept(r)'
  BY <1>0, <1>1, <1>3, BlankFacts DEF Kept, FinalizerKept, WorkerKept, Busy
<1>6. \A p \in Providers : LetsGo(r, p)
  BY <1>0, <1>1, <1>2, <1>3 DEF Kept, WorkerKept, Busy, Lost, LetsGo, IdReleased
<1> QED
  BY <1>1, <1>4, <1>5, <1>6, RecordMovesAlone DEF Kept

-----------------------------------------------------------------------------
(***************************************************************************)
(* The steps that work on one provider                                     *)
(***************************************************************************)

\* Lost, after the step.
LostAfter(p, id) == NobodyMoves => id \notin Ids(zone'[p]) \/ prov'[p].phase = "gone"

\* entry is a status entry the worker may have after a step on p.
FitEntry(r, p, entry) ==
    /\ IssuedBy(zone'[p], entry.id)
    /\ entry.id # NoId => provSeen[p].phase # "absent"
    /\ ~entry.listed => entry = NotListed
    /\ rw[r].obj.st[p].id # NoId /\ entry.id # rw[r].obj.st[p].id
         => LostAfter(p, rw[r].obj.st[p].id)
    /\ rw[r].obj.phase = "deleting" /\ entry.msg = "" => entry.id = NoId

\* A provider the worker looks at is one the cache has seen.
LEMMA LookedAtIsSeen ==
    ASSUME TypeOK, Recorded, NEW r \in Records, NEW p \in Providers, p \in NextMatched(r)
    PROVE  provSeen[p].phase # "absent"
<1>1. p \in Matched(r)
  BY DEF NextMatched
<1>2. Exists(rw[r].provs[p])
  BY <1>1 DEF Matched
<1> QED
  BY <1>2 DEF Exists, Recorded, CopiesOfProvidersLag

LEMMA QuietStepFits ==
    ASSUME TypeOK, Recorded, NEW r \in Records, NEW p \in Providers,
           \/ RecNotReady(r, p) \/ RecSkipDelete(r, p)
           \/ RecForget(r, p) \/ RecPruneNotReady(r, p)
    PROVE  /\ \E entry : Note(r, p, entry) /\ FitEntry(r, p, entry)
           /\ zone' = zone
<1>0. StatusKept(r) /\ ProvidersLag
  BY RecordedByRecord DEF Kept
<1>1. zone' = zone /\ prov' = prov
  BY DEF RecNotReady, RecSkipDelete, RecForget, RecPruneNotReady, Elsewhere, provVars
<1> DEFINE old == rw[r].obj.st[p].id
<1>2. /\ IssuedBy(zone'[p], old) /\ IssuedBy(zone'[p], NoId)
      /\ old # NoId => provSeen[p].phase # "absent"
  BY <1>0, <1>1 DEF StatusKept, Sound, Issued, IssuedBy
<1>3. CASE RecNotReady(r, p) \/ RecPruneNotReady(r, p)
  <2> DEFINE entry == [listed |-> TRUE, id |-> old, msg |-> "not ready"]
  <2>1. FitEntry(r, p, entry)
    BY <1>2 DEF FitEntry
  <2> QED
    BY <1>1, <1>3, <2>1 DEF RecNotReady, RecPruneNotReady, Report
<1>4. CASE RecSkipDelete(r, p)
  <2> DEFINE entry == [listed |-> TRUE, id |-> NoId, msg |-> ""]
  <2>1. FitEntry(r, p, entry)
    BY <1>2, <1>4 DEF FitEntry, RecSkipDelete
  <2> QED
    BY <1>1, <1>4, <2>1 DEF RecSkipDelete, Report
<1>5. CASE RecForget(r, p)
  <2>1. old # NoId => provSeen[p].phase = "gone"
    BY <1>2, <1>5 DEF RecForget, Exists, TypeOK, ProviderObject, Phases
  <2>2. old # NoId => prov'[p].phase = "gone"
    BY <1>0, <1>1, <2>1 DEF ProvidersLag
  <2>3. FitEntry(r, p, NotListed)
    BY <1>2, <2>2, BlankFacts DEF FitEntry, LostAfter
  <2> QED
    BY <1>1, <1>5, <2>3 DEF RecForget, Drop
<1> QED
  BY <1>3, <1>4, <1>5

LEMMA CallStepFits ==
    ASSUME TypeOK, Recorded,
           AllNumbered, NEW r \in Records, NEW p \in Providers,
           RecDelete(r, p) \/ RecCreate(r, p) \/ RecUpdate(r, p) \/ RecPrune(r, p)
    PROVE  /\ \E entry : Note(r, p, entry) /\ FitEntry(r, p, entry)
           /\ Follows(zone'[p], zone[p]) /\ \A q \in Providers \ {p} : zone'[q] = zone[q]
<1>0. /\ StatusKept(r) /\ zone[p] \in Zone /\ Numbered(zone[p])
      /\ \A q \in Providers \ {p} : zone'[q] = zone[q]
      /\ Client(p) \in NumberedConfig
  BY RecordedByRecord, CallEffect, NumberedClient DEF Kept, ZonesAreNumbered, Numbered
<1> DEFINE old == rw[r].obj.st[p].id
<1>1. IssuedBy(zone[p], old)
  BY <1>0 DEF StatusKept, Sound, Issued, IssuedBy
<1>2. provSeen[p].phase # "absent"
  BY LookedAtIsSeen DEF RecDelete, RecCreate, RecUpdate, RecPrune, Exists
<1>3. PICK o : /\ Call(p, o) /\ Accounts(o, zone[p], old)
               /\ \/ /\ RecCreate(r, p) \/ RecUpdate(r, p)
                     /\ Report(r, p, o.id, ErrorMsg(o))
                  \/ /\ RecDelete(r, p) \/ RecPrune(r, p)
                     /\ o.ok => o.id = NoId
                     /\ \/ Report(r, p, o.id, ErrorMsg(o))
                        \/ o.ok /\ Drop(r, p)
                        \/ Report(r, p, o.id, "error")
  <2>1. CASE RecCreate(r, p)
    <3>1. old = NoId
      BY <2>1 DEF RecCreate
    <3>2. PICK o \in Create(Client(p), zone[p], NoId, rw[r].obj.val, r) :
              Call(p, o) /\ Report(r, p, o.id, ErrorMsg(o))
      BY <2>1 DEF RecCreate
    <3>3. Accounts(o, zone[p], old)
      BY <1>0, <1>1, <3>1, <3>2, CallAccounts
    <3> QED
      BY <2>1, <3>2, <3>3
  <2>2. CASE RecUpdate(r, p)
    <3>1. PICK o \in Update(Client(p), zone[p], old, rw[r].obj.val, r) :
              Call(p, o) /\ Report(r, p, o.id, ErrorMsg(o))
      BY <2>2 DEF RecUpdate
    <3>2. Accounts(o, zone[p], old)
      BY <1>0, <1>1, <3>1, CallAccounts
    <3> QED
      BY <2>2, <3>1, <3>2
  <2>3. CASE RecDelete(r, p) \/ RecPrune(r, p)
    <3>1. PICK o \in Delete(Client(p), zone[p], old, rw[r].obj.val) :
              /\ Call(p, o)
              /\ \/ Report(r, p, o.id, ErrorMsg(o))
                 \/ o.ok /\ Drop(r, p)
                 \/ Report(r, p, o.id, "error")
      BY <2>3 DEF RecDelete, RecPrune
    <3>2. Accounts(o, zone[p], old) /\ (o.ok => o.id = NoId)
      BY <1>0, <1>1, <3>1, CallAccounts
    <3> QED
      BY <2>3, <3>1, <3>2
  <2> QED
    BY <2>1, <2>2, <2>3
<1>4. zone'[p] = o.zone
  BY <1>3 DEF Call, TypeOK
<1>5. /\ Follows(zone'[p], zone[p])
      /\ IssuedBy(zone'[p], o.id) /\ IssuedBy(zone'[p], NoId)
      /\ old # NoId /\ o.id # old => LostAfter(p, old)
  BY <1>3, <1>4 DEF Accounts, IssuedBy, LostAfter
<1>6. ASSUME NEW msg, Report(r, p, o.id, msg),
             rw[r].obj.phase = "deleting" /\ msg = "" => o.id = NoId
      PROVE  \E entry : Note(r, p, entry) /\ FitEntry(r, p, entry)
  <2> DEFINE entry == [listed |-> TRUE, id |-> o.id, msg |-> msg]
  <2>1. FitEntry(r, p, entry)
    BY <1>2, <1>5, <1>6 DEF FitEntry
  <2> QED
    BY <1>6, <2>1 DEF Report
<1>7. CASE (RecCreate(r, p) \/ RecUpdate(r, p)) /\ Report(r, p, o.id, ErrorMsg(o))
  <2>1. rw[r].obj.phase # "deleting"
    BY <1>7 DEF RecCreate, RecUpdate, Unwanted
  <2> QED
    BY <1>0, <1>5, <1>6, <1>7, <2>1
<1>8. CASE (o.ok => o.id = NoId) /\ Report(r, p, o.id, ErrorMsg(o))
  <2>1. ErrorMsg(o) = "" => o.ok
    BY DEF ErrorMsg
  <2> QED
    BY <1>0, <1>5, <1>6, <1>8, <2>1
<1>9. CASE o.ok /\ o.id = NoId /\ Drop(r, p)
  <2>1. FitEntry(r, p, NotListed)
    BY <1>5, <1>9, BlankFacts DEF FitEntry
  <2> QED
    BY <1>0, <1>5, <1>9, <2>1 DEF Drop
<1>10. CASE Report(r, p, o.id, "error")
  BY <1>0, <1>5, <1>6, <1>10
<1> QED
  BY <1>3, <1>7, <1>8, <1>9, <1>10

LEMMA SyncStepRecords ==
    ASSUME TypeOK, TypeOK', Recorded, Guarded,
           AllNumbered, NEW r \in Records, NEW p \in Providers,
           SyncStep(r, p)
    PROVE  Recorded' /\ Releases
<1>0. Kept(r) /\ ZonesAreNumbered
  BY RecordedByRecord
<1>1. /\ UNCHANGED <<rec, recSeen, prov, provSeen>> /\ rw[r].pc = "sync"
  BY SyncStepNotes
<1>2. /\ \E entry : Note(r, p, entry) /\ FitEntry(r, p, entry)
      /\ \A q \in Providers : Follows(zone'[q], zone[q])
  <2>1. \A q \in Providers : Follows(zone[q], zone[q])
    BY <1>0, ZonePartsFollow DEF TypeOK, ZonesAreNumbered, Numbered
  <2> QED
    BY <2>1, QuietStepFits, CallStepFits DEF SyncStep
<1>3. PICK entry : Note(r, p, entry) /\ FitEntry(r, p, entry)
  BY <1>2
<1>4. /\ \A q \in Records \ {r} : rw'[q] = rw[q]
      /\ rw'[r].pc = "sync" /\ rw'[r].fresh = rw[r].fresh /\ rw'[r].provs = rw[r].provs
      /\ rw'[r].done = rw[r].done \cup {p} /\ rw'[r].obj.phase = rw[r].obj.phase
      /\ rw'[r].obj.st[p] = entry
      /\ \A q \in Providers \ {p} : rw'[r].obj.st[q] = rw[r].obj.st[q]
  BY <1>1, <1>3, NoteEffect
<1>5. \A q \in Providers : Advances(q)
  BY <1>1, <1>2 DEF Advances
<1>6. ASSUME NEW st, Sound(st) PROVE Sound(st)'
  BY <1>5, <1>6, SoundStays
<1>7. StatusKept(r)'
  <2>1. Sound(rw[r].obj.st)'
    <3>1. Sound(rw[r].obj.st) /\ Issued(p, entry.id)'
          /\ (entry.id # NoId => provSeen[p].phase # "absent")
          /\ (~entry.listed => entry = NotListed)
      BY <1>0, <1>3 DEF Kept, StatusKept, FitEntry, Issued, IssuedBy
    <3>2. \A q \in Providers : Issued(q, rw[r].obj.st[q].id) => Issued(q, rw[r].obj.st[q].id)'
                                \/ q = p
      <4> SUFFICES ASSUME NEW q \in Providers, q # p, Issued(q, rw[r].obj.st[q].id)
                   PROVE  Issued(q, rw[r].obj.st[q].id)'
        OBVIOUS
      <4>1. zone[q].next \in Nat /\ zone'[q].next \in Nat
        BY DEF TypeOK, Zone
      <4> QED
        BY <1>4, <1>5, <4>1 DEF Issued, Advances, Follows
    <3> QED
      BY <1>1, <1>4, <3>1, <3>2 DEF Sound
  <2>2. Sound(rec[r].st)' /\ Sound(recSeen[r].st)'
    BY <1>0, <1>1, <1>6 DEF Kept, StatusKept
  <2> QED
    BY <1>0, <1>1, <1>4, <2>1, <2>2 DEF Kept, StatusKept
<1>8. FinalizerKept(r)'
  BY <1>0, <1>1, <1>4 DEF Kept, FinalizerKept
<1>9. ASSUME NEW q \in Providers, rw'[r].fresh, rec[r].st[q].id # NoId,
             rec[r].st[q].id # rw'[r].obj.st[q].id
      PROVE  Lost(q, rec[r].st[q].id)'
  <2>1. Issued(q, rec[r].st[q].id)
    BY <1>0 DEF Kept, StatusKept, Sound
  <2>2. ASSUME Lost(q, rec[r].st[q].id) PROVE Lost(q, rec[r].st[q].id)'
    <3>1. \A id : Issued(q, id) /\ id # NoId /\ Lost(q, id) => Lost(q, id)'
      BY <1>5, LostStays
    <3> QED
      BY <1>1, <1>9, <2>1, <2>2, <3>1 DEF Lost
  <2>3. CASE rec[r].st[q].id # rw[r].obj.st[q].id
    BY <1>0, <1>1, <1>4, <1>9, <2>2, <2>3 DEF Kept, WorkerKept, Busy
  <2>4. CASE rec[r].st[q].id = rw[r].obj.st[q].id
    <3>1. q = p
      BY <1>4, <1>9, <2>4
    <3> QED
      BY <1>1, <1>3, <1>4, <1>9, <2>4, <3>1 DEF FitEntry, Lost, LostAfter
  <2> QED
    BY <2>3, <2>4
<1>10. WorkerKept(r)'
  <2>1. ASSUME NEW q \in Providers, rw'[r].obj.phase = "deleting", q \in rw'[r].done,
               rw'[r].obj.st[q].msg = ""
        PROVE  rw'[r].obj.st[q].id = NoId
    BY <1>0, <1>1, <1>3, <1>4, <2>1 DEF Kept, WorkerKept, FitEntry
  <2> QED
    BY <1>1, <1>4, <1>9, <2>1 DEF WorkerKept
<1>11. ZonesAreNumbered'
  BY <1>2 DEF ZonesAreNumbered, Follows, Numbered
<1>12. \A q \in Providers : LetsGo(r, q)
  BY <1>1 DEF LetsGo, IdReleased
<1> QED
  BY <1>1, <1>2, <1>4, <1>7, <1>8, <1>10, <1>11, <1>12, RecordMoves DEF Kept

-----------------------------------------------------------------------------
LEMMA RecordedStep ==
    ASSUME TypeOK, TypeOK', CachesAreCurrent, Guarded, Recorded, [Next]_vars,
           AllNumbered
    PROVE  Recorded' /\ Releases
<1>1. CASE UNCHANGED vars
  <2>1. UNCHANGED <<prov, provSeen, zone, rec, recSeen, rw>>
    BY <1>1 DEF vars
  <2>2. \A p \in Providers : MovesOn(p)
    BY <2>1 DEF MovesOn
  <2> QED
    BY <2>1, <2>2, ProviderMoves
<1>2. CASE Environment
  BY <1>2, UsersRecord, InformersRecord, ProviderSideRecords DEF Environment
<1>3. ASSUME NEW r \in Records, RecordStep(r) PROVE Recorded' /\ Releases
  BY <1>3, FramesRecord, WriteStatusRecords, RemoveFinalizerRecords, SyncStepRecords
  DEF RecordStep, SyncStep
<1>4. ASSUME NEW p \in Providers, ProviderStep(p) PROVE Recorded' /\ Releases
  BY <1>4, ProviderSideRecords
<1> QED
  BY <1>1, <1>2, <1>3, <1>4 DEF Next

\* What workers, caches and zones tell of one another's RecordIDs holds in every reachable
\* state, where the services number their entries.
THEOREM LedgerInvariant ==
    ASSUME AllNumbered
    PROVE  Spec => []Recorded
<1>1. TypeOK /\ TypeOK' /\ (CachesAreCurrent /\ Guarded) /\ Recorded /\ [Next]_vars
        => Recorded'
  BY RecordedStep
<1> QED
  BY <1>1, RecordedInit, TypeCorrectness, FinalizersGuard, PTL DEF Spec

\* As long as no edit moves a provider to another zone or account, a RecordID leaves the
\* cluster only after its entry has left the zone, or its provider the cluster: for any
\* number of Records and providers, whatever users, crashes, stale reads and failing calls
\* come in between.
THEOREM NothingForgotten ==
    ASSUME AllNumbered, NobodyMoves
    PROVE  Spec => NoForgetting
<1>1. TypeOK /\ TypeOK' /\ (CachesAreCurrent /\ Guarded) /\ Recorded /\ [Next]_vars
        => [\A r \in Records, p \in Providers : IdReleased(r, p)]_vars
  BY RecordedStep DEF Releases, LetsGo
<1> QED
  BY <1>1, LedgerInvariant, TypeCorrectness, FinalizersGuard, PTL DEF Spec, NoForgetting
=============================================================================
