--------------------------- MODULE DnsSyncClaims ---------------------------
(***************************************************************************)
(* ReadyClaimIsTrue: where every provider is a Cloudflare provider (Aliyun *)
(* takes the wrong entry for its own, and AdGuard an id for the content it *)
(* names: there the property fails), a status that claims the Record to be *)
(* ready is right.                                                         *)
(***************************************************************************)
EXTENDS DnsSyncLedger

LEMMA CloudflareIsNumbered ==
    ASSUME AllCloudflare
    PROVE  AllNumbered
  BY DEF AllCloudflare, AllNumbered

\* A call that succeeds leaves the content at the client's site, under the id it returns.
Publishes(cfg, o, val) ==
    o.ok => /\ o.id \in Nat
            /\ \E e \in o.zone.entries : e.id = o.id /\ e.val = val /\ e.at = cfg.site

LEMMA CloudflareCreatePublishes ==
    ASSUME NEW z \in Zone, Numbered(z), NEW id, NEW val, NEW r, NEW cfg
    PROVE  \A o \in CloudflareCreate(cfg, z, id, val, r) : Publishes(cfg, o, val)
<1>1. \A x : Publishes(cfg, Unsent(z, x), val) /\ Publishes(cfg, Refused(z, x), val)
  BY DEF Publishes, Unsent, Refused, Outcome
<1>2. ASSUME NEW e \in WithVal(z, cfg.site, val)
      PROVE  Publishes(cfg, Outcome(z, e.id, TRUE, FALSE), val)
  BY DEF Publishes, Outcome, WithVal, Numbered
<1>3. \A o \in Applied(Insert(z, cfg.site, val, r), id, z.next) : Publishes(cfg, o, val)
  <2> DEFINE new == [id |-> z.next, at |-> cfg.site, val |-> val, rec |-> r]
  <2>1. /\ new \in Insert(z, cfg.site, val, r).entries
        /\ new.id = z.next /\ new.val = val /\ new.at = cfg.site
    BY DEF Insert
  <2>2. z.next \in Nat
    BY DEF Zone
  <2> HIDE DEF new
  <2> QED
    BY <2>1, <2>2 DEF Publishes, Applied, Outcome
<1> QED
  BY <1>1, <1>2, <1>3 DEF CloudflareCreate, CloudflareFind

LEMMA CloudflareUpdatePublishes ==
    ASSUME NEW z \in Zone, Numbered(z), NEW id, NEW val, NEW r, NEW cfg
    PROVE  \A o \in CloudflareUpdate(cfg, z, id, val, r) : Publishes(cfg, o, val)
<1>1. \A x : Publishes(cfg, Unsent(z, x), val) /\ Publishes(cfg, Refused(z, x), val)
  BY DEF Publishes, Unsent, Refused, Outcome
<1>2. ASSUME WithId(z, cfg.site, id) # {}
      PROVE  \A o \in Applied(Overwrite(z, id, val), id, id) : Publishes(cfg, o, val)
  <2>1. PICK d \in z.entries : d.id = id /\ d.at = cfg.site
    BY <1>2 DEF WithId
  <2> DEFINE e == [d EXCEPT !.val = val]
  <2>2. d \in Entry /\ id \in Nat
    BY <2>1 DEF Zone, Numbered
  <2>3. e.id = id /\ e.val = val /\ e.at = cfg.site
    BY <2>1, <2>2 DEF Entry
  <2>4. e \in Overwrite(z, id, val).entries
    BY <2>1 DEF Overwrite, Zone
  <2> HIDE DEF e
  <2> QED
    BY <2>2, <2>3, <2>4 DEF Publishes, Applied, Outcome
<1> QED
  BY <1>1, <1>2, CloudflareCreatePublishes DEF CloudflareUpdate

LEMMA CallPublishes ==
    ASSUME NEW cfg, cfg.type = "CLOUDFLARE", NEW z \in Zone, Numbered(z), NEW id, NEW val, NEW r
    PROVE  /\ \A o \in Create(cfg, z, id, val, r) : Publishes(cfg, o, val)
           /\ \A o \in Update(cfg, z, id, val, r) : Publishes(cfg, o, val)
  BY CloudflareCreatePublishes, CloudflareUpdatePublishes DEF Create, Update

-----------------------------------------------------------------------------
(***************************************************************************)
(* Providers                                                               *)
(***************************************************************************)

\* How a stored provider changes.
ProviderChange(old, new) ==
    \/ /\ new.phase = old.phase /\ new.gen = old.gen /\ new.sel = old.sel
       /\ new.setup = old.setup /\ (old.fin => new.fin)
    \/ /\ Exists(old) /\ Exists(new) /\ new.gen = old.gen + 1 /\ new.fin = old.fin
       /\ old.phase = "deleting" => new.phase = "deleting"
       /\ new.phase = "deleting" => new.fin \/ old.phase = "deleting"
    \/ old.phase = "absent" /\ new.phase = "live" /\ new.gen = 1
    \/ new.phase = "gone" /\ new.gen = 0

\* Any step changes the stored providers so, and brings a cached one to the stored version.
ProvidersChange ==
    \A p \in Providers :
        /\ ProviderChange(prov[p], prov'[p])
        /\ provSeen'[p] = provSeen[p] \/ (provSeen'[p] = prov[p] /\ prov'[p] = prov[p])

LEMMA EditedProvider ==
    ASSUME NEW old \in ProviderObject
    PROVE  /\ \A cond : ProviderChange(old, [old EXCEPT !.cond = cond])
           /\ ProviderChange(old, [old EXCEPT !.fin = TRUE])
           /\ Exists(old) =>
                \A s \in Selectors, c \in Setups :
                   ProviderChange(old, [old EXCEPT !.sel = s, !.setup = c, !.gen = @ + 1])
           /\ old.phase = "live" => ProviderChange(old, Deleted(old, NoProvider))
           /\ ProviderChange(old, [NoProvider EXCEPT !.phase = "gone"])
           /\ ProviderChange(old, old)
<1>1. /\ [NoProvider EXCEPT !.phase = "gone"].phase = "gone"
      /\ [NoProvider EXCEPT !.phase = "gone"].gen = 0
  BY DEF NoProvider
<1>2. ASSUME NEW cond PROVE ProviderChange(old, [old EXCEPT !.cond = cond])
  BY DEF ProviderChange, ProviderObject
<1>3. ProviderChange(old, [old EXCEPT !.fin = TRUE])
  BY DEF ProviderChange, ProviderObject
<1>4. ASSUME Exists(old), NEW s \in Selectors, NEW c \in Setups
      PROVE  ProviderChange(old, [old EXCEPT !.sel = s, !.setup = c, !.gen = @ + 1])
  BY <1>4 DEF ProviderChange, ProviderObject, Exists
<1>5. ASSUME old.phase = "live" PROVE ProviderChange(old, Deleted(old, NoProvider))
  BY <1>1, <1>5 DEF ProviderChange, ProviderObject, Exists, Deleted
<1> QED
  BY <1>1, <1>2, <1>3, <1>4, <1>5 DEF ProviderChange

LEMMA ProvidersStep ==
    ASSUME TypeOK, [Next]_vars
    PROVE  ProvidersChange
<1>1. ASSUME UNCHANGED <<prov, provSeen>> PROVE ProvidersChange
  BY <1>1, EditedProvider DEF ProvidersChange, TypeOK
<1>2. ASSUME NEW p \in Providers, NEW obj, StoreProvider(p, obj), ProviderChange(prov[p], obj),
             provSeen' = provSeen
      PROVE  ProvidersChange
  BY <1>2, EditedProvider DEF ProvidersChange, TypeOK, StoreProvider
<1>3. ASSUME NEW p \in Providers,
             CreateProvider(p) \/ EditProvider(p) \/ TouchProvider(p) \/ DeleteProvider(p)
      PROVE  ProvidersChange
  <2>0. prov[p] \in ProviderObject
    BY DEF TypeOK
  <2>1. PICK obj : UserWritesProvider(p, obj) /\ ProviderChange(prov[p], obj)
    <3>1. CASE CreateProvider(p)
      <4>1. PICK s \in Selectors, c \in Setups :
                UserWritesProvider(p, [NoProvider EXCEPT !.phase = "live", !.gen = 1,
                                                         !.sel = s, !.setup = c])
        BY <3>1 DEF CreateProvider
      <4> DEFINE obj == [NoProvider EXCEPT !.phase = "live", !.gen = 1, !.sel = s, !.setup = c]
      <4>2. obj.phase = "live" /\ obj.gen = 1
        BY DEF NoProvider
      <4> QED
        BY <3>1, <4>1, <4>2 DEF CreateProvider, ProviderChange
    <3>2. CASE EditProvider(p)
      BY <2>0, <3>2, EditedProvider DEF EditProvider
    <3>3. CASE TouchProvider(p)
      BY <2>0, <3>3, EditedProvider DEF TouchProvider
    <3>4. CASE DeleteProvider(p)
      BY <2>0, <3>4, EditedProvider DEF DeleteProvider
    <3> QED
      BY <1>3, <3>1, <3>2, <3>3, <3>4
  <2> QED
    BY <1>2, <2>1 DEF UserWritesProvider
<1>4. ASSUME NEW p \in Providers, ProviderStep(p) PROVE ProvidersChange
  <2>0. prov[p] \in ProviderObject /\ provSeen' = provSeen
    BY <1>4
    DEF TypeOK, ProviderStep, ProvBegin, ProvAddFinalizer, ProvBuild, ProvRemoveFinalizer,
        ProvWriteStatus, Apart
  <2>1. UNCHANGED prov \/ \E obj : StoreProvider(p, obj) /\ ProviderChange(prov[p], obj)
    <3>1. CASE ProvBegin(p) \/ ProvBuild(p)
      BY <3>1 DEF ProvBegin, ProvBuild, provStore
    <3>2. CASE ProvAddFinalizer(p)
      BY <2>0, <3>2, EditedProvider DEF ProvAddFinalizer, provStore
    <3>3. CASE ProvRemoveFinalizer(p)
      BY <2>0, <3>3, EditedProvider DEF ProvRemoveFinalizer, provStore
    <3>4. CASE ProvWriteStatus(p)
      BY <2>0, <3>4, EditedProvider DEF ProvWriteStatus, provStore
    <3> QED
      BY <1>4, <3>1, <3>2, <3>3, <3>4 DEF ProviderStep
  <2> QED
    BY <1>1, <1>2, <2>0, <2>1
<1>5. ASSUME NEW p \in Providers, DeliverProvider(p) PROVE ProvidersChange
  BY <1>5, EditedProvider DEF DeliverProvider, TypeOK, ProvidersChange
<1>6. CASE Crash
  BY <1>6, EditedProvider DEF Crash, TypeOK, ProvidersChange
<1>7. ASSUME NEW r \in Records, RecordStep(r) PROVE UNCHANGED <<prov, provSeen>>
  BY <1>7
  DEF RecordStep, RecBegin, RecAddFinalizer, RecWriteStatus, RecRemoveFinalizer,
      RecSelectorError, RecNotReady, RecSkipDelete, RecDelete, RecCreate, RecUpdate,
      RecForget, RecPruneNotReady, RecPrune, Elsewhere, provVars
<1>8. ASSUME NEW r \in Records,
             \/ CreateRecord(r) \/ EditRecord(r) \/ TouchRecord(r) \/ DeleteRecord(r)
             \/ DeliverRecord(r) \/ RecordTimer(r)
      PROVE  UNCHANGED <<prov, provSeen>>
  BY <1>8
  DEF CreateRecord, EditRecord, TouchRecord, DeleteRecord, UserWritesRecord, DeliverRecord,
      RecordTimer, provVars
<1>9. ASSUME NEW p \in Providers, ProviderTimer(p) PROVE UNCHANGED <<prov, provSeen>>
  BY <1>9 DEF ProviderTimer, provVars
<1>10. CASE UNCHANGED vars
  BY <1>1, <1>10 DEF vars
<1> QED
  BY <1>1, <1>3, <1>4, <1>5, <1>6, <1>7, <1>8, <1>9, <1>10 DEF Next, Environment

-----------------------------------------------------------------------------
(***************************************************************************)
(* Records: the steps that do not touch a worker's copies, and those that do *)
(***************************************************************************)

\* Informers of providers, their controllers and users, timers.
Aside == UNCHANGED <<rec, rw, zone>>

LEMMA StepsAside ==
    ASSUME [Next]_vars
    PROVE  \/ Aside \/ Crash
           \/ \E r \in Records : \E obj : UserWritesRecord(r, obj)
           \/ \E r \in Records : RecordStep(r)
<1>1. ASSUME NEW r \in Records, DeliverRecord(r) \/ RecordTimer(r) PROVE Aside
  BY <1>1 DEF Aside, DeliverRecord, RecordTimer, recVars
<1>2. ASSUME NEW r \in Records,
             CreateRecord(r) \/ EditRecord(r) \/ TouchRecord(r) \/ DeleteRecord(r)
      PROVE  \E obj : UserWritesRecord(r, obj)
  BY <1>2 DEF CreateRecord, EditRecord, TouchRecord, DeleteRecord
<1>3. ASSUME NEW p \in Providers,
             \/ CreateProvider(p) \/ EditProvider(p) \/ TouchProvider(p) \/ DeleteProvider(p)
             \/ DeliverProvider(p) \/ ProviderTimer(p)
      PROVE  Aside
  BY <1>3
  DEF Aside, CreateProvider, EditProvider, TouchProvider, DeleteProvider,
      UserWritesProvider, DeliverProvider, ProviderTimer, recVars
<1>4. ASSUME NEW p \in Providers, ProviderStep(p) PROVE Aside
  BY <1>4
  DEF Aside, ProviderStep, ProvBegin, ProvAddFinalizer, ProvBuild, ProvRemoveFinalizer,
      ProvWriteStatus, Apart, recVars
<1>5. CASE UNCHANGED vars
  BY <1>5 DEF Aside, vars
<1> QED
  BY <1>1, <1>2, <1>3, <1>4, <1>5 DEF Next, Environment

\* What a worker means to do depends on the copies it took when it began.
SamePlan(r) ==
    /\ rw'[r].provs = rw[r].provs /\ rw'[r].obj.phase = rw[r].obj.phase
    /\ rw'[r].obj.val = rw[r].obj.val /\ rw'[r].obj.lab = rw[r].obj.lab

LEMMA PlanKept ==
    ASSUME NEW r \in Records, SamePlan(r)
    PROVE  /\ Matched(r)' = Matched(r) /\ Considered(r)' = Considered(r)
           /\ \A p \in Providers : Unwanted(r, p)' <=> Unwanted(r, p)
  BY DEF SamePlan, Matched, Considered, Matches, MatchFails, Unwanted

LEMMA ConfirmedKept ==
    ASSUME NEW r \in Records, NEW p \in Providers, SamePlan(r), Confirmed(r, p),
           rw'[r].obj.st[p] = rw[r].obj.st[p], zone'[p] = zone[p]
    PROVE  Confirmed(r, p)'
<1>1. rw'[r].obj.val = rw[r].obj.val /\ rw'[r].provs = rw[r].provs
  BY DEF SamePlan
<1>2. Published(p, rw[r].provs[p].setup, rw[r].obj.st[p].id, rw[r].obj.val)' =
        Published(p, rw[r].provs[p].setup, rw[r].obj.st[p].id, rw[r].obj.val)
  BY <1>1 DEF Published
<1> QED
  BY <1>2, PlanKept DEF Confirmed

\* The providers a worker still has to look at.
LEMMA NextProviders ==
    ASSUME NEW r \in Records, NEW p \in Providers
    PROVE  /\ Matched(r) \subseteq Considered(r)
           /\ p \in NextMatched(r) => p \in Matched(r)
           /\ p \in NextUnmatched(r) => p \notin Considered(r)
<1>1. Matched(r) \subseteq Considered(r)
  BY DEF Matched, Considered
<1>2. p \in NextMatched(r) => p \in Matched(r)
  BY DEF NextMatched
<1>3. p \in NextUnmatched(r) => p \notin Considered(r)
  BY DEF NextUnmatched
<1> QED
  BY <1>1, <1>2, <1>3

\* A status entry that confirms what the worker is then sure of.
Confirms(r, p, entry) ==
    /\ p \in Matched(r) \/ p \notin Considered(r)
    /\ entry.msg = "" =>
         IF p \in Matched(r) /\ ~Unwanted(r, p)
         THEN /\ entry.id # NoId
              /\ \E e \in zone'[p].entries :
                    /\ e.id = entry.id /\ e.val = rw[r].obj.val
                    /\ e.at = Config[p][rw[r].provs[p].setup].site
         ELSE entry.id = NoId /\ (entry.listed => p \in Matched(r))

LEMMA QuietStepConfirms ==
    ASSUME NEW r \in Records, NEW p \in Providers,
           \/ RecNotReady(r, p) \/ RecSkipDelete(r, p)
           \/ RecForget(r, p) \/ RecPruneNotReady(r, p)
    PROVE  /\ \E entry : Note(r, p, entry) /\ Confirms(r, p, entry)
           /\ zone' = zone
<1>1. zone' = zone
  BY DEF RecNotReady, RecSkipDelete, RecForget, RecPruneNotReady
<1>2. CASE RecNotReady(r, p) \/ RecPruneNotReady(r, p)
  <2> DEFINE entry == [listed |-> TRUE, id |-> rw[r].obj.st[p].id, msg |-> "not ready"]
  <2>1. Confirms(r, p, entry)
    BY <1>2, NextProviders DEF Confirms, RecNotReady, RecPruneNotReady
  <2> QED
    BY <1>1, <1>2, <2>1 DEF RecNotReady, RecPruneNotReady, Report
<1>3. CASE RecSkipDelete(r, p)
  <2> DEFINE entry == [listed |-> TRUE, id |-> NoId, msg |-> ""]
  <2>1. Confirms(r, p, entry)
    BY <1>3, NextProviders DEF Confirms, RecSkipDelete
  <2> QED
    BY <1>1, <1>3, <2>1 DEF RecSkipDelete, Report
<1>4. CASE RecForget(r, p)
  <2>1. Confirms(r, p, NotListed)
    BY <1>4, NextProviders, BlankFacts DEF Confirms, RecForget
  <2> QED
    BY <1>1, <1>4, <2>1 DEF RecForget, Drop
<1> QED
  BY <1>2, <1>3, <1>4

\* A client of the listed generation was built from the listed spec.
LEMMA ClientTells ==
    ASSUME SetupsTell, NEW r \in Records, NEW p \in Providers, ListedClientReady(r, p)
    PROVE  Client(p) = Config[p][rw[r].provs[p].setup]
<1>1. provCache[p] \in Versions(p) /\ Version(rw[r].provs[p]) \in Versions(p)
  BY DEF Versions
<1>2. provCache[p].gen # 0 /\ provCache[p].gen = Version(rw[r].provs[p]).gen
  BY DEF ListedClientReady, ClientReady, Version
<1>3. provCache[p].setup = Version(rw[r].provs[p]).setup
  BY <1>1, <1>2 DEF SetupsTell
<1> QED
  BY <1>3 DEF Client, Version

LEMMA CallStepConfirms ==
    ASSUME TypeOK, Recorded, AllCloudflare, SetupsTell, NEW r \in Records, NEW p \in Providers,
           RecDelete(r, p) \/ RecCreate(r, p) \/ RecUpdate(r, p) \/ RecPrune(r, p)
    PROVE  /\ \E entry : Note(r, p, entry) /\ Confirms(r, p, entry)
           /\ \A q \in Providers \ {p} : zone'[q] = zone[q]
<1> DEFINE old == rw[r].obj.st[p].id
<1>1. /\ zone[p] \in Zone /\ Numbered(zone[p]) /\ IssuedBy(zone[p], old)
      /\ Client(p) \in NumberedConfig /\ Client(p).type = "CLOUDFLARE"
      /\ \A q \in Providers \ {p} : zone'[q] = zone[q]
  BY CallEffect, CloudflareIsNumbered, NumberedClient
  DEF TypeOK, Client, Recorded, ZonesAreNumbered, Numbered, StatusesAreSound, Sound, Issued, IssuedBy,
      AllCloudflare
<1>2. \A o : Call(p, o) => zone'[p] = o.zone
  BY DEF Call, TypeOK
<1>3. \A o : ErrorMsg(o) = "" <=> o.ok
  BY DEF ErrorMsg
<1>4. CASE RecCreate(r, p) \/ RecUpdate(r, p)
  <2>1. PICK o : /\ Call(p, o) /\ Report(r, p, o.id, ErrorMsg(o))
                 /\ Publishes(Client(p), o, rw[r].obj.val)
    BY <1>1, <1>4, CallPublishes DEF RecCreate, RecUpdate
  <2> DEFINE entry == [listed |-> TRUE, id |-> o.id, msg |-> ErrorMsg(o)]
  <2>2. p \in Matched(r) /\ ~Unwanted(r, p)
    BY <1>4, NextProviders DEF RecCreate, RecUpdate
  <2>3. NoId \notin Nat
    BY ClusterAssumption
  <2>4. Client(p).site = Config[p][rw[r].provs[p].setup].site
    BY <1>4, ClientTells DEF RecCreate, RecUpdate
  <2>5. Confirms(r, p, entry)
    BY <1>2, <1>3, <2>1, <2>2, <2>3, <2>4 DEF Confirms, Publishes
  <2> QED
    BY <1>1, <2>1, <2>5 DEF Report
<1>5. CASE RecDelete(r, p) \/ RecPrune(r, p)
  <2>1. PICK o \in Delete(Client(p), zone[p], old, rw[r].obj.val) :
            \/ RecDelete(r, p) /\ Report(r, p, o.id, ErrorMsg(o))
            \/ RecPrune(r, p) /\ IF o.ok THEN Drop(r, p) ELSE Report(r, p, o.id, "error")
    BY <1>5 DEF RecDelete, RecPrune
  <2>2. o.ok => o.id = NoId
    BY <1>1, <2>1, CallAccounts
  <2>3. CASE RecDelete(r, p) /\ Report(r, p, o.id, ErrorMsg(o))
    <3> DEFINE entry == [listed |-> TRUE, id |-> o.id, msg |-> ErrorMsg(o)]
    <3>1. p \in Matched(r) /\ Unwanted(r, p)
      BY <2>3, NextProviders DEF RecDelete
    <3>2. Confirms(r, p, entry)
      BY <1>3, <2>2, <3>1 DEF Confirms
    <3> QED
      BY <1>1, <2>3, <3>2 DEF Report
  <2>4. CASE RecPrune(r, p) /\ IF o.ok THEN Drop(r, p) ELSE Report(r, p, o.id, "error")
    <3> DEFINE entry == [listed |-> TRUE, id |-> o.id, msg |-> "error"]
    <3>1. p \notin Considered(r) /\ p \notin Matched(r)
      BY <2>4, NextProviders DEF RecPrune
    <3>2. Confirms(r, p, entry) /\ Confirms(r, p, NotListed)
      BY <3>1, BlankFacts DEF Confirms
    <3> QED
      BY <1>1, <2>4, <3>2 DEF Report, Drop
  <2> QED
    BY <2>1, <2>3, <2>4
<1> QED
  BY <1>4, <1>5

-----------------------------------------------------------------------------
(***************************************************************************)
(* Generations and what clients are built from                             *)
(***************************************************************************)

\* Whose spec the copies of a provider hold after a step: the one they held, the cached
\* one, or none.
CopiesChange ==
    \A p \in Providers :
        /\ pw'[p].obj \in {pw[p].obj, provSeen[p], NoProvider}
        /\ provCache'[p] \in {provCache[p], Version(pw[p].obj), NoClient}
        /\ \A r \in Records : rw'[r].provs[p] \in {rw[r].provs[p], provSeen[p], NoProvider}

LEMMA WorkerCopies ==
    ASSUME TypeOK, [Next]_vars, NEW r \in Records, NEW p \in Providers
    PROVE  rw'[r].provs[p] \in {rw[r].provs[p], provSeen[p], NoProvider}
<1>0. IdleRec.provs[p] = NoProvider /\ rw[r] \in RecordWorker
  BY DEF IdleRec, TypeOK
<1>1. CASE Aside
  BY <1>1 DEF Aside
<1>2. CASE Crash
  BY <1>0, <1>2 DEF Crash
<1>3. ASSUME NEW q \in Records, NEW obj, UserWritesRecord(q, obj)
      PROVE  rw'[r].provs = rw[r].provs
  BY <1>0, <1>3 DEF UserWritesRecord, TypeOK, RecordWorker
<1>4. ASSUME NEW q \in Records, RecordStep(q)
      PROVE  rw'[r].provs[p] \in {rw[r].provs[p], provSeen[p], NoProvider}
  <2>1. ASSUME NEW x \in Providers, SyncStep(q, x) PROVE rw'[r].provs = rw[r].provs
    <3>1. PICK entry : Note(q, x, entry)
      BY <2>1, SyncStepNotes
    <3> QED
      BY <1>0, <3>1 DEF Note, TypeOK, RecordWorker
  <2>2. CASE RecBegin(q)
    BY <2>2 DEF RecBegin, TypeOK
  <2>3. CASE RecWriteStatus(q)
    BY <1>0, <2>3 DEF RecWriteStatus, TypeOK, RecordWorker
  <2>4. ASSUME \/ RecAddFinalizer(q) \/ RecRemoveFinalizer(q)
               \/ \E x \in Providers : RecSelectorError(q, x)
        PROVE  rw'[r] \in {rw[r], IdleRec}
    BY <2>4 DEF RecAddFinalizer, RecRemoveFinalizer, RecSelectorError, TypeOK
  <2> QED
    BY <1>0, <1>4, <2>1, <2>2, <2>3, <2>4 DEF RecordStep, SyncStep
<1> QED
  BY <1>1, <1>2, <1>3, <1>4, StepsAside

LEMMA CopiesStep ==
    ASSUME TypeOK, [Next]_vars
    PROVE  CopiesChange
<1>1. ASSUME NEW p \in Providers
      PROVE  /\ pw'[p].obj \in {pw[p].obj, provSeen[p], NoProvider}
             /\ provCache'[p] \in {provCache[p], Version(pw[p].obj), NoClient}
  <2>0. IdleProv.obj = NoProvider /\ pw[p] \in ProviderWorker
    BY DEF IdleProv, TypeOK
  <2>1. ASSUME NEW q \in Providers, NEW obj, UserWritesProvider(q, obj)
        PROVE  pw'[p].obj = pw[p].obj /\ provCache' = provCache
    BY <2>0, <2>1 DEF UserWritesProvider, TypeOK, ProviderWorker
  <2>2. ASSUME NEW q \in Providers,
               CreateProvider(q) \/ EditProvider(q) \/ TouchProvider(q) \/ DeleteProvider(q)
        PROVE  \E obj : UserWritesProvider(q, obj)
    BY <2>2 DEF CreateProvider, EditProvider, TouchProvider, DeleteProvider
  <2>3. ASSUME NEW q \in Providers, DeliverProvider(q) \/ ProviderTimer(q)
        PROVE  UNCHANGED <<pw, provCache>>
    BY <2>3 DEF DeliverProvider, ProviderTimer
  <2>4. ASSUME NEW r \in Records,
               \/ CreateRecord(r) \/ EditRecord(r) \/ TouchRecord(r) \/ DeleteRecord(r)
               \/ DeliverRecord(r) \/ RecordTimer(r) \/ RecordStep(r)
        PROVE  UNCHANGED <<pw, provCache>>
    BY <2>4
    DEF CreateRecord, EditRecord, TouchRecord, DeleteRecord, UserWritesRecord, DeliverRecord,
        RecordTimer, RecordStep, RecBegin, RecAddFinalizer, RecWriteStatus,
        RecRemoveFinalizer, RecSelectorError, RecNotReady, RecSkipDelete, RecDelete,
        RecCreate, RecUpdate, RecForget, RecPruneNotReady, RecPrune, Elsewhere
  <2>5. CASE Crash
    BY <2>0, <2>5 DEF Crash
  <2>6. ASSUME NEW q \in Providers, ProvBegin(q)
        PROVE  /\ pw'[p].obj \in {pw[p].obj, provSeen[p]} /\ provCache' = provCache
    BY <2>6 DEF ProvBegin, TypeOK
  <2>7. ASSUME NEW q \in Providers, ProvBuild(q)
        PROVE  /\ pw'[p].obj = pw[p].obj
               /\ provCache'[p] \in {provCache[p], Version(pw[p].obj)}
    BY <2>0, <2>7 DEF ProvBuild, TypeOK, ProviderWorker, Version
  <2>8. ASSUME NEW q \in Providers,
               ProvAddFinalizer(q) \/ ProvRemoveFinalizer(q) \/ ProvWriteStatus(q)
        PROVE  /\ pw'[p].obj \in {pw[p].obj, NoProvider} /\ provCache' = provCache
    <3>1. \/ pw' = [pw EXCEPT ![q] = IdleProv]
          \/ pw' = [pw EXCEPT ![q].pc = "status", ![q].cond = "failed"]
      BY <2>8 DEF ProvAddFinalizer, ProvRemoveFinalizer, ProvWriteStatus
    <3>2. provCache' = provCache
      BY <2>8 DEF ProvAddFinalizer, ProvRemoveFinalizer, ProvWriteStatus
    <3>3. CASE pw' = [pw EXCEPT ![q] = IdleProv]
      BY <2>0, <3>2, <3>3 DEF TypeOK
    <3>4. CASE pw' = [pw EXCEPT ![q].pc = "status", ![q].cond = "failed"]
      BY <2>0, <3>2, <3>4 DEF TypeOK, ProviderWorker
    <3> QED
      BY <3>1, <3>3, <3>4
  <2>9. CASE UNCHANGED vars
    BY <2>9 DEF vars
  <2> QED
    BY <2>1, <2>2, <2>3, <2>4, <2>5, <2>6, <2>7, <2>8, <2>9
    DEF Next, Environment, ProviderStep
<1> QED
  BY <1>1, WorkerCopies DEF CopiesChange

LEMMA SetupsInit == Init => SetupsTell
<1> SUFFICES ASSUME Init, NEW p \in Providers
             PROVE  (\A v \in Versions(p) : v.gen = 0) /\ prov[p].gen = 0
  BY DEF SetupsTell
<1>1. /\ prov[p] = NoProvider /\ provSeen[p] = NoProvider /\ pw[p].obj = NoProvider
      /\ provCache[p] = NoClient /\ \A r \in Records : rw[r].provs[p] = NoProvider
  BY DEF Init, IdleProv, IdleRec
<1>2. NoProvider.gen = 0 /\ Version(NoProvider).gen = 0 /\ NoClient.gen = 0
  BY DEF NoProvider, NoClient, Version
<1> QED
  BY <1>1, <1>2 DEF Versions

\* A step brings no version but that of the stored object.
LEMMA VersionsStep ==
    ASSUME TypeOK, ProvidersChange, CopiesChange, NEW p \in Providers, NEW v \in Versions(p)'
    PROVE  v \in Versions(p) \/ v = Version(prov'[p]) \/ v.gen = 0
<1>1. Version(NoProvider).gen = 0 /\ NoClient.gen = 0
  BY DEF NoProvider, NoClient, Version
<1>2. provSeen'[p] \in {provSeen[p], prov'[p]}
  BY DEF ProvidersChange
<1>3. CASE v \in {Version(prov'[p]), Version(provSeen'[p])}
  BY <1>2, <1>3 DEF Versions
<1>4. CASE v = Version(pw'[p].obj)
  BY <1>1, <1>4 DEF Versions, CopiesChange
<1>5. CASE v = provCache'[p]
  BY <1>1, <1>5 DEF Versions, CopiesChange
<1>6. ASSUME NEW r \in Records, v = Version(rw'[r].provs[p])
      PROVE  v \in Versions(p) \/ v.gen = 0
  BY <1>1, <1>6 DEF Versions, CopiesChange
<1> QED
  BY <1>3, <1>4, <1>5, <1>6 DEF Versions

LEMMA SetupsStep ==
    ASSUME TypeOK, TypeOK', ProvidersChange, CopiesChange, SetupsTell
    PROVE  SetupsTell'
<1> SUFFICES ASSUME NEW p \in Providers
             PROVE  /\ \A v, w \in Versions(p)' :
                          v.gen = w.gen /\ v.gen # 0 => v.setup = w.setup
                    /\ prov'[p].phase # "gone" =>
                          \A v \in Versions(p)' : v.gen <= prov'[p].gen
                    /\ prov'[p].phase = "absent" => prov'[p].gen = 0
  BY DEF SetupsTell
<1> DEFINE new == Version(prov'[p])
<1>1. /\ prov[p].gen \in Nat /\ prov'[p].gen \in Nat
      /\ \A v \in Versions(p) : v.gen \in Nat
  BY DEF TypeOK, ProviderObject, ProviderWorker, RecordWorker, Versions, Version
<1>2. /\ \A v, w \in Versions(p) : v.gen = w.gen /\ v.gen # 0 => v.setup = w.setup
      /\ prov[p].phase # "gone" => \A v \in Versions(p) : v.gen <= prov[p].gen
      /\ prov[p].phase = "absent" => prov[p].gen = 0
  BY DEF SetupsTell
<1>3. /\ ProviderChange(prov[p], prov'[p])
      /\ new.gen = prov'[p].gen /\ new.setup = prov'[p].setup
      /\ Version(prov[p]) \in Versions(p)
      /\ Version(prov[p]).gen = prov[p].gen /\ Version(prov[p]).setup = prov[p].setup
  BY DEF ProvidersChange, Version, Versions
<1>4. \/ new = Version(prov[p]) /\ prov'[p].phase = prov[p].phase
      \/ new.gen = 0 /\ prov'[p].phase = "gone"
      \/ /\ \A v \in Versions(p) : v.gen < new.gen
         /\ prov'[p].phase # "absent"
  <2>1. CASE prov'[p].phase = prov[p].phase /\ prov'[p].gen = prov[p].gen
             /\ prov'[p].setup = prov[p].setup
    BY <2>1 DEF Version
  <2>2. CASE Exists(prov[p]) /\ Exists(prov'[p]) /\ prov'[p].gen = prov[p].gen + 1
    BY <1>1, <1>2, <1>3, <2>2 DEF Exists
  <2>3. CASE prov[p].phase = "absent" /\ prov'[p].phase = "live" /\ prov'[p].gen = 1
    BY <1>1, <1>2, <1>3, <2>3
  <2>4. CASE prov'[p].phase = "gone" /\ prov'[p].gen = 0
    BY <1>3, <2>4
  <2> QED
    BY <1>3, <2>1, <2>2, <2>3, <2>4 DEF ProviderChange
<1>5. \A v \in Versions(p)' : v \in Versions(p) \/ v = new \/ v.gen = 0
  BY VersionsStep
<1> HIDE DEF new
<1>6. \A v, w \in Versions(p)' : v.gen = w.gen /\ v.gen # 0 => v.setup = w.setup
  BY <1>1, <1>2, <1>3, <1>4, <1>5
<1>7. prov'[p].phase # "gone" => \A v \in Versions(p)' : v.gen <= prov'[p].gen
  BY <1>1, <1>2, <1>3, <1>4, <1>5
<1>8. prov'[p].phase = "absent" => prov'[p].gen = 0
  BY <1>2, <1>3, <1>4
<1> QED
  BY <1>6, <1>7, <1>8

-----------------------------------------------------------------------------
(***************************************************************************)
(* Reliable, Record by Record                                              *)
(***************************************************************************)

\* What FreshMeansSame, DeletedProvidersStay and DoneIsConfirmed say of r.
SureOf(r) ==
    /\ Busy(r) /\ rw[r].fresh => /\ rec[r].phase = rw[r].obj.phase
                                 /\ rec[r].val = rw[r].obj.val
                                 /\ rec[r].lab = rw[r].obj.lab
    /\ \A p \in Providers : rw[r].provs[p].phase \in Ended => prov[p].phase \in Ended
    /\ rw[r].pc = "sync" => \A p \in rw[r].done : Confirmed(r, p)

CachedProvidersStay ==
    \A p \in Providers : provSeen[p].phase \in Ended => prov[p].phase \in Ended

LEMMA ReliableByRecord ==
    /\ Reliable <=> /\ OneWorker /\ CachedProvidersStay /\ SetupsTell
                    /\ \A r \in Records : SureOf(r)
    /\ Reliable' <=> /\ OneWorker' /\ CachedProvidersStay' /\ SetupsTell'
                     /\ \A r \in Records : SureOf(r)'
  BY DEF Reliable, FreshMeansSame, DeletedProvidersStay, DoneIsConfirmed, SureOf,
         CachedProvidersStay

LEMMA IdleIsSure ==
    ASSUME NEW r \in Records, rw'[r] = IdleRec
    PROVE  SureOf(r)' /\ ~Busy(r)'
  BY BlankFacts DEF SureOf, Busy, Ended

LEMMA ReliableInit == Init => Reliable
<1> SUFFICES ASSUME Init PROVE Reliable
  OBVIOUS
<1>1. /\ \A r \in Records : rw[r] = IdleRec
      /\ \A p \in Providers : provSeen[p].phase = "absent"
  BY BlankFacts DEF Init
<1>2. \A r \in Records : SureOf(r) /\ ~Busy(r)
  BY <1>1, BlankFacts DEF SureOf, Busy, Ended
<1> QED
  BY <1>1, <1>2, SetupsInit, ReliableByRecord DEF OneWorker, CachedProvidersStay, Ended

\* Deleted providers stay deleted.
LEMMA EndedStays ==
    ASSUME TypeOK, ProvidersChange, NEW p \in Providers, prov[p].phase \in Ended
    PROVE  prov'[p].phase \in Ended
  BY DEF ProvidersChange, ProviderChange, Ended, Exists

LEMMA CacheStays ==
    ASSUME TypeOK, ProvidersChange, CachedProvidersStay
    PROVE  CachedProvidersStay'
  BY EndedStays DEF ProvidersChange, CachedProvidersStay

\* A step that leaves r, its worker and the zones of the providers alone.
LEMMA SureElsewhere ==
    ASSUME TypeOK, ProvidersChange, NEW r \in Records, SureOf(r),
           rec'[r] = rec[r], rw'[r] = rw[r], Busy(r) => zone' = zone
    PROVE  SureOf(r)' /\ (Busy(r)' <=> Busy(r))
<1>1. SamePlan(r)
  BY DEF SamePlan
<1>2. ASSUME rw[r].pc = "sync", NEW p \in rw[r].done, p \in Providers PROVE Confirmed(r, p)'
  BY <1>1, <1>2, ConfirmedKept DEF SureOf, Busy
<1>3. rw[r].done \subseteq Providers
  BY DEF TypeOK, RecordWorker
<1> QED
  BY <1>2, <1>3, EndedStays DEF SureOf, Busy

\* A user's write makes the copy stale.
LEMMA SureAfterUser ==
    ASSUME TypeOK, ProvidersChange, NEW r \in Records, SureOf(r), zone' = zone,
           rw'[r].pc = rw[r].pc, ~rw'[r].fresh, rw'[r].obj = rw[r].obj,
           rw'[r].provs = rw[r].provs, rw'[r].done = rw[r].done
    PROVE  SureOf(r)' /\ (Busy(r)' <=> Busy(r))
<1>1. SamePlan(r)
  BY DEF SamePlan
<1>2. ASSUME rw[r].pc = "sync", NEW p \in rw[r].done, p \in Providers PROVE Confirmed(r, p)'
  BY <1>1, <1>2, ConfirmedKept DEF SureOf
<1>3. rw[r].done \subseteq Providers
  BY DEF TypeOK, RecordWorker
<1> QED
  BY <1>2, <1>3, EndedStays DEF SureOf, Busy

\* A reconciliation begins with copies of the caches, ...
LEMMA BeginIsSure ==
    ASSUME TypeOK, CachesAreCurrent, ProvidersChange, CachedProvidersStay,
           NEW r \in Records, RecBegin(r), SureOf(r)
    PROVE  SureOf(r)'
<1>1. rec' = rec /\ zone' = zone /\ prov' = prov /\ rw[r].pc = "idle"
  BY DEF RecBegin, Elsewhere, recStore, provVars
<1>2. CASE Exists(recSeen[r])
  <2>1. /\ rw'[r].obj = recSeen[r] /\ rw'[r].fresh = (r \notin recBehind)
        /\ rw'[r].provs = provSeen /\ rw'[r].done = {}
    BY <1>2 DEF TypeOK, RecBegin
  <2>2. rw'[r].fresh => recSeen[r] = rec[r]
    BY <2>1 DEF CachesAreCurrent
  <2> QED
    BY <1>1, <2>1, <2>2 DEF SureOf, CachedProvidersStay
<1>3. CASE ~Exists(recSeen[r])
  <2>1. rw' = rw
    BY <1>3 DEF RecBegin
  <2> QED
    BY <1>1, <2>1, SureElsewhere
<1> QED
  BY <1>2, <1>3

\* ... works on one provider after the other ...
LEMMA SyncStepIsSure ==
    ASSUME TypeOK, Recorded, AllCloudflare, ProvidersChange, SetupsTell,
           NEW r \in Records, NEW p \in Providers, SyncStep(r, p), SureOf(r)
    PROVE  SureOf(r)'
<1>1. /\ \E entry : Note(r, p, entry) /\ Confirms(r, p, entry)
      /\ \A q \in Providers \ {p} : zone'[q] = zone[q]
  BY QuietStepConfirms, CallStepConfirms DEF SyncStep
<1>2. PICK entry : Note(r, p, entry) /\ Confirms(r, p, entry)
  BY <1>1
<1>3. /\ rw'[r].pc = rw[r].pc /\ rw'[r].fresh = rw[r].fresh
      /\ rw'[r].done = rw[r].done \cup {p} /\ rw'[r].obj.st[p] = entry
      /\ \A q \in Providers \ {p} : rw'[r].obj.st[q] = rw[r].obj.st[q]
      /\ SamePlan(r)
  BY <1>2, NoteEffect DEF SamePlan
<1>4. rec' = rec /\ rw[r].pc = "sync"
  BY SyncStepNotes
<1>5. Confirmed(r, p)'
  BY <1>2, <1>3, PlanKept DEF Confirmed, Confirms, Published, SamePlan
<1>6. ASSUME NEW q \in rw[r].done \ {p}, q \in Providers PROVE Confirmed(r, q)'
  BY <1>1, <1>3, <1>4, <1>6, ConfirmedKept DEF SureOf
<1>7. rw[r].done \subseteq Providers
  BY DEF TypeOK, RecordWorker
<1> QED
  BY <1>3, <1>4, <1>5, <1>6, <1>7, EndedStays DEF SureOf, Busy, SamePlan

\* ... and writes the status.
LEMMA WriteStatusIsSure ==
    ASSUME TypeOK, ProvidersChange, NEW r \in Records, RecWriteStatus(r), SureOf(r)
    PROVE  SureOf(r)'
<1>0. rw[r] \in RecordWorker /\ rec[r] \in RecordObject /\ rw[r].pc = "sync"
  BY DEF TypeOK, RecWriteStatus
<1>1. CASE rw'[r] = IdleRec
  BY <1>1, IdleIsSure
<1>2. CASE rw'[r] = [rw[r] EXCEPT !.pc = "rmfin"]
  <2>1. /\ rw'[r].pc = "rmfin" /\ rw'[r].obj = rw[r].obj /\ rw'[r].fresh = rw[r].fresh
        /\ rw'[r].provs = rw[r].provs
    BY <1>0, <1>2 DEF RecordWorker
  <2>2. /\ rec'[r].phase = rec[r].phase /\ rec'[r].val = rec[r].val
        /\ rec'[r].lab = rec[r].lab
    <3>1. /\ WithStatus(r).phase = rec[r].phase /\ WithStatus(r).val = rec[r].val
          /\ WithStatus(r).lab = rec[r].lab
      BY <1>0 DEF WithStatus, RecordObject
    <3>2. rec'[r] = rec[r] \/ rec'[r] = WithStatus(r)
      BY DEF TypeOK, RecWriteStatus, StoreRecord, recStore
    <3> QED
      BY <3>1, <3>2
  <2> QED
    BY <1>0, <2>1, <2>2, EndedStays DEF SureOf, Busy
<1> QED
  BY <1>1, <1>2 DEF TypeOK, RecWriteStatus

LEMMA RecordStepIsSure ==
    ASSUME TypeOK, CachesAreCurrent, Recorded, AllCloudflare, ProvidersChange,
           OneWorker, CachedProvidersStay, SetupsTell, \A q \in Records : SureOf(q),
           NEW r \in Records, RecordStep(r)
    PROVE  OneWorker' /\ \A q \in Records : SureOf(q)'
<1>1. ASSUME NEW q \in Records \ {r} PROVE rw'[q] = rw[q] /\ rec'[q] = rec[q] /\ ~Busy(q)
  <2>1. rw'[q] = rw[q]
    <3>1. ASSUME NEW p \in Providers, SyncStep(r, p) PROVE rw'[q] = rw[q]
      BY <3>1, SyncStepNotes, NoteEffect
    <3> QED
      BY <3>1 DEF RecordStep, SyncStep, TypeOK, RecBegin, RecAddFinalizer, RecWriteStatus,
                  RecRemoveFinalizer, RecSelectorError
  <2>2. rec'[q] = rec[q]
    <3>1. ASSUME NEW p \in Providers, SyncStep(r, p) PROVE rec'[q] = rec[q]
      BY <3>1, SyncStepNotes
    <3> QED
      BY <3>1 DEF RecordStep, SyncStep, TypeOK, RecBegin, RecAddFinalizer, RecWriteStatus,
                  RecRemoveFinalizer, RecSelectorError, StoreRecord, recStore
  <2>3. ~Busy(q)
    <3>1. CASE RecBegin(r)
      BY <3>1 DEF RecBegin, Busy
    <3>2. CASE ~RecBegin(r)
      <4>1. Busy(r)
        BY <3>2 DEF RecordStep, Busy, RecAddFinalizer, RecWriteStatus, RecRemoveFinalizer,
                    RecSelectorError, RecNotReady, RecSkipDelete, RecDelete, RecCreate,
                    RecUpdate, RecForget, RecPruneNotReady, RecPrune
      <4> QED
        BY <4>1 DEF OneWorker
    <3> QED
      BY <3>1, <3>2
  <2> QED
    BY <2>1, <2>2, <2>3
<1>2. \A q \in Records \ {r} : SureOf(q)' /\ ~Busy(q)'
  BY <1>1, SureElsewhere
<1>3. SureOf(r)'
  <2>1. ASSUME \/ RecAddFinalizer(r) \/ RecRemoveFinalizer(r)
               \/ \E p \in Providers : RecSelectorError(r, p)
        PROVE  rw'[r] = IdleRec
    BY <2>1 DEF RecAddFinalizer, RecRemoveFinalizer, RecSelectorError, TypeOK
  <2> QED
    BY <2>1, IdleIsSure, BeginIsSure, SyncStepIsSure, WriteStatusIsSure DEF RecordStep, SyncStep
<1> QED
  BY <1>2, <1>3 DEF OneWorker

LEMMA ReliableStep ==
    ASSUME TypeOK, TypeOK', CachesAreCurrent, Recorded, AllCloudflare, Reliable, [Next]_vars
    PROVE  Reliable'
<1>1. OneWorker /\ CachedProvidersStay /\ SetupsTell /\ \A r \in Records : SureOf(r)
  BY ReliableByRecord
<1>2. ProvidersChange
  BY ProvidersStep
<1>3. CachedProvidersStay' /\ SetupsTell'
  BY <1>1, <1>2, CacheStays, CopiesStep, SetupsStep
<1>4. CASE Aside
  <2>1. \A r \in Records : SureOf(r)' /\ (Busy(r)' <=> Busy(r))
    BY <1>1, <1>2, <1>4, SureElsewhere DEF Aside
  <2> QED
    BY <1>1, <1>3, <2>1, ReliableByRecord DEF OneWorker
<1>5. CASE Crash
  <2>1. \A r \in Records : SureOf(r)' /\ ~Busy(r)'
    BY <1>5, IdleIsSure DEF Crash
  <2> QED
    BY <1>3, <2>1, ReliableByRecord DEF OneWorker
<1>6. ASSUME NEW r \in Records, NEW obj, UserWritesRecord(r, obj) PROVE Reliable'
  <2>1. /\ \A q \in Records \ {r} : rec'[q] = rec[q] /\ rw'[q] = rw[q]
        /\ rw'[r].pc = rw[r].pc /\ ~rw'[r].fresh /\ rw'[r].obj = rw[r].obj
        /\ rw'[r].provs = rw[r].provs /\ rw'[r].done = rw[r].done /\ zone' = zone
    BY <1>6 DEF TypeOK, UserWritesRecord, StoreRecord, RecordWorker
  <2>2. SureOf(r)' /\ (Busy(r)' <=> Busy(r))
    BY <1>1, <1>2, <2>1, SureAfterUser
  <2>3. \A q \in Records \ {r} : SureOf(q)' /\ (Busy(q)' <=> Busy(q))
    BY <1>1, <1>2, <2>1, SureElsewhere
  <2> QED
    BY <1>1, <1>3, <2>2, <2>3, ReliableByRecord DEF OneWorker
<1>7. ASSUME NEW r \in Records, RecordStep(r) PROVE Reliable'
  BY <1>1, <1>2, <1>3, <1>7, RecordStepIsSure, ReliableByRecord
<1> QED
  BY <1>4, <1>5, <1>6, <1>7, StepsAside

\* In the middle of Reconcile, a provider that was called without an error publishes the
\* Record's content under the id noted, whatever other controllers and services did since.
THEOREM DoneIsDone ==
    ASSUME AllCloudflare
    PROVE  Spec => []Reliable
<1>1. TypeOK /\ TypeOK' /\ (CachesAreCurrent /\ Guarded) /\ Recorded /\ Reliable
        /\ [Next]_vars => Reliable'
  BY ReliableStep
<1>2. Spec => []Recorded
  BY LedgerInvariant, CloudflareIsNumbered
<1> QED
  BY <1>1, <1>2, ReliableInit, TypeCorrectness, FinalizersGuard, PTL DEF Spec

-----------------------------------------------------------------------------
\* What a status that is written with allReady says of each provider.
LEMMA WrittenIsTrue ==
    ASSUME TypeOK, Recorded, NEW r \in Records, SureOf(r), rw[r].pc = "sync",
           NextConsidered(r) = {}, NextUnmatched(r) = {}, AllReady(r), NEW p \in Providers
    PROVE  IF p \in Matched(r) /\ ~Unwanted(r, p)
           THEN /\ rw[r].obj.st[p].id # NoId
                /\ Published(p, rw[r].provs[p].setup, rw[r].obj.st[p].id, rw[r].obj.val)
           ELSE /\ rw[r].obj.st[p].id = NoId
                /\ rw[r].obj.st[p].listed => p \in Matched(r)
<1>1. rw[r].obj.st[p].msg = ""
  BY DEF AllReady
<1>2. CASE p \in rw[r].done
  BY <1>1, <1>2 DEF SureOf, Confirmed
<1>3. CASE p \notin rw[r].done
  <2>1. ~rw[r].obj.st[p].listed
    BY <1>3, LoopsOver
  <2>2. rw[r].obj.st[p].id = NoId
    BY <2>1, BlankFacts DEF Recorded, StatusesAreSound, Sound
  <2>3. p \notin Considered(r)
    BY <1>3 DEF NextConsidered
  <2> QED
    BY <2>1, <2>2, <2>3, NextProviders
<1> QED
  BY <1>2, <1>3

LEMMA ClaimIsTrue ==
    ASSUME TypeOK, Recorded, Reliable, NEW r \in Records,
           RecWriteStatus(r), rec'[r] # rec[r], rec'[r].all, rec'[r].phase = "live",
           NEW p \in Providers, rec'[r].st[p].listed, prov[p].phase = "live"
    PROVE  Published(p, rw[r].provs[p].setup, rec'[r].st[p].id, rec'[r].val)
<1>0. rec[r] \in RecordObject /\ SureOf(r) /\ rw[r].pc = "sync"
  BY ReliableByRecord DEF TypeOK, RecWriteStatus
<1>1. rw[r].fresh /\ rec'[r] = WithStatus(r)
  BY DEF TypeOK, RecWriteStatus, StoreRecord, recStore
<1>2. /\ rec'[r].st = rw[r].obj.st /\ rec'[r].val = rec[r].val /\ rec'[r].all = AllReady(r)
      /\ rec'[r].phase = rec[r].phase
  BY <1>0, <1>1 DEF WithStatus, RecordObject
<1>3. rw[r].obj.phase = "live" /\ rw[r].obj.val = rec[r].val
  BY <1>0, <1>1, <1>2 DEF SureOf, Busy
<1>4. NextConsidered(r) = {} /\ NextUnmatched(r) = {} /\ AllReady(r)
  BY <1>2 DEF RecWriteStatus
<1>5. p \in rw[r].done
  BY <1>2, <1>4, LoopsOver
<1>6. IF p \in Matched(r) /\ ~Unwanted(r, p)
      THEN Published(p, rw[r].provs[p].setup, rw[r].obj.st[p].id, rw[r].obj.val)
      ELSE rw[r].obj.st[p].listed => p \in Matched(r)
  BY <1>0, <1>4, WrittenIsTrue
<1>7. ~Unwanted(r, p)
  BY <1>0, <1>3 DEF SureOf, Unwanted, Ended
<1> QED
  BY <1>2, <1>3, <1>6, <1>7

\* Reconcile writes allReady only for a Record that is published at each live provider its
\* status lists, although it calls the providers one by one and reads stale copies.
THEOREM ReadyClaims ==
    ASSUME AllCloudflare
    PROVE  Spec => ReadyClaimIsTrue
<1> DEFINE Claims ==
        \A r \in Records :
          /\ RecWriteStatus(r) /\ rec'[r] # rec[r]
          /\ rec'[r].all /\ rec'[r].phase = "live"
          => \A p \in Providers :
                rec'[r].st[p].listed /\ prov[p].phase = "live"
                => Published(p, rw[r].provs[p].setup, rec'[r].st[p].id, rec'[r].val)
<1>1. TypeOK /\ Recorded /\ Reliable /\ [Next]_vars => [Claims]_vars
  <2> SUFFICES ASSUME TypeOK, Recorded, Reliable PROVE Claims
    OBVIOUS
  <2> QED
    BY ClaimIsTrue
<1>2. ReadyClaimIsTrue <=> [][Claims]_vars
  BY DEF ReadyClaimIsTrue
<1>3. Spec => []Recorded
  BY LedgerInvariant, CloudflareIsNumbered
<1> HIDE DEF Claims
<1> QED
  BY <1>1, <1>2, <1>3, DoneIsDone, TypeCorrectness, PTL DEF Spec

-----------------------------------------------------------------------------
\* Cloudflare and Aliyun delete the entry the id names, or report an error.
LEMMA DeletesWhatItSays ==
    ASSUME NobodyMoves, NEW cfg \in NumberedConfig, NEW z \in Zone, Numbered(z),
           NEW id, NEW val, NEW o \in Delete(cfg, z, id, val), o.ok
    PROVE  id \notin Ids(o.zone)
<1>1. o.zone = Remove(z, WithId(z, cfg.site, id))
  <2>1. /\ ~Unsent(z, id).ok /\ ~Refused(z, id).ok
        /\ \A x \in Applied(Remove(z, WithId(z, cfg.site, id)), id, NoId) :
              x.zone = Remove(z, WithId(z, cfg.site, id))
    BY DEF Unsent, Refused, Applied, Outcome
  <2>2. cfg.type \in {"CLOUDFLARE", "ALIYUN"}
    BY DEF NumberedConfig
  <2> QED
    BY <2>1, <2>2 DEF Delete, CloudflareDelete, AliyunDelete
<1> QED
  BY <1>1, ZonePartsFollow DEF NumberedConfig, ClientConfig

LEMMA ReportSays ==
    ASSUME TypeOK, NEW r \in Records, NEW p \in Providers, NEW id, NEW text,
           Report(r, p, id, text)
    PROVE  rw'[r].obj.st[p].msg = text
<1>1. rw'[r].obj.st[p] = [listed |-> TRUE, id |-> id, msg |-> text]
  BY NoteEffect DEF Report
<1> QED
  BY <1>1

\* Where the services number their entries, and as long as no edit moves a provider to
\* another zone or account, the event "Record is deleted by provider" is true: the entry on
\* record is published nowhere any more.
THEOREM DeletedEvents ==
    ASSUME AllNumbered, NobodyMoves
    PROVE  Spec => DeletedEventIsTrue
<1> DEFINE Deletes ==
        \A r \in Records, p \in Providers :
          RecDelete(r, p) /\ rw'[r].obj.st[p].msg = ""
          => rw[r].obj.st[p].id \notin Ids(zone'[p])
<1>1. TypeOK /\ Recorded /\ [Next]_vars => [Deletes]_vars
  <2> SUFFICES ASSUME TypeOK, Recorded, NEW r \in Records, NEW p \in Providers,
                      RecDelete(r, p), rw'[r].obj.st[p].msg = ""
               PROVE  rw[r].obj.st[p].id \notin Ids(zone'[p])
    OBVIOUS
  <2>1. PICK o \in Delete(Client(p), zone[p], rw[r].obj.st[p].id, rw[r].obj.val) :
            Call(p, o) /\ Report(r, p, o.id, ErrorMsg(o))
    BY DEF RecDelete
  <2>2. zone'[p] = o.zone
    BY <2>1 DEF Call, TypeOK
  <2>3. rw'[r].obj.st[p].msg = ErrorMsg(o)
    BY <2>1, ReportSays
  <2>4. o.ok
    BY <2>3 DEF ErrorMsg
  <2>5. zone[p] \in Zone /\ Numbered(zone[p]) /\ Client(p) \in NumberedConfig
    BY NumberedClient DEF TypeOK, Recorded, ZonesAreNumbered, Numbered
  <2> QED
    BY <2>2, <2>4, <2>5, DeletesWhatItSays
<1>2. DeletedEventIsTrue <=> [][Deletes]_vars
  BY DEF DeletedEventIsTrue
<1>3. Spec => []Recorded
  BY LedgerInvariant
<1> HIDE DEF Deletes
<1> QED
  BY <1>1, <1>2, <1>3, TypeCorrectness, PTL DEF Spec
=============================================================================
