# kube-dns-manager in TLA+

kube-dns-manager is a Kubernetes operator. Users describe DNS records as `Record` objects and DNS
services as `Provider` / `ClusterProvider` objects; controllers keep the entries at the services in
step with the Records. Records may also be generated from other resources (Ingress, Service, Node,
Record) by `Generator` / `ClusterGenerator` and `ResourceWatcher` objects.

## Inventory

| part | state it keeps | operations | interacts through |
|---|---|---|---|
| Record controller (`internal/controller/dns/record_controller.go`) | none but its work queue; the status of the Record (`status.providers[].recordID`, message, `allReady`) and its finalizer | `Reconcile`: finalizer, create / update / delete at every matching provider, delete at providers that match no longer, status write, finalizer removal | API server, informer caches, `providerCache`, provider clients |
| Provider controllers (`provider_controller.go`, one for `Provider`, one for `ClusterProvider`) | `providerCache` (client per UID with the generation it was built for); finalizer and status of the provider | `Reconcile`: finalizer, build the client from the whole spec (zone, account or server, credentials), wait for Records before deletion | reads the Records' status; writes `providerCache` |
| Providers (`provider/cloudflare`, `alidns`, `adguard`) | none; the zone is at the service | `Create`, `Update`, `Delete` on a payload (id in and out) | HTTP calls |
| Job provider (`provider/job`) | Kubernetes Jobs named by the RecordID | the same three operations, polled | API server |
| Generator controllers (`generator_controller.go`) | `status.resources`, `appliedGeneration` | re-match, make and delete `ResourceWatcher`s; a map function that edits the status on events | API server, caches |
| ResourceWatcher controller (`resourcewatcher_controller.go`) | template cache (`cacheGenMap`), `status.resources` | render a template, create / update / delete Records | API server, caches |
| Template functions (`template.go`) | none | read other objects, note them as watched | ResourceWatcher |
| `cmd/main.go`, deep copies, manifests, tests | none of interest | start-up | - |

What is hard here: reconciliations act on copies that lag behind (informer caches, and the worker's
own copy); several writers of one object, with optimistic concurrency; calls to services that may
fail before or after taking effect; results kept in a status write that may be refused; restarts
that empty `providerCache`; deletions that must pass through every provider; and errors that
are logged but do not lead to another attempt. PROJECT.json lists each hazard at its line.

What makes each part correct:

- Record controller: no RecordID is forgotten before its entry is deleted; no entry is made for a
  Record that could vanish without the controller; `allReady` tells the truth; at rest, status and
  zones agree; deletions finish.
- Provider controllers: a provider stays while Records hold ids of it; a restart or an edit
  brings a new client to every Record; deletions finish.
- Providers: a call that reports success did what it says, and repeating a call is harmless.
- Job provider: a Record that is gone leaves nothing published, a Record that is ready is published,
  however many Jobs and names of Jobs are lost, fail or expire; a failed Job does not block for ever
  what can be repeated.
- Generators: never two watchers of a resource for long, at rest the watchers are those of the
  resources in the status, and in the end those of the resources that match.
- ResourceWatchers: the Records of a watcher are what its template yields now; a change
  of anything the template read leads to another rendering, at the latest with the resync.

## Modules

    DnsProviders          outcomes of Create / Update / Delete, by provider type
      ClusterState        objects, caches, queues, users, informers, restarts
        RecordReconciler  the Record controller        \
        ProviderReconciler the two provider controllers > DnsSync  composition, specification, properties
                                                         IdLedger  what DnsSync implements
          DnsSyncInvariant    the inductive invariants
            MCDnsSync           instances for TLC
            DnsSyncProofs       types, finalizers and entries
              DnsSyncLedger       RecordIDs
                DnsSyncRefinement   DnsSync implements IdLedger
                DnsSyncClaims       what is claimed to be ready or deleted
                  DnsSyncRest         at rest everything is settled
    GeneratorController   a generator, the resources of its kind, its watchers
      MCGenerator           instances for TLC
      GeneratorProofs       types, one watcher each, no unfinished pass
    ResourceWatcher       a watcher, its template and inputs, its Records
      MCWatcher             instances for TLC
      ResourceWatcherProofs types, what is listed is followed
    JobProvider           a Record whose operations are Kubernetes Jobs
      MCJob                 instances for TLC
      JobProofs             types, nothing left behind, ready means published

**DnsProviders.** A client works at a *site*: what it reaches by id, which is a Cloudflare zone, an Aliyun account or an
AdGuard server. `zone[p]` holds all that provider `p` wrote at any of its sites: a set of entries `[id, at, val, rec]` and the
next id. `at` is the entry's site, and a client sees and changes the entries of its own site only; `rec` (the Record
an entry was made for) is history no code reads. No id is handed out twice, by one site or by two. What a factory makes of
a spec is a `ClientConfig`: the service, `matchExistsRecord`, the site, and whether the spec is usable at all. Every operation returns the set of its outcomes
`[zone, id, ok, faulty]`: the zone and the payload's id afterwards, whether the error is nil, and
whether the network failed. A faulty call either never arrived or was carried out with its response
lost. `val` stands for name, type and value together. Cloudflare answers a duplicate with error
81058, which is adopted with `matchExistsRecord` and an error without; a delete of an id the zone does not have is a
success, and an update of one makes a new entry; Aliyun's duplicate is always
adopted by Create and taken for success by Update; AdGuard's id is the content itself. `MaxId` is
the quota of a zone: when it is used up, creations are refused.

**ClusterState.** For Records and providers: the stored object, the cached copy, and whether the
cache is behind. resourceVersions are not counted: a worker's copy carries `fresh`, true while no
write was accepted since the copy was the stored version, and the API server accepts an update
exactly when the copy is fresh. A status write that changes nothing makes no event. Deliveries bring the cache to the stored version (events in between are compressed, as informers
do after a relist; the work queue holds a key once); a Record's delivery enqueues it if one of the events passes the filter
(generation or labels changed), a provider's enqueues the provider and the Records that
`watchForProviders` selects by the old and by the new object. A worker takes one key at a time and
one controller has one worker. With `StaleReads` FALSE a reconciliation starts only when all caches
have caught up; the worker's copy may still become stale while it runs. Users create, edit, touch
(annotations) and delete objects; an object once gone is not created again. `Crash` is a restart of
the manager, or a change of leader: memory is lost and every object is listed and enqueued.
Names have one namespace; labels are labels of Records; a selector is the set of
contents under its domain, the label sets it accepts, and whether its label selector is well formed. The rest of a
provider's spec is a *setup*: `zoneName` or `domainName`, credentials, URL, type and `matchExistsRecord`. `Config[p]` gives for each
setup the client the factory builds from it. A user chooses selector and setup together when a provider is created, and any
other pair when it is edited; that covers edits of `selector.domain` where it is also the name of the zone. `Client(p)` is the client
in `providerCache`, which works on the setup it was built from while the stored spec may have moved on.

**RecordReconciler.** One action per path of `Reconcile`: begin (Get and the two Lists), finalizer,
then for each listed provider in the list's order (Providers before ClusterProviders) one of
selector error, not ready, skip, delete, create, update; for each status entry left over one of
forget, not ready, prune; then the status write and the finalizer removal. Every action maps to the
lines PROJECT.json names. The loop over matched providers is resumed after each call because other
controllers run while a call is out.

**ProviderReconciler.** Begin (Get, and for a deleted provider the List of Records and
`canDelete`), finalizer, `newDnsProvider` (a new client on whatever the worker's copy is set up for, or an error: always
where the setup is unusable, now and then where the factory asks the service for the zone), finalizer removal, and the deferred status write, which
also turns every error into nil.

**GeneratorController** stands alone: a generator meets the rest of the system only through the
watchers it makes, and generators share nothing. Resources are stored and cached objects with a
label set, and a sequence of versions on the way to the cache. Two threads write the generator's status. The map
function of the resources' events (`HandleNews`) takes objects in order; an update puts the old and the
new object in the line, and the predicates stop nothing, because their `Or` holds a `Funcs` without
an `UpdateFunc`. The worker begins with the cached generator and either matches everything again
(`appliedGeneration` differs) or goes over the resources of its copy: drop one that is gone, ask for another match, keep a
watcher or make one; then it deletes the watchers nobody asked for. Both write optimistically, as
in ClusterState. Reading and writing are one action in `HandleNews`: when another write comes
between them, the write is refused, as it is when the copy was behind from the start. A delete event
carries the last stored object, which has a deletionTimestamp only if a finalizer made the deletion
wait (`Finalized`). The cache of the generator and that of the watchers jump to the stored state, and versions
in between are seen only when the delivery happens in between. `ResyncDue`: the informers hand out
all they hold every ten hours (controller-runtime's default `SyncPeriod`), long after everything
else has come to rest. `mode`, chosen once, says whether reads may happen before the caches caught up (`stale`)
and whether there is a resync. `NamesLeft` bounds the watchers that passes on a stale list make twice.

**ResourceWatcher** has one watcher, its generator's text, the objects that text reads and the Records it makes. A text
is an element of `Texts`: it does not parse (`Broken`), it reads the main object, or it reads a second one
too (`Deep`): `aux` stands for whatever the template functions look up (Service, Endpoints, Nodes, Pods, Namespace).
The main object's data is the set of Record names it asks for; a Record's content is the text and the data of `aux`
it was made from. Everything `Reconcile` reads comes from informer caches, that is from memory, so
`Begin` reads all of it in one step (`Outcome`: which of the returns is taken, with what in `status.resources`
and with or without a requeue); then each `Update` / `Create` (`Upsert`) and each `Delete` (`Prune`) is a step, and the deferred
status write is the last one. A write of a Record is refused when the listed copy is older than the stored
Record, or when a Record exists that the list did not have. `Parsed` is `getTemplate`: a text is parsed
again only when the generation differs from `cacheGenMap`'s. `life`, history, counts how often a
template of the name was created, for a new template starts at generation 1. `Deliver` is the map function of
`watchResources`: an event enqueues the watcher when the *cached* status lists the object; an
inline text is none of those, and neither is a main object of kind Service or Node (`Noted`): `NewServiceTemplateData` and
`NewNodeTemplateData` hand it to the template without `AddResource`, so its changes are heard of with the resync only. `DeliverWatcher` enqueues for every event of the watcher itself,
its own status write included. `FinishDelete` is the Record controller taking its finalizer off a deleted Record.

**JobProvider** has one Record with its finalizer, one ready provider of type `JOB` and the steps of the Record controller that
call it. The name of a Job is a number, and a `RecordID` is such a number. `Execute` is `executeJob` and returns the set
of its outcomes as `DnsProviders` does: a running Job is waited for, a complete one is deleted, a failed one stays
and its name is dropped only if it was to create; without a Job one is made and its name kept. Each of the two
requests to the API server may be lost, or carried out with its response lost (`faulty`). `Delete` clears id and data
after success. `dataUpdateStrategy` decides when the data is rendered (`Rendered`). A Job runs until it
completes or fails, a Job that fails may have done its work, and a finished Job may be removed by its TTL or a user.
`Patient` says whether users change the Record only when it is ready and no Job runs. `lost` in the worker is history:
a success was not written.

**IdLedger** says what the Record controller promises about RecordIDs with no cache, worker, finalizer or retry in it:
services hand out each id once (`Issue`), entries go (`Withdraw`), providers leave (`Close`), and a Record's ids are
rewritten together, each new one handed out by that provider, each one let go only when it is spent (`Write`). `DnsSync!Ledger` is the
refinement mapping: the books are read off the zones and the stored Records, everything else is hidden.

**DnsSync** composes them and states the properties. **DnsSyncInvariant** has the inductive invariants
of the proofs, which the runs check first. Definitions marked "Slip" are plausible mistakes in the definition that follows them; each
property of a passing run is violated by one of them, and no specification uses them.

## Properties

| property | says |
|---|---|
| `NoForgetting` | a RecordID leaves a Record's status, or leaves with the Record, only when its entry is published nowhere or the provider object is gone (of providers that stay at their sites) |
| `EntriesAreGuarded` | a zone gains an entry for a Record only while the stored Record has the finalizer |
| `ReadyClaimIsTrue` | when a live Record's status is written with `allReady`, each live provider it lists has the spec's content under the recorded id, at the site it was set up for when it was listed |
| `RestMeansSettled` | when every queue, timer and worker is empty and the caches are current, each Record is published under its id at the present site of exactly the providers that want it, and no deletion is pending |
| `DeletionsFinish` | deleted Records and providers eventually go |
| `KeepsLedger` | the composition implements `IdLedger`: ids in a status were handed out by that provider's service, none is let go before it is spent, one Record or one zone a step (of providers that stay at their sites) |
| `OneWatcherEach` | with reads that wait for the caches, no resource has two watchers, whatever fails or restarts |
| `RestMeansFollowed` | at rest the last spec of the generator was matched and the watchers are those of its status |
| `EventuallySettled` | after the last disturbance, one watcher for each resource that matches and none for others, for ever |
| `WatchedIsFollowed` | when all is at rest, reads waited for the caches, and the watcher's status lists what the text reads, no Record is at odds with template and inputs |
| `EventuallyRendered` | after the last disturbance the Records are, for ever, what the template yields, whatever events went by unheard |
| `GoneLeavesNothing` | when a Record served by Jobs is gone, the service publishes nothing for it |
| `ReadyMeansPublished` | when such a Record is written as ready, the service publishes its spec and the data was rendered from that spec |
| `SettlesUnlessFailed` | in the end it is published and ready or gone, unless a failed update or delete Job stays (`StuckOnFailed`) or a success was not written (`lost`) |
| `Guarded`, `Recorded` | the inductive invariant: what stale copies still tell about finalizers, deletions and ids |
| `Reliable` | in the middle of a reconciliation, a provider the worker is done with without an error publishes the Record's content under the id noted, or nothing where the Record is not wanted |
| `Awaited` | a Record or a deleted provider that is not as it should be is in a queue, a timer, a worker's hands or an event that passes the filters |
| `DeletedEventIsTrue` | when a deletion is reported, the entry on record is published nowhere (violated by AdGuard and by a provider that moves, proved for the others where they stay) |

## Runs

One Record and one provider are enough for the interleavings of a reconciliation with users,
informers, the other controller, restarts and failing calls, since the controllers have one worker
each and Records share nothing but zones and `providerCache`; two Records are
added where sharing a zone matters. Lists of several providers are covered by the proofs, which hold for any
number of them; the liveness properties, which are only model-checked, are checked with one. `MaxDisturbances` bounds edits, touches,
deletions, restarts and failures together; creations are free. Two of them are enough for each hazard of
the list (a failed write and a restart, an edit and a deletion, ...); the job run has four, because a Job
must fail, expire or be lost before the edit or the deletion that meets what it left. `MaxId = 3` lets an entry be made,
lost and made again; two contents show an edit, and two sites a move. What holds only of providers that stay at their sites
is checked in `cloudflare` with one site; `provider_moves` shows what happens otherwise. What holds of providers that move
as well is checked with moves in `fair`, where reads are current, and proved for stale reads; the same proofs cover the
edits of a Record's labels at rest, which `fair` leaves out for its size. `CHECK_DEADLOCK FALSE`: users owe nothing,
and the system may come to rest.

| run | instance | shows |
|---|---|---|
| `cloudflare` | 1 Record, 1 provider at one site, every disturbance, 2 of them, stale reads | types, the invariants `Guarded`, `Recorded` and `Reliable`, `NoForgetting`, `KeepsLedger`, `EntriesAreGuarded`, `ReadyClaimIsTrue`, `DeletedEventIsTrue` |
| `two_records` | 2 Records, 1 provider with `matchExistsRecord`, selectors that may be ill-formed and setups that may be unusable, an edit or a deletion | ids and ready claims with shared entries, and when a reconciliation ends in the middle |
| `fair` | 1 Record, 1 provider, selectors that stop matching, edits that move the provider between two sites, 2 disturbances, fairness, current reads | `Reliable`, `ReadyClaimIsTrue`, `Awaited`, `RestMeansSettled`, `DeletionsFinish` |
| `generator` | 2 resources (one with a finalizer), 2 label sets, 2 disturbances, reads that wait or do not, with or without resync, fairness | types, `OneWatcherEach`, `RestMeansFollowed`, `EventuallySettled` |
| `watcher` | 1 Record name, 3 texts (plain, deep, broken), inline or as an object, 2 contents of `aux`, 2 disturbances, reads that wait or do not, fairness | types, `WatchedIsFollowed`, `EventuallyRendered` |
| `job` | 1 Record, 2 contents, all strategies, 4 disturbances of eight kinds, patient users, fairness | types, `GoneLeavesNothing`, `ReadyMeansPublished`, `SettlesUnlessFailed` |
| `aliyun_duplicate` | violated | a lost response and two edits: `Update` takes the duplicate for success, the Record claims to be ready |
| `adguard_edit` | violated | an edit before the deletion: the recorded rewrite stays |
| `provider_moves` | violated | an edit moves a Cloudflare provider to another zone: the deletion does not find the id there, reports success, and the entry stays in the former zone |
| `orphan_skipped` | violated | a refused status write after `Create`: the deletion finds no RecordID and skips |
| `provider_leaves` | violated | a provider goes while an id of it is being recorded |
| `job_delete` | violated | a Record is deleted while its create Job runs: the completion of that Job counts as the deletion |

Two resources show that the work for one does not disturb the other; one of them exists at the start,
the other one may be created. Four names for watchers are two watchers for each resource. One Record name is enough for the watcher: each name goes
through `Upsert` and `Prune` on its own, the main object asks for it or not, and names meet only in
the end of the loop, which any failure brings about. `MaxJobs = 7` is never reached with four
disturbances: each makes at most one more Job necessary.

Users in the run `job` wait for a Record to be ready and for its Jobs to end before they change or delete it.
Without that, what a Job was made for is not looked at when it completes, and `job_delete` shows the shortest
consequence; the run asks what is left to go wrong when that does not happen. `StuckOnFailed` and `lost` are
what the code leaves for ever: a failed update or delete Job that nobody removes, and a status write that
failed after a success.

The instance with stale reads that has two watchers of a resource for a time is the mode `stale`; the properties that
need reads to wait are stated for the other mode. In the mode with neither, the watchers may stay wrong: a delete event of a
resource without finalizers carries no deletionTimestamp, so the resource stays in the status until the
resync (`generator_controller.go:265`). That is why `EventuallySettled` needs `resync`. In the same
way `EventuallyRendered` leans on `Resync`: a repaired text, a user's deletion of a generated Record,
a change of an inline text and a lost status write cause no event the watcher hears.

Fairness (`FairSpec`): each worker, each informer and each timer is weakly fair, because the manager runs
them as goroutines that are always scheduled again and controller-runtime's queue hands every key to
the worker. The resync of an informer is strongly fair: its
timer runs whatever happens meanwhile, and the guard only says that it is slow. Users are not fair. Failures need no fairness: the bound makes them stop, as a service
that fails for ever keeps its entries.

## Proofs

`TypeCorrectness` (DnsSyncProofs) proves `TypeOK` for all constants that satisfy `ClusterAssumption`
and `MaxIdAssumption`: any sets of objects and contents, any provider types, any number and kind of disturbances.

`FinalizersGuard` and `GuardedEntries` (DnsSyncProofs). `EntriesAreGuarded` is not inductive: the
worker calls the service on the strength of a copy that may be stale twice over. The invariant
`CachesAreCurrent /\ Guarded` says what survives: a deletion seen is a deletion stored
(`DeletionsStand`), a copy that is live and has the finalizer implies that the stored object has it
(`LiveCopyIsGuarded`), which holds because the finalizer is removed only by a worker whose copy is
of a deleted object, and by then the cache knows of the deletion (`CacheAheadOfWorker`) and no other worker
runs for that Record.

`LedgerInvariant` and `NothingForgotten` (DnsSyncLedger) prove `Recorded` and `NoForgetting` under the
assumption that every setup of every provider is of a type whose ids are numbers the service hands out
(`AllNumbered`: Cloudflare with or without `matchExistsRecord`, and Aliyun). `NoForgetting` needs a second one, that no edit moves
a provider (`NobodyMoves`): a Cloudflare client of another zone answers a deletion with success though the entry is elsewhere, and
the run `provider_moves` is the counterexample. `Recorded` holds without it, because there an id counts as
lost in any case where providers move (`Lost`). AdGuard is left out with
reason: its ids are contents, and run `adguard_edit` shows where that leads. `Recorded` adds to the invariant
above: ids on record were handed out (`StatusesAreSound`, `ZonesAreNumbered`), providers only age
(`CopiesOfProvidersLag`), an object without the finalizer records no id (`IdsNeedFinalizer`), a worker that may still
write differs from the store only in ids whose entries are lost (`WorkerReleasesLostIds`), and the
finalizer goes when no id is left (`DeletedMeansReleased`). The proof shows first what one call of a
provider does to a zone, then that a step of one Record's worker keeps `Recorded` for that
Record (the others keep it because a zone only hands out new ids and an id once lost stays lost), then the
steps of users, informers and the provider controllers. `NoForgetting` follows step by step: users and
informers change no status, the status write replaces only lost ids, and the last write that removes a Record finds none.

`ImplementsLedger` (DnsSyncRefinement) proves `Spec => KeepsLedger` under the same two assumptions. Initial states map
to initial books. Each step maps to one step of the ledger or to a stutter: a call to a service issues or withdraws
(or leaves the zone alone), a write of a Record's status or of its finalizer is a `Write` whose
side conditions are those of `Recorded`, the removal of a provider is a `Close`, and caches,
queues, timers and workers map to stutters.

`DoneIsDone` and `ReadyClaims` (DnsSyncClaims) prove `Reliable` and `ReadyClaimIsTrue` where every provider is a
Cloudflare provider (`AllCloudflare`), with or without `matchExistsRecord`. `ReadyClaimIsTrue` speaks of the step that writes
the status; what it says must have stayed true since each provider was called. `Reliable` says why it did: the cached client works at
the site of the listed provider, for the generation, which is all the code compares, tells the setup (`SetupsTell`); there is
one Record worker (`OneWorker`), so no other reconciliation changes a zone meanwhile, even where two Records share
an entry; a copy that can still be written has the content that is stored (`FreshMeansSame`); a provider that was seen
to be deleted does not come back (`DeletedProvidersStay`); and what was called without an error has the content under the
noted id, or no id where the Record is not wanted (`DoneIsConfirmed`). The proof shows what each outcome of a call,
lost responses included, leaves in the zone, then that a later call of the same worker concerns another
zone. The other two types are left out because the property is false there: Aliyun's `Update` takes any duplicate for success
(run `aliyun_duplicate`), and AdGuard's id is the content of an earlier spec.

Edits that move a provider are included: what is claimed, is claimed of the site the provider was set up for when
it was listed.

`DeletedEvents` (DnsSyncClaims) proves `DeletedEventIsTrue` under `AllNumbered` and `NobodyMoves`. The run `adguard_edit`
finds it violated without the first, `provider_moves` without the second.

`AllIsAwaited` and `RestIsSettled` (DnsSyncRest) prove `Awaited` and `RestMeansSettled`: with all queues, timers and workers empty,
each Record is published exactly where it is wanted and no deletion is pending. `Awaited` names for each thing that
is not settled who is going to see to it. An event the filter keeps back says nothing new of a Record (`NewsTell`) or a
provider (`GenerationsTell`). A provider that is being deleted has its finalizer (`DeletingHasFinalizer`) and is queued, timed, on its way, or
about to be requeued by its worker (`DeletionIsPending`). A Record's worker that has become stale, and will write in vain, has
its key in the queue already (`StaleIsPending`); one that is not called back sees the providers as the cache does, as far as its
Record is concerned (`ViewsAgree`). No Record's id names an entry of another (`IdsAreOwn`), so the work for one does not
undo that for another. From these, and from `Reliable`, a Record that nobody is going to look at is what the
providers in the cache want (`RestingIsSettled`), and at rest the cache is the store.

The hypotheses of these two theorems are `Undisturbed`, which the run `fair` satisfies and every number of Records, providers,
selectors, edits, deletions, restarts and failing service calls does. Providers may move: the Records the edit calls back are published
at the new site; what they leave at the former one is not spoken of. With an unusable setup nothing comes to rest: the provider stays on its timer.
Each hypothesis is needed: TLC violates `RestMeansSettled` on instances like
`fair` that drop one of them. With users who touch annotations or with API writes that fail, a status write is
refused and its error only logged; with stale reads, a finished reconciliation may have seen an old provider; with Aliyun or AdGuard
(three disturbances) an id names the wrong entry; and two Records that adopt one entry with `matchExistsRecord` lose it
together. Those are properties of the code, listed among the hazards.

`GeneratorTypes`, `NoSecondWatcher` and `RestIsFollowed` (GeneratorProofs) prove `TypeOK`, `OneWatcherEach` and
`RestMeansFollowed` for any number of resources, labels, selectors, watcher names and disturbances. Neither of the last two is
inductive. `PassKnows` says what a worker in its loop knows: what it lists is stored, what is stored it lists or has
made itself, and each resource it is done with has a watcher it will not delete; so a watcher is
made only where there is none, and one is deleted only where another stays or none is wanted. `NothingAsked` says that
without news of the generator and without a queued key the worker holds the stored version, or is about to write
another one or to ask for one more pass, and that an idle worker's last pass was finished. Each action then
either leaves the pass alone and keeps or reports the generator (`BesideThePass`), or ends the pass with
its key queued or the generator written (`PassEnds`), or is a step of the loop.

`JobTypes` (JobProofs) proves JobProvider's `TypeOK`, which also says that a `RecordID` names a Job that was made; without
that a new Job could take the name of an old one. `GoneIsClean` and `ReadyIsPublished` (JobProofs) prove `GoneLeavesNothing`
and `ReadyMeansPublished` for any contents and strategies, any number of Jobs and disturbances, if users wait (`Patient`). The invariant
`PublishInv` says that every running Job does what the Record asks for now (`RunningFit`), that a Job the stored
Record or the worker's copy names is such a Job and, once complete, has done it (`Named`), that a ready Record names no Job
that is left (`AtRest`), and that a success in the worker's hands is one (`Achieved`). Every step that leaves the
user's wish alone does one of four things to a Job (`JobStep`), and each of them keeps all of that (`WorkKeeps`);
an edit or a deletion finds nothing running and nothing named. Without `Patient` the invariant is false, and `job_delete` shows why.

`WatcherTypes` and `ListedIsFollowed` (ResourceWatcherProofs) prove ResourceWatcher's `TypeOK` and `WatchedIsFollowed` for any
names, texts, objects and disturbances. The invariant `WatchInv` has four parts. A copy that is not behind is the stored
version (`CopiesFollow`). The generation with `life` tells texts apart (`Versions`), so a template that is not a
successor in name only is parsed as it is. A worker that writes has listed or wants every live Record, and those it has
left behind are what it wanted (`Knows`; it needs reads that wait). And when the queue is empty and the
cached status lists the cached template and all it uses, the worker writes what the caches yield, or the Records are that
already, or another attempt is due (`Follows`): an event of a listed object fills the queue, an event of another
one changes nothing the text uses, and a status that lists more arrives with an event of its own.

Only model-checked: the liveness properties `DeletionsFinish`, `EventuallySettled`, `EventuallyRendered` and
`SettlesUnlessFailed`, which are outside the prover.

## Not modelled

- Data: TTL, comments, tags, line and proxied flags; event texts; the wording of messages; the paging and fuzzy matching of
  the services' searches; what a template computes, and the four formats its output is read in.
- Services: two provider objects on one zone, account or server, which could adopt each other's entries (each
  provider's sites are its own in the model); an Aliyun `domainName` edited within one account, where the ids are
  reached as before, so that it is an edit within a site, though Create and its look-up by content are bound to the domain.
  Entries left at a former site of a provider that moved are in the model, and no property but those the run `provider_moves` refutes
  asks for their removal.
- Objects: a Record or provider deleted and created again under its name; errors of reads from the cache other
  than not found; the data race on the `providerCache` map (accesses are atomic in the model).
- Generators: ill-formed selectors and the deletion of a generator.
- ResourceWatchers: a missing owner, a watcher's own deletion (its key is retried for ever, and does
  nothing), two objects of the same kind read one through the other (`aux` stands for one of them), a text edited to be
  empty, texts that define a named template another text uses, a Record another owner made under the same name.
- Jobs: a template that fixes the name of the Job, so that a second one is refused while the first exists; a
  `dataUpdateStrategy` without a `dataTemplate`; conditions of a Job other than Complete and Failed; the
  cache of Jobs that lags (a Job just made may not be found yet); the caches of Records and
  providers, which are those of DnsSync; several providers for one Record.
- The composition of generator, watcher, Records and providers in one specification: they meet only through stored
  objects, each module has the others' writes as disturbances, and the product is out of TLC's reach.
- `cmd/main.go` (flags, TLS, probes, registration), generated deep copies, API group registration, manifests, tests and
  scripts: no state that the controllers share. Leader election shows only as a restart.
