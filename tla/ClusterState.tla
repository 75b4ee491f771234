---------------------------- MODULE ClusterState ----------------------------
(***************************************************************************)
(* What the Record and Provider controllers share: the objects in the API  *)
(* server, the informer caches their client reads from, the work queues,   *)
(* the zones of the DNS services, providerCache, and the users that change *)
(* the objects.                                                            *)
(*                                                                         *)
(* Writes go to the API server and are conditional on the resourceVersion  *)
(* of the object that was read.  The version itself is not counted: an     *)
(* object is in recBehind / provBehind while its cached copy is not the    *)
(* stored version, and the copy a worker holds is fresh as long as it is.  *)
(* An update is accepted exactly when the worker's copy is fresh.          *)
(***************************************************************************)
EXTENDS DnsProviders

CONSTANTS
    Records,            \* the Record objects that may exist (one namespace)
    Providers,          \* the Provider and ClusterProvider objects
    ClusterProviders,   \* those of them that are ClusterProviders
    Values,             \* contents (name, type, value) a Record may ask for
    Labels,             \* label sets a Record may carry
    Selectors,          \* the selectors a provider may have
    Setups,             \* what else a provider's spec may say, by name
    Config,             \* provider -> setup -> the configuration of the client it gives
    StaleReads,         \* may a reconciliation start before the caches caught up?
    Disturbances,       \* the kinds of disturbance of this instance
    MaxDisturbances     \* how many disturbances happen in a run, of all kinds together

DisturbanceKinds ==
    {"edit",    \* a user changes the spec or the labels of a Record
     "touch",   \* a user changes an object without changing spec or labels
     "retune",  \* a user changes the spec of a provider
     "delete",  \* a user deletes a Record or a provider
     "crash",   \* the manager process restarts
     "dns",     \* a call to a DNS service fails in the network
     "api"}     \* a write to the API server fails in the network

\* A selector: the contents whose name is under its domain, the label sets its
\* labelSelector accepts, and whether that labelSelector is well formed.
Selector == [domain : SUBSET Values, labels : SUBSET Labels, valid : BOOLEAN]

ASSUME ClusterAssumption ==
    /\ ClusterProviders \subseteq Providers
    /\ Values # {} /\ Labels # {}
    /\ Selectors \subseteq Selector /\ Selectors # {}
    /\ Setups # {} /\ Config \in [Providers -> [Setups -> ClientConfig]]
    /\ \A p \in Providers : \A a, b \in Setups :
         Config[p][a].site = Config[p][b].site => Config[p][a].type = Config[p][b].type
    /\ NoId \notin Nat /\ NoId \notin Values
    /\ StaleReads \in BOOLEAN
    /\ Disturbances \subseteq DisturbanceKinds
    /\ MaxDisturbances \in Nat

VARIABLES
    rec,         \* Record objects as stored
    recSeen,     \* Record objects as cached by the informer
    recBehind,   \* Records whose cached copy is not the stored version
    recNews,     \* those of them with an undelivered event the controller reacts to
    prov,        \* Provider objects as stored
    provSeen,    \* Provider objects as cached
    provBehind,  \* providers whose cached copy is not the stored version
    zone,        \* what each provider wrote to its sites, which no two providers share
    provCache,   \* providerCache: the generation and the setup of the client, if any
    recQ,        \* work queue of the Record controller
    recTimer,    \* Records whose RequeueAfter is running
    provQ,       \* work queues of the Provider and ClusterProvider controllers
    provTimer,   \* providers whose RequeueAfter is running
    rw,          \* the Record controller's worker, by the Record it works on
    pw,          \* the provider controllers' workers, by the provider
    left         \* disturbances still allowed

recStore == <<rec, recBehind, recNews>>
provStore == <<prov, provBehind>>
recVars  == <<rec, recSeen, recBehind, recNews>>
provVars == <<prov, provSeen, provBehind>>
recQueue == <<recQ, recTimer>>
provQueue == <<provQ, provTimer>>
vars == <<rec, recSeen, recBehind, recNews, prov, provSeen, provBehind, zone, provCache,
          recQ, recTimer, provQ, provTimer, rw, pw, left>>

-----------------------------------------------------------------------------
(***************************************************************************)
(* Objects                                                                 *)
(***************************************************************************)

Phases == {"absent", "live", "deleting", "gone"}

\* An entry of status.providers; listed says that the record has one.
NotListed == [listed |-> FALSE, id |-> NoId, msg |-> ""]

NoRecord == [phase |-> "absent", fin |-> FALSE, gen |-> 0,
             val |-> CHOOSE v \in Values : TRUE, lab |-> CHOOSE l \in Labels : TRUE,
             st |-> [p \in Providers |-> NotListed], all |-> FALSE]

NoProvider == [phase |-> "absent", fin |-> FALSE, gen |-> 0,
               sel |-> CHOOSE s \in Selectors : TRUE,
               setup |-> CHOOSE c \in Setups : TRUE, cond |-> "unknown"]

Exists(obj) == obj.phase \in {"live", "deleting"}

\* ProviderSelector.Matches: the domain suffix first, then the label selector, which
\* is an error when it is not well formed.
Matches(sel, record) ==
    record.val \in sel.domain /\ sel.valid /\ record.lab \in sel.labels

MatchFails(sel, record) == record.val \in sel.domain /\ ~sel.valid

\* No generation is 0.
NoClient == [gen |-> 0, setup |-> NoProvider.setup]

\* Slip: any client will do.
ClientReadyAnySpec(p, gen) == provCache[p].gen # 0

\* dnsProvider == nil || dnsProvider.Generation != provider.GetGeneration()
ClientReady(p, gen) == provCache[p].gen # 0 /\ provCache[p].gen = gen

\* The client in providerCache works on what it was built from.
Client(p) == Config[p][provCache[p].setup]

IdleRec == [pc |-> "idle", obj |-> NoRecord, fresh |-> FALSE,
            provs |-> [p \in Providers |-> NoProvider], done |-> {}]

IdleProv == [pc |-> "idle", obj |-> NoProvider, fresh |-> FALSE,
             cond |-> "unknown", again |-> FALSE]

Spend(kind) == kind \in Disturbances /\ left > 0 /\ left' = left - 1

\* Either reads may be stale, or every write has reached the caches.
ReadsAllowed == StaleReads \/ (recBehind = {} /\ provBehind = {})

\* predicate.Or(GenerationChangedPredicate, LabelChangedPredicate)
RecordEventPasses(old, new) ==
    Exists(old) # Exists(new) \/ old.gen # new.gen \/ old.lab # new.lab

\* A write the API server accepts.
StoreRecord(r, obj) ==
    /\ rec' = [rec EXCEPT ![r] = obj]
    /\ recBehind' = recBehind \cup {r}
    /\ recNews' = IF RecordEventPasses(rec[r], obj) THEN recNews \cup {r} ELSE recNews

StoreProvider(p, obj) ==
    /\ prov' = [prov EXCEPT ![p] = obj]
    /\ provBehind' = provBehind \cup {p}

\* Setting deletionTimestamp bumps the generation; without finalizers the object goes.
Deleted(obj, none) ==
    IF obj.fin THEN [obj EXCEPT !.phase = "deleting", !.gen = @ + 1]
               ELSE [none EXCEPT !.phase = "gone"]

-----------------------------------------------------------------------------
Init ==
    /\ rec = [r \in Records |-> NoRecord] /\ recSeen = rec /\ recBehind = {} /\ recNews = {}
    /\ prov = [p \in Providers |-> NoProvider] /\ provSeen = prov /\ provBehind = {}
    /\ zone = [p \in Providers |-> EmptyZone]
    /\ provCache = [p \in Providers |-> NoClient]
    /\ recQ = {} /\ recTimer = {} /\ provQ = {} /\ provTimer = {}
    /\ rw = [r \in Records |-> IdleRec]
    /\ pw = [p \in Providers |-> IdleProv]
    /\ left = MaxDisturbances

-----------------------------------------------------------------------------
(***************************************************************************)
(* Users (and the Generator and ResourceWatcher controllers, which create, *)
(* edit and delete Records like any other client of the API server).       *)
(***************************************************************************)

\* A user's write makes the copy a worker holds stale.
UserWritesRecord(r, obj) ==
    /\ StoreRecord(r, obj)
    /\ rw' = [rw EXCEPT ![r].fresh = FALSE]
    /\ UNCHANGED <<recSeen, provVars, zone, provCache, recQueue, provQueue, pw>>

UserWritesProvider(p, obj) ==
    /\ StoreProvider(p, obj)
    /\ pw' = [pw EXCEPT ![p].fresh = FALSE]
    /\ UNCHANGED <<recVars, provSeen, zone, provCache, recQueue, provQueue, rw>>

CreateRecord(r) ==
    /\ rec[r].phase = "absent"
    /\ \E v \in Values, l \in Labels :
         UserWritesRecord(r, [NoRecord EXCEPT !.phase = "live", !.gen = 1,
                                              !.val = v, !.lab = l])
    /\ UNCHANGED left

\* A spec change bumps the generation, a label change does not.
EditRecord(r) ==
    /\ Exists(rec[r]) /\ Spend("edit")
    /\ \/ \E v \in Values \ {rec[r].val} :
            UserWritesRecord(r, [rec[r] EXCEPT !.val = v, !.gen = @ + 1])
       \/ \E l \in Labels \ {rec[r].lab} :
            UserWritesRecord(r, [rec[r] EXCEPT !.lab = l])

\* An annotation, an owner reference: a new resourceVersion and nothing else.
TouchRecord(r) ==
    /\ Exists(rec[r]) /\ Spend("touch")
    /\ UserWritesRecord(r, rec[r])

DeleteRecord(r) ==
    /\ rec[r].phase = "live" /\ Spend("delete")
    /\ UserWritesRecord(r, Deleted(rec[r], NoRecord))

CreateProvider(p) ==
    /\ prov[p].phase = "absent"
    /\ \E s \in Selectors, c \in Setups :
         UserWritesProvider(p, [NoProvider EXCEPT !.phase = "live", !.gen = 1,
                                                  !.sel = s, !.setup = c])
    /\ UNCHANGED left

\* Any change of the spec: of the selector the controllers read, of the setup a client is
\* built from, or both (selector.domain is also the zone where none is named).
EditProvider(p) ==
    /\ Exists(prov[p]) /\ Spend("retune")
    /\ \E s \in Selectors, c \in Setups :
         UserWritesProvider(p, [prov[p] EXCEPT !.sel = s, !.setup = c, !.gen = @ + 1])

TouchProvider(p) ==
    /\ Exists(prov[p]) /\ Spend("touch")
    /\ UserWritesProvider(p, prov[p])

DeleteProvider(p) ==
    /\ prov[p].phase = "live" /\ Spend("delete")
    /\ UserWritesProvider(p, Deleted(prov[p], NoProvider))

-----------------------------------------------------------------------------
(***************************************************************************)
(* Informers.  A delivery brings the cache to the stored version, past the *)
(* versions in between, and runs the event handlers: for a Record if one   *)
(* of the events in between passes the filter (a label may have been       *)
(* changed and changed back), for a provider with the old and the new copy *)
(* (its selector changes with the generation only, which never repeats).   *)
(***************************************************************************)

\* GenerationChangedPredicate
ProviderEventPasses(old, new) == Exists(old) # Exists(new) \/ old.gen # new.gen

\* Slip: watchForProviders is run on the new object only.
RecordsWatchingNew(old, new) ==
    {r \in Records : Exists(recSeen[r]) /\ Exists(new) /\ Matches(new.sel, recSeen[r])}

\* watchForProviders, run on the old and on the new object.
RecordsWatching(old, new) ==
    {r \in Records : /\ Exists(recSeen[r])
                     /\ \/ Exists(old) /\ Matches(old.sel, recSeen[r])
                        \/ Exists(new) /\ Matches(new.sel, recSeen[r])}

\* Slip: the news are delivered and kept.
DeliverRecordAgain(r) ==
    /\ r \in recBehind
    /\ recSeen' = [recSeen EXCEPT ![r] = rec[r]]
    /\ recBehind' = recBehind \ {r} /\ recQ' = recQ \cup {r}
    /\ UNCHANGED <<rec, recNews, provVars, zone, provCache, recTimer, provQueue, rw, pw, left>>

DeliverRecord(r) ==
    /\ r \in recBehind
    /\ recSeen' = [recSeen EXCEPT ![r] = rec[r]]
    /\ recBehind' = recBehind \ {r} /\ recNews' = recNews \ {r}
    /\ recQ' = IF r \in recNews THEN recQ \cup {r} ELSE recQ
    /\ UNCHANGED <<rec, provVars, zone, provCache, recTimer, provQueue, rw, pw, left>>

DeliverProvider(p) ==
    /\ p \in provBehind
    /\ provSeen' = [provSeen EXCEPT ![p] = prov[p]]
    /\ provBehind' = provBehind \ {p}
    /\ IF ProviderEventPasses(provSeen[p], prov[p])
       THEN /\ provQ' = provQ \cup {p}
            /\ recQ' = recQ \cup RecordsWatching(provSeen[p], prov[p])
       ELSE UNCHANGED <<provQ, recQ>>
    /\ UNCHANGED <<recVars, prov, zone, provCache, recTimer, provTimer, rw, pw, left>>

\* A RequeueAfter has elapsed.
RecordTimer(r) ==
    /\ r \in recTimer
    /\ recTimer' = recTimer \ {r} /\ recQ' = recQ \cup {r}
    /\ UNCHANGED <<recVars, provVars, zone, provCache, provQueue, rw, pw, left>>

ProviderTimer(p) ==
    /\ p \in provTimer
    /\ provTimer' = provTimer \ {p} /\ provQ' = provQ \cup {p}
    /\ UNCHANGED <<recVars, provVars, zone, provCache, recQueue, rw, pw, left>>

\* The process dies and starts again (or another replica takes the lease): memory is
\* lost, the caches are listed anew and every object is enqueued.
Crash ==
    /\ Spend("crash")
    /\ rw' = [r \in Records |-> IdleRec] /\ pw' = [p \in Providers |-> IdleProv]
    /\ provCache' = [p \in Providers |-> NoClient]
    /\ recSeen' = rec /\ recBehind' = {} /\ recNews' = {}
    /\ provSeen' = prov /\ provBehind' = {}
    /\ recQ' = {r \in Records : Exists(rec[r])} /\ recTimer' = {}
    /\ provQ' = {p \in Providers : Exists(prov[p])} /\ provTimer' = {}
    /\ UNCHANGED <<rec, prov, zone>>

Environment ==
    \/ \E r \in Records : \/ CreateRecord(r) \/ EditRecord(r) \/ TouchRecord(r)
                          \/ DeleteRecord(r) \/ DeliverRecord(r) \/ RecordTimer(r)
    \/ \E p \in Providers : \/ CreateProvider(p) \/ EditProvider(p) \/ TouchProvider(p)
                            \/ DeleteProvider(p) \/ DeliverProvider(p) \/ ProviderTimer(p)
    \/ Crash

-----------------------------------------------------------------------------
RecordId == Nat \cup Values \cup {NoId}

RecordStatus == [listed : BOOLEAN, id : RecordId, msg : {"", "not ready", "error"}]

RecordObject ==
    [phase : Phases, fin : BOOLEAN, gen : Nat, val : Values, lab : Labels,
     st : [Providers -> RecordStatus], all : BOOLEAN]

Conditions == {"unknown", "ready", "waiting", "failed"}

ProviderObject ==
    [phase : Phases, fin : BOOLEAN, gen : Nat, sel : Selectors, setup : Setups,
     cond : Conditions]

Entry == [id : RecordId, at : Sites, val : Values, rec : Records]

Zone == [entries : SUBSET Entry, next : Nat]

RecordWorker ==
    [pc : {"idle", "addfin", "sync", "rmfin"}, obj : RecordObject, fresh : BOOLEAN,
     provs : [Providers -> ProviderObject], done : SUBSET Providers]

ProviderWorker ==
    [pc : {"idle", "addfin", "build", "status", "rmfin"}, obj : ProviderObject,
     fresh : BOOLEAN, cond : Conditions, again : BOOLEAN]

TypeOK ==
    /\ rec \in [Records -> RecordObject] /\ recSeen \in [Records -> RecordObject]
    /\ recBehind \subseteq Records /\ recNews \subseteq recBehind
    /\ prov \in [Providers -> ProviderObject] /\ provSeen \in [Providers -> ProviderObject]
    /\ provBehind \subseteq Providers
    /\ zone \in [Providers -> Zone]
    /\ provCache \in [Providers -> [gen : Nat, setup : Setups]]
    /\ recQ \subseteq Records /\ recTimer \subseteq Records
    /\ provQ \subseteq Providers /\ provTimer \subseteq Providers
    /\ rw \in [Records -> RecordWorker]
    /\ pw \in [Providers -> ProviderWorker]
    /\ left \in Nat
=============================================================================
