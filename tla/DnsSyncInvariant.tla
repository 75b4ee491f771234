-------------------------- MODULE DnsSyncInvariant --------------------------
(***************************************************************************)
(* The inductive invariants: IInv is behind EntriesAreGuarded, NoForgetting*)
(* and KeepsLedger, Reliable behind ReadyClaimIsTrue, and Awaited behind   *)
(* RestMeansSettled.  What a worker does depends on copies that may be     *)
(* stale in two ways: the cache lags behind the API server, and the        *)
(* worker's copy lags behind both.  The conjuncts say what a copy still    *)
(* tells of the stored object, and what will still be done about it.       *)
(***************************************************************************)
EXTENDS DnsSync

Busy(r) == rw[r].pc # "idle"

Ended == {"deleting", "gone"}

\* A cached copy that is not behind is the stored object.
CachesAreCurrent ==
    /\ \A r \in Records \ recBehind : recSeen[r] = rec[r]
    /\ \A p \in Providers \ provBehind : provSeen[p] = prov[p]

-----------------------------------------------------------------------------
(***************************************************************************)
(* Finalizers                                                              *)
(***************************************************************************)

\* Only an object that exists has the finalizer.
FinalizerMeansExists ==
    \A r \in Records : /\ rec[r].fin => Exists(rec[r])
                       /\ recSeen[r].fin => Exists(recSeen[r])

\* A deletion the cache knows of is a deletion in the store.
DeletionsStand ==
    \A r \in Records : recSeen[r].phase \in Ended => rec[r].phase \in Ended

\* A worker past the finalizer check holds an object that existed, with the finalizer.
WorkerHasFinalizer ==
    \A r \in Records :
        rw[r].pc \in {"sync", "rmfin"} => rw[r].obj.fin /\ Exists(rw[r].obj)

\* The last step is taken for deleted Records only.
RemovingMeansDeleting ==
    \A r \in Records : rw[r].pc = "rmfin" => rw[r].obj.phase = "deleting"

\* What a worker knows to be deleted, the cache knows too.
CacheAheadOfWorker ==
    \A r \in Records :
        Busy(r) /\ rw[r].obj.phase = "deleting" => recSeen[r].phase \in Ended

\* A copy that is live and has the finalizer speaks for the stored object.
LiveCopyIsGuarded ==
    \A r \in Records :
        /\ recSeen[r].phase = "live" /\ recSeen[r].fin => rec[r].fin
        /\ rw[r].pc = "sync" /\ rw[r].obj.phase = "live" => rec[r].fin

\* The object a worker may still write exists.
FreshMeansExists == \A r \in Records : Busy(r) /\ rw[r].fresh => Exists(rec[r])

Guarded ==
    /\ FreshMeansExists /\ FinalizerMeansExists /\ DeletionsStand /\ WorkerHasFinalizer
    /\ RemovingMeansDeleting /\ CacheAheadOfWorker /\ LiveCopyIsGuarded

-----------------------------------------------------------------------------
(***************************************************************************)
(* RecordIDs                                                               *)
(***************************************************************************)

\* No provider is ever set up for another site (each provider names its sites apart from
\* the others', so that one name is enough).
NobodyMoves == \A a, b \in Sites : a = b

\* The services number their entries (the id of an AdGuard rewrite is its content).
AllNumbered ==
    \A p \in Providers, c \in Setups : Config[p][c].type \in {"CLOUDFLARE", "ALIYUN"}

\* The entry an id names is gone, or the provider that could delete it.  A provider that
\* was moved does not find the entries it left, and takes them for gone.
Lost(p, id) == NobodyMoves => id \notin Ids(zone[p]) \/ prov[p].phase = "gone"

\* A zone never holds an id it has not handed out.
ZonesAreNumbered ==
    \A p \in Providers : \A e \in zone[p].entries : e.id \in Nat /\ e.id < zone[p].next

Issued(p, id) == id = NoId \/ (id \in Nat /\ id < zone[p].next)

\* Every id on record was handed out, by a provider the cache has seen.
Sound(st) ==
    \A p \in Providers :
        /\ Issued(p, st[p].id)
        /\ st[p].id # NoId => provSeen[p].phase # "absent"
        /\ ~st[p].listed => st[p] = NotListed

StatusesAreSound ==
    \A r \in Records : Sound(rec[r].st) /\ Sound(recSeen[r].st) /\ Sound(rw[r].obj.st)

\* The life of a provider goes one way, and a copy is never ahead of it.
CopiesOfProvidersLag ==
    \A p \in Providers :
        /\ provSeen[p].phase = "gone" => prov[p].phase = "gone"
        /\ provSeen[p].phase # "absent" => prov[p].phase # "absent"
        /\ \A r \in Records : rw[r].provs[p].phase # "absent"
                                => provSeen[p].phase # "absent"

\* An object without the finalizer records no id; nobody takes the finalizer from under
\* a worker whose copy is fresh.
IdsNeedFinalizer ==
    \A r \in Records :
        /\ ~rec[r].fin => \A p \in Providers : rec[r].st[p].id = NoId
        /\ rw[r].fresh /\ rw[r].pc \in {"sync", "rmfin"} => rec[r].fin

\* Where a worker that may still write has another id than the store, the stored one is lost.
WorkerReleasesLostIds ==
    \A r \in Records, p \in Providers :
        /\ Busy(r) /\ rw[r].fresh
        /\ rec[r].st[p].id # NoId /\ rec[r].st[p].id # rw[r].obj.st[p].id
        => Lost(p, rec[r].st[p].id)

\* For a deleted Record, a provider done without an error is a provider without an id.
DeletedMeansReleased ==
    \A r \in Records, p \in Providers :
        /\ rw[r].pc = "sync" /\ rw[r].obj.phase = "deleting" /\ p \in rw[r].done
           /\ rw[r].obj.st[p].msg = ""
           => rw[r].obj.st[p].id = NoId
        /\ rw[r].pc = "rmfin" => rw[r].obj.st[p].id = NoId

Recorded ==
    /\ ZonesAreNumbered /\ StatusesAreSound /\ CopiesOfProvidersLag
    /\ IdsNeedFinalizer /\ WorkerReleasesLostIds /\ DeletedMeansReleased

IInv == TypeOK /\ CachesAreCurrent /\ Guarded /\ Recorded

-----------------------------------------------------------------------------
(***************************************************************************)
(* What the worker has confirmed: behind ReadyClaimIsTrue.                 *)
(***************************************************************************)

\* Aliyun may take the entry of another for its own, and AdGuard an id for content.
AllCloudflare == \A p \in Providers, c \in Setups : Config[p][c].type = "CLOUDFLARE"

\* There is one Record worker.
OneWorker == \A q, r \in Records : Busy(q) /\ Busy(r) => q = r

\* A copy that may still be written back describes the stored object.
FreshMeansSame ==
    \A r \in Records :
        Busy(r) /\ rw[r].fresh => /\ rec[r].phase = rw[r].obj.phase
                                 /\ rec[r].val = rw[r].obj.val
                                 /\ rec[r].lab = rw[r].obj.lab

\* A provider that a copy shows to be deleted is deleted.
DeletedProvidersStay ==
    \A p \in Providers :
        /\ provSeen[p].phase \in Ended => prov[p].phase \in Ended
        /\ \A r \in Records : rw[r].provs[p].phase \in Ended => prov[p].phase \in Ended

\* A spec, by its generation and what a client is built from, and the specs of p the
\* store, the cache, the workers and the client know.
Version(obj) == [gen |-> obj.gen, setup |-> obj.setup]

Versions(p) ==
    {Version(prov[p]), Version(provSeen[p]), Version(pw[p].obj), provCache[p]}
        \cup {Version(rw[r].provs[p]) : r \in Records}

\* The generation, which is all the worker compares, tells what the client was built from.
SetupsTell ==
    \A p \in Providers :
        /\ \A v, w \in Versions(p) : v.gen = w.gen /\ v.gen # 0 => v.setup = w.setup
        /\ prov[p].phase # "gone" => \A v \in Versions(p) : v.gen <= prov[p].gen
        /\ prov[p].phase = "absent" => prov[p].gen = 0

\* What the worker knows of a provider it is done with, if that gave no error: where the
\* Record is wanted, its content is published under the id noted, and elsewhere there is
\* no id, and no entry if the provider does not match.  It is done only with providers
\* that match and such that are not considered.
Confirmed(r, p) ==
    /\ p \in Matched(r) \/ p \notin Considered(r)
    /\ rw[r].obj.st[p].msg = "" =>
         IF p \in Matched(r) /\ ~Unwanted(r, p)
         THEN /\ rw[r].obj.st[p].id # NoId
              /\ Published(p, rw[r].provs[p].setup, rw[r].obj.st[p].id, rw[r].obj.val)
         ELSE /\ rw[r].obj.st[p].id = NoId
              /\ rw[r].obj.st[p].listed => p \in Matched(r)

DoneIsConfirmed ==
    \A r \in Records : rw[r].pc = "sync" => \A p \in rw[r].done : Confirmed(r, p)

Reliable ==
    OneWorker /\ FreshMeansSame /\ DeletedProvidersStay /\ SetupsTell /\ DoneIsConfirmed

-----------------------------------------------------------------------------
(***************************************************************************)
(* What is still going to happen: behind RestMeansSettled.                 *)
(***************************************************************************)

\* What that takes: caches that have caught up when a reconciliation begins; nobody who
\* writes an object without changing its spec, and no failing write to the API server (a
\* status write that fails is not retried); and entries no two Records share.
Undisturbed ==
    /\ ~StaleReads /\ "touch" \notin Disturbances /\ "api" \notin Disturbances
    /\ AllCloudflare
    /\ \A p \in Providers, c \in Setups : Config[p][c].match => \A q, r \in Records : q = r

\* An undelivered version that the filter keeps back says nothing new.
NewsTell ==
    \A r \in Records \ recNews : /\ recSeen[r].phase = rec[r].phase
                                 /\ recSeen[r].val = rec[r].val
                                 /\ recSeen[r].lab = rec[r].lab

\* A provider of the same generation has the same spec and is deleted or not as before.
GenerationsTell ==
    \A p \in Providers :
        Exists(provSeen[p]) /\ Exists(prov[p])
        => /\ provSeen[p].gen <= prov[p].gen
           /\ provSeen[p].gen = prov[p].gen => /\ provSeen[p].phase = prov[p].phase
                                              /\ provSeen[p].sel = prov[p].sel
                                              /\ provSeen[p].setup = prov[p].setup

DeletingHasFinalizer == \A p \in Providers : prov[p].phase = "deleting" => prov[p].fin

\* Somebody is going to look at a provider that is being deleted.
DeletionIsPending ==
    \A p \in Providers :
        prov[p].phase = "deleting" =>
            \/ p \in provQ \cup provTimer
            \/ ProviderEventPasses(provSeen[p], prov[p])
            \/ pw[p].pc = "addfin"
            \/ pw[p].pc \in {"build", "status"} /\ pw[p].again
            \/ pw[p].pc = "rmfin" /\ pw[p].fresh

\* A worker whose copy is stale works in vain, and is going to begin anew.
StaleIsPending ==
    \A r \in Records : Busy(r) /\ ~rw[r].fresh => r \in recQ \cup recNews

\* The provider as this object shows it wants the Record published.
Wants(provider, record) == provider.phase = "live" /\ Matches(provider.sel, record)

\* If nothing calls the worker's Record back, no provider has changed its mind about it.
ViewsAgree ==
    \A r \in Records :
        rw[r].pc = "sync" /\ rw[r].fresh /\ r \notin recQ \cup recNews
        => \A p \in Providers :
              /\ Wants(rw[r].provs[p], rw[r].obj) <=> Wants(provSeen[p], rw[r].obj)
              /\ Wants(provSeen[p], rw[r].obj) => rw[r].provs[p].setup = provSeen[p].setup

\* The entry an id names was made for the Record that holds the id.
IdsAreOwn ==
    \A r \in Records, p \in Providers : \A e \in zone[p].entries :
        e.id \in {rec[r].st[p].id, recSeen[r].st[p].id, rw[r].obj.st[p].id} => e.rec = r

\* No event, timer or worker is on its way to r.
Resting(r) == ~Busy(r) /\ r \notin recQ \cup recTimer \cup recNews

\* A Record nobody is going to look at is what the providers, as the cache shows them, want.
RestingIsSettled ==
    \A r \in Records :
        Resting(r) /\ Exists(rec[r])
        => /\ rec[r].phase = "live" /\ rec[r].fin /\ rec[r].all
           /\ \A p \in Providers :
                /\ rec[r].st[p].id # NoId <=> Wants(provSeen[p], rec[r])
                /\ rec[r].st[p].id # NoId =>
                      Published(p, provSeen[p].setup, rec[r].st[p].id, rec[r].val)

Awaited ==
    /\ NewsTell /\ GenerationsTell /\ DeletingHasFinalizer /\ DeletionIsPending
    /\ StaleIsPending /\ ViewsAgree /\ IdsAreOwn /\ RestingIsSettled
=============================================================================
