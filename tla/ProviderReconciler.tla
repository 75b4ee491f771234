------------------------- MODULE ProviderReconciler -------------------------
(***************************************************************************)
(* ProviderReconciler.Reconcile (internal/controller/dns/provider_         *)
(* controller.go), instantiated once for Provider and once for             *)
(* ClusterProvider: two controllers with one worker each.                  *)
(*                                                                         *)
(* pw[p] is the worker's local state: pc, the copy of the object (obj, and *)
(* whether it is still the stored version), the condition the deferred     *)
(* function will write to the status, and whether the result asks for a    *)
(* RequeueAfter (again).  The deferred function sets the error to nil, so  *)
(* an error requeues only where the result does.                           *)
(***************************************************************************)
EXTENDS ClusterState

\* The providers that share a controller, and so a worker, with p.
SameController(p) ==
    IF p \in ClusterProviders THEN ClusterProviders ELSE Providers \ ClusterProviders

\* No cached Record holds an id of this provider.
CanDelete(p) == \A r \in Records : recSeen[r].st[p].id = NoId

\* What no step of a provider's reconciliation changes.
Apart == UNCHANGED <<recVars, provSeen, zone, recQueue, rw>>

-----------------------------------------------------------------------------
\* The worker takes a key, reads the object and, for a deleted one, the Records.
ProvBegin(p) ==
    /\ p \in provQ /\ \A q \in SameController(p) : pw[q].pc = "idle"
    /\ ReadsAllowed
    /\ provQ' = provQ \ {p}
    /\ LET obj == provSeen[p]
           Start(pc, cond, again) ==
               [pw EXCEPT ![p] = [pc |-> pc, obj |-> obj, fresh |-> p \notin provBehind,
                                  cond |-> cond, again |-> again]]
       IN pw' = IF ~Exists(obj) THEN pw
                ELSE IF ~obj.fin THEN Start("addfin", "unknown", FALSE)
                ELSE IF obj.phase = "live" THEN Start("build", "ready", FALSE)
                ELSE IF CanDelete(p) THEN Start("rmfin", "unknown", FALSE)
                ELSE IF ClientReady(p, obj.gen) THEN Start("status", "waiting", TRUE)
                ELSE Start("build", "waiting", TRUE)
    /\ UNCHANGED <<provStore, provCache, provTimer, left>> /\ Apart

ProvAddFinalizer(p) ==
    /\ pw[p].pc = "addfin"
    /\ \/ /\ pw[p].fresh /\ StoreProvider(p, [prov[p] EXCEPT !.fin = TRUE])
          /\ UNCHANGED left
       \/ /\ pw[p].fresh /\ Spend("api") /\ UNCHANGED provStore
       \/ /\ ~pw[p].fresh /\ UNCHANGED <<provStore, left>>
    /\ pw' = [pw EXCEPT ![p] = IdleProv]
    /\ provQ' = provQ \cup {p}
    /\ UNCHANGED <<provCache, provTimer>> /\ Apart

\* newDnsProvider: the factory builds the client anew from the spec the worker read.  It
\* turns down a configuration it cannot use, and looks the zone up at the service, which
\* may fail (AdGuard's makes no call).
ProvBuild(p) ==
    /\ pw[p].pc = "build"
    /\ \/ /\ Config[p][pw[p].obj.setup].usable
          /\ provCache' = [provCache EXCEPT ![p] = [gen   |-> pw[p].obj.gen,
                                                    setup |-> pw[p].obj.setup]]
          /\ pw' = [pw EXCEPT ![p].pc = "status"]
          /\ UNCHANGED left
       \/ /\ \/ ~Config[p][pw[p].obj.setup].usable /\ UNCHANGED left
             \/ Config[p][pw[p].obj.setup].type # "ADGUARD" /\ Spend("dns")
          /\ pw' = [pw EXCEPT ![p].pc = "status", ![p].cond = "failed", ![p].again = TRUE]
          /\ UNCHANGED provCache
    /\ UNCHANGED <<provStore, provQueue>> /\ Apart

\* Removing the finalizer of a deleted object removes the object, and the status write
\* of the deferred function then finds nothing.  A failure is written to the status,
\* if that still can be written, and not retried.
ProvRemoveFinalizer(p) ==
    /\ pw[p].pc = "rmfin"
    /\ \/ /\ pw[p].fresh /\ StoreProvider(p, [NoProvider EXCEPT !.phase = "gone"])
          /\ pw' = [pw EXCEPT ![p] = IdleProv]
          /\ UNCHANGED left
       \/ /\ \/ pw[p].fresh /\ Spend("api")
             \/ ~pw[p].fresh /\ UNCHANGED left
          /\ pw' = [pw EXCEPT ![p].pc = "status", ![p].cond = "failed"]
          /\ UNCHANGED provStore
    /\ UNCHANGED <<provCache, provQueue>> /\ Apart

\* Slip: a result with an error does not ask for a RequeueAfter.
RescheduledNever(p) == provTimer

Rescheduled(p) == IF pw[p].again THEN provTimer \cup {p} ELSE provTimer

\* The deferred status write; an error is logged.
ProvWriteStatus(p) ==
    /\ pw[p].pc = "status"
    /\ \/ /\ pw[p].fresh /\ prov[p].cond # pw[p].cond
          /\ StoreProvider(p, [prov[p] EXCEPT !.cond = pw[p].cond])
          /\ UNCHANGED left
       \/ /\ pw[p].fresh /\ prov[p].cond = pw[p].cond
          /\ UNCHANGED <<provStore, left>>
       \/ /\ pw[p].fresh /\ Spend("api") /\ UNCHANGED provStore
       \/ /\ ~pw[p].fresh /\ UNCHANGED <<provStore, left>>
    /\ provTimer' = Rescheduled(p)
    /\ pw' = [pw EXCEPT ![p] = IdleProv]
    /\ UNCHANGED <<provCache, provQ>> /\ Apart

ProviderStep(p) ==
    \/ ProvBegin(p) \/ ProvAddFinalizer(p) \/ ProvBuild(p)
    \/ ProvRemoveFinalizer(p) \/ ProvWriteStatus(p)
=============================================================================
