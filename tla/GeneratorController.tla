------------------------- MODULE GeneratorController -------------------------
(***************************************************************************)
(* GeneratorReconciler (internal/controller/dns/generator_controller.go):  *)
(* one Generator or ClusterGenerator, the resources of its kind, and the   *)
(* ResourceWatchers it owns.  Generators share nothing: their watchers are *)
(* listed by owner.                                                        *)
(*                                                                         *)
(* Two threads write the generator's status: the event handler of the      *)
(* resources (watchResources, run in the informer's goroutine, one event   *)
(* after the other) and the worker (Reconcile).  Both act on the cached    *)
(* generator; a write is accepted when that copy is the stored version.    *)
(***************************************************************************)
EXTENDS Integers, FiniteSets, SequencesExt

CONSTANTS
    Resources,      \* the names of resources of the generator's kind
    Finalized,      \* those of them with a finalizer: deleted in two steps
    AtStart,        \* those of them that exist when the controller starts
    Labels,         \* label sets a resource may carry
    Selectors,      \* label sets a selector accepts, for each selector in use
    WatcherIds,     \* names of ResourceWatchers; a name is used again when it is free
    Modes,          \* the modes a run may be in, see Mode
    Disturbances,   \* the kinds of disturbance of this instance
    MaxDisturbances \* how many of them happen in a run

\* stale: may a read happen before the caches caught up?  resync: do the informers hand
\* out what they hold again (SyncPeriod)?
Mode == [stale : BOOLEAN, resync : BOOLEAN]

ASSUME GeneratorAssumption ==
    /\ IsFiniteSet(Resources) /\ Finalized \subseteq Resources /\ AtStart \subseteq Resources
    /\ Labels # {} /\ Selectors \subseteq SUBSET Labels /\ Selectors # {}
    /\ WatcherIds \subseteq Nat
    /\ Modes \subseteq Mode
    /\ Disturbances \subseteq {"create", "label", "delete", "retune", "touch", "crash", "api"}
    /\ MaxDisturbances \in Nat

VARIABLES
    obj,        \* resources as stored; one that is gone keeps its last state
    objSeen,    \* resources as cached
    wire,       \* versions of resources on their way to the cache, oldest first
    news,       \* objects the event handler has yet to look at, in order
    gen,        \* the generator as stored
    genSeen,    \* the generator as cached
    genBehind,  \* the cached generator is not the stored version
    wat,        \* ResourceWatchers as stored: [id, res]
    watSeen,    \* ResourceWatchers as cached
    queued,     \* the generator's key is in the work queue
    w,          \* the worker
    mode,       \* the mode of this run
    left        \* disturbances still allowed

objVars == <<obj, objSeen, wire, mode>>
genVars == <<gen, genSeen, genBehind>>
watVars == <<wat, watSeen>>
vars == <<obj, objSeen, wire, news, gen, genSeen, genBehind, wat, watSeen, queued, w,
          mode, left>>

-----------------------------------------------------------------------------
\* GeneratorSpec.Matches
Matches(g, object) == object.lab \in g.sel

\* Slip: only the first spec is ever matched.
MatchedOnce(g) == g.applied > 0

\* The resources in the status are those the spec of now was matched with.
Matched(g) == g.applied = g.generation

\* listResources, and Matches on each: the deletion timestamp is not looked at.
Listing(g) == {x \in Resources : objSeen[x].exists /\ Matches(g, objSeen[x])}

Idle == [pc |-> "idle", copy |-> gen, fresh |-> FALSE, list |-> {}, kept |-> {},
         done |-> {}, again |-> FALSE]

Spend(kind) == kind \in Disturbances /\ left > 0 /\ left' = left - 1

ReadsAllowed == mode.stale \/ (wire = <<>> /\ ~genBehind /\ watSeen = wat)

Present(objects) == {x \in Resources : objects[x].exists}

\* The informer's first list, handed to the handlers as created objects, in any order.
FirstNews(objects) ==
    {[i \in DOMAIN s |-> [name |-> s[i], object |-> objects[s[i]]]] :
         s \in SetToSeqs(Present(objects))}

\* The controller starts in a cluster that has resources and a generator new to it.
Init ==
    /\ obj \in {[x \in Resources |-> [exists |-> x \in AtStart, stamped |-> FALSE, lab |-> l]] :
                  l \in Labels}
    /\ objSeen = obj /\ wire = <<>>
    /\ news \in FirstNews(obj)
    /\ gen \in {[sel |-> s, generation |-> 1, applied |-> 0, res |-> {}] : s \in Selectors}
    /\ genSeen = gen /\ genBehind = FALSE
    /\ wat = {} /\ watSeen = {}
    /\ queued = TRUE /\ w = Idle
    /\ mode \in Modes /\ left = MaxDisturbances

\* A write of the generator that the API server accepts.
StoreGenerator(g) == gen' = g /\ genBehind' = TRUE /\ UNCHANGED genSeen

\* Whoever else writes the generator makes the worker's copy stale.
Overtaken == w' = [w EXCEPT !.fresh = FALSE]

-----------------------------------------------------------------------------
(***************************************************************************)
(* Users, informers, restarts                                              *)
(***************************************************************************)

StoreResource(x, object) ==
    /\ obj' = [obj EXCEPT ![x] = object]
    /\ wire' = Append(wire, [name |-> x, object |-> object])
    /\ UNCHANGED <<objSeen, mode, news, genVars, watVars, queued, w>>

CreateResource(x) ==
    /\ ~obj[x].exists /\ Spend("create")
    /\ \E l \in Labels :
         StoreResource(x, [exists |-> TRUE, stamped |-> FALSE, lab |-> l])

Relabel(x) ==
    /\ obj[x].exists /\ Spend("label")
    /\ \E l \in Labels \ {obj[x].lab} : StoreResource(x, [obj[x] EXCEPT !.lab = l])

DeleteResource(x) ==
    /\ obj[x].exists /\ ~obj[x].stamped /\ Spend("delete")
    /\ StoreResource(x, IF x \in Finalized THEN [obj[x] EXCEPT !.stamped = TRUE]
                        ELSE [obj[x] EXCEPT !.exists = FALSE])

\* Its controller takes the finalizer off a resource being deleted.
FinishDeletion(x) ==
    /\ obj[x].exists /\ obj[x].stamped
    /\ StoreResource(x, [obj[x] EXCEPT !.exists = FALSE])
    /\ UNCHANGED left

Retune ==
    /\ Spend("retune")
    /\ \E s \in Selectors : StoreGenerator([gen EXCEPT !.sel = s, !.generation = @ + 1])
    /\ Overtaken
    /\ UNCHANGED <<objVars, news, watVars, queued>>

TouchGenerator ==
    /\ Spend("touch")
    /\ StoreGenerator(gen) /\ Overtaken
    /\ UNCHANGED <<objVars, news, watVars, queued>>

\* The predicates let every event pass (their Or holds a Funcs without an UpdateFunc); an
\* update hands the old and the new object to the map function, a deletion the last one.
DeliverResource ==
    /\ wire # <<>>
    /\ LET x == Head(wire).name
           old == objSeen[x]
           new == Head(wire).object
           Event(object) == [name |-> x, object |-> object]
       IN /\ objSeen' = [objSeen EXCEPT ![x] = new]
          /\ news' = news \o IF old.exists /\ new.exists THEN <<Event(old), Event(new)>>
                                                         ELSE <<Event(new)>>
    /\ wire' = Tail(wire)
    /\ UNCHANGED <<obj, mode, genVars, watVars, queued, w, left>>

\* For(): every event of the generator, that of its own status too.
DeliverGenerator ==
    /\ genBehind /\ genSeen' = gen /\ genBehind' = FALSE
    /\ queued' = TRUE
    /\ UNCHANGED <<objVars, news, gen, watVars, w, left>>

\* Nobody watches the watchers: the cache follows and nothing is enqueued.
DeliverWatchers ==
    /\ watSeen # wat /\ watSeen' = wat
    /\ UNCHANGED <<objVars, news, genVars, wat, queued, w, left>>

AtRest ==
    /\ wire = <<>> /\ news = <<>> /\ ~genBehind /\ watSeen = wat
    /\ ~queued /\ w.pc = "idle"

\* The period of a resync is ten hours: what can happen without it has happened by then.
ResyncDue == mode.resync /\ AtRest

\* The resources' informer runs its handlers on all it holds, old and new being the same.
ResyncResources ==
    /\ ResyncDue
    /\ \E items \in FirstNews(objSeen) :
         news' = [i \in 1..(2 * Len(items)) |-> items[(i + 1) \div 2]]
    /\ UNCHANGED <<objVars, genVars, watVars, queued, w, left>>

ResyncGenerator ==
    /\ ResyncDue /\ queued' = TRUE
    /\ UNCHANGED <<objVars, news, genVars, watVars, w, left>>

\* A restart: every object is listed and handed to the handlers as created.
Crash ==
    /\ Spend("crash")
    /\ objSeen' = obj /\ wire' = <<>>
    /\ news' \in FirstNews(obj)
    /\ genSeen' = gen /\ genBehind' = FALSE /\ watSeen' = wat
    /\ queued' = TRUE /\ w' = Idle
    /\ UNCHANGED <<obj, mode, gen, wat>>

-----------------------------------------------------------------------------
(***************************************************************************)
(* watchResources: the map function                                        *)
(***************************************************************************)

\* Slip: what is added is the object and not its name.
NoticedObject(g, item) ==
    IF Matches(g, item.object) /\ ~item.object.stamped
    THEN g.res \cup {item} ELSE g.res \ {item.name}

\* checkGenerator: AddResource or RemoveResource.
Noticed(g, item) ==
    IF Matches(g, item.object) /\ ~item.object.stamped
    THEN g.res \cup {item.name} ELSE g.res \ {item.name}

\* A status write that fails is logged: the change is lost.  No key is ever enqueued.
HandleNews ==
    /\ news # <<>> /\ ReadsAllowed
    /\ news' = Tail(news)
    /\ LET res == Noticed(genSeen, Head(news))
       IN \/ /\ res # genSeen.res /\ ~genBehind
             /\ StoreGenerator([gen EXCEPT !.res = res]) /\ Overtaken
             /\ UNCHANGED left
          \/ /\ res # genSeen.res
             /\ \/ genBehind /\ UNCHANGED left
                \/ Spend("api")
             /\ UNCHANGED <<genVars, w>>
          \/ /\ res = genSeen.res /\ UNCHANGED <<genVars, w, left>>
    /\ UNCHANGED <<objVars, watVars, queued>>

-----------------------------------------------------------------------------
(***************************************************************************)
(* Reconcile                                                               *)
(***************************************************************************)

FreeIds == WatcherIds \ {v.id : v \in wat \cup watSeen \cup w.list}

\* Bound: a pass that does not see the watchers there are finds names for new ones.
NamesLeft == watSeen = wat \/ Cardinality(FreeIds) >= Cardinality(Resources)

\* Reads the generator; re-matches after a spec change, else lists the watchers.
Begin ==
    /\ queued /\ w.pc = "idle" /\ ReadsAllowed /\ NamesLeft
    /\ queued' = FALSE
    /\ w' = IF Matched(genSeen)
            THEN [Idle EXCEPT !.pc = "loop", !.copy = genSeen, !.fresh = ~genBehind,
                              !.list = watSeen]
            ELSE [Idle EXCEPT !.pc = "write", !.fresh = ~genBehind, !.again = TRUE,
                              !.copy = [genSeen EXCEPT !.res = Listing(genSeen),
                                                       !.applied = genSeen.generation]]
    /\ UNCHANGED <<objVars, news, genVars, watVars, left>>

\* Status().Update of the copy; an error puts the key back, as a re-match does.
WriteStatus ==
    /\ w.pc = "write"
    /\ \/ /\ w.fresh /\ UNCHANGED left
          /\ IF w.copy = gen THEN UNCHANGED genVars ELSE StoreGenerator(w.copy)
          /\ queued' = (queued \/ w.again)
       \/ /\ \/ ~w.fresh /\ UNCHANGED left
             \/ Spend("api")
          /\ UNCHANGED genVars /\ queued' = TRUE
    /\ w' = Idle
    /\ UNCHANGED <<objVars, news, watVars>>

Todo == w.copy.res \ w.done

\* The resource is gone: it leaves the status, and the pass ends.
DropResource(x) ==
    /\ w.pc = "loop" /\ x \in Todo /\ ~objSeen[x].exists
    /\ w' = [w EXCEPT !.pc = "write", !.copy.res = @ \ {x}]
    /\ UNCHANGED <<objVars, news, genVars, watVars, queued, left>>

\* It matches no longer: everything is matched again.
AskRematch(x) ==
    /\ w.pc = "loop" /\ x \in Todo
    /\ objSeen[x].exists /\ ~Matches(w.copy, objSeen[x])
    /\ w' = [w EXCEPT !.pc = "write", !.copy.applied = 0, !.again = TRUE]
    /\ UNCHANGED <<objVars, news, genVars, watVars, queued, left>>

WatchersOf(list, x) == {v \in list : v.res = x}

Wanted(x) == x \in Todo /\ objSeen[x].exists /\ Matches(w.copy, objSeen[x])

\* Slip: a watcher is made whether or not one is listed.
MissingAlways(x) == TRUE

Missing(x) == WatchersOf(w.list, x) = {}

KeepWatcher(x) ==
    /\ w.pc = "loop" /\ Wanted(x)
    /\ \E v \in WatchersOf(w.list, x) :
         w' = [w EXCEPT !.done = @ \cup {x}, !.kept = @ \cup {v}]
    /\ UNCHANGED <<objVars, news, genVars, watVars, queued, left>>

CreateWatcher(x) ==
    /\ w.pc = "loop" /\ Wanted(x) /\ Missing(x)
    /\ FreeIds # {}
    /\ \/ /\ wat' = wat \cup {[id |-> CHOOSE id \in FreeIds : TRUE, res |-> x]}
          /\ w' = [w EXCEPT !.done = @ \cup {x}]
          /\ UNCHANGED <<queued, left>>
       \/ Spend("api") /\ w' = Idle /\ queued' = TRUE /\ UNCHANGED wat
    /\ UNCHANGED <<objVars, news, genVars, watSeen>>

\* Slip: a watcher whose resource is still listed is left alone.
UncheckedByName == {v \in w.list : v.res \notin w.copy.res}

\* The listed watchers that no resource of the status asked for.
Unchecked == w.list \ w.kept

\* A watcher that is gone already is an error, like any other.
DeleteWatcher(v) ==
    /\ w.pc = "loop" /\ Todo = {} /\ v \in Unchecked
    /\ \/ v \in wat /\ wat' = wat \ {v} /\ w' = [w EXCEPT !.list = @ \ {v}]
          /\ UNCHANGED <<queued, left>>
       \/ /\ \/ v \notin wat /\ UNCHANGED left
             \/ Spend("api")
          /\ w' = Idle /\ queued' = TRUE /\ UNCHANGED wat
    /\ UNCHANGED <<objVars, news, genVars, watSeen>>

Finish ==
    /\ w.pc = "loop" /\ Todo = {} /\ Unchecked = {}
    /\ w' = Idle
    /\ UNCHANGED <<objVars, news, genVars, watVars, queued, left>>

Reconcile ==
    \/ Begin \/ WriteStatus \/ Finish
    \/ \E x \in Resources :
         DropResource(x) \/ AskRematch(x) \/ KeepWatcher(x) \/ CreateWatcher(x)
    \/ \E v \in w.list : DeleteWatcher(v)

-----------------------------------------------------------------------------
Next ==
    \/ \E x \in Resources :
         CreateResource(x) \/ Relabel(x) \/ DeleteResource(x) \/ FinishDeletion(x)
    \/ Retune \/ TouchGenerator \/ Crash
    \/ DeliverResource \/ DeliverGenerator \/ DeliverWatchers
    \/ ResyncResources \/ ResyncGenerator
    \/ HandleNews \/ Reconcile

Spec == Init /\ [][Next]_vars

\* Informers, the handler, the worker and the resync period run; users owe nothing.
FairSpec ==
    /\ Spec
    /\ WF_vars(DeliverResource) /\ WF_vars(DeliverGenerator) /\ WF_vars(DeliverWatchers)
    /\ WF_vars(HandleNews) /\ WF_vars(Reconcile)
    /\ SF_vars(ResyncResources) /\ SF_vars(ResyncGenerator)

-----------------------------------------------------------------------------
Object == [exists : BOOLEAN, stamped : BOOLEAN, lab : Labels]

Item == [name : Resources, object : Object]

Generator == [sel : Selectors, generation : Nat, applied : Nat, res : SUBSET Resources]

Watcher == [id : WatcherIds, res : Resources]

Worker ==
    [pc : {"idle", "loop", "write"}, copy : Generator, fresh : BOOLEAN,
     list : SUBSET Watcher, kept : SUBSET Watcher, done : SUBSET Resources, again : BOOLEAN]

TypeOK ==
    /\ obj \in [Resources -> Object] /\ objSeen \in [Resources -> Object]
    /\ wire \in Seq(Item) /\ news \in Seq(Item)
    /\ gen \in Generator /\ genSeen \in Generator /\ genBehind \in BOOLEAN
    /\ wat \subseteq Watcher /\ watSeen \subseteq Watcher
    /\ queued \in BOOLEAN /\ w \in Worker /\ mode \in Modes /\ left \in Nat

\* While reads wait for the caches no resource ever has two watchers, whatever passes are
\* cut short by errors and restarts (generator_controller.go:94, 115-144).
OneWatcherEach == ~mode.stale => \A u, v \in wat : u.res = v.res => u = v

\* When nothing is queued, and reads waited for the caches, the last spec has been matched
\* and the watchers are those of the resources in the status: no error, restart or
\* overtaken status write ends a pass without another that finishes its work
\* (generator_controller.go:75-151).
RestMeansFollowed ==
    AtRest /\ ~mode.stale
        => gen.applied = gen.generation /\ {v.res : v \in wat} = gen.res

\* One watcher for each resource that is there to stay and matches, and none for what is
\* gone or does not match.
Settled ==
    \A x \in Resources :
        LET n == Cardinality({v \in wat : v.res = x})
        IN  /\ n <= 1
            /\ obj[x].exists /\ ~obj[x].stamped /\ Matches(gen, obj[x]) => n = 1
            /\ (~obj[x].exists \/ ~Matches(gen, obj[x])) => n = 0

\* Whatever status updates conflict and whatever stale lists the passes work on, the
\* generator's watchers are right in the end and stay so (generator_controller.go:75-151
\* and 257-312, with the resync of the manager's informers).
EventuallySettled == mode.resync => <>[]Settled
=============================================================================
