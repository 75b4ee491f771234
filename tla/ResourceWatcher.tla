-------------------------- MODULE ResourceWatcher --------------------------
(***************************************************************************)
(* ResourceWatcherReconciler (internal/controller/dns/                     *)
(* resourcewatcher_controller.go) with the template cache and the template *)
(* functions of template.go: one ResourceWatcher, the objects its template *)
(* reads, and the Records it makes of them.                                *)
(*                                                                         *)
(* The text of a template is an element of Texts; it reads the main object *)
(* (an Ingress, Service, Node or Record) and perhaps another one, aux, in  *)
(* the place of the Service, Endpoints, Nodes, Pods or Namespace that the  *)
(* template functions look up.  The data of the main object is the set of  *)
(* names it asks Records for; a Record's content is the text and the data  *)
(* of aux it was made from.                                                *)
(*                                                                         *)
(* All that a reconciliation reads comes from memory (the caches) and is   *)
(* read in its first step; each write to the API server is a step.         *)
(***************************************************************************)
EXTENDS Integers

CONSTANTS
    Names,              \* names of Records
    Kind,               \* resourceKind of the generator
    Data,               \* contents of aux
    Texts,              \* template texts
    Broken,             \* those that do not parse
    Deep,               \* those that read aux
    None,               \* no such object, no data
    Inline,             \* may the generator hold the text itself: a set of BOOLEANs
    Lags,               \* may a reconciliation find the caches behind: a set of BOOLEANs
    Disturbances,       \* the kinds of disturbance of this instance
    MaxDisturbances     \* how many happen in a run, of all kinds together

DisturbanceKinds ==
    {"input",    \* a user creates, changes or deletes an object the template reads
     "template", \* the same for the template; for an inline text, a change
     "record",   \* a user deletes a generated Record
     "touch",    \* somebody else writes the ResourceWatcher or a Record's status
     "crash",    \* the manager restarts
     "api"}      \* a write to the API server fails

ASSUME WatcherAssumption ==
    /\ Kind \in {"Ingress", "Record", "Service", "Node"}
    /\ Texts # {} /\ Broken \subseteq Texts /\ Deep \subseteq Texts
    /\ None \notin Data /\ \A N \in SUBSET Names : None # N
    /\ Inline \subseteq BOOLEAN /\ Inline # {} /\ Lags \subseteq BOOLEAN /\ Lags # {}
    /\ Disturbances \subseteq DisturbanceKinds /\ MaxDisturbances \in Nat

Keys == {"main", "aux", "template"}

VARIABLES
    input,      \* the main object and aux as stored: data or None
    tpl,        \* the template as stored
    seen,       \* the two as cached
    behind,     \* keys whose cached copy is not the stored version
    wat,        \* status of the ResourceWatcher as stored; it is ready if why is ""
    watSeen,    \* as cached; the index of watched resources is made from it
    watBehind,  \* is the cached copy not the stored version
    recs,       \* the Records owned by the ResourceWatcher as stored
    recSeen,    \* as cached
    recBehind,  \* names whose cached Record is not the stored version
    cache,      \* cacheGenMap and the parsed text; life is history
    w,          \* the worker
    queued, timer,
    inline,     \* does the generator hold the text
    lags,       \* may a reconciliation begin before the caches caught up
    left        \* disturbances still allowed

objects == <<input, tpl, seen, behind>>
watcher == <<wat, watSeen, watBehind>>
records == <<recs, recSeen, recBehind>>
queue == <<queued, timer>>
choices == <<inline, lags>>
vars == <<objects, watcher, records, cache, w, queue, choices, left>>

-----------------------------------------------------------------------------
\* life counts how often a template of this name was created; no code reads it.
NoTemplate == [gen |-> 0, text |-> CHOOSE t \in Texts : TRUE, life |-> 0]

Exists(template) == template.gen > 0

NoRecord == [phase |-> "absent", val |-> None]

\* The objects a text uses.
Uses(text) == IF text \in Deep THEN {"main", "aux"} ELSE {"main"}

\* Slip: the main object is noted by its kind.
NotedByKind(text) == (Uses(text) \ {"main"}) \cup {Kind}

\* Those noted as watched when they are used: the main object only by the data of an
\* Ingress and of a Record.
Noted(text) == IF Kind \in {"Ingress", "Record"} THEN Uses(text) ELSE Uses(text) \ {"main"}

\* A watcher without a status is not ready.
Fresh == [why |-> "new", res |-> {}]

Idle == [pc |-> "idle", fresh |-> FALSE, list |-> {}, stale |-> {},
         want |-> [n \in {} |-> None],
         todo |-> {}, res |-> {}, why |-> "", again |-> FALSE]

\* What a text makes of the inputs: the content of each Record it asks for.
Yield(text, in) ==
    [n \in in.main |-> <<text, IF text \in Deep THEN in.aux ELSE None>>]

Spend(kind) == kind \in Disturbances /\ left > 0 /\ left' = left - 1

Store(n, record) ==
    /\ recs' = [recs EXCEPT ![n] = record]
    /\ recBehind' = recBehind \cup {n}

\* A write by somebody else makes the copy the worker listed stale.
Overtake(n) == w' = IF w.pc = "idle" THEN w ELSE [w EXCEPT !.stale = @ \cup {n}]

Init ==
    /\ input \in [main : SUBSET Names, aux : Data]
    /\ inline \in Inline /\ lags \in Lags
    /\ tpl \in {[gen |-> 1, text |-> t, life |-> 1] : t \in Texts}
    /\ seen = [input |-> input, tpl |-> tpl] /\ behind = {}
    /\ wat = Fresh /\ watSeen = Fresh /\ watBehind = FALSE
    /\ recs = [n \in Names |-> NoRecord] /\ recSeen = recs /\ recBehind = {}
    /\ cache = NoTemplate /\ w = Idle /\ queued = TRUE /\ timer = FALSE
    /\ left = MaxDisturbances

-----------------------------------------------------------------------------
(***************************************************************************)
(* Users, the Record controller, informers                                 *)
(***************************************************************************)

ChangeInput(i) ==
    /\ Spend("input")
    /\ \E d \in (IF i = "main" THEN SUBSET Names ELSE Data) \cup {None} :
         d # input[i] /\ input' = [input EXCEPT ![i] = d]
    /\ behind' = behind \cup {i}
    /\ UNCHANGED <<tpl, seen, watcher, records, cache, w, queue, choices>>

\* A template deleted and created again starts at generation 1.
ChangeTemplate ==
    /\ Spend("template")
    /\ \/ \E t \in Texts \ {tpl.text} :
            Exists(tpl) /\ tpl' = [tpl EXCEPT !.text = t, !.gen = @ + 1]
       \/ ~inline /\ Exists(tpl) /\ tpl' = [tpl EXCEPT !.gen = 0]
       \/ ~Exists(tpl) /\ \E t \in Texts :
            tpl' = [gen |-> 1, text |-> t, life |-> tpl.life + 1]
    /\ behind' = behind \cup {"template"}
    /\ UNCHANGED <<input, seen, watcher, records, cache, w, queue, choices>>

\* Somebody else's write of the ResourceWatcher (the Generator controller, a user).
TouchWatcher ==
    /\ Spend("touch")
    /\ watBehind' = TRUE /\ w' = [w EXCEPT !.fresh = FALSE]
    /\ UNCHANGED <<objects, wat, watSeen, records, cache, queue, choices>>

\* The Record controller writes a finalizer or a status.
TouchRecord(n) ==
    /\ recs[n].phase # "absent" /\ Spend("touch")
    /\ Store(n, recs[n]) /\ Overtake(n)
    /\ UNCHANGED <<objects, watcher, recSeen, cache, queue, choices>>

\* A deleted Record stays while the Record controller's finalizer is on it.
Deleted(n) == {NoRecord, [recs[n] EXCEPT !.phase = "deleting"]}

DeleteRecord(n) ==
    /\ recs[n].phase = "live" /\ Spend("record")
    /\ \E record \in Deleted(n) : Store(n, record)
    /\ Overtake(n)
    /\ UNCHANGED <<objects, watcher, recSeen, cache, queue, choices>>

FinishDelete(n) ==
    /\ recs[n].phase = "deleting"
    /\ Store(n, NoRecord) /\ Overtake(n)
    /\ UNCHANGED <<objects, watcher, recSeen, cache, queue, choices, left>>

DeliverRecord(n) ==
    /\ n \in recBehind
    /\ recSeen' = [recSeen EXCEPT ![n] = recs[n]] /\ recBehind' = recBehind \ {n}
    /\ UNCHANGED <<objects, watcher, recs, cache, w, queue, choices, left>>

\* Slip: only a new generation of the ResourceWatcher is looked at.
OwnEventFiltered == queued

\* A ResourceWatcher is enqueued by every event of its own.
OwnEvent == TRUE

DeliverWatcher ==
    /\ watBehind
    /\ watSeen' = wat /\ watBehind' = FALSE /\ queued' = OwnEvent
    /\ UNCHANGED <<objects, wat, records, cache, w, timer, choices, left>>

\* watchResources: an event enqueues the ResourceWatcher if the cached status lists the
\* object.  A generator is no watched resource, and so an inline text is none.
Deliver(k) ==
    /\ k \in behind
    /\ seen' = IF k = "template" THEN [seen EXCEPT !.tpl = tpl]
                                 ELSE [seen EXCEPT !.input[k] = input[k]]
    /\ behind' = behind \ {k}
    /\ queued' = (queued \/ k \in watSeen.res)
    /\ UNCHANGED <<input, tpl, watcher, records, cache, w, timer, choices, left>>

Timer ==
    /\ timer /\ timer' = FALSE /\ queued' = TRUE
    /\ UNCHANGED <<objects, watcher, records, cache, w, choices, left>>

CachesCurrent == behind = {} /\ ~watBehind /\ recBehind = {}

AtRest == ~queued /\ ~timer /\ w.pc = "idle" /\ CachesCurrent

\* The informers hand out everything again, long after all else came to rest.
Resync ==
    /\ AtRest /\ queued' = TRUE
    /\ UNCHANGED <<objects, watcher, records, cache, w, timer, choices, left>>

Crash ==
    /\ Spend("crash")
    /\ cache' = NoTemplate /\ w' = Idle /\ queued' = TRUE /\ timer' = FALSE
    /\ seen' = [input |-> input, tpl |-> tpl] /\ behind' = {}
    /\ watSeen' = wat /\ watBehind' = FALSE /\ recSeen' = recs /\ recBehind' = {}
    /\ UNCHANGED <<input, tpl, wat, recs, choices>>

-----------------------------------------------------------------------------
(***************************************************************************)
(* Reconcile                                                               *)
(***************************************************************************)

\* Slip: a text once parsed is kept, whatever the generation of the template.
ParsedForEver(template) == IF Exists(cache) THEN cache ELSE template

\* getTemplate: the text is parsed when the generation is another than at the last time.
Parsed(template) == IF cache.gen = template.gen THEN cache ELSE template

\* What a reconciliation begins with.
Read == [Idle EXCEPT !.fresh = ~watBehind, !.stale = recBehind,
                     !.list = {n \in Names : recSeen[n].phase # "absent"}]

Fails(res, again) ==
    [Read EXCEPT !.pc = "status", !.res = res, !.why = "error", !.again = again]

\* Get, List, getTemplateData, getTemplate and parse, from the cached copies.  Only a
\* missing object asks for another attempt, a template that is missing or broken does not.
Outcome ==
    LET parsed == Parsed(seen.tpl)
        source == IF inline THEN {} ELSE {"template"}
    IN IF seen.input.main = None THEN Fails({}, TRUE)
       ELSE IF ~Exists(seen.tpl) \/ parsed.text \in Broken THEN Fails({}, FALSE)
       ELSE IF \E i \in Uses(parsed.text) : seen.input[i] = None
       THEN Fails(source \cup (Noted(parsed.text) \ {"aux"}), TRUE)
       ELSE [Read EXCEPT !.pc = "write", !.res = source \cup Noted(parsed.text),
                         !.want = Yield(parsed.text, seen.input), !.todo = seen.input.main]

Begin ==
    /\ queued /\ w.pc = "idle" /\ (lags \/ CachesCurrent)
    /\ queued' = FALSE
    /\ w' = Outcome
    /\ cache' = IF /\ seen.input.main # None /\ Exists(seen.tpl)
                   /\ Parsed(seen.tpl).text \notin Broken
                THEN Parsed(seen.tpl) ELSE cache
    /\ UNCHANGED <<objects, watcher, records, timer, choices, left>>

\* A write of a Record fails: the error goes to the status, the rest is left for later.
WriteFails ==
    /\ w' = [w EXCEPT !.pc = "status", !.why = "error", !.again = TRUE]
    /\ UNCHANGED <<recs, recBehind>>

\* Update of a listed Record, refused when it was written since; Create of another one,
\* refused when it exists.  A Record that is being deleted is updated like any other.
Upsert(n) ==
    /\ w.pc = "write" /\ n \in w.todo
    /\ LET ok == IF n \in w.list THEN n \notin w.stale ELSE recs[n].phase = "absent"
           new == [phase |-> IF n \in w.list THEN recs[n].phase ELSE "live", val |-> w.want[n]]
       IN \/ /\ ok /\ w' = [w EXCEPT !.todo = @ \ {n}]
             /\ IF new = recs[n] THEN UNCHANGED <<recs, recBehind>> ELSE Store(n, new)
             /\ UNCHANGED left
          \/ ~ok /\ WriteFails /\ UNCHANGED left
          \/ Spend("api") /\ WriteFails
    /\ UNCHANGED <<objects, watcher, recSeen, cache, queue, choices>>

\* Slip: the Records of names no longer asked for are kept.
UnwantedNever == {}

Unwanted == w.list \ DOMAIN w.want

\* Deletion of a listed Record that was not asked for; not found is an error here.
Prune(n) ==
    /\ w.pc = "write" /\ w.todo = {} /\ n \in Unwanted
    /\ \/ /\ recs[n].phase # "absent" /\ w' = [w EXCEPT !.list = @ \ {n}]
          /\ IF recs[n].phase = "live" THEN \E record \in Deleted(n) : Store(n, record)
                                       ELSE UNCHANGED <<recs, recBehind>>
          /\ UNCHANGED left
       \/ recs[n].phase = "absent" /\ WriteFails /\ UNCHANGED left
       \/ Spend("api") /\ WriteFails
    /\ UNCHANGED <<objects, watcher, recSeen, cache, queue, choices>>

Written == [why |-> w.why, res |-> w.res]

\* The deferred status write; an error of it is logged.
WriteStatus ==
    /\ \/ w.pc = "status"
       \/ w.pc = "write" /\ w.todo = {} /\ Unwanted = {}
    /\ \/ w.fresh /\ wat' = Written /\ watBehind' = (watBehind \/ wat # Written)
          /\ UNCHANGED left
       \/ ~w.fresh /\ UNCHANGED <<wat, watBehind, left>>
       \/ Spend("api") /\ UNCHANGED <<wat, watBehind>>
    /\ timer' = (timer \/ w.again) /\ w' = Idle
    /\ UNCHANGED <<objects, watSeen, records, cache, queued, choices>>

Reconcile ==
    Begin \/ WriteStatus \/ \E n \in Names : Upsert(n) \/ Prune(n)

Next ==
    \/ Reconcile \/ ChangeTemplate \/ TouchWatcher \/ DeliverWatcher
    \/ Timer \/ Resync \/ Crash
    \/ \E i \in {"main", "aux"} : ChangeInput(i)
    \/ \E k \in Keys : Deliver(k)
    \/ \E n \in Names : \/ TouchRecord(n) \/ DeleteRecord(n) \/ FinishDelete(n)
                        \/ DeliverRecord(n)

Spec == Init /\ [][Next]_vars

\* The worker, the informers with their resync, and the Record controller's deletions.
FairSpec ==
    /\ Spec /\ WF_vars(Reconcile) /\ WF_vars(DeliverWatcher) /\ WF_vars(Timer)
    /\ SF_vars(Resync)
    /\ \A k \in Keys : WF_vars(Deliver(k))
    /\ \A n \in Names : WF_vars(FinishDelete(n)) /\ WF_vars(DeliverRecord(n))
-----------------------------------------------------------------------------
\* The text parsed for the template's generation is that of an earlier template of this name.
StaleText == cache.gen = tpl.gen /\ cache.life # tpl.life

\* There is something to render and everything it takes.
Usable ==
    /\ Exists(tpl) /\ tpl.text \notin Broken /\ ~StaleText
    /\ \A i \in Uses(tpl.text) : input[i] # None

\* A live Record is one the template asks for now, with the content it gives now.
NoRecordContradicts ==
    \A n \in Names : recs[n].phase = "live" =>
        n \in DOMAIN Yield(tpl.text, input) /\ recs[n].val = Yield(tpl.text, input)[n]

\* When all is at rest and the status lists what the template reads, no Record is at odds
\* with the template and the objects as they are (watchResources and its index, lines
\* 316-391; a conflict or failure on the way is repeated by a timer or an own event).
\* Not with lagging caches: a Record made a moment ago is then not pruned.
WatchedIsFollowed ==
    AtRest /\ ~lags /\ Usable /\ {"template"} \cup Uses(tpl.text) \subseteq wat.res
        => NoRecordContradicts

\* With the resync, the Records are in the end what the template yields, also where an event
\* went by unheard: an unparsable text repaired, a Record deleted, a status not written, an
\* inline text changed (lines 110-145, 178-184).
EventuallyRendered ==
    <>[](Usable => /\ NoRecordContradicts
                   /\ \A n \in input.main : recs[n].phase = "live")

\* Types.
Object == [gen : Nat, text : Texts, life : Nat]

Content == Texts \X (Data \cup {None})

Record == [phase : {"absent", "live", "deleting"}, val : Content \cup {None}]

Input == [main : {None} \cup SUBSET Names, aux : Data \cup {None}]

Status == [why : {"new", "", "error"}, res : SUBSET Keys]

Worker ==
    [pc : {"idle", "write", "status"}, fresh : BOOLEAN, list : SUBSET Names,
     stale : SUBSET Names, want : UNION {[N -> Content] : N \in SUBSET Names},
     todo : SUBSET Names, res : SUBSET Keys, why : {"", "error"}, again : BOOLEAN]

\* Every variable has its type; a worker still has to write only what it wants.
TypeOK ==
    /\ input \in Input /\ tpl \in Object /\ seen \in [input : Input, tpl : Object]
    /\ behind \subseteq Keys
    /\ wat \in Status /\ watSeen \in Status /\ watBehind \in BOOLEAN
    /\ recs \in [Names -> Record] /\ recSeen \in [Names -> Record]
    /\ recBehind \subseteq Names
    /\ cache \in Object /\ w \in Worker /\ w.todo \subseteq DOMAIN w.want
    /\ queued \in BOOLEAN /\ timer \in BOOLEAN
    /\ inline \in Inline /\ lags \in Lags /\ left \in Nat
=============================================================================
