-------------------------- MODULE GeneratorProofs --------------------------
(***************************************************************************)
(* For any number of resources, labels and disturbances: types, and that   *)
(* no resource has two watchers while reads wait for the caches.           *)
(***************************************************************************)
EXTENDS GeneratorController, FiniteSetTheorems, SequenceTheorems, TLAPS

-----------------------------------------------------------------------------
(***************************************************************************)
(* Types                                                                   *)
(***************************************************************************)

LEMMA FirstNewsType ==
    ASSUME NEW objects \in [Resources -> Object]
    PROVE  FirstNews(objects) \subseteq Seq(Item)
<1> DEFINE there == Present(objects)
<1>1. there \subseteq Resources /\ Cardinality(there) \in Nat
  BY GeneratorAssumption, FS_Subset, FS_CardinalityType DEF Present
<1>2. ASSUME NEW s \in SetToSeqs(there)
      PROVE  [i \in DOMAIN s |-> [name |-> s[i], object |-> objects[s[i]]]] \in Seq(Item)
  <2>1. s \in [1..Cardinality(there) -> there]
    BY DEF SetToSeqs
  <2>2. [i \in DOMAIN s |-> [name |-> s[i], object |-> objects[s[i]]]]
          \in [1..Cardinality(there) -> Item]
    BY <1>1, <2>1 DEF Item
  <2> HIDE DEF there
  <2> QED
    BY <1>1, <2>2, SeqDef
<1> QED
  BY <1>2 DEF FirstNews

LEMMA SpendType ==
    ASSUME left \in Nat, NEW kind, Spend(kind)
    PROVE  left' \in Nat
BY DEF Spend

\* The changes Reconcile makes to its worker.
LEMMA WorkerTypes ==
    ASSUME w \in Worker
    PROVE  /\ w.copy \in Generator /\ w.list \subseteq Watcher
           /\ [w EXCEPT !.fresh = FALSE] \in Worker
           /\ \A list \in SUBSET Watcher : [w EXCEPT !.list = list] \in Worker
           /\ \A done \in SUBSET Resources : [w EXCEPT !.done = done] \in Worker
           /\ \A done \in SUBSET Resources, kept \in SUBSET Watcher :
                  [w EXCEPT !.done = done, !.kept = kept] \in Worker
           /\ \A res \in SUBSET Resources :
                  [w EXCEPT !.pc = "write", !.copy.res = res] \in Worker
           /\ [w EXCEPT !.pc = "write", !.copy.applied = 0, !.again = TRUE] \in Worker
<1>1. w.copy \in Generator /\ w.list \subseteq Watcher
  BY DEF Worker
<1>2. /\ \A res \in SUBSET Resources : [w.copy EXCEPT !.res = res] \in Generator
      /\ [w.copy EXCEPT !.applied = 0] \in Generator
  BY <1>1 DEF Generator
<1>3. \A copy \in Generator :
         /\ [w EXCEPT !.pc = "write", !.copy = copy] \in Worker
         /\ [w EXCEPT !.pc = "write", !.copy = copy, !.again = TRUE] \in Worker
  BY DEF Worker
<1>4. [w EXCEPT !.fresh = FALSE] \in Worker
  BY DEF Worker
<1>5. \A list \in SUBSET Watcher : [w EXCEPT !.list = list] \in Worker
  BY DEF Worker
<1>6. \A done \in SUBSET Resources : [w EXCEPT !.done = done] \in Worker
  BY DEF Worker
<1>7. \A done \in SUBSET Resources, kept \in SUBSET Watcher :
         [w EXCEPT !.done = done, !.kept = kept] \in Worker
  BY DEF Worker
<1>8. \A res \in SUBSET Resources :
         [w EXCEPT !.pc = "write", !.copy.res = res] \in Worker
  BY <1>2, <1>3
<1>9. [w EXCEPT !.pc = "write", !.copy.applied = 0, !.again = TRUE] \in Worker
  BY <1>2, <1>3
<1> QED
  BY <1>1, <1>4, <1>5, <1>6, <1>7, <1>8, <1>9

LEMMA InitType == Init => TypeOK
<1> SUFFICES ASSUME Init PROVE TypeOK
  OBVIOUS
<1>1. obj \in [Resources -> Object] /\ objSeen = obj
  <2>1. PICK l \in Labels :
            obj = [x \in Resources |-> [exists |-> x \in AtStart, stamped |-> FALSE, lab |-> l]]
    BY DEF Init
  <2> QED
    BY <2>1 DEF Init, Object
<1>2. news \in Seq(Item) /\ wire \in Seq(Item)
  BY <1>1, FirstNewsType DEF Init
<1>3. gen \in Generator /\ genSeen = gen
  BY DEF Init, Generator
<1>4. w \in Worker
  BY <1>3 DEF Init, Idle, Worker
<1> QED
  BY <1>1, <1>2, <1>3, <1>4, GeneratorAssumption DEF Init, TypeOK

LEMMA ResourcesType ==
    ASSUME TypeOK, NEW x \in Resources,
           CreateResource(x) \/ Relabel(x) \/ DeleteResource(x) \/ FinishDeletion(x)
    PROVE  TypeOK'
<1>1. PICK object : StoreResource(x, object) /\ object \in Object
  <2>1. obj[x] \in Object
    BY DEF TypeOK
  <2> /\ \A l \in Labels : [obj[x] EXCEPT !.lab = l] \in Object
      /\ \A l \in Labels : [exists |-> TRUE, stamped |-> FALSE, lab |-> l] \in Object
      /\ [obj[x] EXCEPT !.stamped = TRUE] \in Object
      /\ [obj[x] EXCEPT !.exists = FALSE] \in Object
    BY <2>1 DEF Object
  <2>2. CASE CreateResource(x)
    BY <2>2 DEF CreateResource
  <2>3. CASE Relabel(x)
    BY <2>3 DEF Relabel
  <2>4. CASE DeleteResource(x)
    BY <2>4 DEF DeleteResource
  <2>5. CASE FinishDeletion(x)
    BY <2>5 DEF FinishDeletion
  <2> QED
    BY <2>2, <2>3, <2>4, <2>5
<1>2. left' \in Nat
  BY DEF CreateResource, Relabel, DeleteResource, FinishDeletion, Spend, TypeOK
<1>3. obj' \in [Resources -> Object]
  BY <1>1 DEF StoreResource, TypeOK
<1>4. wire' \in Seq(Item)
  <2>1. [name |-> x, object |-> object] \in Item
    BY <1>1 DEF Item
  <2> QED
    BY <1>1, <2>1 DEF StoreResource, TypeOK
<1> QED
  BY <1>1, <1>2, <1>3, <1>4 DEF StoreResource, TypeOK, genVars, watVars

LEMMA InformersType ==
    ASSUME TypeOK,
           \/ Retune \/ TouchGenerator \/ Crash \/ DeliverResource \/ DeliverGenerator
           \/ DeliverWatchers \/ ResyncResources \/ ResyncGenerator \/ HandleNews
    PROVE  TypeOK'
<1> USE DEF TypeOK
<1>1. [w EXCEPT !.fresh = FALSE] \in Worker
  BY DEF Worker
<1>2. CASE Retune \/ TouchGenerator
  <2>0. \A s \in Selectors : [gen EXCEPT !.sel = s, !.generation = @ + 1] \in Generator
    <3>1. gen.generation + 1 \in Nat
      BY DEF Generator
    <3> QED
      BY <3>1 DEF Generator
  <2>1. gen' \in Generator /\ left' \in Nat
    BY <1>2, <2>0, SpendType DEF Retune, TouchGenerator, StoreGenerator
  <2> QED
    BY <1>1, <1>2, <2>1
    DEF Retune, TouchGenerator, StoreGenerator, Overtaken, objVars, watVars
<1>3. CASE Crash
  <2>1. news' \in Seq(Item) /\ wire' \in Seq(Item) /\ left' \in Nat
    BY <1>3, FirstNewsType DEF Crash, Spend
  <2>2. w' \in Worker
    BY <1>3 DEF Crash, Idle, Worker
  <2> QED
    BY <1>3, <2>1, <2>2 DEF Crash
<1>4. CASE DeliverResource
  <2> DEFINE item == Head(wire)
             old == objSeen[item.name]
             Event(object) == [name |-> item.name, object |-> object]
  <2>1. wire # <<>> /\ item \in Item /\ Tail(wire) \in Seq(Item)
    BY <1>4 DEF DeliverResource
  <2>2. item.name \in Resources /\ item.object \in Object /\ old \in Object
    BY <2>1 DEF Item
  <2>3. /\ objSeen' = [objSeen EXCEPT ![item.name] = item.object]
        /\ news' = news \o IF old.exists /\ item.object.exists
                           THEN <<Event(old), Event(item.object)>> ELSE <<Event(item.object)>>
    BY <1>4 DEF DeliverResource
  <2>4. Event(old) \in Item /\ Event(item.object) \in Item
    BY <2>2 DEF Item
  <2> HIDE DEF item, old, Event
  <2>5. objSeen' \in [Resources -> Object]
    BY <2>2, <2>3
  <2>6. news' \in Seq(Item)
    <3>1. <<Event(old), Event(item.object)>> \in Seq(Item) /\ <<Event(item.object)>> \in Seq(Item)
      BY <2>4
    <3> QED
      BY <2>3, <3>1
  <2> QED
    BY <1>4, <2>1, <2>5, <2>6 DEF DeliverResource, genVars, watVars
<1>5. CASE DeliverGenerator
  BY <1>5 DEF DeliverGenerator, objVars, watVars
<1>6. CASE DeliverWatchers
  BY <1>6 DEF DeliverWatchers, objVars, genVars
<1>7. CASE ResyncResources
  <2>1. PICK items \in FirstNews(objSeen) :
            news' = [i \in 1..(2 * Len(items)) |-> items[(i + 1) \div 2]]
    BY <1>7 DEF ResyncResources
  <2>2. items \in Seq(Item) /\ Len(items) \in Nat
    BY FirstNewsType
  <2>3. \A i \in 1..(2 * Len(items)) : (i + 1) \div 2 \in 1..Len(items)
    BY <2>2
  <2>4. news' \in [1..(2 * Len(items)) -> Item] /\ 2 * Len(items) \in Nat
    BY <2>1, <2>2, <2>3
  <2>5. news' \in Seq(Item)
    BY <2>4, SeqDef
  <2> QED
    BY <1>7, <2>5 DEF ResyncResources, objVars, genVars, watVars
<1>8. CASE ResyncGenerator
  BY <1>8 DEF ResyncGenerator, objVars, genVars, watVars
<1>9. CASE HandleNews
  <2> DEFINE res == Noticed(genSeen, Head(news))
  <2>1. Head(news) \in Item /\ Tail(news) \in Seq(Item) /\ news' = Tail(news)
    BY <1>9 DEF HandleNews
  <2>2. res \in SUBSET Resources
    BY <2>1 DEF Noticed, Item, Generator
  <2>3. [gen EXCEPT !.res = res] \in Generator
    BY <2>2 DEF Generator
  <2>4. /\ gen' = gen \/ gen' = [gen EXCEPT !.res = res]
        /\ genSeen' = genSeen /\ genBehind' \in BOOLEAN /\ left' \in Nat
        /\ w' = w \/ w' = [w EXCEPT !.fresh = FALSE]
    <3> HIDE DEF res
    <3>1. CASE res # genSeen.res /\ ~genBehind /\ StoreGenerator([gen EXCEPT !.res = res])
               /\ Overtaken /\ UNCHANGED left
      BY <3>1 DEF StoreGenerator, Overtaken
    <3>2. CASE UNCHANGED <<genVars, w>> /\ (UNCHANGED left \/ Spend("api"))
      BY <3>2, SpendType DEF genVars
    <3> QED
      BY <1>9, <3>1, <3>2 DEF HandleNews, res
  <2> QED
    BY <1>1, <1>9, <2>1, <2>3, <2>4 DEF HandleNews, objVars, watVars
<1> QED
  BY <1>2, <1>3, <1>4, <1>5, <1>6, <1>7, <1>8, <1>9

LEMMA ReconcileType ==
    ASSUME TypeOK, Reconcile
    PROVE  TypeOK'
<1> USE DEF TypeOK
<1>1. Idle \in Worker
  BY DEF Idle, Worker
<1>2. CASE Begin
  <2>1. w' \in Worker
    <3> DEFINE matched == [genSeen EXCEPT !.res = Listing(genSeen),
                                          !.applied = genSeen.generation]
    <3>1. matched \in Generator
      <4>1. Listing(genSeen) \in SUBSET Resources
        BY DEF Listing
      <4> QED
        BY <4>1 DEF Generator
    <3>2. (~genBehind) \in BOOLEAN
      OBVIOUS
    <3>3. [Idle EXCEPT !.pc = "loop", !.copy = genSeen, !.fresh = ~genBehind,
                       !.list = watSeen] \in Worker
      BY <1>1, <3>2 DEF Worker
    <3>4. [Idle EXCEPT !.pc = "write", !.fresh = ~genBehind, !.again = TRUE,
                       !.copy = matched] \in Worker
      <4> HIDE DEF matched
      <4> QED
        BY <1>1, <3>1, <3>2 DEF Worker
    <3> QED
      BY <1>2, <3>3, <3>4 DEF Begin
  <2> QED
    BY <1>2, <2>1 DEF Begin, objVars, genVars, watVars
<1>3. CASE WriteStatus
  <2>1. left' \in Nat /\ w' \in Worker /\ queued' \in BOOLEAN
    BY <1>1, <1>3, SpendType DEF WriteStatus
  <2>2. gen' \in Generator /\ genSeen' \in Generator /\ genBehind' \in BOOLEAN
    BY <1>3, WorkerTypes DEF WriteStatus, StoreGenerator, genVars
  <2> QED
    BY <1>3, <2>1, <2>2 DEF WriteStatus, objVars, watVars
<1>4. CASE Finish
  BY <1>1, <1>4 DEF Finish, objVars, genVars, watVars
<1>5. ASSUME NEW x \in Resources, DropResource(x) \/ AskRematch(x) \/ KeepWatcher(x)
      PROVE  TypeOK'
  <2>1. w' \in Worker
    <3>1. /\ w.copy.res \ {x} \in SUBSET Resources /\ w.done \cup {x} \in SUBSET Resources
          /\ \A v \in w.list : w.kept \cup {v} \in SUBSET Watcher
      BY DEF Worker, Generator
    <3>2. CASE DropResource(x)
      <4>1. w' = [w EXCEPT !.pc = "write", !.copy.res = w.copy.res \ {x}]
        BY <3>2 DEF DropResource
      <4> QED
        BY <3>1, <4>1, WorkerTypes
    <3>3. CASE AskRematch(x)
      BY <3>3, WorkerTypes DEF AskRematch
    <3>4. CASE KeepWatcher(x)
      <4>1. PICK v \in w.list :
                w' = [w EXCEPT !.done = w.done \cup {x}, !.kept = w.kept \cup {v}]
        BY <3>4 DEF KeepWatcher, WatchersOf
      <4> QED
        BY <3>1, <4>1, WorkerTypes
    <3> QED
      BY <1>5, <3>2, <3>3, <3>4
  <2> QED
    BY <1>5, <2>1 DEF DropResource, AskRematch, KeepWatcher, objVars, genVars, watVars
<1>6. ASSUME NEW x \in Resources, CreateWatcher(x) PROVE TypeOK'
  <2>1. (CHOOSE id \in FreeIds : TRUE) \in WatcherIds
    <3>1. \E id : id \in FreeIds
      BY <1>6 DEF CreateWatcher
    <3>2. (CHOOSE id \in FreeIds : TRUE) \in FreeIds
      BY <3>1
    <3> QED
      BY <3>2 DEF FreeIds
  <2>2. wat' \subseteq Watcher
    <3>1. [id |-> CHOOSE id \in FreeIds : TRUE, res |-> x] \in Watcher
      BY <2>1 DEF Watcher
    <3> QED
      BY <1>6, <3>1 DEF CreateWatcher
  <2>3. w' \in Worker /\ left' \in Nat /\ queued' \in BOOLEAN
    <3>1. w.done \cup {x} \in SUBSET Resources
      BY DEF Worker
    <3> QED
      BY <1>1, <1>6, <3>1, WorkerTypes, SpendType DEF CreateWatcher
  <2> QED
    BY <1>6, <2>2, <2>3 DEF CreateWatcher, objVars, genVars
<1>7. ASSUME NEW v \in w.list, DeleteWatcher(v) PROVE TypeOK'
  <2>1. wat' \subseteq Watcher /\ w' \in Worker /\ left' \in Nat /\ queued' \in BOOLEAN
    <3>1. w.list \ {v} \in SUBSET Watcher
      BY DEF Worker
    <3> QED
      BY <1>1, <1>7, <3>1, WorkerTypes, SpendType DEF DeleteWatcher
  <2> QED
    BY <1>7, <2>1 DEF DeleteWatcher, objVars, genVars
<1> QED
  BY <1>2, <1>3, <1>4, <1>5, <1>6, <1>7 DEF Reconcile

\* Every variable keeps its type, whatever the resources, selectors and disturbances.
THEOREM GeneratorTypes == Spec => []TypeOK
<1>1. TypeOK /\ [Next]_vars => TypeOK'
  <2> SUFFICES ASSUME TypeOK, [Next]_vars PROVE TypeOK'
    OBVIOUS
  <2>1. CASE UNCHANGED vars
    BY <2>1 DEF vars, TypeOK
  <2> QED
    BY <2>1, ResourcesType, InformersType, ReconcileType DEF Next
<1> QED
  BY <1>1, InitType, PTL DEF Spec

-----------------------------------------------------------------------------
(***************************************************************************)
(* What a pass knows                                                       *)
(***************************************************************************)

\* A worker in its loop: what it lists is stored, and what is stored it lists or has made
\* itself; each resource it is done with has a watcher that the pass will not delete.
PassKnows ==
    w.pc = "loop" =>
        /\ w.list \subseteq wat /\ w.kept \subseteq w.list
        /\ w.done \subseteq w.copy.res /\ \A v \in w.kept : v.res \in w.done
        /\ \A v \in wat : v \in w.list \/ v.res \in w.done
        /\ \A x \in w.done : \E u \in wat :
              u.res = x /\ (u \in w.kept \/ \A l \in w.list : l.res # x)

Served == \A x \in Resources : x \in gen.res <=> \E v \in wat : v.res = x

\* Without news of the generator and without a key in the queue, a pass under way works on
\* the stored version, or is about to write another or to ask for one more pass.
NothingAsked ==
    ~genBehind =>
        /\ genSeen = gen
        /\ ~queued =>
             /\ w.pc = "idle" => gen.applied = gen.generation /\ Served
             /\ w.pc = "loop" => w.copy = gen /\ gen.applied = gen.generation
             /\ w.pc = "write" => w.again \/ w.copy # gen

PassInv == ~mode.stale => PassKnows /\ NothingAsked /\ \A u, v \in wat : u.res = v.res => u = v

\* What leaves the watchers and the worker's pass alone, and keeps or reports the generator.
LEMMA BesideThePass ==
    ASSUME TypeOK, PassInv, mode' = mode, wat' = wat,
           w' = w \/ w' = [w EXCEPT !.fresh = FALSE],
           \/ genBehind' = TRUE
           \/ gen' = gen /\ genSeen' = gen /\ queued' = TRUE
           \/ UNCHANGED genVars /\ (queued' = queued \/ queued' = TRUE)
    PROVE  PassInv'
<1>1. /\ w'.pc = w.pc /\ w'.list = w.list /\ w'.kept = w.kept /\ w'.done = w.done
      /\ w'.copy = w.copy /\ w'.again = w.again
  BY DEF TypeOK, Worker
<1>2. PassKnows => PassKnows'
  BY <1>1 DEF PassKnows
<1>3. NothingAsked => NothingAsked'
  BY <1>1 DEF NothingAsked, Served, genVars
<1> QED
  BY <1>2, <1>3 DEF PassInv

\* A pass that ends with its key back in the queue, or with the generator written.
LEMMA PassEnds ==
    ASSUME PassInv, mode' = mode, wat' = wat, w' = Idle,
           \/ genBehind' = TRUE
           \/ UNCHANGED genVars /\ queued' = TRUE
    PROVE  PassInv'
<1>1. w'.pc = "idle"
  BY DEF Idle
<1> QED
  BY <1>1 DEF PassInv, PassKnows, NothingAsked, genVars

LEMMA BeginKnows ==
    ASSUME TypeOK, PassInv, Begin
    PROVE  PassInv'
<1> SUFFICES ASSUME ~mode.stale PROVE PassInv'
  BY DEF Begin, PassInv, objVars
<1>1. ~genBehind /\ genSeen = gen /\ watSeen = wat
  BY DEF Begin, ReadsAllowed, PassInv, NothingAsked
<1>2. UNCHANGED <<gen, genSeen, genBehind, wat, mode>>
  BY DEF Begin, genVars, watVars, objVars
<1>3. CASE Matched(genSeen)
  <2>1. /\ w'.pc = "loop" /\ w'.copy = gen /\ w'.list = wat /\ w'.kept = {} /\ w'.done = {}
        /\ gen.applied = gen.generation
    BY <1>1, <1>3 DEF Begin, Idle, Matched
  <2> QED
    BY <1>1, <1>2, <2>1 DEF PassInv, PassKnows, NothingAsked
<1>4. CASE ~Matched(genSeen)
  <2>1. w'.pc = "write" /\ w'.again = TRUE
    BY <1>4 DEF Begin, Idle
  <2> QED
    BY <1>1, <1>2, <2>1 DEF PassInv, PassKnows, NothingAsked
<1> QED
  BY <1>3, <1>4

LEMMA WriteKnows ==
    ASSUME TypeOK, PassInv, WriteStatus
    PROVE  PassInv'
<1>1. mode' = mode /\ wat' = wat /\ w' = Idle
  BY DEF WriteStatus, objVars, watVars
<1>2. CASE genBehind' = TRUE \/ (UNCHANGED genVars /\ queued' = TRUE)
  BY <1>1, <1>2, PassEnds
<1>3. CASE UNCHANGED genVars /\ queued' = (queued \/ w.again) /\ w.copy = gen /\ queued' # TRUE
  <2>1. ~queued /\ ~w.again /\ w.pc = "write"
    BY <1>3 DEF WriteStatus, TypeOK, Worker
  <2>2. mode.stale \/ genBehind
    BY <1>3, <2>1 DEF PassInv, NothingAsked
  <2> QED
    BY <1>1, <1>3, <2>2, PassEnds DEF PassInv, PassKnows, NothingAsked, Idle, genVars
<1> QED
  BY <1>2, <1>3 DEF WriteStatus, StoreGenerator

LEMMA FinishKnows ==
    ASSUME TypeOK, PassInv, Finish
    PROVE  PassInv'
<1> SUFFICES ASSUME ~mode.stale PROVE PassInv'
  BY DEF Finish, PassInv, objVars
<1>1. UNCHANGED <<gen, genSeen, genBehind, wat, mode, queued>> /\ w'.pc = "idle"
  BY DEF Finish, Idle, genVars, watVars, objVars
<1>2. w.copy.res = w.done /\ w.list \subseteq w.kept
  BY DEF Finish, Todo, Unchecked, PassInv, PassKnows
<1>3. \A x \in Resources : x \in w.copy.res <=> \E v \in wat : v.res = x
  BY <1>2 DEF Finish, PassInv, PassKnows
<1>4. ~genBehind /\ ~queued => gen.applied = gen.generation /\ Served
  BY <1>3 DEF Finish, PassInv, NothingAsked, Served
<1> QED
  BY <1>1, <1>4 DEF PassInv, PassKnows, NothingAsked, Served

LEMMA LoopKnows ==
    ASSUME TypeOK, PassInv, NEW x \in Resources,
           DropResource(x) \/ AskRematch(x) \/ KeepWatcher(x) \/ CreateWatcher(x)
    PROVE  PassInv'
<1> SUFFICES ASSUME ~mode.stale PROVE PassInv'
  BY DEF DropResource, AskRematch, KeepWatcher, CreateWatcher, PassInv, objVars
<1>0. /\ UNCHANGED <<gen, genSeen, genBehind, mode>> /\ w.pc = "loop" /\ w \in Worker
      /\ x \in w.copy.res /\ x \notin w.done
  BY DEF DropResource, AskRematch, KeepWatcher, CreateWatcher, objVars, genVars, Wanted,
         Todo, TypeOK
<1>1. CASE DropResource(x)
  <2>1. /\ w'.pc = "write" /\ w'.copy.res = w.copy.res \ {x}
        /\ UNCHANGED <<wat, queued>>
    BY <1>0, <1>1 DEF DropResource, Worker, Generator, watVars
  <2>2. w'.copy # w.copy
    BY <1>0, <2>1
  <2> QED
    BY <1>0, <2>1, <2>2 DEF PassInv, PassKnows, NothingAsked
<1>2. CASE AskRematch(x)
  <2>1. w'.pc = "write" /\ w'.again = TRUE /\ UNCHANGED <<wat, queued>>
    BY <1>0, <1>2 DEF AskRematch, Worker, watVars
  <2> QED
    BY <1>0, <2>1 DEF PassInv, PassKnows, NothingAsked
<1>3. CASE KeepWatcher(x)
  <2>1. PICK v \in w.list : v.res = x /\
            w' = [w EXCEPT !.done = w.done \cup {x}, !.kept = w.kept \cup {v}]
    BY <1>3 DEF KeepWatcher, WatchersOf
  <2>2. /\ w'.pc = "loop" /\ w'.list = w.list /\ w'.copy = w.copy
        /\ w'.done = w.done \cup {x} /\ w'.kept = w.kept \cup {v}
    BY <1>0, <2>1 DEF Worker
  <2>3. UNCHANGED <<wat, queued>>
    BY <1>3 DEF KeepWatcher, watVars
  <2>4. PassKnows'
    BY <1>0, <2>1, <2>2, <2>3 DEF PassInv, PassKnows
  <2>5. NothingAsked'
    BY <1>0, <2>2, <2>3 DEF PassInv, NothingAsked
  <2> QED
    BY <2>3, <2>4, <2>5 DEF PassInv
<1>4. CASE CreateWatcher(x)
  <2>1. CASE wat' = wat \cup {[id |-> CHOOSE id \in FreeIds : TRUE, res |-> x]}
             /\ w' = [w EXCEPT !.done = @ \cup {x}] /\ UNCHANGED queued
    <3>1. PICK v : v.res = x /\ wat' = wat \cup {v}
      BY <2>1
    <3>2. /\ w'.pc = "loop" /\ w'.list = w.list /\ w'.copy = w.copy /\ w'.kept = w.kept
          /\ w'.done = w.done \cup {x}
      BY <1>0, <2>1 DEF Worker
    <3>3. \A u \in w.list : u.res # x
      BY <1>4 DEF CreateWatcher, Missing, WatchersOf
    <3>4. \A u \in wat : u.res # x
      BY <1>0, <3>3 DEF PassInv, PassKnows
    <3>5. PassKnows'
      BY <1>0, <3>1, <3>2, <3>3 DEF PassInv, PassKnows
    <3>6. NothingAsked'
      BY <1>0, <2>1, <3>2 DEF PassInv, NothingAsked
    <3> QED
      BY <3>1, <3>4, <3>5, <3>6 DEF PassInv
  <2>2. CASE w' = Idle /\ queued' = TRUE /\ UNCHANGED wat
    BY <1>0, <2>2, PassEnds DEF genVars
  <2> QED
    BY <1>4, <2>1, <2>2 DEF CreateWatcher
<1> QED
  BY <1>1, <1>2, <1>3, <1>4

LEMMA DeleteKnows ==
    ASSUME TypeOK, PassInv, NEW v \in w.list, DeleteWatcher(v)
    PROVE  PassInv'
<1> SUFFICES ASSUME ~mode.stale PROVE PassInv'
  BY DEF DeleteWatcher, PassInv, objVars
<1>0. /\ UNCHANGED <<gen, genSeen, genBehind, mode>> /\ w.pc = "loop" /\ w \in Worker
      /\ v \notin w.kept
  BY DEF DeleteWatcher, Unchecked, objVars, genVars, TypeOK
<1>1. CASE wat' = wat \ {v} /\ w' = [w EXCEPT !.list = @ \ {v}] /\ UNCHANGED queued
  <2>1. /\ w'.pc = "loop" /\ w'.list = w.list \ {v} /\ w'.copy = w.copy /\ w'.kept = w.kept
        /\ w'.done = w.done
    BY <1>0, <1>1 DEF Worker
  <2>2. PassKnows'
    BY <1>0, <1>1, <2>1 DEF PassInv, PassKnows
  <2>3. NothingAsked'
    BY <1>0, <1>1, <2>1 DEF PassInv, NothingAsked
  <2> QED
    BY <1>1, <2>2, <2>3 DEF PassInv
<1>2. CASE w' = Idle /\ queued' = TRUE /\ UNCHANGED wat
  BY <1>0, <1>2, PassEnds DEF genVars
<1> QED
  BY <1>1, <1>2 DEF DeleteWatcher

LEMMA PassStep ==
    ASSUME TypeOK, PassInv, [Next]_vars
    PROVE  PassInv'
<1>1. CASE UNCHANGED vars
  BY <1>1, BesideThePass DEF vars, genVars
<1>2. ASSUME NEW x \in Resources,
             CreateResource(x) \/ Relabel(x) \/ DeleteResource(x) \/ FinishDeletion(x)
      PROVE  PassInv'
  BY <1>2, BesideThePass
  DEF CreateResource, Relabel, DeleteResource, FinishDeletion, StoreResource, watVars
<1>3. CASE Retune \/ TouchGenerator
  BY <1>3, BesideThePass
  DEF Retune, TouchGenerator, StoreGenerator, Overtaken, objVars, watVars
<1>4. CASE \/ DeliverResource \/ DeliverWatchers \/ ResyncResources \/ ResyncGenerator
  BY <1>4, BesideThePass
  DEF DeliverResource, DeliverWatchers, ResyncResources, ResyncGenerator, objVars, watVars
<1>5. CASE DeliverGenerator
  BY <1>5, BesideThePass DEF DeliverGenerator, objVars, watVars
<1>6. CASE HandleNews
  <2>1. /\ mode' = mode /\ wat' = wat /\ queued' = queued
        /\ w' = w \/ w' = [w EXCEPT !.fresh = FALSE]
        /\ genBehind' = TRUE \/ UNCHANGED genVars
    BY <1>6 DEF HandleNews, StoreGenerator, Overtaken, objVars, watVars
  <2> QED
    BY <2>1, BesideThePass
<1>7. CASE Crash
  <2>1. w'.pc = "idle" /\ UNCHANGED <<gen, wat, mode>> /\ genSeen' = gen /\ queued' = TRUE
    BY <1>7 DEF Crash, Idle
  <2> QED
    BY <2>1 DEF PassInv, PassKnows, NothingAsked
<1> QED
  BY <1>1, <1>2, <1>3, <1>4, <1>5, <1>6, <1>7, BeginKnows, WriteKnows, FinishKnows,
     LoopKnows, DeleteKnows DEF Next, Reconcile

LEMMA PassInvariant == Spec => []PassInv
<1>1. Init => PassInv
  BY DEF Init, Idle, PassInv, PassKnows, NothingAsked
<1> QED
  BY <1>1, PassStep, GeneratorTypes, PTL DEF Spec

\* While reads wait for the caches no resource has two watchers, whatever is created,
\* deleted and re-matched, and whichever passes fail or are cut short by a restart.
THEOREM NoSecondWatcher == Spec => []OneWatcherEach
<1>1. PassInv => OneWatcherEach
  BY DEF PassInv, OneWatcherEach
<1> QED
  BY <1>1, PassInvariant, PTL

\* While reads wait for the caches, a generator with nothing left to do has matched its last
\* spec, and the resources of its status are exactly those with a watcher.
THEOREM RestIsFollowed == Spec => []RestMeansFollowed
<1>1. TypeOK /\ PassInv => RestMeansFollowed
  <2> SUFFICES ASSUME TypeOK, PassInv, AtRest, ~mode.stale
               PROVE  gen.applied = gen.generation /\ {v.res : v \in wat} = gen.res
    BY DEF RestMeansFollowed
  <2>1. gen.applied = gen.generation /\ Served
    BY DEF PassInv, NothingAsked, AtRest
  <2>2. gen.res \subseteq Resources /\ \A v \in wat : v.res \in Resources
    BY DEF TypeOK, Generator, Watcher
  <2> QED
    BY <2>1, <2>2 DEF Served
<1> QED
  BY <1>1, GeneratorTypes, PassInvariant, PTL
=============================================================================
